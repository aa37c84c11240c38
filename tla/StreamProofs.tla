---------------------------- MODULE StreamProofs ----------------------------
(***************************************************************************)
(* For every width of bytes, words and counts: what the writers make of a   *)
(* cipher, a proof of zero or a range proof is read as it was, no beginning *)
(* of it is read as anything, and the layers of every cipher that is read   *)
(* can be computed.  A message in frames is read as it was written, and so  *)
(* is a number in digits with the last digit first.                         *)
(*                                                                         *)
(* Readers are functions from streams to what was read.  A reader is good   *)
(* if it does not look at what follows the value that it takes.  Readers    *)
(* that are put together of good ones are good, and take back what writers  *)
(* that are put together in the same way have written.                      *)
(***************************************************************************)
EXTENDS CiphersProofs, LibraryInputs

-----------------------------------------------------------------------------
(* Numbers in bytes.                                                       *)

\* Two functions that go on alike from where they agree.
Alike(f, g, N) == f[0] = g[0] /\ \A k \in 1..N : f[k - 1] = g[k - 1] => f[k] = g[k]

\* They agree everywhere.
LEMMA GoAlike ==
  ASSUME NEW N \in Nat, NEW f, NEW g, Alike(f, g, N)
  PROVE  \A k \in 0..N : f[k] = g[k]
<1> DEFINE S == {k \in Nat : k <= N => f[k] = g[k]}
<1>1. 0 \in S
  BY DEF Alike
<1>2. ASSUME NEW k \in Nat, k \in S PROVE k + 1 \in S
  <2> SUFFICES ASSUME k + 1 <= N PROVE f[k + 1] = g[k + 1]
    OBVIOUS
  <2>1. k + 1 \in 1..N /\ (k + 1) - 1 = k /\ f[k] = g[k]
    BY <1>2
  <2>. QED BY <2>1 DEF Alike
<1>3. Nat \subseteq S
  <2> HIDE DEF S
  <2>. QED BY <1>1, <1>2, NatInduct
<1>. QED BY <1>3

\* The function whose last value is Size.
Scales(n) == CHOOSE power : power = [k \in 0..n |-> IF k = 0 THEN 1 ELSE Byte * power[k - 1]]

\* It is the powers of Byte.
LEMMA ScalesAre ==
  ASSUME Byte \in Nat \ {0, 1}, NEW n \in Nat
  PROVE  /\ Scales(n) \in [0..n -> Nat] /\ Scales(n)[0] = 1
         /\ \A k \in 1..n : Scales(n)[k] = Byte * Scales(n)[k - 1]
         /\ Wire!Size(n) = Scales(n)[n]
<1> DEFINE f == Scales(n)
           turn == [k \in 1..n |-> [x \in Nat |-> Byte * x]]
           Is(power) == power = [k \in 0..n |-> IF k = 0 THEN 1 ELSE Byte * power[k - 1]]
<1>1. turn \in [1..n -> [Nat -> Nat]] /\ \A k \in 1..n, x \in Nat : turn[k][x] = Byte * x
  OBVIOUS
<1> HIDE DEF turn
<1>2. PICK g \in [0..n -> Nat] : Iterates(g, 1, n, turn)
  BY <1>1, Iteration
<1>3. Is(g)
  <2>1. \A k \in 1..n : g[k - 1] \in Nat /\ g[k] = turn[k][g[k - 1]]
    BY <1>2 DEF Iterates
  <2>2. \A k \in 1..n : g[k] = Byte * g[k - 1]
    BY <2>1, <1>1
  <2>. QED BY <2>2, <1>2 DEF Iterates
<1>4. Is(f)
  BY <1>3 DEF Scales
<1> HIDE DEF f
<1>5. f[0] = 1 /\ \A k \in 1..n : f[k] = Byte * f[k - 1]
  BY <1>4
<1>6. \A k \in 0..n : f[k] = g[k]
  <2>1. g[0] = 1 /\ \A k \in 1..n : g[k] = Byte * g[k - 1]
    BY <1>3
  <2>2. f[0] = g[0] /\ \A k \in 1..n : f[k - 1] = g[k - 1] => f[k] = g[k]
    BY <2>1, <1>5
  <2>3. Alike(f, g, n)
    BY <2>2 DEF Alike
  <2>. QED BY <2>3, GoAlike
<1>7. f \in [0..n -> Nat]
  BY <1>4, <1>6
<1>8. Wire!Size(n) = Scales(n)[n]
  BY DEF Scales, Wire!Size
<1>. QED BY <1>5, <1>7, <1>8 DEF f

\* The number without its last bytes: what Shifts is.
LEMMA ShiftsAre ==
  ASSUME Byte \in Nat \ {0, 1}, NEW n \in Nat, NEW v \in Nat
  PROVE  /\ Wire!Shifts(v, n) \in [0..n -> Nat] /\ Wire!Shifts(v, n)[0] = v
         /\ \A k \in 1..n : Wire!Shifts(v, n)[k] = Wire!Shifts(v, n)[k - 1] \div Byte
<1> DEFINE f == Wire!Shifts(v, n)
           turn == [k \in 1..n |-> [x \in Nat |-> x \div Byte]]
           Is(left) == left = [k \in 0..n |-> IF k = 0 THEN v ELSE left[k - 1] \div Byte]
<1>1. turn \in [1..n -> [Nat -> Nat]] /\ \A k \in 1..n, x \in Nat : turn[k][x] = x \div Byte
  OBVIOUS
<1> HIDE DEF turn
<1>2. PICK g \in [0..n -> Nat] : Iterates(g, v, n, turn)
  BY <1>1, Iteration
<1>3. Is(g)
  <2>1. \A k \in 1..n : g[k - 1] \in Nat /\ g[k] = turn[k][g[k - 1]]
    BY <1>2 DEF Iterates
  <2>2. \A k \in 1..n : g[k] = g[k - 1] \div Byte
    BY <2>1, <1>1
  <2>. QED BY <2>2, <1>2 DEF Iterates
<1>4. Is(f)
  BY <1>3 DEF Wire!Shifts
<1> HIDE DEF f
<1>5. f[0] = v /\ \A k \in 1..n : f[k] = f[k - 1] \div Byte
  BY <1>4
<1>6. \A k \in 0..n : f[k] = g[k]
  <2>1. g[0] = v /\ \A k \in 1..n : g[k] = g[k - 1] \div Byte
    BY <1>3
  <2>2. f[0] = g[0] /\ \A k \in 1..n : f[k - 1] = g[k - 1] => f[k] = g[k]
    BY <2>1, <1>5
  <2>3. Alike(f, g, n)
    BY <2>2 DEF Alike
  <2>. QED BY <2>3, GoAlike
<1>7. f \in [0..n -> Nat]
  BY <1>4, <1>6
<1>. QED BY <1>5, <1>7 DEF f

\* Less than a multiple, divided.
LEMMA DivLess ==
  ASSUME NEW b \in Nat \ {0}, NEW x \in Nat, NEW y \in Nat, x < b * y
  PROVE  x \div b < y
<1> DEFINE q == x \div b
           r == x % b
<1>1. q \in Int /\ r \in Int /\ x = q * b + r /\ 0 <= r
  BY DivMod
<1> HIDE DEF q, r
<1>2. CASE y <= q
  <2>1. b * y <= b * q
    BY <1>1, <1>2, Monotone
  <2>2. b * q = q * b
    BY <1>1, Products
  <2> DEFINE m == q * b
  <2>3. m \in Int
    BY <1>1
  <2> HIDE DEF m
  <2>4. x = m + r /\ b * y <= m /\ b * y \in Int
    BY <1>1, <2>1, <2>2 DEF m
  <2>. QED BY <2>3, <2>4, <1>1
<1>3. CASE ~(y <= q)
  BY <1>1, <1>3 DEF q
<1>. QED BY <1>2, <1>3

\* Of a number of n bytes nothing is left behind them.
LEMMA NothingLeft ==
  ASSUME Byte \in Nat \ {0, 1}, NEW n \in Nat, NEW v \in 0..Wire!Size(n) - 1
  PROVE  Wire!Shifts(v, n)[n] = 0
<1> DEFINE f == Wire!Shifts(v, n)
           p == Scales(n)
           S == {k \in Nat : k <= n => f[k] < p[n - k]}
<1>1. /\ p \in [0..n -> Nat] /\ p[0] = 1 /\ \A k \in 1..n : p[k] = Byte * p[k - 1]
      /\ Wire!Size(n) = p[n]
  BY ScalesAre DEF p
<1> HIDE DEF p
<1>2. v \in Nat /\ v < p[n]
  BY <1>1
<1>3. f \in [0..n -> Nat] /\ f[0] = v /\ \A k \in 1..n : f[k] = f[k - 1] \div Byte
  BY <1>2, ShiftsAre
<1> HIDE DEF f
<1>4. 0 \in S
  BY <1>2, <1>3
<1>5. ASSUME NEW k \in Nat, k \in S PROVE k + 1 \in S
  <2> SUFFICES ASSUME k + 1 <= n PROVE f[k + 1] < p[n - (k + 1)]
    OBVIOUS
  <2>1. k + 1 \in 1..n /\ (k + 1) - 1 = k /\ n - k \in 1..n /\ (n - k) - 1 = n - (k + 1)
        /\ k \in 0..n /\ n - (k + 1) \in 0..n
    OBVIOUS
  <2>2. f[k] \in Nat /\ p[n - (k + 1)] \in Nat
    BY <2>1, <1>1, <1>3
  <2>3. f[k] < Byte * p[n - (k + 1)] /\ f[k + 1] = f[k] \div Byte
    BY <2>1, <1>1, <1>3, <1>5
  <2>. QED BY <2>2, <2>3, DivLess
<1>6. Nat \subseteq S
  <2> HIDE DEF S
  <2>. QED BY <1>4, <1>5, NatInduct
<1>7. f[n] < p[0] /\ f[n] \in Nat
  BY <1>6, <1>3
<1>. QED BY <1>1, <1>7 DEF f

-----------------------------------------------------------------------------
(* What a reader returns.                                                  *)

\* What a reader of elements of V may return.
Reads(V) == [ok : {TRUE}, v : V, rest : Wire!Bytes] \cup {Wire!Lost}

\* A value and what follows it, or nothing.
LEMMA ReadIs ==
  /\ Wire!Lost.ok = FALSE
  /\ \A V : Wire!Lost \in Reads(V)
  /\ \A V, x, t : x \in V /\ t \in Wire!Bytes => Wire!Got(x, t) \in Reads(V)
  /\ \A x, t : Wire!Got(x, t).ok /\ Wire!Got(x, t).v = x /\ Wire!Got(x, t).rest = t
  /\ \A V : \A x \in Reads(V) :
       x.ok \in BOOLEAN /\ (x.ok => x.v \in V /\ x.rest \in Wire!Bytes)
  /\ \A V : \A x \in Reads(V) : x.ok => x = Wire!Got(x.v, x.rest)
<1>1. Wire!Lost.ok = FALSE /\ \A V : Wire!Lost \in Reads(V)
  BY DEF Wire!Lost, Reads
<1>2. \A V, x, t : x \in V /\ t \in Wire!Bytes => Wire!Got(x, t) \in Reads(V)
  BY DEF Wire!Got, Reads
<1>3. \A x, t : Wire!Got(x, t).ok /\ Wire!Got(x, t).v = x /\ Wire!Got(x, t).rest = t
  BY DEF Wire!Got
<1>4. ASSUME NEW V, NEW x \in Reads(V)
      PROVE  x.ok \in BOOLEAN /\ (x.ok => x.v \in V /\ x.rest \in Wire!Bytes)
  BY <1>1 DEF Reads
<1>5. ASSUME NEW V, NEW x \in Reads(V), x.ok PROVE x = Wire!Got(x.v, x.rest)
  <2>1. x \in [ok : {TRUE}, v : V, rest : Wire!Bytes]
    BY <1>1, <1>5 DEF Reads
  <2>. QED BY <2>1 DEF Wire!Got
<1>. QED BY <1>1, <1>2, <1>3, <1>4, <1>5

\* Streams, one after the other.
LEMMA Streams ==
  ASSUME Byte \in Nat \ {0, 1}
  PROVE  /\ << >> \in Wire!Bytes
         /\ \A s \in Wire!Bytes : Len(s) \in Nat /\ << >> \o s = s /\ s \o << >> = s
         /\ \A s, t \in Wire!Bytes : s \o t \in Wire!Bytes /\ Len(s \o t) = Len(s) + Len(t)
         /\ \A s, t, u \in Wire!Bytes : (s \o t) \o u = s \o (t \o u)
         /\ \A s \in Wire!Bytes : \A i \in 1..Len(s) : s[i] \in Nat /\ s[i] \in 0..Byte - 1
         /\ \A x \in 0..Byte - 1 : <<x>> \in Wire!Bytes /\ Len(<<x>>) = 1
<1> DEFINE D == 0..Byte - 1
<1>1. << >> \in Seq(D)
  OBVIOUS
<1>2. \A s \in Seq(D) : Len(s) \in Nat /\ << >> \o s = s /\ s \o << >> = s
  OBVIOUS
<1>3. \A s, t \in Seq(D) : s \o t \in Seq(D) /\ Len(s \o t) = Len(s) + Len(t)
  OBVIOUS
<1>4. \A s, t, u \in Seq(D) : (s \o t) \o u = s \o (t \o u)
  OBVIOUS
<1>5. \A s \in Seq(D) : \A i \in 1..Len(s) : s[i] \in Nat /\ s[i] \in D
  OBVIOUS
<1>6. \A x \in D : <<x>> \in Seq(D) /\ Len(<<x>>) = 1
  OBVIOUS
<1>. QED BY <1>1, <1>2, <1>3, <1>4, <1>5, <1>6 DEF Wire!Bytes

\* Three streams make the same stream, whichever two are put together first.
Associates(s, t, u) == (s \o t) \o u = s \o (t \o u)

\* They always do.
LEMMA ThreeStreams ==
  ASSUME Byte \in Nat \ {0, 1}
  PROVE  \A s, t, u \in Wire!Bytes : Associates(s, t, u)
BY Streams DEF Associates

\* What is left of a stream when its beginning is taken.
LEMMA Behind ==
  ASSUME Byte \in Nat \ {0, 1}, NEW s \in Wire!Bytes, NEW n \in 0..Len(s), NEW t \in Wire!Bytes
  PROVE  /\ SubSeq(s, n + 1, Len(s)) \in Wire!Bytes
         /\ Len(SubSeq(s, n + 1, Len(s))) = Len(s) - n
         /\ SubSeq(s \o t, n + 1, Len(s \o t)) = SubSeq(s, n + 1, Len(s)) \o t
         /\ SubSeq(s \o t, Len(s) + 1, Len(s \o t)) = t
<1> DEFINE D == 0..Byte - 1
<1>1. s \in Seq(D) /\ t \in Seq(D)
  BY DEF Wire!Bytes
<1> HIDE DEF D
<1>2. SubSeq(s, n + 1, Len(s)) \in Seq(D)
  BY <1>1
<1>3. Len(SubSeq(s, n + 1, Len(s))) = Len(s) - n
  BY <1>1
<1>4. SubSeq(s \o t, n + 1, Len(s \o t)) = SubSeq(s, n + 1, Len(s)) \o t
  <2> DEFINE a == SubSeq(s \o t, n + 1, Len(s \o t))
             b == SubSeq(s, n + 1, Len(s)) \o t
  <2>1. a \in Seq(D) /\ b \in Seq(D)
    BY <1>1
  <2>2. Len(a) = Len(b)
    BY <1>1
  <2>3. \A i \in 1..Len(a) : a[i] = b[i]
    BY <1>1
  <2> HIDE DEF a, b
  <2>4. a = b
    BY <2>1, <2>2, <2>3
  <2>. QED BY <2>4 DEF a, b
<1>5. SubSeq(s \o t, Len(s) + 1, Len(s \o t)) = t
  <2> DEFINE a == SubSeq(s \o t, Len(s) + 1, Len(s \o t))
  <2>1. a \in Seq(D)
    BY <1>1
  <2>2. Len(a) = Len(t)
    BY <1>1
  <2>3. \A i \in 1..Len(a) : a[i] = t[i]
    BY <1>1
  <2> HIDE DEF a
  <2>4. a = t
    BY <1>1, <2>1, <2>2, <2>3
  <2>. QED BY <2>4 DEF a
<1>. QED BY <1>2, <1>3, <1>4, <1>5 DEF Wire!Bytes, D

\* The function whose last value a number is.
Highs(s, n) == CHOOSE high : high =
  [k \in 0..n |-> IF k = 0 THEN 0 ELSE high[k - 1] * Byte + s[n + 1 - k]]

\* The bytes of a number, from the last one on.
LEMMA HighsAre ==
  ASSUME Byte \in Nat \ {0, 1}, NEW n \in Nat, NEW s, \A i \in 1..n : s[i] \in Nat
  PROVE  /\ Highs(s, n) \in [0..n -> Nat] /\ Highs(s, n)[0] = 0
         /\ \A k \in 1..n : Highs(s, n)[k] = Highs(s, n)[k - 1] * Byte + s[n + 1 - k]
<1> DEFINE f == Highs(s, n)
           turn == [k \in 1..n |-> [x \in Nat |-> x * Byte + s[n + 1 - k]]]
           Is(high) == high =
             [k \in 0..n |-> IF k = 0 THEN 0 ELSE high[k - 1] * Byte + s[n + 1 - k]]
<1>1. \A k \in 1..n : n + 1 - k \in 1..n /\ s[n + 1 - k] \in Nat
  OBVIOUS
<1>2. \A k \in 1..n, x \in Nat : x * Byte + s[n + 1 - k] \in Nat
  <2> SUFFICES ASSUME NEW k \in 1..n, NEW x \in Nat PROVE x * Byte + s[n + 1 - k] \in Nat
    OBVIOUS
  <2>1. x * Byte \in Nat
    OBVIOUS
  <2>. QED BY <2>1, <1>1
<1>3. turn \in [1..n -> [Nat -> Nat]]
  BY <1>2
<1>4. \A k \in 1..n, x \in Nat : turn[k][x] = x * Byte + s[n + 1 - k]
  OBVIOUS
<1> HIDE DEF turn
<1>5. PICK g \in [0..n -> Nat] : Iterates(g, 0, n, turn)
  BY <1>3, Iteration
<1>6. g[0] = 0 /\ \A k \in 1..n : g[k] = g[k - 1] * Byte + s[n + 1 - k]
  <2>0. \A k \in 1..n : k - 1 \in 0..n
    OBVIOUS
  <2>1. \A k \in 1..n : g[k - 1] \in Nat /\ g[k] = turn[k][g[k - 1]]
    BY <2>0, <1>5 DEF Iterates
  <2>. QED BY <2>1, <1>4, <1>5 DEF Iterates
<1>7. Is(g)
  BY <1>6
<1>8. Is(f)
  BY <1>7 DEF Highs
<1> HIDE DEF f
<1>9. f[0] = 0 /\ \A k \in 1..n : f[k] = f[k - 1] * Byte + s[n + 1 - k]
  BY <1>8
<1>10. \A k \in 0..n : f[k] = g[k]
  <2>1. Alike(f, g, n)
    BY <1>6, <1>9 DEF Alike
  <2>. QED BY <2>1, GoAlike
<1>11. f \in [0..n -> Nat]
  BY <1>8, <1>10
<1>. QED BY <1>9, <1>11 DEF f

\* Numbers are numbers.
LEMMA NumberReadIs ==
  ASSUME Byte \in Nat \ {0, 1}, NEW s \in Wire!Bytes, NEW n \in Nat
  PROVE  /\ Wire!Number(s, n) \in Reads(Nat)
         /\ Wire!Number(s, n) =
              IF Len(s) < n THEN Wire!Lost
              ELSE Wire!Got(Highs(s, n)[n], SubSeq(s, n + 1, Len(s)))
<1>1. Wire!Number(s, n) =
        IF Len(s) < n THEN Wire!Lost
        ELSE Wire!Got(Highs(s, n)[n], SubSeq(s, n + 1, Len(s)))
  BY DEF Wire!Number, Highs
<1>2. ASSUME ~(Len(s) < n) PROVE Wire!Number(s, n) \in Reads(Nat)
  <2>1. n \in 0..Len(s) /\ Len(s) \in Nat
    BY <1>2, Streams
  <2>2. \A i \in 1..n : s[i] \in Nat
    BY <2>1, Streams
  <2>3. Highs(s, n)[n] \in Nat
    BY <2>2, HighsAre
  <2>4. SubSeq(s, n + 1, Len(s)) \in Wire!Bytes
    BY <2>1, Behind
  <2>. QED BY <1>1, <1>2, <2>3, <2>4, ReadIs
<1>. QED BY <1>1, <1>2, ReadIs

\* The same bytes give the same number.
LEMMA SameHighs ==
  ASSUME Byte \in Nat \ {0, 1}, NEW n \in Nat, NEW s, NEW t,
         \A i \in 1..n : s[i] \in Nat /\ t[i] = s[i]
  PROVE  Highs(t, n)[n] = Highs(s, n)[n]
<1> DEFINE f == Highs(s, n)
           g == Highs(t, n)
<1>1. f[0] = 0 /\ \A k \in 1..n : f[k] = f[k - 1] * Byte + s[n + 1 - k]
  BY HighsAre
<1>2. g[0] = 0 /\ \A k \in 1..n : g[k] = g[k - 1] * Byte + t[n + 1 - k]
  BY HighsAre
<1>3. \A k \in 1..n : n + 1 - k \in 1..n /\ t[n + 1 - k] = s[n + 1 - k]
  OBVIOUS
<1> HIDE DEF f, g
<1>4. Alike(g, f, n)
  BY <1>1, <1>2, <1>3 DEF Alike
<1>5. \A k \in 0..n : g[k] = f[k]
  BY <1>4, GoAlike
<1>. QED BY <1>5 DEF f, g

\* Readers of elements of V.
Readers(V) == [Wire!Bytes -> Reads(V)]

\* A reader that has what it wants does not look at what follows.
Steady(rd) == \A s, t \in Wire!Bytes :
                rd[s].ok => rd[s \o t] = Wire!Got(rd[s].v, rd[s].rest \o t)

\* A reader that takes x for the bytes w, whatever follows them.
Undoes(rd, x, w) == \A t \in Wire!Bytes : rd[w \o t] = Wire!Got(x, t)

\* A number is read from its own bytes.
LEMMA NumberSteady ==
  ASSUME Byte \in Nat \ {0, 1}, NEW n \in Nat, NEW s \in Wire!Bytes, NEW t \in Wire!Bytes,
         Wire!Number(s, n).ok
  PROVE  Wire!Number(s \o t, n)
           = Wire!Got(Wire!Number(s, n).v, Wire!Number(s, n).rest \o t)
<1> DEFINE u == s \o t
<1>1. Len(s) \in Nat /\ u \in Wire!Bytes /\ Len(u) = Len(s) + Len(t) /\ Len(t) \in Nat
  BY Streams
<1>2. ~(Len(s) < n) /\ Wire!Number(s, n) = Wire!Got(Highs(s, n)[n], SubSeq(s, n + 1, Len(s)))
  BY NumberReadIs, ReadIs
<1>3. n \in 0..Len(s) /\ ~(Len(u) < n)
  BY <1>1, <1>2
<1>4. \A i \in 1..n : s[i] \in Nat /\ u[i] = s[i]
  <2>1. \A i \in 1..n : i \in 1..Len(s)
    BY <1>1, <1>3
  <2>2. \A i \in 1..Len(s) : u[i] = s[i]
    BY DEF Wire!Bytes
  <2>. QED BY <2>1, <2>2, Streams
<1>5. SubSeq(u, n + 1, Len(u)) = SubSeq(s, n + 1, Len(s)) \o t
  BY <1>3, Behind
<1> HIDE DEF u
<1>6. Highs(u, n)[n] = Highs(s, n)[n]
  BY <1>4, SameHighs
<1>7. Wire!Number(u, n) = Wire!Got(Highs(u, n)[n], SubSeq(u, n + 1, Len(u)))
  BY <1>1, <1>3, NumberReadIs
<1>8. Wire!Number(u, n) = Wire!Got(Highs(s, n)[n], SubSeq(s, n + 1, Len(s)) \o t)
  BY <1>5, <1>6, <1>7
<1>. QED BY <1>2, <1>8, ReadIs DEF u

\* The bytes of a number.
LEMMA NumIs ==
  ASSUME Byte \in Nat \ {0, 1}, NEW n \in Nat, NEW v \in Nat
  PROVE  /\ Wire!Num(v, n) \in Wire!Bytes /\ Len(Wire!Num(v, n)) = n
         /\ \A i \in 1..n : Wire!Num(v, n)[i] = Wire!Shifts(v, n)[i - 1] % Byte
<1> DEFINE f == Wire!Shifts(v, n)
           w == [i \in 1..n |-> f[i - 1] % Byte]
<1>1. f \in [0..n -> Nat]
  BY ShiftsAre
<1> HIDE DEF f
<1>2. \A i \in 1..n : f[i - 1] % Byte \in 0..Byte - 1
  <2>1. \A i \in 1..n : f[i - 1] \in Nat
    BY <1>1
  <2>2. \A x \in Nat : x % Byte \in 0..Byte - 1
    BY DivMod
  <2>. QED BY <2>1, <2>2
<1>3. w \in Seq(0..Byte - 1) /\ Len(w) = n /\ \A i \in 1..n : w[i] = f[i - 1] % Byte
  BY <1>2
<1>. QED BY <1>3 DEF f, Wire!Num, Wire!Bytes

\* A number that was written in n bytes is read from them, whatever follows.
LEMMA NumberUndoes ==
  ASSUME Byte \in Nat \ {0, 1}, NEW n \in Nat, NEW v \in 0..Wire!Size(n) - 1,
         NEW t \in Wire!Bytes
  PROVE  Wire!Number(Wire!Num(v, n) \o t, n) = Wire!Got(v, t)
<1> DEFINE w == Wire!Num(v, n)
           u == w \o t
           f == Wire!Shifts(v, n)
           h == Highs(u, n)
<1>0. v \in Nat
  BY ScalesAre
<1>1. w \in Wire!Bytes /\ Len(w) = n /\ \A i \in 1..n : w[i] = f[i - 1] % Byte
  BY <1>0, NumIs
<1>2. f \in [0..n -> Nat] /\ f[0] = v /\ \A k \in 1..n : f[k] = f[k - 1] \div Byte
  BY <1>0, ShiftsAre
<1>3. f[n] = 0
  BY NothingLeft
<1> HIDE DEF w, f
<1>4. u \in Wire!Bytes /\ Len(u) = n + Len(t) /\ Len(t) \in Nat
  BY <1>1, Streams
<1>5. \A i \in 1..n : u[i] = w[i] /\ u[i] \in Nat
  <2>1. \A i \in 1..n : u[i] = w[i]
    BY <1>1 DEF Wire!Bytes
  <2>2. \A i \in 1..n : w[i] \in Nat
    BY <1>1, Streams
  <2>. QED BY <2>1, <2>2
<1>6. SubSeq(u, n + 1, Len(u)) = t
  <2>1. n \in 0..Len(w)
    BY <1>1
  <2>2. SubSeq(w \o t, Len(w) + 1, Len(w \o t)) = t
    BY <2>1, <1>1, Behind
  <2>. QED BY <2>2, <1>1
<1> HIDE DEF u
<1>7. h[0] = 0 /\ \A k \in 1..n : h[k] = h[k - 1] * Byte + u[n + 1 - k]
  BY <1>5, HighsAre
<1> DEFINE S == {k \in Nat : k <= n => h[k] = f[n - k]}
<1>8. 0 \in S
  BY <1>3, <1>7
<1>9. ASSUME NEW k \in Nat, k \in S PROVE k + 1 \in S
  <2> SUFFICES ASSUME k + 1 <= n PROVE h[k + 1] = f[n - (k + 1)]
    OBVIOUS
  <2> DEFINE j == n - (k + 1)
             x == f[j]
  <2>1. /\ k + 1 \in 1..n /\ (k + 1) - 1 = k /\ j \in 0..n /\ n - k \in 1..n
        /\ (n - k) - 1 = j /\ n + 1 - (k + 1) = n - k
    OBVIOUS
  <2>2. h[k + 1] = h[k] * Byte + u[n - k]
    BY <2>1, <1>7
  <2>3. h[k] = f[n - k]
    BY <2>1, <1>9
  <2> HIDE DEF j
  <2>4. x \in Nat /\ f[n - k] = x \div Byte /\ u[n - k] = x % Byte
    BY <2>1, <1>1, <1>2, <1>5
  <2> HIDE DEF x
  <2>5. x = (x \div Byte) * Byte + (x % Byte)
    BY <2>4, DivMod
  <2>. QED BY <2>2, <2>3, <2>4, <2>5 DEF j, x
<1>10. Nat \subseteq S
  <2> HIDE DEF S
  <2>. QED BY <1>8, <1>9, NatInduct
<1>11. h[n] = v
  BY <1>10, <1>2
<1> HIDE DEF h
<1>12. Wire!Number(u, n) = Wire!Got(h[n], t)
  <2>1. ~(Len(u) < n)
    BY <1>4
  <2>2. Wire!Number(u, n) = Wire!Got(Highs(u, n)[n], SubSeq(u, n + 1, Len(u)))
    BY <2>1, <1>4, NumberReadIs
  <2>. QED BY <2>2, <1>6 DEF h
<1>. QED BY <1>11, <1>12 DEF u, w

-----------------------------------------------------------------------------
(* A thing read many times.                                                *)

\* Reading once more.
OnceMore(rd, x) == IF x.ok THEN Wire!More(x.v, rd[x.rest]) ELSE Wire!Lost

\* Lists that are one reading longer.
LEMMA OnceMoreIs ==
  ASSUME NEW V, NEW rd \in Readers(V), NEW x \in Reads(Seq(V))
  PROVE  /\ OnceMore(rd, x) \in Reads(Seq(V))
         /\ OnceMore(rd, x).ok =>
              /\ x.ok /\ rd[x.rest].ok
              /\ OnceMore(rd, x) = Wire!Got(Append(x.v, rd[x.rest].v), rd[x.rest].rest)
              /\ Len(OnceMore(rd, x).v) = Len(x.v) + 1
<1>1. CASE x.ok
  <2> DEFINE y == rd[x.rest]
             z == Append(x.v, y.v)
  <2>1. x.v \in Seq(V) /\ x.rest \in Wire!Bytes
    BY <1>1, ReadIs
  <2>2. y \in Reads(V)
    BY <2>1 DEF Readers
  <2>3. OnceMore(rd, x) = IF y.ok THEN Wire!Got(z, y.rest) ELSE Wire!Lost
    BY <1>1 DEF OnceMore, Wire!More
  <2> HIDE DEF y
  <2>4. CASE y.ok
    <3>1. y.v \in V /\ y.rest \in Wire!Bytes
      BY <2>2, <2>4, ReadIs
    <3>2. z \in Seq(V) /\ Len(z) = Len(x.v) + 1
      BY <2>1, <3>1
    <3> HIDE DEF z
    <3>3. Wire!Got(z, y.rest) \in Reads(Seq(V)) /\ Wire!Got(z, y.rest).v = z
      BY <3>1, <3>2, ReadIs
    <3>4. OnceMore(rd, x) = Wire!Got(z, y.rest)
      BY <2>3, <2>4
    <3>. QED BY <1>1, <2>4, <3>2, <3>3, <3>4 DEF y, z
  <2>5. CASE ~y.ok
    BY <2>3, <2>5, ReadIs
  <2>. QED BY <2>4, <2>5
<1>2. CASE ~x.ok
  BY <1>2, ReadIs DEF OnceMore
<1>. QED BY <1>1, <1>2

\* The function whose last value Times is.
Readings(s, n, rd) == CHOOSE got : got =
  [i \in 0..n |-> IF i = 0 THEN Wire!Got(<< >>, s) ELSE OnceMore(rd, got[i - 1])]

\* It goes on from reading to reading.
LEMMA ReadingsAre ==
  ASSUME NEW V, NEW rd \in Readers(V), NEW s \in Wire!Bytes, NEW n \in Nat
  PROVE  /\ Readings(s, n, rd) \in [0..n -> Reads(Seq(V))]
         /\ Readings(s, n, rd)[0] = Wire!Got(<< >>, s)
         /\ \A i \in 1..n : Readings(s, n, rd)[i] = OnceMore(rd, Readings(s, n, rd)[i - 1])
         /\ Wire!Times(s, n, rd) = Readings(s, n, rd)[n]
<1> DEFINE D == Reads(Seq(V))
           base == Wire!Got(<< >>, s)
           turn == [i \in 1..n |-> [x \in D |-> OnceMore(rd, x)]]
           f == Readings(s, n, rd)
           Is(got) == got = [i \in 0..n |-> IF i = 0 THEN base ELSE OnceMore(rd, got[i - 1])]
<1>1. base \in D
  <2>1. << >> \in Seq(V)
    OBVIOUS
  <2>. QED BY <2>1, ReadIs
<1>2. \A x \in D : OnceMore(rd, x) \in D
  BY OnceMoreIs
<1> HIDE DEF D, base
<1>3. turn \in [1..n -> [D -> D]] /\ \A i \in 1..n, x \in D : turn[i][x] = OnceMore(rd, x)
  BY <1>2
<1> HIDE DEF turn
<1>4. PICK g \in [0..n -> D] : Iterates(g, base, n, turn)
  BY <1>1, <1>3, Iteration
<1>5. g[0] = base /\ \A i \in 1..n : g[i] = OnceMore(rd, g[i - 1])
  <2>1. \A i \in 1..n : i - 1 \in 0..n
    OBVIOUS
  <2>2. \A i \in 1..n : g[i - 1] \in D /\ g[i] = turn[i][g[i - 1]]
    BY <2>1, <1>4 DEF Iterates
  <2>. QED BY <2>2, <1>3, <1>4 DEF Iterates
<1>6. Is(g)
  BY <1>5
<1>7. Is(f)
  BY <1>6 DEF Readings, base
<1>8. Wire!Times(s, n, rd) = f[n]
  BY DEF Wire!Times, Wire!Then, Readings, OnceMore
<1> HIDE DEF f
<1>9. f[0] = base /\ \A i \in 1..n : f[i] = OnceMore(rd, f[i - 1])
  BY <1>7
<1>10. \A i \in 0..n : f[i] = g[i]
  <2>1. Alike(f, g, n)
    BY <1>5, <1>9 DEF Alike
  <2>. QED BY <2>1, GoAlike
<1>11. f \in [0..n -> D]
  BY <1>7, <1>10
<1>. QED BY <1>8, <1>9, <1>11 DEF f, D, base

\* Reading n times, and once more.
LEMMA TimesIs ==
  ASSUME NEW V, NEW rd \in Readers(V), NEW s \in Wire!Bytes
  PROVE  /\ Wire!Times(s, 0, rd) = Wire!Got(<< >>, s)
         /\ \A n \in Nat : Wire!Times(s, n + 1, rd) = OnceMore(rd, Wire!Times(s, n, rd))
         /\ \A n \in Nat : Wire!Times(s, n, rd) \in Reads(Seq(V))
<1>1. Wire!Times(s, 0, rd) = Wire!Got(<< >>, s)
  <2>1. 0 \in Nat
    OBVIOUS
  <2>. QED BY <2>1, ReadingsAre
<1>2. ASSUME NEW n \in Nat
      PROVE  Wire!Times(s, n + 1, rd) = OnceMore(rd, Wire!Times(s, n, rd))
  <2> DEFINE m == n + 1
             f == Readings(s, n, rd)
             g == Readings(s, m, rd)
  <2>1. m \in Nat /\ m \in 1..m /\ m - 1 = n /\ \A i \in 1..n : i \in 1..m
    OBVIOUS
  <2> HIDE DEF m
  <2>2. /\ f[0] = Wire!Got(<< >>, s) /\ \A i \in 1..n : f[i] = OnceMore(rd, f[i - 1])
        /\ Wire!Times(s, n, rd) = f[n]
    BY ReadingsAre
  <2>3. /\ g[0] = Wire!Got(<< >>, s) /\ \A i \in 1..m : g[i] = OnceMore(rd, g[i - 1])
        /\ Wire!Times(s, m, rd) = g[m]
    BY <2>1, ReadingsAre
  <2> HIDE DEF f, g
  <2>4. Alike(f, g, n)
    BY <2>1, <2>2, <2>3 DEF Alike
  <2>5. f[n] = g[n]
    BY <2>4, GoAlike
  <2>. QED BY <2>1, <2>2, <2>3, <2>5 DEF m
<1>3. ASSUME NEW n \in Nat PROVE Wire!Times(s, n, rd) \in Reads(Seq(V))
  <2>1. Readings(s, n, rd) \in [0..n -> Reads(Seq(V))] /\ n \in 0..n
    BY ReadingsAre
  <2>. QED BY <2>1, ReadingsAre
<1>. QED BY <1>1, <1>2, <1>3

\* As many as were asked for.
LEMMA TimesLen ==
  ASSUME NEW V, NEW rd \in Readers(V), NEW s \in Wire!Bytes, NEW n \in Nat,
         Wire!Times(s, n, rd).ok
  PROVE  Len(Wire!Times(s, n, rd).v) = n
<1> DEFINE T(k) == Wire!Times(s, k, rd)
           S == {k \in Nat : T(k).ok => Len(T(k).v) = k}
<1>1. 0 \in S
  <2>1. T(0) = Wire!Got(<< >>, s) /\ Len(<< >>) = 0
    BY TimesIs
  <2>2. Wire!Got(<< >>, s).v = << >>
    BY ReadIs
  <2>. QED BY <2>1, <2>2
<1>2. ASSUME NEW k \in Nat, k \in S PROVE k + 1 \in S
  <2>1. T(k + 1) = OnceMore(rd, T(k)) /\ T(k) \in Reads(Seq(V))
    BY TimesIs
  <2> HIDE DEF T
  <2>2. T(k + 1).ok => T(k).ok /\ Len(T(k + 1).v) = Len(T(k).v) + 1
    BY <2>1, OnceMoreIs
  <2>. QED BY <2>2, <1>2
<1>3. Nat \subseteq S
  <2> HIDE DEF S
  <2>. QED BY <1>1, <1>2, NatInduct
<1>. QED BY <1>3

\* Reading n times does not look at what follows.
LEMMA TimesSteady ==
  ASSUME Byte \in Nat \ {0, 1}, NEW V, NEW rd \in Readers(V), Steady(rd),
         NEW s \in Wire!Bytes, NEW t \in Wire!Bytes, NEW n \in Nat, Wire!Times(s, n, rd).ok
  PROVE  Wire!Times(s \o t, n, rd)
           = Wire!Got(Wire!Times(s, n, rd).v, Wire!Times(s, n, rd).rest \o t)
<1> DEFINE T(k) == Wire!Times(s, k, rd)
           U(k) == Wire!Times(s \o t, k, rd)
           S == {k \in Nat : T(k).ok => U(k) = Wire!Got(T(k).v, T(k).rest \o t)}
<1>0. s \o t \in Wire!Bytes
  BY Streams
<1>1. 0 \in S
  <2>1. T(0) = Wire!Got(<< >>, s) /\ U(0) = Wire!Got(<< >>, s \o t)
    BY <1>0, TimesIs
  <2>. QED BY <2>1, ReadIs
<1>2. ASSUME NEW k \in Nat, k \in S PROVE k + 1 \in S
  <2>1. /\ T(k + 1) = OnceMore(rd, T(k)) /\ T(k) \in Reads(Seq(V))
        /\ U(k + 1) = OnceMore(rd, U(k))
    BY <1>0, TimesIs
  <2> SUFFICES ASSUME T(k + 1).ok
               PROVE  U(k + 1) = Wire!Got(T(k + 1).v, T(k + 1).rest \o t)
    OBVIOUS
  <2> DEFINE x == T(k)
             y == rd[x.rest]
  <2> HIDE DEF T, U
  <2>2. x.ok /\ y.ok /\ T(k + 1) = Wire!Got(Append(x.v, y.v), y.rest)
    BY <2>1, OnceMoreIs
  <2>3. x.rest \in Wire!Bytes
    BY <2>1, <2>2, ReadIs
  <2>4. U(k) = Wire!Got(x.v, x.rest \o t)
    BY <1>2, <2>2
  <2>5. rd[x.rest \o t] = Wire!Got(y.v, y.rest \o t)
    BY <2>2, <2>3 DEF Steady
  <2> HIDE DEF x, y
  <2>6. U(k + 1) = Wire!Got(Append(x.v, y.v), y.rest \o t)
    BY <2>1, <2>4, <2>5, ReadIs DEF OnceMore, Wire!More
  <2>. QED BY <2>2, <2>6, ReadIs
<1>3. Nat \subseteq S
  <2> HIDE DEF S
  <2>. QED BY <1>1, <1>2, NatInduct
<1>. QED BY <1>3

\* The first k of a list.
Cut(ws, k) == [i \in 1..k |-> ws[i]]

\* The function whose last value FlattenSeq is.
Flats(ws) == CHOOSE flatten : flatten =
  [i \in 1..Len(ws) |-> IF i = 1 THEN ws[i] ELSE flatten[i - 1] \o ws[i]]

\* It appends one stream after the other.
LEMMA FlatsAre ==
  ASSUME Byte \in Nat \ {0, 1}, NEW ws \in Seq(Wire!Bytes), Len(ws) > 0
  PROVE  /\ Flats(ws) \in [1..Len(ws) -> Wire!Bytes]
         /\ Flats(ws)[1] = ws[1]
         /\ \A i \in 2..Len(ws) : Flats(ws)[i] = Flats(ws)[i - 1] \o ws[i]
         /\ Wire!FlattenSeq(ws) = Flats(ws)[Len(ws)]
<1> DEFINE n == Len(ws)
           m == n - 1
           D == Wire!Bytes
           turn == [k \in 1..m |-> [x \in D |-> x \o ws[k + 1]]]
           f == Flats(ws)
           Is(flatten) == flatten =
             [i \in 1..n |-> IF i = 1 THEN ws[i] ELSE flatten[i - 1] \o ws[i]]
<1>1. n \in Nat \ {0} /\ m \in Nat /\ ws[1] \in D
  OBVIOUS
<1>2. \A k \in 1..m : ws[k + 1] \in D
  OBVIOUS
<1>3. Wire!FlattenSeq(ws) = f[n]
  <2>1. Len(ws) # 0
    BY <1>1
  <2>. QED BY <2>1 DEF Wire!FlattenSeq, Flats
<1> HIDE DEF n, m
<1>4. turn \in [1..m -> [D -> D]] /\ \A k \in 1..m, x \in D : turn[k][x] = x \o ws[k + 1]
  <2>1. \A k \in 1..m, x \in D : x \o ws[k + 1] \in D
    BY <1>2, Streams
  <2>. QED BY <2>1
<1> HIDE DEF turn, D
<1>5. PICK g \in [0..m -> D] : Iterates(g, ws[1], m, turn)
  BY <1>1, <1>4, Iteration
<1>6. g[0] = ws[1] /\ \A k \in 1..m : g[k] = g[k - 1] \o ws[k + 1]
  <2>1. \A k \in 1..m : k - 1 \in 0..m
    BY <1>1
  <2>2. \A k \in 1..m : g[k - 1] \in D /\ g[k] = turn[k][g[k - 1]]
    BY <2>1, <1>5 DEF Iterates
  <2>. QED BY <2>2, <1>4, <1>5 DEF Iterates
<1> DEFINE h == [i \in 1..n |-> g[i - 1]]
<1>7. Is(h)
  <2>1. \A i \in 1..n : i # 1 => i - 1 \in 1..n /\ i - 1 \in 1..m /\ (i - 1) + 1 = i
    BY <1>1 DEF m
  <2>2. \A i \in 1..n : i # 1 => h[i] = h[i - 1] \o ws[i]
    <3> SUFFICES ASSUME NEW i \in 1..n, i # 1 PROVE h[i] = h[i - 1] \o ws[i]
      OBVIOUS
    <3>1. g[i - 1] = g[(i - 1) - 1] \o ws[(i - 1) + 1]
      BY <2>1, <1>6
    <3>. QED BY <2>1, <3>1
  <2>3. 1 \in 1..n => h[1] = ws[1]
    BY <1>6
  <2>4. h = [i \in 1..n |-> IF i = 1 THEN ws[i] ELSE h[i - 1] \o ws[i]]
    BY <2>2, <2>3
  <2>. QED BY <2>4
<1>8. Is(f)
  <2> HIDE DEF h
  <2>. QED BY <1>7 DEF Flats, n
<1> HIDE DEF f
<1>9. f[1] = ws[1] /\ \A i \in 2..n : f[i] = f[i - 1] \o ws[i]
  <2>1. 1 \in 1..n /\ \A i \in 2..n : i \in 1..n /\ i # 1
    BY <1>1
  <2>2. \A i \in 1..n : f[i] = IF i = 1 THEN ws[i] ELSE f[i - 1] \o ws[i]
    BY <1>8
  <2>. QED BY <2>1, <2>2
<1>10. \A i \in 1..n : f[i] \in D
  <2> DEFINE S == {k \in Nat : k < n => f[k + 1] \in D}
  <2>1. 0 \in S
    BY <1>1, <1>9
  <2>2. ASSUME NEW k \in Nat, k \in S PROVE k + 1 \in S
    <3> SUFFICES ASSUME k + 1 < n PROVE f[(k + 1) + 1] \in D
      OBVIOUS
    <3>1. (k + 1) + 1 \in 2..n /\ ((k + 1) + 1) - 1 = k + 1 /\ k + 1 \in 1..m
      BY <1>1 DEF m
    <3>2. f[k + 1] \in D /\ ws[(k + 1) + 1] \in D
      <4>1. k < n
        BY <1>1
      <4>2. f[k + 1] \in D
        BY <2>2, <4>1
      <4>3. ws[(k + 1) + 1] \in D
        BY <1>2, <3>1
      <4>. QED BY <4>2, <4>3
    <3>3. f[(k + 1) + 1] = f[k + 1] \o ws[(k + 1) + 1]
      BY <1>9, <3>1
    <3>. QED BY <3>2, <3>3, Streams DEF D
  <2>3. Nat \subseteq S
    <3> HIDE DEF S
    <3>. QED BY <2>1, <2>2, NatInduct
  <2>4. \A i \in 1..n : i - 1 \in Nat /\ i - 1 < n /\ (i - 1) + 1 = i
    BY <1>1
  <2>. QED BY <2>3, <2>4
<1>11. f \in [1..n -> D]
  BY <1>8, <1>10
<1>. QED BY <1>3, <1>9, <1>11 DEF f, n, D

\* One more stream.
LEMMA FlatIs ==
  ASSUME Byte \in Nat \ {0, 1}, NEW n \in Nat, NEW ws, \A i \in 1..n : ws[i] \in Wire!Bytes
  PROVE  /\ Wire!FlattenSeq(Cut(ws, 0)) = << >>
         /\ \A k \in 0..n : Wire!FlattenSeq(Cut(ws, k)) \in Wire!Bytes
         /\ \A k \in 1..n : Wire!FlattenSeq(Cut(ws, k))
                              = Wire!FlattenSeq(Cut(ws, k - 1)) \o ws[k]
<1>1. Wire!FlattenSeq(Cut(ws, 0)) = << >>
  <2>1. Cut(ws, 0) = << >>
    BY DEF Cut
  <2>. QED BY <2>1 DEF Wire!FlattenSeq
<1>2. ASSUME NEW k \in 1..n
      PROVE  Cut(ws, k) \in Seq(Wire!Bytes) /\ Len(Cut(ws, k)) = k
             /\ \A i \in 1..k : Cut(ws, k)[i] = ws[i]
  <2>1. \A i \in 1..k : ws[i] \in Wire!Bytes
    OBVIOUS
  <2>. QED BY <2>1 DEF Cut
<1>3. ASSUME NEW k \in 1..n
      PROVE  /\ Wire!FlattenSeq(Cut(ws, k)) = Flats(Cut(ws, k))[k]
             /\ Flats(Cut(ws, k))[k] \in Wire!Bytes
             /\ Flats(Cut(ws, k))[1] = ws[1]
             /\ \A i \in 2..k : Flats(Cut(ws, k))[i] = Flats(Cut(ws, k))[i - 1] \o ws[i]
  <2> DEFINE v == Cut(ws, k)
  <2>1. v \in Seq(Wire!Bytes) /\ Len(v) = k /\ k > 0 /\ \A i \in 1..k : v[i] = ws[i]
    BY <1>2
  <2> HIDE DEF v
  <2>2. /\ Flats(v) \in [1..k -> Wire!Bytes] /\ Flats(v)[1] = v[1]
        /\ \A i \in 2..k : Flats(v)[i] = Flats(v)[i - 1] \o v[i]
        /\ Wire!FlattenSeq(v) = Flats(v)[k]
    BY <2>1, FlatsAre
  <2>3. k \in 1..k /\ 1 \in 1..k /\ \A i \in 2..k : i \in 1..k
    OBVIOUS
  <2>4. \A i \in 2..k : Flats(v)[i] = Flats(v)[i - 1] \o ws[i]
    BY <2>1, <2>2, <2>3
  <2>5. Flats(v)[1] = ws[1] /\ Flats(v)[k] \in Wire!Bytes
    BY <2>1, <2>2, <2>3
  <2>. QED BY <2>2, <2>4, <2>5 DEF v
<1>4. ASSUME NEW k \in 1..n
      PROVE  Wire!FlattenSeq(Cut(ws, k)) = Wire!FlattenSeq(Cut(ws, k - 1)) \o ws[k]
  <2>1. CASE k = 1
    <3>1. Wire!FlattenSeq(Cut(ws, k)) = ws[1]
      BY <1>3, <2>1
    <3>2. Cut(ws, k - 1) = Cut(ws, 0) /\ ws[1] \in Wire!Bytes
      BY <2>1
    <3>3. << >> \o ws[1] = ws[1]
      BY <3>2, Streams
    <3>. QED BY <1>1, <2>1, <3>1, <3>2, <3>3
  <2>2. CASE k > 1
    <3> DEFINE j == k - 1
               f == Flats(Cut(ws, k))
               g == Flats(Cut(ws, j))
               a == [i \in Nat |-> f[i + 1]]
               b == [i \in Nat |-> g[i + 1]]
    <3>1. j \in 1..n /\ j - 1 \in Nat /\ k \in 2..k
      BY <2>2
    <3>2. /\ f[1] = ws[1] /\ \A i \in 2..k : f[i] = f[i - 1] \o ws[i]
          /\ Wire!FlattenSeq(Cut(ws, k)) = f[k]
      BY <1>3
    <3>3. /\ g[1] = ws[1] /\ \A i \in 2..j : g[i] = g[i - 1] \o ws[i]
          /\ Wire!FlattenSeq(Cut(ws, j)) = g[j]
      BY <3>1, <1>3
    <3> HIDE DEF f, g
    <3>4. Alike(a, b, j - 1)
      <4>1. \A i \in 1..(j - 1) : /\ i \in Nat /\ i - 1 \in Nat /\ i + 1 \in 2..j
                /\ i + 1 \in 2..k
                                  /\ (i + 1) - 1 = i /\ (i - 1) + 1 = i
        OBVIOUS
      <4>2. \A i \in 1..(j - 1) : /\ a[i] = a[i - 1] \o ws[i + 1]
                                  /\ b[i] = b[i - 1] \o ws[i + 1]
        BY <4>1, <3>2, <3>3
      <4>3. a[0] = b[0]
        BY <3>2, <3>3
      <4> HIDE DEF a, b
      <4>. QED BY <4>2, <4>3 DEF Alike
    <3>5. a[j - 1] = b[j - 1]
      <4> HIDE DEF a, b
      <4> DEFINE m == j - 1
      <4>1. m \in 0..m /\ m \in Nat /\ Alike(a, b, m)
        BY <3>1, <3>4
      <4> HIDE DEF m
      <4>2. \A i \in 0..m : a[i] = b[i]
        BY <4>1, GoAlike
      <4>. QED BY <4>1, <4>2 DEF m
    <3>6. f[j] = g[j]
      BY <3>1, <3>5
    <3>7. f[k] = f[j] \o ws[k]
      BY <3>1, <3>2
    <3>8. Wire!FlattenSeq(Cut(ws, k)) = f[k] /\ Wire!FlattenSeq(Cut(ws, j)) = g[j]
      BY <3>2, <3>3
    <3> HIDE DEF a, b, j
    <3>9. Wire!FlattenSeq(Cut(ws, k)) = Wire!FlattenSeq(Cut(ws, j)) \o ws[k]
      BY <3>6, <3>7, <3>8
    <3>. QED BY <3>9 DEF j
  <2>3. k = 1 \/ k > 1
    OBVIOUS
  <2>. QED BY <2>1, <2>2, <2>3
<1>5. \A k \in 0..n : Wire!FlattenSeq(Cut(ws, k)) \in Wire!Bytes
  <2>1. \A k \in 1..n : Wire!FlattenSeq(Cut(ws, k)) \in Wire!Bytes
    BY <1>3
  <2>2. \A k \in 0..n : k = 0 \/ k \in 1..n
    OBVIOUS
  <2>. QED BY <1>1, <2>1, <2>2, Streams
<1>. QED BY <1>1, <1>4, <1>5

-----------------------------------------------------------------------------
(* Good readers, and how they are put together.                            *)

\* The readers that can be relied on.
Good(V) == {rd \in Readers(V) : Steady(rd)}

\* Reading a thing and then what it calls for.
After(rd, next) == [s \in Wire!Bytes |->
                      IF rd[s].ok THEN next[rd[s].v][rd[s].rest] ELSE Wire!Lost]

\* Reading nothing.
Yield(x) == [s \in Wire!Bytes |-> Wire!Got(x, s)]

\* Reading a thing that is in T.
Filter(rd, T) == [s \in Wire!Bytes |-> IF rd[s].ok /\ rd[s].v \in T THEN rd[s] ELSE Wire!Lost]

\* Reading nothing is right.
LEMMA YieldIs ==
  ASSUME Byte \in Nat \ {0, 1}, NEW V, NEW x \in V
  PROVE  Yield(x) \in Good(V) /\ Undoes(Yield(x), x, << >>)
<1>1. \A s \in Wire!Bytes : Yield(x)[s] = Wire!Got(x, s)
  BY DEF Yield
<1>2. Yield(x) \in Readers(V)
  BY <1>1, ReadIs DEF Yield, Readers
<1>3. Steady(Yield(x))
  <2> SUFFICES ASSUME NEW s \in Wire!Bytes, NEW t \in Wire!Bytes
               PROVE  Yield(x)[s \o t] = Wire!Got(Yield(x)[s].v, Yield(x)[s].rest \o t)
    BY DEF Steady
  <2>1. s \o t \in Wire!Bytes
    BY Streams
  <2>2. Yield(x)[s \o t] = Wire!Got(x, s \o t) /\ Yield(x)[s] = Wire!Got(x, s)
    BY <2>1, <1>1
  <2>. QED BY <2>2, ReadIs
<1>4. Undoes(Yield(x), x, << >>)
  <2>1. \A t \in Wire!Bytes : << >> \o t = t
    BY Streams
  <2>. QED BY <2>1, <1>1 DEF Undoes
<1>. QED BY <1>2, <1>3, <1>4 DEF Good

\* Good readers, one after the other.
LEMMA AfterIs ==
  ASSUME Byte \in Nat \ {0, 1}, NEW V, NEW U, NEW rd \in Good(V), NEW next \in [V -> Good(U)]
  PROVE  After(rd, next) \in Good(U)
<1> DEFINE f == After(rd, next)
<1>1. /\ \A s \in Wire!Bytes : rd[s] \in Reads(V)
      /\ \A x \in V : \A s \in Wire!Bytes : next[x][s] \in Reads(U)
      /\ Steady(rd) /\ \A x \in V : Steady(next[x])
  BY DEF Good, Readers
<1>2. \A s \in Wire!Bytes : f[s] = IF rd[s].ok THEN next[rd[s].v][rd[s].rest] ELSE Wire!Lost
  BY DEF After
<1>3. \A s \in Wire!Bytes : f[s] \in Reads(U)
  <2> SUFFICES ASSUME NEW s \in Wire!Bytes PROVE f[s] \in Reads(U)
    OBVIOUS
  <2>1. rd[s].ok => rd[s].v \in V /\ rd[s].rest \in Wire!Bytes
    BY <1>1, ReadIs
  <2>2. Wire!Lost \in Reads(U)
    BY ReadIs
  <2> HIDE DEF f
  <2>. QED BY <1>1, <1>2, <2>1, <2>2
<1>4. f \in Readers(U)
  BY <1>3 DEF After, Readers
<1>5. Steady(f)
  <2> SUFFICES ASSUME NEW s \in Wire!Bytes, NEW t \in Wire!Bytes, f[s].ok
               PROVE  f[s \o t] = Wire!Got(f[s].v, f[s].rest \o t)
    BY DEF Steady
  <2> HIDE DEF f
  <2>1. rd[s].ok
    BY <1>2, ReadIs
  <2> DEFINE x == rd[s].v
             u == rd[s].rest
  <2>2. x \in V /\ u \in Wire!Bytes
    BY <1>1, <2>1, ReadIs
  <2>3. s \o t \in Wire!Bytes /\ u \o t \in Wire!Bytes
    BY <2>2, Streams
  <2>4. rd[s \o t] = Wire!Got(x, u \o t)
    BY <1>1, <2>1 DEF Steady
  <2>5. f[s] = next[x][u]
    BY <1>2, <2>1
  <2> HIDE DEF x, u
  <2>6. f[s \o t] = next[x][u \o t]
    BY <1>2, <2>3, <2>4, ReadIs
  <2>7. next[x][u \o t] = Wire!Got(next[x][u].v, next[x][u].rest \o t)
    <3>1. Steady(next[x]) /\ next[x][u].ok
      BY <1>1, <2>2, <2>5
    <3>. QED BY <3>1, <2>2 DEF Steady
  <2>. QED BY <2>5, <2>6, <2>7
<1>. QED BY <1>4, <1>5 DEF Good

\* What they take for a value.
LEMMA AfterUndoes ==
  ASSUME Byte \in Nat \ {0, 1}, NEW V, NEW rd, NEW next, NEW x, NEW y,
         NEW w \in Wire!Bytes, NEW z \in Wire!Bytes,
         Undoes(rd, x, w), Undoes(next[x], y, z)
  PROVE  Undoes(After(rd, next), y, w \o z)
<1> DEFINE f == After(rd, next)
<1>1. \A s \in Wire!Bytes : f[s] = IF rd[s].ok THEN next[rd[s].v][rd[s].rest] ELSE Wire!Lost
  BY DEF After
<1> HIDE DEF f
<1>2. ASSUME NEW t \in Wire!Bytes PROVE f[(w \o z) \o t] = Wire!Got(y, t)
  <2>1. z \o t \in Wire!Bytes /\ w \o (z \o t) \in Wire!Bytes /\ (w \o z) \o t = w \o (z \o t)
    BY Streams
  <2>2. rd[w \o (z \o t)] = Wire!Got(x, z \o t)
    BY <2>1 DEF Undoes
  <2>3. f[w \o (z \o t)] = next[x][z \o t]
    BY <2>1, <2>2, <1>1, ReadIs
  <2>4. next[x][z \o t] = Wire!Got(y, t)
    BY DEF Undoes
  <2>. QED BY <2>1, <2>3, <2>4
<1>. QED BY <1>2 DEF Undoes, f

\* A good reader that is more particular.
LEMMA FilterIs ==
  ASSUME NEW V, NEW rd \in Good(V), NEW T
  PROVE  /\ Filter(rd, T) \in Good(V \cap T)
         /\ \A x \in T, w \in Wire!Bytes : Undoes(rd, x, w) => Undoes(Filter(rd, T), x, w)
<1> DEFINE f == Filter(rd, T)
<1>1. (\A s \in Wire!Bytes : rd[s] \in Reads(V)) /\ Steady(rd)
  BY DEF Good, Readers
<1>2. \A s \in Wire!Bytes : f[s] = IF rd[s].ok /\ rd[s].v \in T THEN rd[s] ELSE Wire!Lost
  BY DEF Filter
<1>3. ASSUME NEW s \in Wire!Bytes PROVE f[s] \in Reads(V \cap T)
  <2> HIDE DEF f
  <2>1. CASE rd[s].ok /\ rd[s].v \in T
    <3>1. rd[s] = Wire!Got(rd[s].v, rd[s].rest) /\ rd[s].v \in V \cap T
              /\ rd[s].rest \in Wire!Bytes
      BY <1>1, <2>1, ReadIs
    <3>2. Wire!Got(rd[s].v, rd[s].rest) \in Reads(V \cap T)
      BY <3>1, ReadIs
    <3>. QED BY <3>1, <3>2, <2>1, <1>2
  <2>2. CASE ~(rd[s].ok /\ rd[s].v \in T)
    <3>1. f[s] = Wire!Lost
      BY <2>2, <1>2
    <3>. QED BY <3>1, ReadIs
  <2>. QED BY <2>1, <2>2
<1>4. f \in Readers(V \cap T)
  BY <1>3 DEF Filter, Readers
<1>5. Steady(f)
  <2> SUFFICES ASSUME NEW s \in Wire!Bytes, NEW t \in Wire!Bytes, f[s].ok
               PROVE  f[s \o t] = Wire!Got(f[s].v, f[s].rest \o t)
    BY DEF Steady
  <2> HIDE DEF f
  <2>1. rd[s].ok /\ rd[s].v \in T /\ f[s] = rd[s]
    BY <1>2, ReadIs
  <2>2. rd[s].rest \in Wire!Bytes
    BY <1>1, <2>1, ReadIs
  <2>3. s \o t \in Wire!Bytes /\ rd[s].rest \o t \in Wire!Bytes
    BY <2>2, Streams, <1>1 DEF Wire!Bytes
  <2>4. rd[s \o t] = Wire!Got(rd[s].v, rd[s].rest \o t)
    BY <1>1, <2>1 DEF Steady
  <2>. QED BY <1>2, <2>1, <2>3, <2>4, ReadIs
<1>6. ASSUME NEW x \in T, NEW w \in Wire!Bytes, Undoes(rd, x, w), NEW t \in Wire!Bytes
      PROVE  f[w \o t] = Wire!Got(x, t)
  <2> HIDE DEF f
  <2>1. w \o t \in Wire!Bytes
    BY DEF Wire!Bytes
  <2>2. rd[w \o t] = Wire!Got(x, t)
    BY <1>6 DEF Undoes
  <2>. QED BY <1>2, <2>1, <2>2, ReadIs
<1>. QED BY <1>4, <1>5, <1>6 DEF Good, Undoes

\* Reading a thing n times.
Repeat(n, rd) == [s \in Wire!Bytes |-> Wire!Times(s, n, rd)]

\* Lists of n things.
Lists(n, V) == {xs \in Seq(V) : Len(xs) = n}

\* A good reader, n times.
LEMMA RepeatIs ==
  ASSUME Byte \in Nat \ {0, 1}, NEW V, NEW rd \in Good(V), NEW n \in Nat
  PROVE  Repeat(n, rd) \in Good(Lists(n, V))
<1> DEFINE f == Repeat(n, rd)
           D == Lists(n, V)
<1>1. rd \in Readers(V) /\ Steady(rd)
  BY DEF Good
<1>2. \A s \in Wire!Bytes : f[s] = Wire!Times(s, n, rd)
  BY DEF Repeat
<1>3. ASSUME NEW s \in Wire!Bytes PROVE f[s] \in Reads(D)
  <2> DEFINE x == Wire!Times(s, n, rd)
  <2>1. x \in Reads(Seq(V)) /\ (x.ok => Len(x.v) = n)
    BY <1>1, TimesIs, TimesLen
  <2> HIDE DEF x
  <2>2. CASE x.ok
    <3>1. x = Wire!Got(x.v, x.rest) /\ x.v \in Seq(V) /\ x.rest \in Wire!Bytes
      BY <2>1, <2>2, ReadIs
    <3>2. x.v \in D
      BY <3>1, <2>1, <2>2 DEF Lists
    <3> HIDE DEF D
    <3>3. Wire!Got(x.v, x.rest) \in Reads(D)
      BY <3>1, <3>2, ReadIs
    <3>. QED BY <3>1, <3>3, <1>2 DEF x
  <2>3. CASE ~x.ok
    <3>1. x = Wire!Lost
      BY <2>1, <2>3 DEF Reads
    <3>. QED BY <3>1, <1>2, ReadIs DEF x
  <2>. QED BY <2>2, <2>3
<1>4. f \in Readers(D)
  BY <1>3 DEF Repeat, Readers
<1>5. Steady(f)
  <2> SUFFICES ASSUME NEW s \in Wire!Bytes, NEW t \in Wire!Bytes, f[s].ok
               PROVE  f[s \o t] = Wire!Got(f[s].v, f[s].rest \o t)
    BY DEF Steady
  <2>1. s \o t \in Wire!Bytes
    BY Streams
  <2> HIDE DEF f
  <2>2. Wire!Times(s \o t, n, rd)
          = Wire!Got(Wire!Times(s, n, rd).v, Wire!Times(s, n, rd).rest \o t)
    BY <1>1, <1>2, TimesSteady
  <2>. QED BY <1>2, <2>1, <2>2
<1>. QED BY <1>4, <1>5 DEF Good

\* The first k and the next.
LEMMA CutNext ==
  ASSUME NEW V, NEW xs \in Seq(V), NEW k \in Nat, k + 1 <= Len(xs)
  PROVE  Append(Cut(xs, k), xs[k + 1]) = Cut(xs, k + 1)
<1> DEFINE a == Cut(xs, k)
           b == Cut(xs, k + 1)
           c == Append(a, xs[k + 1])
<1>1. a \in Seq(V) /\ Len(a) = k /\ \A i \in 1..k : a[i] = xs[i]
  BY DEF Cut
<1>2. b \in Seq(V) /\ Len(b) = k + 1 /\ \A i \in 1..k + 1 : b[i] = xs[i]
  BY DEF Cut
<1> HIDE DEF a, b
<1>3. xs[k + 1] \in V
  OBVIOUS
<1>4. c \in Seq(V) /\ Len(c) = k + 1 /\ c[k + 1] = xs[k + 1] /\ \A i \in 1..k : c[i] = a[i]
  BY <1>1, <1>3
<1>5. \A i \in 1..k + 1 : c[i] = b[i]
  <2>1. \A i \in 1..k + 1 : i \in 1..k \/ i = k + 1
    OBVIOUS
  <2>. QED BY <2>1, <1>1, <1>2, <1>4
<1> HIDE DEF c
<1>. QED BY <1>2, <1>4, <1>5 DEF a, b, c

\* A list that was written thing by thing is read so.
LEMMA RepeatUndoes ==
  ASSUME Byte \in Nat \ {0, 1}, NEW V, NEW rd \in Good(V), NEW xs \in Seq(V), NEW ws,
         \A i \in 1..Len(xs) : ws[i] \in Wire!Bytes /\ Undoes(rd, xs[i], ws[i])
  PROVE  /\ Wire!FlattenSeq(Cut(ws, Len(xs))) \in Wire!Bytes
         /\ Undoes(Repeat(Len(xs), rd), xs, Wire!FlattenSeq(Cut(ws, Len(xs))))
<1> DEFINE n == Len(xs)
           F(k) == Wire!FlattenSeq(Cut(ws, k))
           P(k) == \A t \in Wire!Bytes : Wire!Times(F(k) \o t, k, rd) = Wire!Got(Cut(xs, k), t)
           S == {k \in Nat : k <= n => P(k)}
<1>1. rd \in Readers(V) /\ n \in Nat
  BY DEF Good
<1>2. /\ F(0) = << >> /\ \A k \in 0..n : F(k) \in Wire!Bytes
      /\ \A k \in 1..n : F(k) = F(k - 1) \o ws[k]
  BY <1>1, FlatIs
<1> HIDE DEF F
<1>3. P(0)
  <2>1. Cut(xs, 0) = << >>
    BY DEF Cut
  <2>2. \A t \in Wire!Bytes : F(0) \o t = t
    BY <1>2, Streams
  <2>. QED BY <2>1, <2>2, <1>1, TimesIs
<1>4. ASSUME NEW k \in Nat, k \in S PROVE k + 1 \in S
  <2> SUFFICES ASSUME k + 1 <= n, NEW t \in Wire!Bytes
               PROVE  Wire!Times(F(k + 1) \o t, k + 1, rd) = Wire!Got(Cut(xs, k + 1), t)
    OBVIOUS
  <2>1. P(k) /\ k \in 0..n /\ k + 1 \in 1..n /\ (k + 1) - 1 = k
    BY <1>1, <1>4
  <2> DEFINE w == ws[k + 1]
  <2>2. w \in Wire!Bytes /\ Undoes(rd, xs[k + 1], w)
    BY <2>1
  <2>3. F(k + 1) = F(k) \o w /\ F(k) \in Wire!Bytes
    BY <2>1, <1>2
  <2> HIDE DEF w
  <2>4. w \o t \in Wire!Bytes /\ F(k) \o (w \o t) \in Wire!Bytes
        /\ (F(k) \o w) \o t = F(k) \o (w \o t)
    BY <2>2, <2>3, Streams
  <2>5. Wire!Times(F(k) \o (w \o t), k, rd) = Wire!Got(Cut(xs, k), w \o t)
    BY <2>1, <2>4
  <2>6. rd[w \o t] = Wire!Got(xs[k + 1], t)
    BY <2>2 DEF Undoes
  <2>7. Wire!Times(F(k) \o (w \o t), k + 1, rd)
          = OnceMore(rd, Wire!Times(F(k) \o (w \o t), k, rd))
    BY <1>1, <2>4, TimesIs
  <2>8. OnceMore(rd, Wire!Got(Cut(xs, k), w \o t))
          = Wire!Got(Append(Cut(xs, k), xs[k + 1]), t)
    BY <2>6, ReadIs DEF OnceMore, Wire!More
  <2>9. Append(Cut(xs, k), xs[k + 1]) = Cut(xs, k + 1)
    BY CutNext
  <2>. QED BY <2>3, <2>4, <2>5, <2>7, <2>8, <2>9
<1>5. Nat \subseteq S
  <2> HIDE DEF S
  <2>1. 0 \in S
    BY <1>3 DEF S
  <2>. QED BY <2>1, <1>4, NatInduct
<1>6. P(n)
  BY <1>1, <1>5
<1>7. Cut(xs, n) = xs
  BY DEF Cut
<1>8. \A t \in Wire!Bytes : Repeat(n, rd)[F(n) \o t] = Wire!Got(xs, t)
  <2>1. \A t \in Wire!Bytes : F(n) \o t \in Wire!Bytes
    <3>1. F(n) \in Wire!Bytes
      BY <1>1, <1>2
    <3> DEFINE u == F(n)
    <3>2. u \in Wire!Bytes
      BY <3>1
    <3> HIDE DEF u
    <3>3. \A t \in Wire!Bytes : u \o t \in Wire!Bytes
      BY <3>2, Streams
    <3>. QED BY <3>3 DEF u
  <2>. QED BY <2>1, <1>6, <1>7 DEF Repeat
<1>9. F(n) \in Wire!Bytes
  BY <1>1, <1>2
<1>. QED BY <1>8, <1>9 DEF Undoes, F

\* Its bytes are at least as many as those of its things.
LEMMA FlatLong ==
  ASSUME Byte \in Nat \ {0, 1}, NEW n \in Nat, NEW ws, NEW least \in Nat,
         \A i \in 1..n : ws[i] \in Wire!Bytes /\ Len(ws[i]) >= least
  PROVE  Len(Wire!FlattenSeq(Cut(ws, n))) >= n * least
<1> DEFINE F(k) == Wire!FlattenSeq(Cut(ws, k))
           S == {k \in Nat : k <= n => Len(F(k)) >= k * least}
<1>1. /\ F(0) = << >> /\ \A k \in 0..n : F(k) \in Wire!Bytes
      /\ \A k \in 1..n : F(k) = F(k - 1) \o ws[k]
  BY FlatIs
<1> HIDE DEF F
<1>2. 0 \in S
  <2>1. 0 * least = 0 /\ Len(<< >>) = 0
    OBVIOUS
  <2>. QED BY <2>1, <1>1
<1>3. ASSUME NEW k \in Nat, k \in S PROVE k + 1 \in S
  <2> SUFFICES ASSUME k + 1 <= n PROVE Len(F(k + 1)) >= (k + 1) * least
    OBVIOUS
  <2>1. k \in 0..n /\ k + 1 \in 1..n /\ (k + 1) - 1 = k /\ Len(F(k)) >= k * least
    BY <1>3
  <2>2. F(k + 1) = F(k) \o ws[k + 1] /\ F(k) \in Wire!Bytes /\ ws[k + 1] \in Wire!Bytes
        /\ Len(ws[k + 1]) >= least
    BY <2>1, <1>1
  <2>3. Len(F(k + 1)) = Len(F(k)) + Len(ws[k + 1]) /\ Len(F(k)) \in Nat
            /\ Len(ws[k + 1]) \in Nat
    BY <2>2, Streams
  <2>4. (k + 1) * least = k * least + least /\ k * least \in Int
    OBVIOUS
  <2> DEFINE m == k * least
  <2> HIDE DEF m
  <2>. QED BY <2>1, <2>2, <2>3, <2>4 DEF m
<1>4. Nat \subseteq S
  <2> HIDE DEF S
  <2>. QED BY <1>2, <1>3, NatInduct
<1>. QED BY <1>4 DEF F

\* Reading a number of n bytes.
Digits(n) == [s \in Wire!Bytes |-> Wire!Number(s, n)]

\* Reading n things, if there can be as many.
Allow(least, rd, n) == [t \in Wire!Bytes |->
                          IF n > MaxCount \/ n > Len(t) \div least THEN Wire!Lost
                          ELSE Wire!Times(t, n, rd)]

\* Reading how many things there are and the things.
Enlist(least, rd) == [s \in Wire!Bytes |-> Wire!Counted(s, least, rd)]

\* A number is read from the bytes that are written for it.
LEMMA DigitsAre ==
  ASSUME Byte \in Nat \ {0, 1}, NEW n \in Nat
  PROVE  /\ Digits(n) \in Good(Nat)
         /\ \A v \in 0..Wire!Size(n) - 1 :
              /\ Wire!Num(v, n) \in Wire!Bytes /\ Len(Wire!Num(v, n)) = n
              /\ Undoes(Digits(n), v, Wire!Num(v, n))
<1>1. \A s \in Wire!Bytes : Digits(n)[s] = Wire!Number(s, n)
  BY DEF Digits
<1>2. Digits(n) \in Readers(Nat)
  BY NumberReadIs DEF Digits, Readers
<1>3. Steady(Digits(n))
  <2> SUFFICES ASSUME NEW s \in Wire!Bytes, NEW t \in Wire!Bytes, Digits(n)[s].ok
               PROVE  Digits(n)[s \o t] = Wire!Got(Digits(n)[s].v, Digits(n)[s].rest \o t)
    BY DEF Steady
  <2>1. s \o t \in Wire!Bytes
    BY Streams
  <2>. QED BY <1>1, <2>1, NumberSteady
<1>4. ASSUME NEW v \in 0..Wire!Size(n) - 1
      PROVE  /\ Wire!Num(v, n) \in Wire!Bytes /\ Len(Wire!Num(v, n)) = n
             /\ Undoes(Digits(n), v, Wire!Num(v, n))
  <2>1. v \in Nat
    BY ScalesAre
  <2>2. Wire!Num(v, n) \in Wire!Bytes /\ Len(Wire!Num(v, n)) = n
    BY <2>1, NumIs
  <2>3. \A t \in Wire!Bytes : Wire!Num(v, n) \o t \in Wire!Bytes
    BY <2>2, Streams
  <2>. QED BY <1>1, <2>2, <2>3, NumberUndoes DEF Undoes
<1>. QED BY <1>2, <1>3, <1>4 DEF Good

\* A longer stream has room for as many.
LEMMA RoomFor ==
  ASSUME NEW a \in Nat, NEW b \in Nat, NEW least \in Nat \ {0}, NEW n \in Nat
  PROVE  /\ n <= a \div least => n <= (a + b) \div least
         /\ n * least <= a => n <= a \div least
<1> DEFINE Holds(x) == n <= x \div least
<1>1. ASSUME NEW x \in Nat PROVE n <= x \div least <=> n * least <= x
  <2> DEFINE q == x \div least
             r == x % least
  <2>1. q \in Int /\ r \in Int /\ x = q * least + r /\ 0 <= r /\ r < least
    BY DivMod
  <2> HIDE DEF q, r
  <2> DEFINE m == n * least
             p == q * least
  <2>2. m \in Int /\ p \in Int /\ m = least * n /\ p = least * q
    BY <2>1, Products
  <2>3. CASE n <= q
    <3>1. least * n <= least * q
      BY <2>1, <2>3, Monotone
    <3> HIDE DEF m, p
    <3>2. p <= x
      BY <2>1, <2>2 DEF p
    <3>. QED BY <2>2, <2>3, <3>1, <3>2 DEF q, m
  <2>4. CASE ~(n <= q)
    <3>1. q + 1 <= n /\ q + 1 \in Int
      BY <2>1, <2>4
    <3>2. least * (q + 1) <= least * n
      BY <2>1, <3>1, Monotone
    <3>3. least * (q + 1) = least * q + least
      BY <2>1, Products
    <3> HIDE DEF m, p
    <3>4. x < p + least /\ p + least <= m
      BY <2>1, <2>2, <3>2, <3>3 DEF p
    <3>. QED BY <2>1, <2>2, <2>4, <3>4 DEF q, m
  <2>. QED BY <2>3, <2>4
<1>. QED BY <1>1

\* A good reader, as often as there may be room for.
LEMMA AllowIs ==
  ASSUME Byte \in Nat \ {0, 1}, NEW V, NEW rd \in Good(V), NEW n \in Nat,
         NEW least \in Nat \ {0}
  PROVE  Allow(least, rd, n) \in Good(Seq(V))
<1> DEFINE f == Allow(least, rd, n)
           g == Repeat(n, rd)
           Room(t) == ~(n > MaxCount) /\ n <= Len(t) \div least
<1>1. g \in Readers(Lists(n, V)) /\ Steady(g)
          /\ \A t \in Wire!Bytes : g[t] = Wire!Times(t, n, rd)
  BY RepeatIs DEF Good, Repeat
<1>2. \A t \in Wire!Bytes : f[t] = IF Room(t) THEN g[t] ELSE Wire!Lost
  <2>1. ASSUME NEW t \in Wire!Bytes
        PROVE  n > Len(t) \div least <=> ~(n <= Len(t) \div least)
    <3>1. Len(t) \div least \in Int
      BY Streams, DivMod
    <3>. QED BY <3>1
  <2>. QED BY <2>1, <1>1 DEF Allow
<1> HIDE DEF g
<1>3. ASSUME NEW t \in Wire!Bytes PROVE f[t] \in Reads(Seq(V))
  <2>1. g[t] \in Reads(Lists(n, V))
    BY <1>1 DEF Readers
  <2>2. Reads(Lists(n, V)) \subseteq Reads(Seq(V))
    BY DEF Reads, Lists
  <2> HIDE DEF f, Room
  <2>. QED BY <1>2, <2>1, <2>2, ReadIs
<1>4. f \in Readers(Seq(V))
  BY <1>3 DEF Allow, Readers
<1>5. Steady(f)
  <2> SUFFICES ASSUME NEW s \in Wire!Bytes, NEW t \in Wire!Bytes, f[s].ok
               PROVE  f[s \o t] = Wire!Got(f[s].v, f[s].rest \o t)
    BY DEF Steady
  <2> HIDE DEF f
  <2>1. Room(s) /\ f[s] = g[s]
    <3> HIDE DEF Room
    <3>. QED BY <1>2, ReadIs
  <2>2. s \o t \in Wire!Bytes /\ Len(s \o t) = Len(s) + Len(t) /\ Len(s) \in Nat
            /\ Len(t) \in Nat
    BY Streams
  <2>3. Room(s \o t)
    BY <2>1, <2>2, RoomFor
  <2> HIDE DEF Room
  <2>4. f[s \o t] = g[s \o t]
    BY <1>2, <2>2, <2>3
  <2>. QED BY <2>1, <2>4, <1>1 DEF Steady
<1>. QED BY <1>4, <1>5 DEF Good

\* Lists are counted, and read from what is written for them.
LEMMA EnlistIs ==
  ASSUME Byte \in Nat \ {0, 1}, Wide \in Nat, NEW V, NEW rd \in Good(V),
         NEW least \in Nat \ {0}
  PROVE  Enlist(least, rd) \in Good(Seq(V))
<1> DEFINE next == [n \in Nat |-> Allow(least, rd, n)]
<1>1. next \in [Nat -> Good(Seq(V))]
  BY AllowIs
<1>2. Digits(Wide) \in Good(Nat)
  BY DigitsAre
<1>3. After(Digits(Wide), next) \in Good(Seq(V))
  <2> HIDE DEF next
  <2>. QED BY <1>1, <1>2, AfterIs
<1>4. Enlist(least, rd) = After(Digits(Wide), next)
  <2> SUFFICES ASSUME NEW s \in Wire!Bytes
               PROVE  Enlist(least, rd)[s] = After(Digits(Wide), next)[s]
    BY DEF Enlist, After
  <2> DEFINE x == Wire!Number(s, Wide)
  <2>1. x \in Reads(Nat) /\ Digits(Wide)[s] = x
    BY NumberReadIs DEF Digits
  <2>2. Enlist(least, rd)[s] =
          IF x.ok THEN IF x.v > MaxCount \/ x.v > Len(x.rest) \div least THEN Wire!Lost
                       ELSE Wire!Times(x.rest, x.v, rd)
          ELSE Wire!Lost
    BY DEF Enlist, Wire!Counted, Wire!Then
  <2>3. After(Digits(Wide), next)[s] = IF x.ok THEN next[x.v][x.rest] ELSE Wire!Lost
    BY <2>1 DEF After
  <2> HIDE DEF x
  <2>4. x.ok => x.v \in Nat /\ x.rest \in Wire!Bytes
    BY <2>1, ReadIs
  <2>5. ASSUME x.ok
        PROVE  next[x.v][x.rest]
                 = IF x.v > MaxCount \/ x.v > Len(x.rest) \div least THEN Wire!Lost
                   ELSE Wire!Times(x.rest, x.v, rd)
    BY <2>4, <2>5 DEF Allow
  <2>. QED BY <2>2, <2>3, <2>5
<1>. QED BY <1>3, <1>4

\* The same for what is written.
LEMMA EnlistUndoes ==
  ASSUME Byte \in Nat \ {0, 1}, Wide \in Nat, MaxCount \in Nat, MaxCount < Wire!Size(Wide),
         NEW V, NEW rd \in Good(V), NEW least \in Nat \ {0},
         NEW xs \in Seq(V), Len(xs) <= MaxCount, NEW ws,
         \A i \in 1..Len(xs) :
           ws[i] \in Wire!Bytes /\ Len(ws[i]) >= least /\ Undoes(rd, xs[i], ws[i]),
         NEW w, w = Wire!Num(Len(xs), Wide) \o Wire!FlattenSeq(Cut(ws, Len(xs)))
  PROVE  w \in Wire!Bytes /\ Len(w) >= Wide /\ Undoes(Enlist(least, rd), xs, w)
<1> DEFINE n == Len(xs)
           a == Wire!Num(n, Wide)
           b == Wire!FlattenSeq(Cut(ws, n))
<1>1. n \in Nat /\ n \in 0..Wire!Size(Wide) - 1
  <2>1. Scales(Wide) \in [0..Wide -> Nat] /\ Wire!Size(Wide) = Scales(Wide)[Wide]
    BY ScalesAre
  <2>2. Wire!Size(Wide) \in Nat
    BY <2>1
  <2>. QED BY <2>2
<1>2. a \in Wire!Bytes /\ Len(a) = Wide /\ Undoes(Digits(Wide), n, a)
  BY <1>1, DigitsAre
<1>3. b \in Wire!Bytes /\ Undoes(Repeat(n, rd), xs, b)
  BY RepeatUndoes
<1>4. Len(b) >= n * least
  BY <1>1, FlatLong
<1>5. w = a \o b
  OBVIOUS
<1> HIDE DEF a, b
<1>6. w \in Wire!Bytes /\ Len(w) >= Wide
  <2>1. a \o b \in Wire!Bytes /\ Len(a \o b) = Len(a) + Len(b) /\ Len(b) \in Nat
    BY <1>2, <1>3, Streams
  <2>. QED BY <2>1, <1>2, <1>5
<1>7. ASSUME NEW t \in Wire!Bytes PROVE Enlist(least, rd)[w \o t] = Wire!Got(xs, t)
  <2> DEFINE u == b \o t
  <2>1. u \in Wire!Bytes /\ Len(u) = Len(b) + Len(t) /\ Len(b) \in Nat /\ Len(t) \in Nat
        /\ a \o u \in Wire!Bytes /\ w \o t = a \o u
    <3>1. Associates(a, b, t)
      BY <1>2, <1>3, ThreeStreams
    <3>2. u \in Wire!Bytes /\ Len(u) = Len(b) + Len(t) /\ Len(b) \in Nat /\ Len(t) \in Nat
      BY <1>3, Streams
    <3>3. w \o t = a \o u
      BY <1>5, <3>1 DEF Associates
    <3> HIDE DEF u
    <3>. QED BY <1>2, <3>2, <3>3, Streams
  <2>2. Wire!Number(a \o u, Wide) = Wire!Got(n, u)
    BY <1>2, <2>1 DEF Undoes, Digits
  <2>3. Wire!Times(u, n, rd) = Wire!Got(xs, t)
    BY <1>3, <2>1 DEF Undoes, Repeat
  <2> HIDE DEF u
  <2>4. n <= Len(u) \div least /\ Len(u) \div least \in Int
    <3>1. n * least <= Len(b) /\ n * least \in Int
      BY <1>1, <1>4, <2>1
    <3> DEFINE m == n * least
    <3> HIDE DEF m
    <3> DEFINE l == Len(u)
    <3>2. n * least <= l /\ l \in Nat
      BY <3>1, <2>1 DEF m
    <3> HIDE DEF n, l
    <3>3. n <= l \div least
      BY <1>1, <3>2, RoomFor
    <3>4. l \div least \in Int
      BY <3>2, DivMod
    <3>. QED BY <3>3, <3>4 DEF l
  <2> DEFINE x == Wire!Number(a \o u, Wide)
  <2>5. Enlist(least, rd)[a \o u] =
          IF x.ok THEN IF x.v > MaxCount \/ x.v > Len(x.rest) \div least THEN Wire!Lost
                       ELSE Wire!Times(x.rest, x.v, rd)
          ELSE Wire!Lost
    BY <2>1 DEF Enlist, Wire!Counted, Wire!Then
  <2>6. x.ok /\ x.v = n /\ x.rest = u
    BY <2>2, ReadIs
  <2> HIDE DEF x, n
  <2>7. Enlist(least, rd)[a \o u] = Wire!Times(u, n, rd)
    <3>1. ~(n > MaxCount) /\ ~(n > Len(u) \div least)
      BY <2>4, <1>1 DEF n
    <3>. QED BY <2>5, <2>6, <3>1
  <2>. QED BY <2>1, <2>3, <2>7
<1>. QED BY <1>6, <1>7 DEF Undoes

-----------------------------------------------------------------------------
(* Bytes, words, points and elements of the field.                         *)

\* A reader of more is a reader of these.
LEMMA GoodWider == ASSUME NEW U, NEW V, V \subseteq U PROVE Good(V) \subseteq Good(U)
<1>1. Reads(V) \subseteq Reads(U)
  BY DEF Reads
<1> SUFFICES ASSUME NEW rd \in Good(V) PROVE rd \in Good(U)
  OBVIOUS
<1>2. rd \in [Wire!Bytes -> Reads(V)] /\ Steady(rd)
  BY DEF Good, Readers
<1>3. rd \in [Wire!Bytes -> Reads(U)]
  BY <1>1, <1>2
<1>. QED BY <1>2, <1>3 DEF Good, Readers

\* A byte is written as itself.
LEMMA ByteIs ==
  ASSUME Byte \in Nat \ {0, 1}
  PROVE  /\ Wire!ReadByte = Digits(1) /\ Wire!ReadByte \in Good(Nat)
         /\ \A x \in 0..Byte - 1 : <<x>> \in Wire!Bytes /\ Len(<<x>>) = 1
                                   /\ Undoes(Wire!ReadByte, x, <<x>>)
<1>1. Wire!ReadByte = Digits(1)
  BY DEF Wire!ReadByte, Digits
<1>2. Wire!Size(1) = Byte
  <2>1. 1 \in Nat /\ 1 \in 1..1 /\ 1 - 1 = 0
    OBVIOUS
  <2>2. /\ Scales(1)[0] = 1 /\ \A k \in 1..1 : Scales(1)[k] = Byte * Scales(1)[k - 1]
        /\ Wire!Size(1) = Scales(1)[1]
    BY <2>1, ScalesAre
  <2>3. Scales(1)[1] = Byte * Scales(1)[0]
    BY <2>1, <2>2
  <2>. QED BY <2>2, <2>3
<1>3. ASSUME NEW x \in 0..Byte - 1 PROVE Wire!Num(x, 1) = <<x>>
  <2> DEFINE w == Wire!Num(x, 1)
  <2>1. x \in Nat /\ 1 \in Nat /\ 1 \in 1..1 /\ 1 - 1 = 0
    OBVIOUS
  <2>2. w \in Wire!Bytes /\ Len(w) = 1
            /\ \A i \in 1..1 : w[i] = Wire!Shifts(x, 1)[i - 1] % Byte
    BY <2>1, NumIs
  <2>3. Wire!Shifts(x, 1)[0] = x
    BY <2>1, ShiftsAre
  <2>4. x % Byte = x
    OBVIOUS
  <2>5. w[1] = x
    BY <2>1, <2>2, <2>3, <2>4
  <2> HIDE DEF w
  <2>. QED BY <2>2, <2>5 DEF Wire!Bytes, w
<1>4. 1 \in Nat
  OBVIOUS
<1>. QED BY <1>1, <1>2, <1>3, <1>4, DigitsAre

\* A word.
LEMMA WordIs ==
  ASSUME Byte \in Nat \ {0, 1}, Wide \in Nat
  PROVE  /\ Wire!ReadWord = Digits(Wide) /\ Wire!ReadWord \in Good(Nat)
         /\ \A v \in 0..Wire!Size(Wide) - 1 :
              /\ Wire!Num(v, Wide) \in Wire!Bytes /\ Len(Wire!Num(v, Wide)) = Wide
              /\ Undoes(Wire!ReadWord, v, Wire!Num(v, Wide))
<1>1. Wire!ReadWord = Digits(Wide)
  BY DEF Wire!ReadWord, Digits
<1>. QED BY <1>1, DigitsAre

\* A point, a scalar.
LEMMA PointIs ==
  ASSUME Byte \in Nat \ {0, 1}
  PROVE  /\ Wire!ReadPoint = Filter(Wire!ReadByte, Points)
         /\ Wire!ReadScalar = Filter(Wire!ReadByte, CanonicalScalars)
         /\ Wire!ReadPoint \in Good(Nat \cap Points)
         /\ Wire!ReadScalar \in Good(Nat \cap CanonicalScalars)
         /\ \A x \in Points \cap (0..Byte - 1) : Undoes(Wire!ReadPoint, x, <<x>>)
         /\ \A x \in CanonicalScalars \cap (0..Byte - 1) : Undoes(Wire!ReadScalar, x, <<x>>)
<1>1. Wire!ReadPoint = Filter(Wire!ReadByte, Points)
  BY DEF Wire!ReadPoint, Wire!Must, Filter
<1>2. Wire!ReadScalar = Filter(Wire!ReadByte, CanonicalScalars)
  BY DEF Wire!ReadScalar, Wire!Must, Filter
<1>3. ASSUME NEW T
      PROVE  /\ Filter(Wire!ReadByte, T) \in Good(Nat \cap T)
             /\ \A x \in T \cap (0..Byte - 1) : Undoes(Filter(Wire!ReadByte, T), x, <<x>>)
  BY ByteIs, FilterIs
<1>. QED BY <1>1, <1>2, <1>3

\* The elements of the field that can be written, and those that can be read.
Fps == [lo : 0..Wire!Size(Wide) - 1, hi : 0..Wire!Half - 1]
FpsRead == [lo : Nat, hi : {b % Wire!Half : b \in Nat}]

\* Low word, then high.
FpHigh(lo) == [hi \in Nat |-> Yield([lo |-> lo, hi |-> hi % Wire!Half])]
FpLow == [lo \in Nat |-> After(Wire!ReadWord, FpHigh(lo))]

\* Reading both.
LEMMA FpUnfolds ==
  ASSUME Byte \in Nat \ {0, 1}, Wide \in Nat
  PROVE  Wire!ReadFp = After(Wire!ReadWord, FpLow)
<1> SUFFICES ASSUME NEW s \in Wire!Bytes
             PROVE  Wire!ReadFp[s] = After(Wire!ReadWord, FpLow)[s]
  BY DEF Wire!ReadFp, After
<1> DEFINE a == Wire!ReadWord[s]
           b == Wire!ReadWord[a.rest]
           x == [lo |-> a.v, hi |-> b.v % Wire!Half]
<1>1. Wire!ReadFp[s] =
          IF a.ok THEN IF b.ok THEN Wire!Got(x, b.rest) ELSE Wire!Lost ELSE Wire!Lost
  BY DEF Wire!ReadFp, Wire!Then
<1>2. \A t \in Wire!Bytes : Wire!ReadWord[t] \in Reads(Nat)
  BY WordIs DEF Good, Readers
<1>3. After(Wire!ReadWord, FpLow)[s] = IF a.ok THEN FpLow[a.v][a.rest] ELSE Wire!Lost
  BY DEF After
<1>4. ASSUME a.ok
      PROVE  FpLow[a.v][a.rest] = IF b.ok THEN FpHigh(a.v)[b.v][b.rest] ELSE Wire!Lost
  <2>1. a.v \in Nat /\ a.rest \in Wire!Bytes
    BY <1>2, <1>4, ReadIs
  <2>. QED BY <2>1 DEF FpLow, After
<1>5. ASSUME a.ok, b.ok PROVE FpHigh(a.v)[b.v][b.rest] = Wire!Got(x, b.rest)
  <2>1. a.rest \in Wire!Bytes
    BY <1>2, <1>5, ReadIs
  <2>2. b.v \in Nat /\ b.rest \in Wire!Bytes
    BY <1>2, <1>5, <2>1, ReadIs
  <2>. QED BY <2>2 DEF FpHigh, Yield
<1> HIDE DEF a, b, x
<1>. QED BY <1>1, <1>3, <1>4, <1>5

\* Elements are read as they were written.
LEMMA FpIs ==
  ASSUME Byte \in Nat \ {0, 1}, Wide \in Nat
  PROVE  /\ Wire!ReadFp \in Good(FpsRead)
         /\ \A x \in Fps : /\ x \in FpsRead /\ Wire!WriteFp(x) \in Wire!Bytes
                           /\ Len(Wire!WriteFp(x)) = 2 * Wide
                           /\ Undoes(Wire!ReadFp, x, Wire!WriteFp(x))
<1>1. \A lo \in Nat : FpHigh(lo) \in [Nat -> Good(FpsRead)]
  <2> SUFFICES ASSUME NEW lo \in Nat, NEW hi \in Nat
               PROVE  Yield([lo |-> lo, hi |-> hi % Wire!Half]) \in Good(FpsRead)
    BY DEF FpHigh
  <2> DEFINE x == [lo |-> lo, hi |-> hi % Wire!Half]
  <2>1. x \in FpsRead
    BY DEF FpsRead
  <2> HIDE DEF x
  <2>2. Yield(x) \in Good(FpsRead)
    BY <2>1, YieldIs
  <2>. QED BY <2>2 DEF x
<1>2. \A lo \in Nat : After(Wire!ReadWord, FpHigh(lo)) \in Good(FpsRead)
  BY <1>1, WordIs, AfterIs
<1>3. FpLow \in [Nat -> Good(FpsRead)]
  BY <1>2 DEF FpLow
<1>4. Wire!ReadFp \in Good(FpsRead)
  BY <1>3, WordIs, AfterIs, FpUnfolds
<1>5. ASSUME NEW x \in Fps
      PROVE  /\ x \in FpsRead /\ Wire!WriteFp(x) \in Wire!Bytes
             /\ Len(Wire!WriteFp(x)) = 2 * Wide
             /\ Undoes(Wire!ReadFp, x, Wire!WriteFp(x))
  <2> DEFINE N == Wire!Size(Wide)
             H == Wire!Half
             u == Wire!Num(x.lo, Wide)
             v == Wire!Num(x.hi, Wide)
  <2>1. N \in Nat
    <3>1. Scales(Wide) \in [0..Wide -> Nat] /\ Wire!Size(Wide) = Scales(Wide)[Wide]
      BY ScalesAre
    <3>. QED BY <3>1
  <2>2. H = N \div 2
    BY DEF Wire!Half
  <2>3. x.lo \in 0..N - 1 /\ x.hi \in 0..H - 1 /\ x = [lo |-> x.lo, hi |-> x.hi]
    BY DEF Fps
  <2> HIDE DEF N, H
  <2>4. x.lo \in Nat /\ x.hi \in Nat /\ x.hi \in 0..N - 1 /\ x.hi % H = x.hi
    BY <2>1, <2>2, <2>3
  <2>5. x \in FpsRead
    <3>1. \E b \in Nat : x.hi = b % H
      BY <2>4
    <3>. QED BY <2>3, <2>4, <3>1 DEF FpsRead, H
  <2>6. /\ u \in Wire!Bytes /\ Len(u) = Wide /\ Undoes(Wire!ReadWord, x.lo, u)
        /\ v \in Wire!Bytes /\ Len(v) = Wide /\ Undoes(Wire!ReadWord, x.hi, v)
    BY <2>3, <2>4, WordIs DEF N
  <2>7. Wire!WriteFp(x) = u \o v
    BY <2>4 DEF Wire!WriteFp, H
  <2> HIDE DEF u, v
  <2>8. u \o v \in Wire!Bytes /\ Len(u \o v) = 2 * Wide
    <3>1. u \o v \in Wire!Bytes /\ Len(u \o v) = Len(u) + Len(v)
      BY <2>6, Streams
    <3>. QED BY <2>6, <3>1
  <2>9. Undoes(FpLow[x.lo], x, v)
    <3>1. FpHigh(x.lo)[x.hi] = Yield(x)
      BY <2>3, <2>4 DEF FpHigh, H
    <3>2. Undoes(Yield(x), x, << >>) /\ << >> \in Wire!Bytes /\ v \o << >> = v
      BY <2>6, YieldIs, Streams
    <3>3. Undoes(FpHigh(x.lo)[x.hi], x, << >>)
      BY <3>1, <3>2
    <3>4. Undoes(After(Wire!ReadWord, FpHigh(x.lo)), x, v \o << >>)
      BY <3>2, <3>3, <2>6, AfterUndoes
    <3>5. FpLow[x.lo] = After(Wire!ReadWord, FpHigh(x.lo))
      BY <2>4 DEF FpLow
    <3>. QED BY <3>2, <3>4, <3>5
  <2>10. Undoes(After(Wire!ReadWord, FpLow), x, u \o v)
    BY <2>6, <2>9, AfterUndoes
  <2>. QED BY <2>5, <2>7, <2>8, <2>10, FpUnfolds
<1>. QED BY <1>4, <1>5

-----------------------------------------------------------------------------
(* Lists.                                                                  *)

\* What a good reader returns, and what is read after it.
LEMMA AfterAt ==
  ASSUME NEW V, NEW rd \in Good(V), NEW s \in Wire!Bytes
  PROVE  /\ rd[s] \in Reads(V)
         /\ rd[s].ok => rd[s].v \in V /\ rd[s].rest \in Wire!Bytes
         /\ \A next : After(rd, next)[s]
                        = IF rd[s].ok THEN next[rd[s].v][rd[s].rest] ELSE Wire!Lost
<1>1. rd[s] \in Reads(V)
  BY DEF Good, Readers
<1>2. \A next : After(rd, next)[s] = IF rd[s].ok THEN next[rd[s].v][rd[s].rest] ELSE Wire!Lost
  BY DEF After
<1>. QED BY <1>1, <1>2, ReadIs

\* What the writer makes of a list is read as the list.
LEMMA ListUndoes ==
  ASSUME WireSizes, NEW V, NEW rd \in Good(V), NEW least \in Nat \ {0},
         NEW xs \in Seq(V), Len(xs) <= MaxCount,
         NEW ws, ws = [i \in DOMAIN xs |-> ws[i]],
         \A i \in 1..Len(xs) :
           ws[i] \in Wire!Bytes /\ Len(ws[i]) >= least /\ Undoes(rd, xs[i], ws[i]),
         NEW w, w = Wire!Num(Len(xs), Wide) \o Wire!FlattenSeq(ws)
  PROVE  w \in Wire!Bytes /\ Len(w) >= Wide /\ Undoes(Enlist(least, rd), xs, w)
<1>1. Cut(ws, Len(xs)) = ws
  BY DEF Cut
<1>2. Byte \in Nat \ {0, 1} /\ Wide \in Nat /\ MaxCount \in Nat /\ MaxCount < Wire!Size(Wide)
  BY DEF WireSizes
<1>3. w = Wire!Num(Len(xs), Wide) \o Wire!FlattenSeq(Cut(ws, Len(xs)))
  BY <1>1
<1>. QED BY <1>2, <1>3, EnlistUndoes

\* A list as it is written, from what is written for each of its things.
Listed(xs, write) ==
  Wire!Num(Len(xs), Wide) \o Wire!FlattenSeq([i \in DOMAIN xs |-> write[xs[i]]])

\* write makes of each thing in X at least so many bytes, which rd reads as the thing.
Writes(write, X, rd, V, least) ==
  /\ rd \in Good(V) /\ least \in Nat \ {0} /\ X \subseteq V /\ write \in [X -> Wire!Bytes]
  /\ \A x \in X : Len(write[x]) >= least /\ Undoes(rd, x, write[x])

\* What the writer makes of a list of things in X.
LEMMA ListIs ==
  ASSUME WireSizes, NEW V, NEW rd, NEW least, NEW X, NEW write, Writes(write, X, rd, V, least),
         NEW xs \in Seq(X), Len(xs) <= MaxCount
  PROVE  /\ xs \in Seq(V) /\ Listed(xs, write) \in Wire!Bytes /\ Len(Listed(xs, write)) >= Wide
         /\ Undoes(Enlist(least, rd), xs, Listed(xs, write))
<1> DEFINE ws == [i \in DOMAIN xs |-> write[xs[i]]]
           w == Listed(xs, write)
<1>0. /\ rd \in Good(V) /\ least \in Nat \ {0} /\ X \subseteq V /\ write \in [X -> Wire!Bytes]
      /\ \A x \in X : Len(write[x]) >= least /\ Undoes(rd, x, write[x])
  BY DEF Writes
<1>1. \A i \in 1..Len(xs) : xs[i] \in X /\ ws[i] = write[xs[i]]
  <2>1. \A i \in 1..Len(xs) : i \in DOMAIN xs /\ xs[i] \in X
    OBVIOUS
  <2>2. \A i \in DOMAIN xs : ws[i] = write[xs[i]]
    OBVIOUS
  <2> HIDE DEF ws
  <2>. QED BY <2>1, <2>2
<1>2. ws = [i \in DOMAIN xs |-> ws[i]]
  OBVIOUS
<1>3. w = Wire!Num(Len(xs), Wide) \o Wire!FlattenSeq(ws)
  BY DEF Listed
<1> HIDE DEF ws, w
<1>4. \A i \in 1..Len(xs) :
        ws[i] \in Wire!Bytes /\ Len(ws[i]) >= least /\ Undoes(rd, xs[i], ws[i])
  <2> SUFFICES ASSUME NEW i \in 1..Len(xs)
               PROVE  ws[i] \in Wire!Bytes /\ Len(ws[i]) >= least /\ Undoes(rd, xs[i], ws[i])
    OBVIOUS
  <2> DEFINE x == xs[i]
  <2>1. x \in X /\ ws[i] = write[x]
    BY <1>1
  <2> HIDE DEF x
  <2>2. write[x] \in Wire!Bytes /\ Len(write[x]) >= least /\ Undoes(rd, x, write[x])
    BY <1>0, <2>1
  <2>. QED BY <2>1, <2>2 DEF x
<1>5. xs \in Seq(V)
  BY <1>0
<1>6. w \in Wire!Bytes /\ Len(w) >= Wide /\ Undoes(Enlist(least, rd), xs, w)
  BY <1>0, <1>2, <1>3, <1>4, <1>5, ListUndoes
<1>. QED BY <1>5, <1>6 DEF w

\* Sigmas that can be written, and those that can be read.
SigmasRead == [bits : Nat, w : Seq(Nat)]
Sigmas == {x \in [bits : 0..MaxSigma, w : Seq(0..Wire!Size(Wide) - 1)] :
             Len(x.w) = Wire!SigmaWords(x.bits) /\ Len(x.w) <= MaxCount}

\* First the number of bits, then as many words as they need.
WordsFor(bits) == IF bits > MaxSigma THEN {}
                  ELSE {ws \in Seq(Nat) : Len(ws) = Wire!SigmaWords(bits)}
SigmaEnd(bits) == [ws \in Seq(Nat) |-> Yield([bits |-> bits, w |-> ws])]
SigmaRest(bits) == Filter(Enlist(Wide, Wire!ReadWord), WordsFor(bits))
SigmaStart == [bits \in Nat |-> After(SigmaRest(bits), SigmaEnd(bits))]

\* The words of a sigma.
LEMMA SigmaRestIs ==
  ASSUME WireSizes, NEW bits
  PROVE  SigmaRest(bits) \in Good(Seq(Nat)) /\ Enlist(Wide, Wire!ReadWord) \in Good(Seq(Nat))
<1>1. Byte \in Nat \ {0, 1} /\ Wide \in Nat \ {0}
  BY DEF WireSizes
<1>2. Enlist(Wide, Wire!ReadWord) \in Good(Seq(Nat))
  BY <1>1, WordIs, EnlistIs
<1>3. SigmaRest(bits) \in Good(Seq(Nat) \cap WordsFor(bits))
  BY <1>2, FilterIs DEF SigmaRest
<1>4. Good(Seq(Nat) \cap WordsFor(bits)) \subseteq Good(Seq(Nat))
  BY GoodWider
<1>. QED BY <1>2, <1>3, <1>4

\* Reading a sigma.
LEMMA SigmaUnfolds ==
  ASSUME WireSizes
  PROVE  Wire!ReadSigma = After(Wire!ReadWord, SigmaStart)
<1> SUFFICES ASSUME NEW s \in Wire!Bytes
             PROVE  Wire!ReadSigma[s] = After(Wire!ReadWord, SigmaStart)[s]
  BY DEF Wire!ReadSigma, After
<1>0. Byte \in Nat \ {0, 1} /\ Wide \in Nat /\ Wire!ReadWord \in Good(Nat)
  BY WordIs DEF WireSizes
<1> DEFINE a == Wire!ReadWord[s]
           l == Wire!Counted(a.rest, Wide, Wire!ReadWord)
           b == SigmaRest(a.v)[a.rest]
           c == IF l.ok /\ Len(l.v) = Wire!SigmaWords(a.v) THEN l ELSE Wire!Lost
           x == [bits |-> a.v, w |-> c.v]
           y == [bits |-> a.v, w |-> b.v]
<1>1. Wire!ReadSigma[s] =
        IF a.ok THEN IF a.v > MaxSigma THEN Wire!Lost
                     ELSE IF c.ok THEN Wire!Got(x, c.rest) ELSE Wire!Lost
        ELSE Wire!Lost
  BY DEF Wire!ReadSigma, Wire!Then, Wire!Must
<1>2. /\ a.ok => a.v \in Nat /\ a.rest \in Wire!Bytes
      /\ After(Wire!ReadWord, SigmaStart)[s] =
          IF a.ok THEN SigmaStart[a.v][a.rest] ELSE Wire!Lost
  BY <1>0, AfterAt
<1> SUFFICES ASSUME a.ok
             PROVE  SigmaStart[a.v][a.rest] =
                      IF a.v > MaxSigma THEN Wire!Lost
                      ELSE IF c.ok THEN Wire!Got(x, c.rest) ELSE Wire!Lost
  <2> HIDE DEF a, c, x
  <2>. QED BY <1>1, <1>2
<1>3. a.v \in Nat /\ a.rest \in Wire!Bytes
  BY <1>2
<1>4. l = Enlist(Wide, Wire!ReadWord)[a.rest]
  BY <1>3 DEF Enlist
<1>5. b = IF l.ok /\ l.v \in WordsFor(a.v) THEN l ELSE Wire!Lost
  BY <1>3, <1>4 DEF SigmaRest, Filter
<1>6. l.ok => l.v \in Seq(Nat)
  BY <1>3, <1>4, SigmaRestIs, AfterAt
<1> HIDE DEF l
<1>7. b = IF a.v > MaxSigma THEN Wire!Lost ELSE c
  <2> HIDE DEF a, b
  <2>1. l.ok => (l.v \in WordsFor(a.v) <=> ~(a.v > MaxSigma)
            /\ Len(l.v) = Wire!SigmaWords(a.v))
    BY <1>6 DEF WordsFor
  <2>. QED BY <1>5, <2>1
<1>8. SigmaStart[a.v][a.rest] = IF b.ok THEN SigmaEnd(a.v)[b.v][b.rest] ELSE Wire!Lost
  <2>1. SigmaStart[a.v] = After(SigmaRest(a.v), SigmaEnd(a.v))
    BY <1>3 DEF SigmaStart
  <2>. QED BY <2>1, <1>3, SigmaRestIs, AfterAt
<1>9. b.ok => SigmaEnd(a.v)[b.v][b.rest] = Wire!Got(y, b.rest)
  <2> SUFFICES ASSUME b.ok PROVE SigmaEnd(a.v)[b.v][b.rest] = Wire!Got(y, b.rest)
    OBVIOUS
  <2>1. b.v \in Seq(Nat) /\ b.rest \in Wire!Bytes
    BY <1>3, SigmaRestIs, AfterAt
  <2>. QED BY <2>1 DEF SigmaEnd, Yield
<1>10. CASE a.v > MaxSigma
  <2> HIDE DEF b, c
  <2>. QED BY <1>7, <1>8, <1>10, ReadIs
<1>11. CASE ~(a.v > MaxSigma)
  <2>1. b = c
    BY <1>7, <1>11
  <2>2. y = x
    BY <2>1
  <2> HIDE DEF a, b, c, x, y
  <2>. QED BY <1>8, <1>9, <1>11, <2>1, <2>2
<1>. QED BY <1>10, <1>11

\* The words of a sigma as they were written.
LEMMA SigmaWordsAre ==
  ASSUME WireSizes, NEW x \in Sigmas
  PROVE  LET v == Wire!List(x.w, Wire!WriteWord)
         IN v \in Wire!Bytes /\ Undoes(Enlist(Wide, Wire!ReadWord), x.w, v)
<1> DEFINE X == 0..Wire!Size(Wide) - 1
           write == [y \in X |-> Wire!Num(y, Wide)]
           xs == x.w
           v == Wire!List(xs, Wire!WriteWord)
           w == Listed(xs, write)
<1>1. Byte \in Nat \ {0, 1} /\ Wide \in Nat \ {0} /\ Wire!ReadWord \in Good(Nat)
  BY WordIs DEF WireSizes
<1>2. X \subseteq Nat
  <2>1. Scales(Wide) \in [0..Wide -> Nat] /\ Wire!Size(Wide) = Scales(Wide)[Wide]
    BY <1>1, ScalesAre
  <2>2. Wire!Size(Wide) \in Nat
    BY <1>1, <2>1
  <2>. QED BY <2>2
<1>3. xs \in Seq(X) /\ Len(xs) <= MaxCount
  BY DEF Sigmas
<1>4. v = w
  <2>1. \A i \in DOMAIN xs : xs[i] \in X
    <3> HIDE DEF xs, X
    <3>. QED BY <1>3
  <2>2. [i \in DOMAIN xs |-> Wire!Num(xs[i], Wide)] = [i \in DOMAIN xs |-> write[xs[i]]]
    <3> HIDE DEF xs, X
    <3>. QED BY <2>1
  <2>. QED BY <2>2 DEF Wire!List, Wire!All, Wire!WriteWord, Listed
<1>5. \A y \in X : /\ write[y] \in Wire!Bytes /\ Len(write[y]) = Wide
                   /\ Undoes(Wire!ReadWord, y, write[y])
  BY <1>1, WordIs
<1>6. write \in [X -> Wire!Bytes]
  BY <1>5
<1> HIDE DEF X, xs, v, write
<1>7. w \in Wire!Bytes /\ Undoes(Enlist(Wide, Wire!ReadWord), xs, w)
  <2>1. Writes(write, X, Wire!ReadWord, Nat, Wide)
    BY <1>1, <1>2, <1>5, <1>6 DEF Writes
  <2>. QED BY <1>3, <2>1, ListIs
<1> HIDE DEF w
<1>. QED BY <1>4, <1>7 DEF v, xs

\* Sigmas are read as they were written.
LEMMA SigmaIs ==
  ASSUME WireSizes
  PROVE  /\ Wire!ReadSigma \in Good(SigmasRead)
         /\ \A x \in Sigmas :
              LET w == Wire!Num(x.bits, Wide) \o Wire!List(x.w, Wire!WriteWord)
              IN x \in SigmasRead /\ w \in Wire!Bytes /\ Undoes(Wire!ReadSigma, x, w)
<1>0. Byte \in Nat \ {0, 1} /\ Wide \in Nat \ {0} /\ Wire!ReadWord \in Good(Nat)
      /\ MaxSigma \in Nat /\ MaxSigma < Wire!Size(Wide)
  BY WordIs DEF WireSizes
<1>1. \A bits \in Nat : SigmaEnd(bits) \in [Seq(Nat) -> Good(SigmasRead)]
  <2> SUFFICES ASSUME NEW bits \in Nat, NEW ws \in Seq(Nat)
               PROVE  Yield([bits |-> bits, w |-> ws]) \in Good(SigmasRead)
    BY DEF SigmaEnd
  <2> DEFINE x == [bits |-> bits, w |-> ws]
  <2>1. x \in SigmasRead
    BY DEF SigmasRead
  <2> HIDE DEF x
  <2>2. Yield(x) \in Good(SigmasRead)
    BY <1>0, <2>1, YieldIs
  <2>. QED BY <2>2 DEF x
<1>2. \A bits \in Nat : After(SigmaRest(bits), SigmaEnd(bits)) \in Good(SigmasRead)
  BY <1>0, <1>1, SigmaRestIs, AfterIs
<1>3. SigmaStart \in [Nat -> Good(SigmasRead)]
  BY <1>2 DEF SigmaStart
<1>4. Wire!ReadSigma \in Good(SigmasRead)
  BY <1>0, <1>3, AfterIs, SigmaUnfolds
<1>5. ASSUME NEW x \in Sigmas
      PROVE  LET w == Wire!Num(x.bits, Wide) \o Wire!List(x.w, Wire!WriteWord)
             IN x \in SigmasRead /\ w \in Wire!Bytes /\ Undoes(Wire!ReadSigma, x, w)
  <2> DEFINE N == Wire!Size(Wide)
             u == Wire!Num(x.bits, Wide)
             v == Wire!List(x.w, Wire!WriteWord)
  <2>1. x.bits \in 0..MaxSigma /\ x.w \in Seq(0..N - 1) /\ x = [bits |-> x.bits, w |-> x.w]
        /\ Len(x.w) = Wire!SigmaWords(x.bits) /\ Len(x.w) <= MaxCount
    BY DEF Sigmas
  <2>2. N \in Nat
    <3>1. Scales(Wide) \in [0..Wide -> Nat] /\ Wire!Size(Wide) = Scales(Wide)[Wide]
      BY <1>0, ScalesAre
    <3>. QED BY <1>0, <3>1
  <2>3. x.bits \in Nat /\ x.bits \in 0..N - 1 /\ x.w \in Seq(Nat)
    <3>1. 0..N - 1 \subseteq Nat
      BY <2>2
    <3> HIDE DEF N
    <3>. QED BY <1>0, <2>1, <2>2, <3>1 DEF N
  <2>4. x \in SigmasRead
    BY <2>1, <2>3 DEF SigmasRead
  <2>5. u \in Wire!Bytes /\ Undoes(Wire!ReadWord, x.bits, u)
    BY <1>0, <2>3, WordIs
  <2>6. v \in Wire!Bytes /\ Undoes(Enlist(Wide, Wire!ReadWord), x.w, v)
    BY SigmaWordsAre
  <2> HIDE DEF u, v
  <2>7. Undoes(SigmaStart[x.bits], x, v)
    <3>1. x.w \in WordsFor(x.bits)
      BY <1>0, <2>1, <2>3 DEF WordsFor
    <3>2. Undoes(SigmaRest(x.bits), x.w, v)
      BY <2>6, <3>1, SigmaRestIs, FilterIs DEF SigmaRest
    <3>3. SigmaEnd(x.bits)[x.w] = Yield(x)
      BY <2>1, <2>3 DEF SigmaEnd
    <3>4. Undoes(Yield(x), x, << >>) /\ << >> \in Wire!Bytes /\ v \o << >> = v
      BY <1>0, <2>6, YieldIs, Streams
    <3>5. Undoes(SigmaEnd(x.bits)[x.w], x, << >>)
      BY <3>3, <3>4
    <3>6. Undoes(After(SigmaRest(x.bits), SigmaEnd(x.bits)), x, v \o << >>)
      BY <1>0, <2>6, <3>2, <3>4, <3>5, AfterUndoes
    <3>7. SigmaStart[x.bits] = After(SigmaRest(x.bits), SigmaEnd(x.bits))
      BY <2>3 DEF SigmaStart
    <3>. QED BY <3>4, <3>6, <3>7
  <2>8. Undoes(After(Wire!ReadWord, SigmaStart), x, u \o v)
    BY <1>0, <2>5, <2>6, <2>7, AfterUndoes
  <2>9. u \o v \in Wire!Bytes
    BY <1>0, <2>5, <2>6, Streams
  <2>. QED BY <2>4, <2>8, <2>9, SigmaUnfolds DEF u, v
<1>. QED BY <1>4, <1>5

\* The last thing that is read makes the value.
LEMMA AfterYield ==
  ASSUME Byte \in Nat \ {0, 1}, NEW rd, NEW next, NEW x, NEW y, NEW w \in Wire!Bytes,
         Undoes(rd, x, w), next[x] = Yield(y)
  PROVE  Undoes(After(rd, next), y, w)
<1>1. y \in {y}
  OBVIOUS
<1>2. Undoes(Yield(y), y, << >>)
  BY <1>1, YieldIs
<1>3. << >> \in Wire!Bytes /\ w \o << >> = w
  BY Streams
<1>4. Undoes(next[x], y, << >>)
  BY <1>2
<1>5. Undoes(After(rd, next), y, w \o << >>)
  BY <1>3, <1>4, AfterUndoes
<1>. QED BY <1>3, <1>5

\* Two things.
LEMMA PairUndoes ==
  ASSUME Byte \in Nat \ {0, 1}, NEW V, NEW rd \in Good(V), NEW x \in V, NEW y \in V,
         NEW u \in Wire!Bytes, NEW v \in Wire!Bytes, Undoes(rd, x, u), Undoes(rd, y, v)
  PROVE  Undoes(Repeat(2, rd), <<x, y>>, u \o v)
<1> DEFINE xs == <<x, y>>
           ws == <<u, v>>
<1>1. xs \in Seq(V) /\ Len(xs) = 2 /\ xs[1] = x /\ xs[2] = y /\ ws[1] = u /\ ws[2] = v
  OBVIOUS
<1>2. \A i \in 1..2 : ws[i] \in Wire!Bytes /\ Undoes(rd, xs[i], ws[i])
  <2>1. \A i \in 1..2 : i = 1 \/ i = 2
    OBVIOUS
  <2> HIDE DEF xs, ws
  <2>. QED BY <1>1, <2>1
<1> HIDE DEF xs, ws
<1>3. Undoes(Repeat(2, rd), xs, Wire!FlattenSeq(Cut(ws, 2)))
  BY <1>1, <1>2, RepeatUndoes
<1>4. Wire!FlattenSeq(Cut(ws, 2)) = u \o v
  <2>1. 2 \in Nat /\ 1 \in 1..2 /\ 2 \in 1..2 /\ 2 - 1 = 1 /\ 1 - 1 = 0
    OBVIOUS
  <2>2. /\ Wire!FlattenSeq(Cut(ws, 0)) = << >>
        /\ \A k \in 1..2 : Wire!FlattenSeq(Cut(ws, k)) =
            Wire!FlattenSeq(Cut(ws, k - 1)) \o ws[k]
    BY <1>2, FlatIs
  <2>3. << >> \o u = u
    BY Streams
  <2>. QED BY <1>1, <2>1, <2>2, <2>3
<1>. QED BY <1>3, <1>4 DEF xs

\* Bytes are read one by one.
LEMMA BytesUndo ==
  ASSUME Byte \in Nat \ {0, 1}, NEW V, NEW rd \in Good(V), NEW xs \in Seq(V),
         xs \in Wire!Bytes, \A i \in 1..Len(xs) : Undoes(rd, xs[i], <<xs[i]>>)
  PROVE  /\ Undoes(Repeat(Len(xs), rd), xs, xs)
         /\ Wire!FlattenSeq([i \in DOMAIN xs |-> <<xs[i]>>]) = xs
<1> DEFINE n == Len(xs)
           ws == [i \in DOMAIN xs |-> <<xs[i]>>]
           F(k) == Wire!FlattenSeq(Cut(ws, k))
           S == {k \in Nat : k <= n => F(k) = Cut(xs, k)}
<1>1. n \in Nat /\ \A i \in 1..n : xs[i] \in V /\ xs[i] \in 0..Byte - 1 /\ ws[i] = <<xs[i]>>
  <2>1. \A i \in 1..n : xs[i] \in V /\ ws[i] = <<xs[i]>>
    OBVIOUS
  <2>. QED BY <2>1, Streams
<1>2. \A i \in 1..n : ws[i] \in Wire!Bytes
  <2> HIDE DEF ws, n
  <2>. QED BY <1>1, Streams
<1>3. Cut(ws, n) = ws /\ Cut(xs, n) = xs
  BY DEF Cut
<1> HIDE DEF ws
<1>4. F(0) = << >> /\ \A k \in 1..n : F(k) = F(k - 1) \o ws[k]
  BY <1>1, <1>2, FlatIs
<1> HIDE DEF F
<1>5. 0 \in S
  <2>1. Cut(xs, 0) = << >>
    BY DEF Cut
  <2>. QED BY <2>1, <1>4
<1>6. ASSUME NEW k \in Nat, k \in S PROVE k + 1 \in S
  <2> SUFFICES ASSUME k + 1 <= n PROVE F(k + 1) = Cut(xs, k + 1)
    OBVIOUS
  <2>1. k + 1 \in 1..n /\ (k + 1) - 1 = k /\ F(k) = Cut(xs, k)
    BY <1>6, <1>1
  <2>2. F(k + 1) = Cut(xs, k) \o <<xs[k + 1]>>
    BY <2>1, <1>1, <1>4
  <2>3. Append(Cut(xs, k), xs[k + 1]) = Cut(xs, k + 1)
    BY CutNext
  <2>4. Cut(xs, k) \o <<xs[k + 1]>> = Append(Cut(xs, k), xs[k + 1])
    <3>1. Cut(xs, k) \in Seq(V) /\ xs[k + 1] \in V
      BY <2>1, <1>1 DEF Cut
    <3>. QED BY <3>1
  <2>. QED BY <2>2, <2>3, <2>4
<1>7. Nat \subseteq S
  <2> HIDE DEF S
  <2>. QED BY <1>5, <1>6, NatInduct
<1>8. Wire!FlattenSeq(ws) = xs
  <2>1. F(n) = Cut(xs, n)
    BY <1>1, <1>7
  <2>. QED BY <2>1, <1>3 DEF F
<1>9. Undoes(Repeat(n, rd), xs, Wire!FlattenSeq(Cut(ws, n)))
  <2>1. \A i \in 1..n : Undoes(rd, xs[i], ws[i])
    BY <1>1
  <2>. QED BY <2>1, <1>2, RepeatUndoes
<1>. QED BY <1>3, <1>8, <1>9 DEF ws

\* A list of points that is written is read.
LEMMA PointListIs ==
  ASSUME WireSizes
  PROVE  /\ Enlist(1, Wire!ReadPoint) \in Good(Seq(Nat \cap Points))
         /\ \A ps \in Seq(Points) : Len(ps) <= MaxCount =>
              LET w == Wire!List(ps, Wire!WriteOne)
              IN w \in Wire!Bytes /\ Undoes(Enlist(1, Wire!ReadPoint), ps, w)
<1>0. Byte \in Nat \ {0, 1} /\ Wide \in Nat \ {0} /\ Points \subseteq 0..Byte - 1
      /\ Wire!ReadPoint \in Good(Nat \cap Points) /\ 1 \in Nat \ {0}
  BY PointIs DEF WireSizes
<1>1. Enlist(1, Wire!ReadPoint) \in Good(Seq(Nat \cap Points))
  BY <1>0, EnlistIs
<1> DEFINE write == [p \in Points |-> <<p>>]
<1>2. Points \subseteq Nat \cap Points /\ \A p \in Points : p \in Points \cap (0..Byte - 1)
  BY <1>0
<1>3. \A p \in Points : /\ write[p] \in Wire!Bytes /\ Len(write[p]) >= 1
                        /\ Undoes(Wire!ReadPoint, p, write[p])
  <2> SUFFICES ASSUME NEW p \in Points
               PROVE  <<p>> \in Wire!Bytes /\ Len(<<p>>) >= 1
                   /\ Undoes(Wire!ReadPoint, p, <<p>>)
    OBVIOUS
  <2>. QED BY <1>0, <1>2, PointIs, Streams
<1>4. write \in [Points -> Wire!Bytes]
  BY <1>3
<1>5. ASSUME NEW ps \in Seq(Points), Len(ps) <= MaxCount
      PROVE  LET w == Wire!List(ps, Wire!WriteOne)
             IN w \in Wire!Bytes /\ Undoes(Enlist(1, Wire!ReadPoint), ps, w)
  <2> DEFINE v == Wire!List(ps, Wire!WriteOne)
             w == Listed(ps, write)
  <2>1. v = w
    <3>1. \A i \in DOMAIN ps : ps[i] \in Points
      OBVIOUS
    <3>2. [i \in DOMAIN ps |-> <<ps[i]>>] = [i \in DOMAIN ps |-> write[ps[i]]]
      BY <3>1
    <3>. QED BY <3>2 DEF Wire!List, Wire!All, Wire!WriteOne, Listed
  <2> HIDE DEF write, v, w
  <2>2. w \in Wire!Bytes /\ Undoes(Enlist(1, Wire!ReadPoint), ps, w)
    <3>1. Writes(write, Points, Wire!ReadPoint, Nat \cap Points, 1)
      BY <1>0, <1>2, <1>3, <1>4 DEF Writes
    <3>2. Listed(ps, write) \in Wire!Bytes
              /\ Undoes(Enlist(1, Wire!ReadPoint), ps, Listed(ps, write))
      BY <1>5, <3>1, ListIs
    <3>. QED BY <3>2 DEF w
  <2>. QED BY <2>1, <2>2 DEF v
<1>. QED BY <1>1, <1>5

-----------------------------------------------------------------------------
(* Layers.                                                                 *)

\* The end of a layer.
Coms == [com : Nat, pc : Seq(Nat \cap Points)]
PointsOf(version) == IF version = 1 THEN Yield(<< >>) ELSE Enlist(1, Wire!ReadPoint)
ComEnd(com) == [pc \in Seq(Nat \cap Points) |-> Yield([com |-> com, pc |-> pc])]
ComStart(version) == [com \in Nat |-> After(PointsOf(version), ComEnd(com))]
Ends(version) == After(Wire!ReadByte, ComStart(version))

\* Reading it.
LEMMA EndsUnfold ==
  ASSUME WireSizes, NEW version, NEW s \in Wire!Bytes
  PROVE  /\ Ends(version) \in Good(Coms)
         /\ Wire!Commitments(s, version) = Ends(version)[s]
<1>0. Byte \in Nat \ {0, 1} /\ Wire!ReadByte \in Good(Nat)
  BY ByteIs DEF WireSizes
<1>1. PointsOf(version) \in Good(Seq(Nat \cap Points))
  <2>1. << >> \in Seq(Nat \cap Points)
    OBVIOUS
  <2>. QED BY <1>0, <2>1, YieldIs, PointListIs DEF PointsOf
<1>2. \A com \in Nat : ComEnd(com) \in [Seq(Nat \cap Points) -> Good(Coms)]
  <2> SUFFICES ASSUME NEW com \in Nat, NEW pc \in Seq(Nat \cap Points)
               PROVE  Yield([com |-> com, pc |-> pc]) \in Good(Coms)
    BY DEF ComEnd
  <2> DEFINE x == [com |-> com, pc |-> pc]
  <2>1. x \in Coms
    BY DEF Coms
  <2> HIDE DEF x
  <2>2. Yield(x) \in Good(Coms)
    BY <1>0, <2>1, YieldIs
  <2>. QED BY <2>2 DEF x
<1>3. \A com \in Nat : After(PointsOf(version), ComEnd(com)) \in Good(Coms)
  BY <1>0, <1>1, <1>2, AfterIs
<1>4. ComStart(version) \in [Nat -> Good(Coms)]
  BY <1>3 DEF ComStart
<1>5. Ends(version) \in Good(Coms)
  BY <1>0, <1>4, AfterIs DEF Ends
<1> DEFINE a == Wire!ReadByte[s]
           b == IF version = 1 THEN Wire!Got(<< >>, a.rest)
                ELSE Wire!Counted(a.rest, 1, Wire!ReadPoint)
           x == [com |-> a.v, pc |-> b.v]
<1>6. Wire!Commitments(s, version) =
        IF a.ok THEN IF b.ok THEN Wire!Got(x, b.rest) ELSE Wire!Lost ELSE Wire!Lost
  BY DEF Wire!Commitments, Wire!Then
<1>7. /\ a.ok => a.v \in Nat /\ a.rest \in Wire!Bytes
      /\ Ends(version)[s] = IF a.ok THEN ComStart(version)[a.v][a.rest] ELSE Wire!Lost
  BY <1>0, AfterAt DEF Ends
<1>8. ASSUME a.ok
      PROVE  ComStart(version)[a.v][a.rest] = IF b.ok THEN Wire!Got(x, b.rest) ELSE Wire!Lost
  <2>1. a.v \in Nat /\ a.rest \in Wire!Bytes
    BY <1>7, <1>8
  <2>2. b = PointsOf(version)[a.rest]
    BY <2>1 DEF PointsOf, Yield, Enlist
  <2>3. ComStart(version)[a.v] = After(PointsOf(version), ComEnd(a.v))
    BY <2>1 DEF ComStart
  <2>4. /\ b.ok => b.v \in Seq(Nat \cap Points) /\ b.rest \in Wire!Bytes
        /\ ComStart(version)[a.v][a.rest] =
            IF b.ok THEN ComEnd(a.v)[b.v][b.rest] ELSE Wire!Lost
    <3> HIDE DEF a, b
    <3>. QED BY <1>1, <2>1, <2>2, <2>3, AfterAt
  <2>5. b.ok => ComEnd(a.v)[b.v][b.rest] = Wire!Got(x, b.rest)
    <3> HIDE DEF a, b
    <3>. QED BY <2>4 DEF ComEnd, Yield
  <2> HIDE DEF a, b, x
  <2>. QED BY <2>4, <2>5
<1> HIDE DEF a, b, x
<1>. QED BY <1>5, <1>6, <1>7, <1>8

\* Layers that can be read.
BaseLayers == [rule : {0}, seed : Nat, com : Nat, pc : Seq(Nat)]
PairLayers == [rule : Nat \ {0}, pa : Nat, pb : Nat, com : Nat, pc : Seq(Nat)]
LayersRead == BaseLayers \cup PairLayers

\* A base layer: its seed, and the end.
BaseLayer(seed, c) == [rule |-> 0, seed |-> seed, com |-> c.com, pc |-> c.pc]
BaseEnd(seed) == [c \in Coms |-> Yield(BaseLayer(seed, c))]
BaseStart(version) == [seed \in Nat |-> After(Ends(version), BaseEnd(seed))]

\* A product: its parents, and the end.
PairLayer(rule, p, c) == [rule |-> rule, pa |-> p[1], pb |-> p[2], com |-> c.com, pc |-> c.pc]
PairEnd(rule, p) == [c \in Coms |-> Yield(PairLayer(rule, p, c))]
PairStart(rule, version) == [p \in Lists(2, Nat) |-> After(Ends(version), PairEnd(rule, p))]

\* Either, by the rule.
LayerOf(rule, version) ==
  IF rule = 0 THEN After(Wire!ReadWord, BaseStart(version))
  ELSE After(Repeat(2, Wire!ReadWord), PairStart(rule, version))
LayerStart(version) == [rule \in Nat |-> LayerOf(rule, version)]

\* All these are good.
LEMMA LayerParts ==
  ASSUME WireSizes, NEW version
  PROVE  /\ BaseStart(version) \in [Nat -> Good(LayersRead)]
         /\ \A rule \in Nat \ {0} : PairStart(rule, version) \in [Lists(2, Nat) -> Good(LayersRead)]
         /\ LayerStart(version) \in [Nat -> Good(LayersRead)]
         /\ Repeat(2, Wire!ReadWord) \in Good(Lists(2, Nat))
<1>0. /\ Byte \in Nat \ {0, 1} /\ Wire!ReadWord \in Good(Nat)
      /\ Repeat(2, Wire!ReadWord) \in Good(Lists(2, Nat)) /\ 0 \in Nat
  <2>1. Byte \in Nat \ {0, 1} /\ Wire!ReadWord \in Good(Nat) /\ 2 \in Nat
    BY WordIs DEF WireSizes
  <2>. QED BY <2>1, RepeatIs
<1>1. Ends(version) \in Good(Coms)
  <2>1. << >> \in Wire!Bytes
    BY <1>0, Streams
  <2>. QED BY <2>1, EndsUnfold
<1>2. \A c \in Coms : c.com \in Nat /\ c.pc \in Seq(Nat)
  BY DEF Coms
<1>3. \A seed \in Nat : BaseEnd(seed) \in [Coms -> Good(LayersRead)]
  <2>1. \A seed \in Nat, c \in Coms : BaseLayer(seed, c) \in LayersRead
    BY <1>2 DEF BaseLayer, LayersRead, BaseLayers
  <2>2. \A seed \in Nat, c \in Coms : Yield(BaseLayer(seed, c)) \in Good(LayersRead)
    BY <1>0, <2>1, YieldIs
  <2>. QED BY <2>2 DEF BaseEnd
<1>4. \A seed \in Nat : After(Ends(version), BaseEnd(seed)) \in Good(LayersRead)
  BY <1>0, <1>1, <1>3, AfterIs
<1>5. BaseStart(version) \in [Nat -> Good(LayersRead)]
  BY <1>4 DEF BaseStart
<1>6. ASSUME NEW rule \in Nat \ {0}
      PROVE  PairStart(rule, version) \in [Lists(2, Nat) -> Good(LayersRead)]
  <2>1. \A p \in Lists(2, Nat) : p[1] \in Nat /\ p[2] \in Nat
    <3> SUFFICES ASSUME NEW p \in Lists(2, Nat) PROVE p[1] \in Nat /\ p[2] \in Nat
      OBVIOUS
    <3>1. p \in Seq(Nat) /\ Len(p) = 2
      BY DEF Lists
    <3>. QED BY <3>1
  <2>2. \A p \in Lists(2, Nat), c \in Coms : PairLayer(rule, p, c) \in LayersRead
    BY <1>2, <2>1 DEF PairLayer, LayersRead, PairLayers
  <2>3. \A p \in Lists(2, Nat), c \in Coms : Yield(PairLayer(rule, p, c)) \in Good(LayersRead)
    BY <1>0, <2>2, YieldIs
  <2>4. \A p \in Lists(2, Nat) : PairEnd(rule, p) \in [Coms -> Good(LayersRead)]
    BY <2>3 DEF PairEnd
  <2>5. \A p \in Lists(2, Nat) : After(Ends(version), PairEnd(rule, p)) \in Good(LayersRead)
    BY <1>0, <1>1, <2>4, AfterIs
  <2>. QED BY <2>5 DEF PairStart
<1>7. \A rule \in Nat : LayerOf(rule, version) \in Good(LayersRead)
  <2>1. After(Wire!ReadWord, BaseStart(version)) \in Good(LayersRead)
    BY <1>0, <1>5, AfterIs
  <2>2. \A rule \in Nat \ {0} :
          After(Repeat(2, Wire!ReadWord), PairStart(rule, version)) \in Good(LayersRead)
    BY <1>0, <1>6, AfterIs
  <2>. QED BY <2>1, <2>2 DEF LayerOf
<1>. QED BY <1>0, <1>5, <1>6, <1>7 DEF LayerStart

\* Reading a layer.
LEMMA LayerUnfolds ==
  ASSUME WireSizes, NEW version
  PROVE  Wire!ReadLayer(version) = After(Wire!ReadByte, LayerStart(version))
<1> SUFFICES ASSUME NEW s \in Wire!Bytes
             PROVE  Wire!ReadLayer(version)[s] = After(Wire!ReadByte, LayerStart(version))[s]
  BY DEF Wire!ReadLayer, After
<1>0. Wire!ReadByte \in Good(Nat) /\ Wire!ReadWord \in Good(Nat)
  BY ByteIs, WordIs DEF WireSizes
<1> DEFINE a == Wire!ReadByte[s]
           b == Wire!ReadWord[a.rest]
           p == Wire!Times(a.rest, 2, Wire!ReadWord)
           c(u) == Wire!Commitments(u, version)
           base == [rule |-> a.v, seed |-> b.v, com |-> c(b.rest).v.com, pc |-> c(b.rest).v.pc]
           pair == [rule |-> a.v, pa |-> p.v[1], pb |-> p.v[2],
                    com |-> c(p.rest).v.com, pc |-> c(p.rest).v.pc]
<1>1. Wire!ReadLayer(version)[s] =
        IF a.ok THEN
          IF a.v = 0
          THEN IF b.ok THEN IF c(b.rest).ok THEN Wire!Got(base, c(b.rest).rest) ELSE Wire!Lost
               ELSE Wire!Lost
          ELSE IF p.ok THEN IF c(p.rest).ok THEN Wire!Got(pair, c(p.rest).rest) ELSE Wire!Lost
               ELSE Wire!Lost
        ELSE Wire!Lost
  BY DEF Wire!ReadLayer, Wire!Then
<1>2. /\ a.ok => a.v \in Nat /\ a.rest \in Wire!Bytes
      /\ After(Wire!ReadByte, LayerStart(version))[s]
           = IF a.ok THEN LayerStart(version)[a.v][a.rest] ELSE Wire!Lost
  BY <1>0, AfterAt
<1>3. \A u \in Wire!Bytes : c(u) = Ends(version)[u]
  BY EndsUnfold
<1>4. \A u \in Wire!Bytes : c(u).ok => c(u).v \in Coms /\ c(u).rest \in Wire!Bytes
  BY <1>3, EndsUnfold, AfterAt
<1> HIDE DEF c
<1>5. ASSUME a.ok, a.v = 0
      PROVE  LayerStart(version)[a.v][a.rest] =
               IF b.ok THEN IF c(b.rest).ok THEN Wire!Got(base, c(b.rest).rest) ELSE Wire!Lost
               ELSE Wire!Lost
  <2>1. a.v \in Nat /\ a.rest \in Wire!Bytes
    BY <1>2, <1>5
  <2>2. LayerStart(version)[a.v] = After(Wire!ReadWord, BaseStart(version))
    BY <2>1, <1>5 DEF LayerStart, LayerOf
  <2>3. /\ b.ok => b.v \in Nat /\ b.rest \in Wire!Bytes
        /\ After(Wire!ReadWord, BaseStart(version))[a.rest]
             = IF b.ok THEN BaseStart(version)[b.v][b.rest] ELSE Wire!Lost
    <3> HIDE DEF a
    <3>. QED BY <2>1, <1>0, AfterAt
  <2>4. ASSUME b.ok
        PROVE  BaseStart(version)[b.v][b.rest]
                 = IF c(b.rest).ok THEN Wire!Got(base, c(b.rest).rest) ELSE Wire!Lost
    <3> DEFINE u == b.rest
               x == c(u)
    <3>1. b.v \in Nat /\ u \in Wire!Bytes
      BY <2>3, <2>4
    <3>2. BaseStart(version)[b.v] = After(Ends(version), BaseEnd(b.v))
      BY <3>1 DEF BaseStart
    <3>3. /\ x.ok => x.v \in Coms /\ x.rest \in Wire!Bytes
          /\ After(Ends(version), BaseEnd(b.v))[u]
               = IF x.ok THEN BaseEnd(b.v)[x.v][x.rest] ELSE Wire!Lost
      <4> HIDE DEF b
      <4>. QED BY <3>1, <1>3, <1>4 DEF After
    <3>4. x.ok => BaseEnd(b.v)[x.v][x.rest] = Wire!Got(BaseLayer(b.v, x.v), x.rest)
      <4> HIDE DEF b, x
      <4>. QED BY <3>3 DEF BaseEnd, Yield
    <3>5. BaseLayer(b.v, x.v) = base
      BY <1>5 DEF BaseLayer
    <3> HIDE DEF b, x, base
    <3>. QED BY <3>2, <3>3, <3>4, <3>5 DEF x
  <2> HIDE DEF a, b, base
  <2>. QED BY <2>2, <2>3, <2>4
<1>6. ASSUME a.ok, a.v # 0
      PROVE  LayerStart(version)[a.v][a.rest] =
               IF p.ok THEN IF c(p.rest).ok THEN Wire!Got(pair, c(p.rest).rest) ELSE Wire!Lost
               ELSE Wire!Lost
  <2>1. a.v \in Nat /\ a.rest \in Wire!Bytes
    BY <1>2, <1>6
  <2>2. LayerStart(version)[a.v] = After(Repeat(2, Wire!ReadWord), PairStart(a.v, version))
    BY <2>1, <1>6 DEF LayerStart, LayerOf
  <2>3. p = Repeat(2, Wire!ReadWord)[a.rest]
    BY <2>1 DEF Repeat
  <2>4. /\ p.ok => p.v \in Lists(2, Nat) /\ p.rest \in Wire!Bytes
        /\ After(Repeat(2, Wire!ReadWord), PairStart(a.v, version))[a.rest]
             = IF p.ok THEN PairStart(a.v, version)[p.v][p.rest] ELSE Wire!Lost
    <3> HIDE DEF a, p
    <3>. QED BY <2>1, <2>3, LayerParts, AfterAt
  <2>5. ASSUME p.ok
        PROVE  PairStart(a.v, version)[p.v][p.rest]
                 = IF c(p.rest).ok THEN Wire!Got(pair, c(p.rest).rest) ELSE Wire!Lost
    <3> DEFINE u == p.rest
               x == c(u)
    <3>1. p.v \in Lists(2, Nat) /\ u \in Wire!Bytes
      BY <2>4, <2>5
    <3>2. PairStart(a.v, version)[p.v] = After(Ends(version), PairEnd(a.v, p.v))
      BY <3>1 DEF PairStart
    <3>3. /\ x.ok => x.v \in Coms /\ x.rest \in Wire!Bytes
          /\ After(Ends(version), PairEnd(a.v, p.v))[u]
               = IF x.ok THEN PairEnd(a.v, p.v)[x.v][x.rest] ELSE Wire!Lost
      <4> HIDE DEF p, a
      <4>. QED BY <3>1, <1>3, <1>4 DEF After
    <3>4. x.ok => PairEnd(a.v, p.v)[x.v][x.rest] = Wire!Got(PairLayer(a.v, p.v, x.v), x.rest)
      <4> HIDE DEF p, x, a
      <4>. QED BY <3>3 DEF PairEnd, Yield
    <3>5. PairLayer(a.v, p.v, x.v) = pair
      BY DEF PairLayer
    <3> HIDE DEF a, p, x, pair
    <3>. QED BY <3>2, <3>3, <3>4, <3>5 DEF x
  <2> HIDE DEF a, p, pair
  <2>. QED BY <2>2, <2>4, <2>5
<1> HIDE DEF a, b, p, base, pair
<1>. QED BY <1>1, <1>2, <1>5, <1>6

\* Layers that can be written.
Nums == 0..Wire!Size(Wide) - 1
PointSeqs == {ps \in Seq(Points) : Len(ps) <= MaxCount}
BaseWritten == [rule : {0}, seed : Nums, com : 0..Byte - 1, pc : PointSeqs]
PairWritten == [rule : 1..Byte - 1, pa : Nums, pb : Nums, com : 0..Byte - 1, pc : PointSeqs]
LayersWritten == BaseWritten \cup PairWritten

\* Words and points are numbers.
LEMMA NumsAre ==
  ASSUME WireSizes
  PROVE  /\ Byte \in Nat \ {0, 1} /\ Wide \in Nat \ {0} /\ Wire!Size(Wide) \in Nat
         /\ Nums \subseteq Nat /\ 0..Byte - 1 \subseteq Nat
         /\ Points = Nat \cap Points /\ PointSeqs \subseteq Seq(Nat \cap Points)
         /\ PointSeqs \subseteq Seq(Nat)
<1>1. Byte \in Nat \ {0, 1} /\ Wide \in Nat \ {0} /\ 0..Byte - 1 \subseteq Nat
      /\ Points \subseteq 0..Byte - 1
  BY DEF WireSizes
<1>2. Wire!Size(Wide) \in Nat
  <2>1. Scales(Wide) \in [0..Wide -> Nat] /\ Wire!Size(Wide) = Scales(Wide)[Wide]
    BY <1>1, ScalesAre
  <2>. QED BY <1>1, <2>1
<1>3. Nums \subseteq Nat
  BY <1>2 DEF Nums
<1>4. Points = Nat \cap Points
  BY <1>1
<1>5. PointSeqs \subseteq Seq(Nat \cap Points)
  BY <1>4 DEF PointSeqs
<1>6. Seq(Nat \cap Points) \subseteq Seq(Nat)
  OBVIOUS
<1>. QED BY <1>1, <1>2, <1>3, <1>4, <1>5, <1>6

\* The end of a layer, of this version.
LEMMA EndsUndo ==
  ASSUME WireSizes, NEW com \in 0..Byte - 1, NEW pc \in PointSeqs
  PROVE  LET w == <<com>> \o Wire!List(pc, Wire!WriteOne)
         IN w \in Wire!Bytes /\ Undoes(Ends(2), [com |-> com, pc |-> pc], w)
<1> DEFINE u == <<com>>
           v == Wire!List(pc, Wire!WriteOne)
           x == [com |-> com, pc |-> pc]
<1>1. Byte \in Nat \ {0, 1} /\ com \in Nat /\ pc \in Seq(Nat \cap Points)
  BY NumsAre
<1>2. u \in Wire!Bytes /\ Undoes(Wire!ReadByte, com, u)
  BY <1>1, ByteIs
<1>3. v \in Wire!Bytes /\ Undoes(Enlist(1, Wire!ReadPoint), pc, v)
  BY PointListIs DEF PointSeqs
<1>4. PointsOf(2) = Enlist(1, Wire!ReadPoint)
  BY DEF PointsOf
<1>5. ComEnd(com)[pc] = Yield(x)
  BY <1>1 DEF ComEnd
<1> HIDE DEF u, v, x
<1>6. Undoes(After(PointsOf(2), ComEnd(com)), x, v)
  BY <1>1, <1>3, <1>4, <1>5, AfterYield
<1>7. ComStart(2)[com] = After(PointsOf(2), ComEnd(com))
  BY <1>1 DEF ComStart
<1>8. Undoes(ComStart(2)[com], x, v)
  BY <1>6, <1>7
<1>9. Undoes(Ends(2), x, u \o v)
  BY <1>1, <1>2, <1>3, <1>8, AfterUndoes DEF Ends
<1>10. u \o v \in Wire!Bytes
  BY <1>1, <1>2, <1>3, Streams
<1>. QED BY <1>9, <1>10 DEF u, v, x

\* Four streams, one after the other.
LEMMA FourStreams ==
  ASSUME Byte \in Nat \ {0, 1}, NEW a \in Wire!Bytes, NEW b \in Wire!Bytes,
         NEW c \in Wire!Bytes, NEW d \in Wire!Bytes
  PROVE  /\ ((a \o b) \o c) \o d = a \o (b \o (c \o d))
         /\ a \o (b \o (c \o d)) \in Wire!Bytes
         /\ Len(a \o (b \o (c \o d))) >= Len(a) + Len(b)
<1>1. a \o b \in Wire!Bytes /\ c \o d \in Wire!Bytes /\ Len(c \o d) \in Nat
      /\ Len(a) \in Nat /\ Len(b) \in Nat
  BY Streams
<1>2. b \o (c \o d) \in Wire!Bytes /\ Len(b \o (c \o d)) = Len(b) + Len(c \o d)
  BY <1>1, Streams
<1>3. a \o (b \o (c \o d)) \in Wire!Bytes
      /\ Len(a \o (b \o (c \o d))) = Len(a) + Len(b \o (c \o d))
  BY <1>2, Streams
<1>4. Associates(a \o b, c, d) /\ Associates(a, b, c \o d)
  BY <1>1, ThreeStreams
<1>5. ((a \o b) \o c) \o d = a \o (b \o (c \o d))
  BY <1>4 DEF Associates
<1>6. Len(a \o (b \o (c \o d))) >= Len(a) + Len(b)
  BY <1>1, <1>2, <1>3
<1>. QED BY <1>3, <1>5, <1>6

\* Layers are read as they were written.
LEMMA LayerReadIs ==
  ASSUME WireSizes
  PROVE  /\ \A version : Wire!ReadLayer(version) \in Good(LayersRead)
         /\ \A l \in LayersWritten : /\ l \in LayersRead /\ Wire!WriteLayer(l) \in Wire!Bytes
                              /\ Len(Wire!WriteLayer(l)) >= Wide
                              /\ Undoes(Wire!ReadLayer(2), l, Wire!WriteLayer(l))
<1>0. Byte \in Nat \ {0, 1} /\ Byte > 3 /\ Wide \in Nat \ {0}
      /\ Wire!ReadByte \in Good(Nat) /\ Wire!ReadWord \in Good(Nat)
  BY ByteIs, WordIs DEF WireSizes
<1>1. ASSUME NEW version PROVE Wire!ReadLayer(version) \in Good(LayersRead)
  BY <1>0, LayerParts, LayerUnfolds, AfterIs
<1>2. ASSUME NEW l \in LayersWritten
      PROVE  /\ l \in LayersRead /\ Wire!WriteLayer(l) \in Wire!Bytes
             /\ Len(Wire!WriteLayer(l)) >= Wide
             /\ Undoes(Wire!ReadLayer(2), l, Wire!WriteLayer(l))
  <2> DEFINE a == <<l.rule>>
             b == IF l.rule = 0 THEN Wire!Num(l.seed, Wide)
                  ELSE Wire!Num(l.pa, Wide) \o Wire!Num(l.pb, Wide)
             c == <<l.com>>
             d == Wire!List(l.pc, Wire!WriteOne)
             e == [com |-> l.com, pc |-> l.pc]
  <2>1. Wire!WriteLayer(l) = ((a \o b) \o c) \o d
    BY DEF Wire!WriteLayer
  <2>2. l.rule \in 0..Byte - 1 /\ l.com \in 0..Byte - 1 /\ l.pc \in PointSeqs
    BY <1>0 DEF LayersWritten, BaseWritten, PairWritten
  <2>3. a \in Wire!Bytes /\ Len(a) = 1 /\ Undoes(Wire!ReadByte, l.rule, a)
    BY <1>0, <2>2, ByteIs
  <2>4. c \in Wire!Bytes /\ d \in Wire!Bytes
    <3>1. d \in Wire!Bytes
      BY <2>2, PointListIs DEF PointSeqs
    <3>. QED BY <3>1, <1>0, <2>2, Streams
  <2>5. c \o d \in Wire!Bytes /\ Undoes(Ends(2), e, c \o d)
    BY <2>2, EndsUndo
  <2>6. e \in Coms
    BY <2>2, NumsAre DEF Coms
  <2>7. e.com = l.com /\ e.pc = l.pc
    OBVIOUS
  <2>8. b \in Wire!Bytes /\ Len(b) >= Wide /\ Undoes(LayerOf(l.rule, 2), l, b \o (c \o d))
    <3>1. CASE l.rule = 0
      <4>1. l \in BaseWritten
        BY <3>1 DEF LayersWritten, PairWritten
      <4>2. l.seed \in Nums /\ l.seed \in Nat
        BY <4>1, NumsAre DEF BaseWritten
      <4>3. b = Wire!Num(l.seed, Wide)
        BY <3>1
      <4>4. l = BaseLayer(l.seed, e)
        BY <4>1 DEF BaseWritten, BaseLayer
      <4> HIDE DEF c, d, e, b
      <4>5. b \in Wire!Bytes /\ Len(b) = Wide /\ Undoes(Wire!ReadWord, l.seed, b)
        BY <1>0, <4>2, <4>3, WordIs DEF Nums
      <4>6. BaseEnd(l.seed)[e] = Yield(l)
        BY <2>6, <4>4 DEF BaseEnd
      <4>7. Undoes(After(Ends(2), BaseEnd(l.seed)), l, c \o d)
        BY <1>0, <2>5, <4>6, AfterYield
      <4>8. Undoes(BaseStart(2)[l.seed], l, c \o d)
        BY <4>2, <4>7 DEF BaseStart
      <4>9. Undoes(After(Wire!ReadWord, BaseStart(2)), l, b \o (c \o d))
        BY <1>0, <2>5, <4>5, <4>8, AfterUndoes
      <4>. QED BY <1>0, <3>1, <4>5, <4>9 DEF LayerOf
    <3>2. CASE l.rule # 0
      <4>1. l \in PairWritten
        BY <3>2 DEF LayersWritten, BaseWritten
      <4> DEFINE u == Wire!Num(l.pa, Wide)
                 v == Wire!Num(l.pb, Wide)
                 p == <<l.pa, l.pb>>
      <4>2. l.pa \in Nums /\ l.pb \in Nums /\ l.pa \in Nat /\ l.pb \in Nat
        BY <4>1, NumsAre DEF PairWritten
      <4>3. b = u \o v
        BY <3>2
      <4>4. l = PairLayer(l.rule, p, e)
        BY <4>1 DEF PairWritten, PairLayer
      <4>5. p \in Lists(2, Nat)
        BY <4>2 DEF Lists
      <4> HIDE DEF c, d, e, b
      <4>6. /\ u \in Wire!Bytes /\ Len(u) = Wide /\ Undoes(Wire!ReadWord, l.pa, u)
            /\ v \in Wire!Bytes /\ Len(v) = Wide /\ Undoes(Wire!ReadWord, l.pb, v)
        BY <1>0, <4>2, WordIs DEF Nums
      <4> HIDE DEF u, v
      <4>7. Undoes(Repeat(2, Wire!ReadWord), p, b)
        BY <1>0, <4>2, <4>3, <4>6, PairUndoes
      <4>8. b \in Wire!Bytes /\ Len(b) >= Wide
        <5>1. u \o v \in Wire!Bytes /\ Len(u \o v) = Len(u) + Len(v) /\ Len(v) \in Nat
          BY <1>0, <4>6, Streams
        <5>. QED BY <5>1, <1>0, <4>3, <4>6
      <4> HIDE DEF p
      <4>9. PairEnd(l.rule, p)[e] = Yield(l)
        BY <2>6, <4>4 DEF PairEnd
      <4>10. Undoes(After(Ends(2), PairEnd(l.rule, p)), l, c \o d)
        BY <1>0, <2>5, <4>9, AfterYield
      <4>11. Undoes(PairStart(l.rule, 2)[p], l, c \o d)
        BY <4>5, <4>10 DEF PairStart
      <4>12. Undoes(After(Repeat(2, Wire!ReadWord), PairStart(l.rule, 2)), l, b \o (c \o d))
        BY <1>0, <2>5, <4>7, <4>8, <4>11, AfterUndoes
      <4>. QED BY <3>2, <4>8, <4>12 DEF LayerOf
    <3>. QED BY <3>1, <3>2
  <2>9. l \in LayersRead
    <3>1. l \in BaseWritten => l \in BaseLayers
      BY NumsAre DEF BaseWritten, BaseLayers
    <3>2. l \in PairWritten => l \in PairLayers
      BY NumsAre DEF PairWritten, PairLayers
    <3>. QED BY <3>1, <3>2 DEF LayersWritten, LayersRead
  <2> HIDE DEF a, b, c, d, e
  <2>10. Undoes(LayerStart(2)[l.rule], l, b \o (c \o d))
    <3>1. l.rule \in Nat
      BY <2>2, NumsAre
    <3>. QED BY <3>1, <2>8 DEF LayerStart
  <2>11. b \o (c \o d) \in Wire!Bytes
    BY <1>0, <2>5, <2>8, Streams
  <2>12. Undoes(Wire!ReadLayer(2), l, a \o (b \o (c \o d)))
    BY <1>0, <2>3, <2>10, <2>11, LayerUnfolds, AfterUndoes
  <2>13. /\ ((a \o b) \o c) \o d = a \o (b \o (c \o d))
         /\ a \o (b \o (c \o d)) \in Wire!Bytes
         /\ Len(a \o (b \o (c \o d))) >= Len(a) + Len(b)
    BY <1>0, <2>3, <2>4, <2>8, FourStreams
  <2>14. Len(Wire!WriteLayer(l)) >= Wide
    <3>1. Len(a) \in Nat /\ Len(b) \in Nat /\ Len(a \o (b \o (c \o d))) \in Nat
      BY <1>0, <2>3, <2>8, <2>13, Streams
    <3>. QED BY <3>1, <1>0, <2>1, <2>8, <2>13
  <2>. QED BY <2>1, <2>9, <2>12, <2>13, <2>14
<1>. QED BY <1>1, <1>2

-----------------------------------------------------------------------------
(* Edges.                                                                  *)

\* Lists of elements of the field that can be written.
FpSeqs == {ws \in Seq(Fps) : Len(ws) <= MaxCount}

\* They are read as they were written.
LEMMA FpListIs ==
  ASSUME WireSizes
  PROVE  /\ Enlist(2 * Wide, Wire!ReadFp) \in Good(Seq(FpsRead))
         /\ FpSeqs \subseteq Seq(FpsRead)
         /\ \A xs \in FpSeqs :
              LET w == Wire!List(xs, Wire!WriteFp)
              IN w \in Wire!Bytes /\ Undoes(Enlist(2 * Wide, Wire!ReadFp), xs, w)
<1>0. Byte \in Nat \ {0, 1} /\ Wide \in Nat \ {0} /\ 2 * Wide \in Nat \ {0}
      /\ Wire!ReadFp \in Good(FpsRead)
  BY FpIs DEF WireSizes
<1>1. Enlist(2 * Wide, Wire!ReadFp) \in Good(Seq(FpsRead))
  BY <1>0, EnlistIs
<1>2. Fps \subseteq FpsRead
  BY <1>0, FpIs
<1>3. FpSeqs \subseteq Seq(FpsRead)
  BY <1>2 DEF FpSeqs
<1> DEFINE write == [x \in Fps |-> Wire!WriteFp(x)]
<1>4. \A x \in Fps : /\ write[x] \in Wire!Bytes /\ Len(write[x]) >= 2 * Wide
                     /\ Undoes(Wire!ReadFp, x, write[x])
  <2>1. \A x \in Fps : /\ Wire!WriteFp(x) \in Wire!Bytes /\ Len(Wire!WriteFp(x)) >= 2 * Wide
                       /\ Undoes(Wire!ReadFp, x, Wire!WriteFp(x))
    BY <1>0, FpIs
  <2>. QED BY <2>1
<1>5. write \in [Fps -> Wire!Bytes]
  BY <1>4
<1>6. ASSUME NEW xs \in FpSeqs
      PROVE  LET w == Wire!List(xs, Wire!WriteFp)
             IN w \in Wire!Bytes /\ Undoes(Enlist(2 * Wide, Wire!ReadFp), xs, w)
  <2> DEFINE v == Wire!List(xs, Wire!WriteFp)
             w == Listed(xs, write)
  <2>1. xs \in Seq(Fps) /\ Len(xs) <= MaxCount
    BY DEF FpSeqs
  <2>2. v = w
    <3>1. \A i \in DOMAIN xs : xs[i] \in Fps
      BY <2>1
    <3>2. [i \in DOMAIN xs |-> Wire!WriteFp(xs[i])] = [i \in DOMAIN xs |-> write[xs[i]]]
      BY <3>1
    <3>. QED BY <3>2 DEF Wire!List, Wire!All, Listed
  <2> HIDE DEF write, v, w
  <2>3. w \in Wire!Bytes /\ Undoes(Enlist(2 * Wide, Wire!ReadFp), xs, w)
    <3>1. Writes(write, Fps, Wire!ReadFp, FpsRead, 2 * Wide)
      BY <1>0, <1>2, <1>4, <1>5 DEF Writes
    <3>2. /\ Listed(xs, write) \in Wire!Bytes
          /\ Undoes(Enlist(2 * Wide, Wire!ReadFp), xs, Listed(xs, write))
      BY <2>1, <3>1, ListIs
    <3>. QED BY <3>2 DEF w
  <2>. QED BY <2>2, <2>3 DEF v
<1>. QED BY <1>1, <1>3, <1>6

\* Edges that can be read, and those that can be written.
EdgesRead == [layer : Nat, idx : Nat, ch : Nat, w : Seq(FpsRead), s : SigmasRead]
EdgesWritten == [layer : Nums, idx : Nums, ch : 0..Byte - 1, w : FpSeqs, s : Sigmas]

\* The place, the sign, the weights, the sigma.
EdgeOf(place, ch, w, sigma) ==
    [layer |-> place[1], idx |-> place[2], ch |-> ch, w |-> w, s |-> sigma]
EdgeSigma(place, ch, w) == [sigma \in SigmasRead |-> Yield(EdgeOf(place, ch, w, sigma))]
EdgeWeights(place, ch) ==
    [w \in Seq(FpsRead) |-> After(Wire!ReadSigma, EdgeSigma(place, ch, w))]
EdgeSign(place) == [ch \in Nat |-> After(Enlist(2 * Wide, Wire!ReadFp),
    EdgeWeights(place, ch))]
EdgeStart == [place \in Lists(2, Nat) |-> After(Wire!ReadByte, EdgeSign(place))]

\* These are good.
LEMMA EdgeParts ==
  ASSUME WireSizes
  PROVE  /\ Repeat(2, Wire!ReadWord) \in Good(Lists(2, Nat))
         /\ EdgeStart \in [Lists(2, Nat) -> Good(EdgesRead)]
         /\ \A place \in Lists(2, Nat) :
              /\ EdgeSign(place) \in [Nat -> Good(EdgesRead)]
              /\ \A ch \in Nat :
                   /\ EdgeWeights(place, ch) \in [Seq(FpsRead) -> Good(EdgesRead)]
                   /\ \A w \in Seq(FpsRead) :
                        EdgeSigma(place, ch, w) \in [SigmasRead -> Good(EdgesRead)]
<1>0. Byte \in Nat \ {0, 1} /\ Wire!ReadByte \in Good(Nat) /\ Wire!ReadWord \in Good(Nat)
      /\ 2 \in Nat /\ Enlist(2 * Wide, Wire!ReadFp) \in Good(Seq(FpsRead))
      /\ Wire!ReadSigma \in Good(SigmasRead)
  BY ByteIs, WordIs, FpListIs, SigmaIs DEF WireSizes
<1>1. \A place \in Lists(2, Nat) : place[1] \in Nat /\ place[2] \in Nat
  <2> SUFFICES ASSUME NEW p \in Lists(2, Nat) PROVE p[1] \in Nat /\ p[2] \in Nat
    OBVIOUS
  <2>1. p \in Seq(Nat) /\ Len(p) = 2
    BY DEF Lists
  <2>. QED BY <2>1
<1>2. \A place \in Lists(2, Nat), ch \in Nat, w \in Seq(FpsRead), sigma \in SigmasRead :
        EdgeOf(place, ch, w, sigma) \in EdgesRead
  BY <1>1 DEF EdgeOf, EdgesRead
<1>3. \A place \in Lists(2, Nat), ch \in Nat, w \in Seq(FpsRead), sigma \in SigmasRead :
        Yield(EdgeOf(place, ch, w, sigma)) \in Good(EdgesRead)
  BY <1>0, <1>2, YieldIs
<1>4. \A place \in Lists(2, Nat), ch \in Nat, w \in Seq(FpsRead) :
        EdgeSigma(place, ch, w) \in [SigmasRead -> Good(EdgesRead)]
  BY <1>3 DEF EdgeSigma
<1>5. \A place \in Lists(2, Nat), ch \in Nat, w \in Seq(FpsRead) :
        After(Wire!ReadSigma, EdgeSigma(place, ch, w)) \in Good(EdgesRead)
  BY <1>0, <1>4, AfterIs
<1>6. \A place \in Lists(2, Nat), ch \in Nat :
        EdgeWeights(place, ch) \in [Seq(FpsRead) -> Good(EdgesRead)]
  BY <1>5 DEF EdgeWeights
<1>7. \A place \in Lists(2, Nat), ch \in Nat :
        After(Enlist(2 * Wide, Wire!ReadFp), EdgeWeights(place, ch)) \in Good(EdgesRead)
  BY <1>0, <1>6, AfterIs
<1>8. \A place \in Lists(2, Nat) : EdgeSign(place) \in [Nat -> Good(EdgesRead)]
  BY <1>7 DEF EdgeSign
<1>9. \A place \in Lists(2, Nat) : After(Wire!ReadByte, EdgeSign(place)) \in Good(EdgesRead)
  BY <1>0, <1>8, AfterIs
<1>10. EdgeStart \in [Lists(2, Nat) -> Good(EdgesRead)]
  BY <1>9 DEF EdgeStart
<1>11. Repeat(2, Wire!ReadWord) \in Good(Lists(2, Nat))
  BY <1>0, RepeatIs
<1>. QED BY <1>4, <1>6, <1>8, <1>10, <1>11

\* Reading an edge.
LEMMA EdgeUnfolds ==
  ASSUME WireSizes
  PROVE  Wire!ReadEdge = After(Repeat(2, Wire!ReadWord), EdgeStart)
<1> SUFFICES ASSUME NEW s \in Wire!Bytes
             PROVE  Wire!ReadEdge[s] = After(Repeat(2, Wire!ReadWord), EdgeStart)[s]
  BY DEF Wire!ReadEdge, After
<1>0. Wire!ReadByte \in Good(Nat) /\ Enlist(2 * Wide, Wire!ReadFp) \in Good(Seq(FpsRead))
      /\ Wire!ReadSigma \in Good(SigmasRead)
  BY ByteIs, FpListIs, SigmaIs DEF WireSizes
<1> DEFINE a == Wire!Times(s, 2, Wire!ReadWord)
           b == Wire!ReadByte[a.rest]
           c == Wire!Counted(b.rest, 2 * Wide, Wire!ReadFp)
           d == Wire!ReadSigma[c.rest]
           x == [layer |-> a.v[1], idx |-> a.v[2], ch |-> b.v, w |-> c.v, s |-> d.v]
           end == IF d.ok THEN Wire!Got(x, d.rest) ELSE Wire!Lost
<1>1. Wire!ReadEdge[s] =
        IF a.ok THEN IF b.ok THEN IF c.ok THEN end ELSE Wire!Lost ELSE Wire!Lost ELSE Wire!Lost
  BY DEF Wire!ReadEdge, Wire!Then
<1>2. a = Repeat(2, Wire!ReadWord)[s]
  BY DEF Repeat
<1>3. /\ a.ok => a.v \in Lists(2, Nat) /\ a.rest \in Wire!Bytes
      /\ After(Repeat(2, Wire!ReadWord), EdgeStart)[s]
           = IF a.ok THEN EdgeStart[a.v][a.rest] ELSE Wire!Lost
  <2> HIDE DEF a
  <2>. QED BY <1>2, EdgeParts, AfterAt
<1> HIDE DEF a
<1>4. a.ok => /\ b.ok => b.v \in Nat /\ b.rest \in Wire!Bytes
              /\ EdgeStart[a.v][a.rest] =
                  IF b.ok THEN EdgeSign(a.v)[b.v][b.rest] ELSE Wire!Lost
  <2> SUFFICES ASSUME a.ok
               PROVE  /\ b.ok => b.v \in Nat /\ b.rest \in Wire!Bytes
                      /\ EdgeStart[a.v][a.rest]
                           = IF b.ok THEN EdgeSign(a.v)[b.v][b.rest] ELSE Wire!Lost
    OBVIOUS
  <2>1. EdgeStart[a.v] = After(Wire!ReadByte, EdgeSign(a.v))
    BY <1>3 DEF EdgeStart
  <2>. QED BY <1>0, <1>3, <2>1, AfterAt
<1> HIDE DEF b
<1>5. a.ok /\ b.ok =>
        /\ c.ok => c.v \in Seq(FpsRead) /\ c.rest \in Wire!Bytes
        /\ EdgeSign(a.v)[b.v][b.rest]
             = IF c.ok THEN EdgeWeights(a.v, b.v)[c.v][c.rest] ELSE Wire!Lost
  <2> SUFFICES ASSUME a.ok, b.ok
               PROVE  /\ c.ok => c.v \in Seq(FpsRead) /\ c.rest \in Wire!Bytes
                      /\ EdgeSign(a.v)[b.v][b.rest]
                           = IF c.ok THEN EdgeWeights(a.v, b.v)[c.v][c.rest] ELSE Wire!Lost
    OBVIOUS
  <2>1. b.v \in Nat /\ b.rest \in Wire!Bytes
    BY <1>4
  <2>2. EdgeSign(a.v)[b.v] = After(Enlist(2 * Wide, Wire!ReadFp), EdgeWeights(a.v, b.v))
    BY <2>1 DEF EdgeSign
  <2>3. c = Enlist(2 * Wide, Wire!ReadFp)[b.rest]
    BY <2>1 DEF Enlist
  <2> HIDE DEF c
  <2>. QED BY <1>0, <2>1, <2>2, <2>3, AfterAt
<1> HIDE DEF c
<1>6. a.ok /\ b.ok /\ c.ok => EdgeWeights(a.v, b.v)[c.v][c.rest] = end
  <2> SUFFICES ASSUME a.ok, b.ok, c.ok PROVE EdgeWeights(a.v, b.v)[c.v][c.rest] = end
    OBVIOUS
  <2>1. c.v \in Seq(FpsRead) /\ c.rest \in Wire!Bytes
    BY <1>5
  <2>2. EdgeWeights(a.v, b.v)[c.v] = After(Wire!ReadSigma, EdgeSigma(a.v, b.v, c.v))
    BY <2>1 DEF EdgeWeights
  <2>3. /\ d.ok => d.v \in SigmasRead /\ d.rest \in Wire!Bytes
        /\ After(Wire!ReadSigma, EdgeSigma(a.v, b.v, c.v))[c.rest]
             = IF d.ok THEN EdgeSigma(a.v, b.v, c.v)[d.v][d.rest] ELSE Wire!Lost
    BY <1>0, <2>1, AfterAt
  <2>4. x = EdgeOf(a.v, b.v, c.v, d.v)
    BY DEF EdgeOf
  <2> HIDE DEF d, x
  <2>5. d.ok => EdgeSigma(a.v, b.v, c.v)[d.v][d.rest] = Wire!Got(x, d.rest)
    BY <2>3, <2>4 DEF EdgeSigma, Yield
  <2>. QED BY <2>2, <2>3, <2>5
<1> HIDE DEF end
<1>. QED BY <1>1, <1>3, <1>4, <1>5, <1>6

\* Edges are read as they were written.
LEMMA EdgeReadIs ==
  ASSUME WireSizes
  PROVE  /\ Wire!ReadEdge \in Good(EdgesRead)
         /\ \A x \in EdgesWritten : /\ x \in EdgesRead /\ Wire!WriteEdge(x) \in Wire!Bytes
                             /\ Len(Wire!WriteEdge(x)) >= Wide
                             /\ Undoes(Wire!ReadEdge, x, Wire!WriteEdge(x))
<1>0. /\ Byte \in Nat \ {0, 1} /\ Wide \in Nat \ {0} /\ Wire!ReadWord \in Good(Nat)
      /\ Repeat(2, Wire!ReadWord) \in Good(Lists(2, Nat))
      /\ EdgeStart \in [Lists(2, Nat) -> Good(EdgesRead)]
  BY WordIs, EdgeParts DEF WireSizes
<1>1. Wire!ReadEdge \in Good(EdgesRead)
  BY <1>0, AfterIs, EdgeUnfolds
<1>2. ASSUME NEW x \in EdgesWritten
      PROVE  /\ x \in EdgesRead /\ Wire!WriteEdge(x) \in Wire!Bytes
             /\ Len(Wire!WriteEdge(x)) >= Wide
             /\ Undoes(Wire!ReadEdge, x, Wire!WriteEdge(x))
  <2> DEFINE a == Wire!Num(x.layer, Wide)
             b == Wire!Num(x.idx, Wide)
             c == <<x.ch>>
             d == Wire!List(x.w, Wire!WriteFp)
             e == Wire!Num(x.s.bits, Wide)
             f == Wire!List(x.s.w, Wire!WriteWord)
             p == a \o b
             g == e \o f
             place == <<x.layer, x.idx>>
  <2>1. x.layer \in Nums /\ x.idx \in Nums /\ x.ch \in 0..Byte - 1 /\ x.w \in FpSeqs
            /\ x.s \in Sigmas
    BY DEF EdgesWritten
  <2>2. x.layer \in Nat /\ x.idx \in Nat /\ x.ch \in Nat /\ x.w \in Seq(FpsRead)
        /\ x.s \in SigmasRead
    BY <2>1, NumsAre, FpListIs, SigmaIs
  <2>3. x \in EdgesRead /\ x = EdgeOf(place, x.ch, x.w, x.s)
    <3>1. x = [layer |-> x.layer, idx |-> x.idx, ch |-> x.ch, w |-> x.w, s |-> x.s]
      BY DEF EdgesWritten
    <3>. QED BY <3>1, <2>2 DEF EdgesRead, EdgeOf
  <2>4. place \in Lists(2, Nat)
    BY <2>2 DEF Lists
  <2>5. Wire!WriteEdge(x) = ((((a \o b) \o c) \o d) \o e) \o f
    BY DEF Wire!WriteEdge
  <2>6. /\ a \in Wire!Bytes /\ Len(a) = Wide /\ Undoes(Wire!ReadWord, x.layer, a)
        /\ b \in Wire!Bytes /\ Len(b) = Wide /\ Undoes(Wire!ReadWord, x.idx, b)
    BY <1>0, <2>1, WordIs DEF Nums
  <2>7. c \in Wire!Bytes /\ Undoes(Wire!ReadByte, x.ch, c)
    BY <1>0, <2>1, ByteIs
  <2>8. d \in Wire!Bytes /\ Undoes(Enlist(2 * Wide, Wire!ReadFp), x.w, d)
    BY <2>1, FpListIs
  <2>9. g \in Wire!Bytes /\ Undoes(Wire!ReadSigma, x.s, g)
    BY <2>1, SigmaIs
  <2>10. e \in Wire!Bytes /\ f \in Wire!Bytes
    <3>1. x.s.bits \in 0..MaxSigma /\ 0..MaxSigma \subseteq Nat
      BY <2>1 DEF Sigmas, WireSizes
    <3>2. e \in Wire!Bytes
      BY <1>0, <3>1, NumIs
    <3>3. f \in Wire!Bytes
      BY <2>1, SigmaWordsAre
    <3>. QED BY <3>2, <3>3
  <2> HIDE DEF a, b, c, d, e, f
  <2>11. Undoes(Repeat(2, Wire!ReadWord), place, p)
    BY <1>0, <2>2, <2>6, PairUndoes
  <2>12. p \in Wire!Bytes /\ Len(p) >= Wide
    <3>1. p \in Wire!Bytes /\ Len(p) = Len(a) + Len(b)
      BY <1>0, <2>6, Streams
    <3>. QED BY <1>0, <2>6, <3>1
  <2> HIDE DEF p, g, place
  <2>13. ((((a \o b) \o c) \o d) \o e) \o f = ((p \o c) \o d) \o g
    <3>1. (p \o c) \o d \in Wire!Bytes
      <4>1. p \o c \in Wire!Bytes
        BY <1>0, <2>7, <2>12, Streams
      <4>. QED BY <4>1, <1>0, <2>8, Streams
    <3>. QED BY <1>0, <2>10, <3>1, Streams DEF p, g
  <2>14. /\ ((p \o c) \o d) \o g = p \o (c \o (d \o g))
         /\ p \o (c \o (d \o g)) \in Wire!Bytes
         /\ Len(p \o (c \o (d \o g))) >= Len(p) + Len(c)
    BY <1>0, <2>7, <2>8, <2>9, <2>12, FourStreams
  <2>15. d \o g \in Wire!Bytes /\ c \o (d \o g) \in Wire!Bytes
    <3>1. d \o g \in Wire!Bytes
      BY <1>0, <2>8, <2>9, Streams
    <3>. QED BY <3>1, <1>0, <2>7, Streams
  <2>16. Undoes(EdgeWeights(place, x.ch)[x.w], x, g)
    <3>1. EdgeSigma(place, x.ch, x.w)[x.s] = Yield(x)
      BY <2>2, <2>3 DEF EdgeSigma
    <3>2. Undoes(After(Wire!ReadSigma, EdgeSigma(place, x.ch, x.w)), x, g)
      BY <1>0, <2>9, <3>1, AfterYield
    <3>. QED BY <2>2, <3>2 DEF EdgeWeights
  <2>17. Undoes(EdgeSign(place)[x.ch], x, d \o g)
    <3>1. Undoes(After(Enlist(2 * Wide, Wire!ReadFp), EdgeWeights(place, x.ch)), x, d \o g)
      BY <1>0, <2>8, <2>9, <2>16, AfterUndoes
    <3>. QED BY <2>2, <3>1 DEF EdgeSign
  <2>18. Undoes(EdgeStart[place], x, c \o (d \o g))
    <3>1. Undoes(After(Wire!ReadByte, EdgeSign(place)), x, c \o (d \o g))
      BY <1>0, <2>7, <2>15, <2>17, AfterUndoes
    <3>. QED BY <2>4, <3>1 DEF EdgeStart
  <2>19. Undoes(Wire!ReadEdge, x, p \o (c \o (d \o g)))
    BY <1>0, <2>11, <2>12, <2>15, <2>18, AfterUndoes, EdgeUnfolds
  <2>20. Len(Wire!WriteEdge(x)) >= Wide
    <3>1. Len(p) \in Nat /\ Len(c) \in Nat /\ Len(p \o (c \o (d \o g))) \in Nat
      BY <1>0, <2>7, <2>12, <2>14, Streams
    <3>. QED BY <3>1, <1>0, <2>5, <2>12, <2>13, <2>14
  <2>. QED BY <2>3, <2>5, <2>13, <2>14, <2>19, <2>20
<1>. QED BY <1>1, <1>2

-----------------------------------------------------------------------------
(* Ciphers.                                                                *)

\* Ciphers that can be read, before and after they are validated.
CiphersRead == [slots : Nat, L : Seq(LayersRead), c0 : Seq(FpsRead), E : Seq(EdgesRead)]
CiphersValid == {c \in CiphersRead : Wire!Valid(c)}

\* The slots, the layers, the constants, the edges.
CipherOf(slots, ls, c0, es) == [slots |-> slots, L |-> ls, c0 |-> c0, E |-> es]
CipherEdges(slots, ls, c0) ==
  [es \in Seq(EdgesRead) |-> Yield(CipherOf(slots, ls, c0, es))]
CipherC0(slots, ls) ==
  [c0 \in Seq(FpsRead) |-> After(Enlist(Wide, Wire!ReadEdge), CipherEdges(slots, ls, c0))]
CipherLayers(slots) ==
  [ls \in Seq(LayersRead) |-> After(Enlist(2 * Wide, Wire!ReadFp), CipherC0(slots, ls))]
CipherStart(version) ==
  [slots \in Nat |-> After(Enlist(Wide, Wire!ReadLayer(version)), CipherLayers(slots))]
CipherRead(version) == After(Wire!ReadWord, CipherStart(version))

\* These are good.
LEMMA CipherParts ==
  ASSUME WireSizes, NEW version
  PROVE  /\ CipherStart(version) \in [Nat -> Good(CiphersRead)]
         /\ CipherRead(version) \in Good(CiphersRead)
         /\ Wire!ReadWord \in Good(Nat)
         /\ Enlist(Wide, Wire!ReadLayer(version)) \in Good(Seq(LayersRead))
         /\ Enlist(2 * Wide, Wire!ReadFp) \in Good(Seq(FpsRead))
         /\ Enlist(Wide, Wire!ReadEdge) \in Good(Seq(EdgesRead))
<1>0. /\ Byte \in Nat \ {0, 1} /\ Wide \in Nat \ {0} /\ Wire!ReadWord \in Good(Nat)
      /\ Wire!ReadLayer(version) \in Good(LayersRead) /\ Wire!ReadEdge \in Good(EdgesRead)
      /\ Enlist(2 * Wide, Wire!ReadFp) \in Good(Seq(FpsRead))
  BY WordIs, FpListIs, LayerReadIs, EdgeReadIs DEF WireSizes
<1>1. /\ Enlist(Wide, Wire!ReadLayer(version)) \in Good(Seq(LayersRead))
      /\ Enlist(Wide, Wire!ReadEdge) \in Good(Seq(EdgesRead))
  BY <1>0, EnlistIs
<1>2. \A slots \in Nat, ls \in Seq(LayersRead), c0 \in Seq(FpsRead), es \in Seq(EdgesRead) :
        CipherOf(slots, ls, c0, es) \in CiphersRead
  BY DEF CipherOf, CiphersRead
<1>3. \A slots \in Nat, ls \in Seq(LayersRead), c0 \in Seq(FpsRead), es \in Seq(EdgesRead) :
        Yield(CipherOf(slots, ls, c0, es)) \in Good(CiphersRead)
  BY <1>0, <1>2, YieldIs
<1>4. \A slots \in Nat, ls \in Seq(LayersRead), c0 \in Seq(FpsRead) :
        CipherEdges(slots, ls, c0) \in [Seq(EdgesRead) -> Good(CiphersRead)]
  BY <1>3 DEF CipherEdges
<1>5. \A slots \in Nat, ls \in Seq(LayersRead), c0 \in Seq(FpsRead) :
        After(Enlist(Wide, Wire!ReadEdge), CipherEdges(slots, ls, c0)) \in Good(CiphersRead)
  BY <1>0, <1>1, <1>4, AfterIs
<1>6. \A slots \in Nat, ls \in Seq(LayersRead) :
        CipherC0(slots, ls) \in [Seq(FpsRead) -> Good(CiphersRead)]
  BY <1>5 DEF CipherC0
<1>7. \A slots \in Nat, ls \in Seq(LayersRead) :
        After(Enlist(2 * Wide, Wire!ReadFp), CipherC0(slots, ls)) \in Good(CiphersRead)
  BY <1>0, <1>6, AfterIs
<1>8. \A slots \in Nat : CipherLayers(slots) \in [Seq(LayersRead) -> Good(CiphersRead)]
  BY <1>7 DEF CipherLayers
<1>9. \A slots \in Nat :
        After(Enlist(Wide, Wire!ReadLayer(version)), CipherLayers(slots)) \in Good(CiphersRead)
  BY <1>0, <1>1, <1>8, AfterIs
<1>10. CipherStart(version) \in [Nat -> Good(CiphersRead)]
  BY <1>9 DEF CipherStart
<1>11. CipherRead(version) \in Good(CiphersRead)
  BY <1>0, <1>10, AfterIs DEF CipherRead
<1>. QED BY <1>0, <1>1, <1>10, <1>11

\* Reading a cipher.
LEMMA CipherUnfolds ==
  ASSUME WireSizes, NEW version
  PROVE  Wire!ReadCipher(version) = Filter(CipherRead(version), CiphersValid)
<1> SUFFICES ASSUME NEW s \in Wire!Bytes
             PROVE  Wire!ReadCipher(version)[s] = Filter(CipherRead(version), CiphersValid)[s]
  BY DEF Wire!ReadCipher, Filter
<1> DEFINE a == Wire!ReadWord[s]
           b == Wire!Counted(a.rest, Wide, Wire!ReadLayer(version))
           c == Wire!Counted(b.rest, 2 * Wide, Wire!ReadFp)
           d == Wire!Counted(c.rest, Wide, Wire!ReadEdge)
           x == [slots |-> a.v, L |-> b.v, c0 |-> c.v, E |-> d.v]
           end == IF d.ok THEN Wire!Must(Wire!Got(x, d.rest), Wire!Valid) ELSE Wire!Lost
           r == CipherRead(version)[s]
<1>1. Wire!ReadCipher(version)[s] =
        IF a.ok THEN IF b.ok THEN IF c.ok THEN end ELSE Wire!Lost ELSE Wire!Lost ELSE Wire!Lost
  BY DEF Wire!ReadCipher, Wire!Then
<1>2. /\ Filter(CipherRead(version), CiphersValid)[s]
           = IF r.ok /\ r.v \in CiphersValid THEN r ELSE Wire!Lost
      /\ r.ok => r.v \in CiphersRead /\ r.rest \in Wire!Bytes
      /\ r \in Reads(CiphersRead)
  <2> HIDE DEF r
  <2>1. r.ok => r.v \in CiphersRead /\ r.rest \in Wire!Bytes
    BY CipherParts, AfterAt DEF r
  <2>2. r \in Reads(CiphersRead)
    BY CipherParts, AfterAt DEF r
  <2>. QED BY <2>1, <2>2 DEF Filter, r
<1>3. /\ a.ok => a.v \in Nat /\ a.rest \in Wire!Bytes
      /\ r = IF a.ok THEN CipherStart(version)[a.v][a.rest] ELSE Wire!Lost
  BY CipherParts, AfterAt DEF CipherRead
<1> HIDE DEF a, r
<1>4. a.ok => /\ b.ok => b.v \in Seq(LayersRead) /\ b.rest \in Wire!Bytes
              /\ CipherStart(version)[a.v][a.rest]
                   = IF b.ok THEN CipherLayers(a.v)[b.v][b.rest] ELSE Wire!Lost
  <2> SUFFICES ASSUME a.ok
               PROVE  /\ b.ok => b.v \in Seq(LayersRead) /\ b.rest \in Wire!Bytes
                      /\ CipherStart(version)[a.v][a.rest]
                           = IF b.ok THEN CipherLayers(a.v)[b.v][b.rest] ELSE Wire!Lost
    OBVIOUS
  <2>1. CipherStart(version)[a.v] = After(Enlist(Wide, Wire!ReadLayer(version)),
            CipherLayers(a.v))
    BY <1>3 DEF CipherStart
  <2>2. b = Enlist(Wide, Wire!ReadLayer(version))[a.rest]
    BY <1>3 DEF Enlist
  <2> HIDE DEF b
  <2>. QED BY <1>3, <2>1, <2>2, CipherParts, AfterAt
<1> HIDE DEF b
<1>5. a.ok /\ b.ok =>
        /\ c.ok => c.v \in Seq(FpsRead) /\ c.rest \in Wire!Bytes
        /\ CipherLayers(a.v)[b.v][b.rest]
             = IF c.ok THEN CipherC0(a.v, b.v)[c.v][c.rest] ELSE Wire!Lost
  <2> SUFFICES ASSUME a.ok, b.ok
               PROVE  /\ c.ok => c.v \in Seq(FpsRead) /\ c.rest \in Wire!Bytes
                      /\ CipherLayers(a.v)[b.v][b.rest]
                           = IF c.ok THEN CipherC0(a.v, b.v)[c.v][c.rest] ELSE Wire!Lost
    OBVIOUS
  <2>1. b.v \in Seq(LayersRead) /\ b.rest \in Wire!Bytes
    BY <1>4
  <2>2. CipherLayers(a.v)[b.v] = After(Enlist(2 * Wide, Wire!ReadFp), CipherC0(a.v, b.v))
    BY <2>1 DEF CipherLayers
  <2>3. c = Enlist(2 * Wide, Wire!ReadFp)[b.rest]
    BY <2>1 DEF Enlist
  <2> HIDE DEF c
  <2>. QED BY <2>1, <2>2, <2>3, CipherParts, AfterAt
<1> HIDE DEF c
<1>6. a.ok /\ b.ok /\ c.ok =>
        /\ d.ok => d.v \in Seq(EdgesRead)
        /\ CipherC0(a.v, b.v)[c.v][c.rest] = IF d.ok THEN Wire!Got(x, d.rest) ELSE Wire!Lost
  <2> SUFFICES ASSUME a.ok, b.ok, c.ok
               PROVE  /\ d.ok => d.v \in Seq(EdgesRead)
                      /\ CipherC0(a.v, b.v)[c.v][c.rest]
                           = IF d.ok THEN Wire!Got(x, d.rest) ELSE Wire!Lost
    OBVIOUS
  <2>1. c.v \in Seq(FpsRead) /\ c.rest \in Wire!Bytes
    BY <1>5
  <2>2. CipherC0(a.v, b.v)[c.v] = After(Enlist(Wide, Wire!ReadEdge),
            CipherEdges(a.v, b.v, c.v))
    BY <2>1 DEF CipherC0
  <2>3. d = Enlist(Wide, Wire!ReadEdge)[c.rest]
    BY <2>1 DEF Enlist
  <2>4. x = CipherOf(a.v, b.v, c.v, d.v)
    BY DEF CipherOf
  <2> HIDE DEF d, x
  <2>5. /\ d.ok => d.v \in Seq(EdgesRead) /\ d.rest \in Wire!Bytes
        /\ After(Enlist(Wide, Wire!ReadEdge), CipherEdges(a.v, b.v, c.v))[c.rest]
             = IF d.ok THEN CipherEdges(a.v, b.v, c.v)[d.v][d.rest] ELSE Wire!Lost
    BY <2>1, <2>3, CipherParts, AfterAt
  <2>6. d.ok => CipherEdges(a.v, b.v, c.v)[d.v][d.rest] = Wire!Got(x, d.rest)
    BY <2>5, <2>4 DEF CipherEdges, Yield
  <2>. QED BY <2>2, <2>5, <2>6
<1> HIDE DEF d, x
<1> DEFINE whole == a.ok /\ b.ok /\ c.ok /\ d.ok
<1>7. r = IF whole THEN Wire!Got(x, d.rest) ELSE Wire!Lost
  BY <1>3, <1>4, <1>5, <1>6
<1>8. Wire!ReadCipher(version)[s]
        = IF whole /\ Wire!Valid(x) THEN Wire!Got(x, d.rest) ELSE Wire!Lost
  <2>1. end = IF d.ok /\ Wire!Valid(x) THEN Wire!Got(x, d.rest) ELSE Wire!Lost
    BY ReadIs DEF Wire!Must
  <2> HIDE DEF end
  <2>. QED BY <1>1, <2>1
<1> HIDE DEF end, whole
<1>9. whole => r.ok /\ r.v = x /\ x \in CiphersRead
  BY <1>2, <1>7, ReadIs
<1>10. ~whole => ~r.ok
  BY <1>7, ReadIs
<1>11. whole => (Wire!Valid(x) <=> x \in CiphersValid)
  BY <1>9 DEF CiphersValid
<1>. QED BY <1>2, <1>7, <1>8, <1>9, <1>10, <1>11

\* Ciphers that are written: those the library makes are valid.
CiphersWritten ==
  {c \in [slots : Nums, L : Seq(LayersWritten), c0 : FpSeqs, E : Seq(EdgesWritten)] :
     Len(c.L) <= MaxCount /\ Len(c.E) <= MaxCount /\ Wire!Valid(c)}

\* Lists of layers and of edges are read as they were written.
LEMMA PartsAre ==
  ASSUME WireSizes
  PROVE  /\ \A ls \in Seq(LayersWritten) : Len(ls) <= MaxCount =>
              LET w == Wire!List(ls, Wire!WriteLayer)
              IN /\ ls \in Seq(LayersRead) /\ w \in Wire!Bytes
                 /\ Undoes(Enlist(Wide, Wire!ReadLayer(2)), ls, w)
         /\ \A es \in Seq(EdgesWritten) : Len(es) <= MaxCount =>
              LET w == Wire!List(es, Wire!WriteEdge)
              IN /\ es \in Seq(EdgesRead) /\ w \in Wire!Bytes
                 /\ Undoes(Enlist(Wide, Wire!ReadEdge), es, w)
<1>0. Wide \in Nat \ {0}
  BY DEF WireSizes
<1>1. ASSUME NEW ls \in Seq(LayersWritten), Len(ls) <= MaxCount
      PROVE  LET w == Wire!List(ls, Wire!WriteLayer)
             IN /\ ls \in Seq(LayersRead) /\ w \in Wire!Bytes
                /\ Undoes(Enlist(Wide, Wire!ReadLayer(2)), ls, w)
  <2> DEFINE v == Wire!List(ls, Wire!WriteLayer)
             write == [x \in LayersWritten |-> Wire!WriteLayer(x)]
             w == Listed(ls, write)
  <2>1. v = w
    <3>1. \A i \in DOMAIN ls : ls[i] \in LayersWritten
      OBVIOUS
    <3>2. [i \in DOMAIN ls |-> Wire!WriteLayer(ls[i])] = [i \in DOMAIN ls |-> write[ls[i]]]
      BY <3>1
    <3>. QED BY <3>2 DEF Wire!List, Wire!All, Listed
  <2>2. Writes(write, LayersWritten, Wire!ReadLayer(2), LayersRead, Wide)
    <3>1. LayersWritten \subseteq LayersRead
              /\ \A x \in LayersWritten : write[x] = Wire!WriteLayer(x)
      BY LayerReadIs
    <3>2. write \in [LayersWritten -> Wire!Bytes]
      BY LayerReadIs
    <3> HIDE DEF write
    <3>3. \A x \in LayersWritten : Len(write[x]) >= Wide
              /\ Undoes(Wire!ReadLayer(2), x, write[x])
      BY <3>1, LayerReadIs
    <3>. QED BY <1>0, <3>1, <3>2, <3>3, LayerReadIs DEF Writes
  <2> HIDE DEF v, w, write
  <2>3. ls \in Seq(LayersRead) /\ w \in Wire!Bytes
            /\ Undoes(Enlist(Wide, Wire!ReadLayer(2)), ls, w)
    BY <1>1, <2>2, ListIs DEF w
  <2>. QED BY <2>1, <2>3 DEF v
<1>2. ASSUME NEW es \in Seq(EdgesWritten), Len(es) <= MaxCount
      PROVE  LET w == Wire!List(es, Wire!WriteEdge)
             IN /\ es \in Seq(EdgesRead) /\ w \in Wire!Bytes
                /\ Undoes(Enlist(Wide, Wire!ReadEdge), es, w)
  <2> DEFINE v == Wire!List(es, Wire!WriteEdge)
             write == [x \in EdgesWritten |-> Wire!WriteEdge(x)]
             w == Listed(es, write)
  <2>1. v = w
    <3>1. \A i \in DOMAIN es : es[i] \in EdgesWritten
      OBVIOUS
    <3>2. [i \in DOMAIN es |-> Wire!WriteEdge(es[i])] = [i \in DOMAIN es |-> write[es[i]]]
      BY <3>1
    <3>. QED BY <3>2 DEF Wire!List, Wire!All, Listed
  <2>2. Writes(write, EdgesWritten, Wire!ReadEdge, EdgesRead, Wide)
    <3>1. EdgesWritten \subseteq EdgesRead
              /\ \A x \in EdgesWritten : write[x] = Wire!WriteEdge(x)
      BY EdgeReadIs
    <3>2. write \in [EdgesWritten -> Wire!Bytes]
      BY EdgeReadIs
    <3> HIDE DEF write
    <3>3. \A x \in EdgesWritten : Len(write[x]) >= Wide /\ Undoes(Wire!ReadEdge, x, write[x])
      BY <3>1, EdgeReadIs
    <3>. QED BY <1>0, <3>1, <3>2, <3>3, EdgeReadIs DEF Writes
  <2> HIDE DEF v, w, write
  <2>3. es \in Seq(EdgesRead) /\ w \in Wire!Bytes /\ Undoes(Enlist(Wide, Wire!ReadEdge), es, w)
    BY <1>2, <2>2, ListIs DEF w
  <2>. QED BY <2>1, <2>3 DEF v
<1>. QED BY <1>1, <1>2

\* Ciphers are read as they were written.
LEMMA CipherIs ==
  ASSUME WireSizes
  PROVE  /\ \A version : Wire!ReadCipher(version) \in Good(CiphersValid)
         /\ \A c \in CiphersWritten :
              /\ c \in CiphersValid /\ Wire!WriteCipher(c) \in Wire!Bytes
              /\ Len(Wire!WriteCipher(c)) >= Wide
              /\ Undoes(Wire!ReadCipher(2), c, Wire!WriteCipher(c))
<1>0. Byte \in Nat \ {0, 1} /\ Wide \in Nat \ {0} /\ Wire!ReadWord \in Good(Nat)
  BY WordIs DEF WireSizes
<1>1. ASSUME NEW version PROVE Wire!ReadCipher(version) \in Good(CiphersValid)
  <2>1. CiphersRead \cap CiphersValid = CiphersValid
    BY DEF CiphersValid
  <2>. QED BY <2>1, CipherUnfolds, CipherParts, FilterIs
<1>2. ASSUME NEW c \in CiphersWritten
      PROVE  /\ c \in CiphersValid /\ Wire!WriteCipher(c) \in Wire!Bytes
             /\ Len(Wire!WriteCipher(c)) >= Wide
             /\ Undoes(Wire!ReadCipher(2), c, Wire!WriteCipher(c))
  <2> DEFINE u == Wire!Num(c.slots, Wide)
             v == Wire!List(c.L, Wire!WriteLayer)
             w == Wire!List(c.c0, Wire!WriteFp)
             x == Wire!List(c.E, Wire!WriteEdge)
  <2>1. /\ c.slots \in Nums /\ c.L \in Seq(LayersWritten) /\ Len(c.L) <= MaxCount
        /\ c.c0 \in FpSeqs /\ c.E \in Seq(EdgesWritten) /\ Len(c.E) <= MaxCount
            /\ Wire!Valid(c)
    BY DEF CiphersWritten
  <2>2. u \in Wire!Bytes /\ Len(u) = Wide /\ Undoes(Wire!ReadWord, c.slots, u)
            /\ c.slots \in Nat
    BY <1>0, <2>1, WordIs, NumsAre DEF Nums
  <2>3. c.L \in Seq(LayersRead) /\ v \in Wire!Bytes
        /\ Undoes(Enlist(Wide, Wire!ReadLayer(2)), c.L, v)
    BY <2>1, PartsAre
  <2>4. c.c0 \in Seq(FpsRead) /\ w \in Wire!Bytes
            /\ Undoes(Enlist(2 * Wide, Wire!ReadFp), c.c0, w)
    BY <2>1, FpListIs
  <2>5. c.E \in Seq(EdgesRead) /\ x \in Wire!Bytes
            /\ Undoes(Enlist(Wide, Wire!ReadEdge), c.E, x)
    BY <2>1, PartsAre
  <2>6. c = CipherOf(c.slots, c.L, c.c0, c.E)
    BY DEF CiphersWritten, CipherOf
  <2>7. c \in CiphersValid
    BY <2>1, <2>2, <2>3, <2>4, <2>5, <2>6 DEF CipherOf, CiphersRead, CiphersValid
  <2>8. Wire!WriteCipher(c) = ((u \o v) \o w) \o x
    BY DEF Wire!WriteCipher
  <2> HIDE DEF u, v, w, x
  <2>9. /\ ((u \o v) \o w) \o x = u \o (v \o (w \o x))
        /\ u \o (v \o (w \o x)) \in Wire!Bytes
        /\ Len(u \o (v \o (w \o x))) >= Len(u) + Len(v)
    BY <1>0, <2>2, <2>3, <2>4, <2>5, FourStreams
  <2>10. w \o x \in Wire!Bytes /\ v \o (w \o x) \in Wire!Bytes
    <3>1. w \o x \in Wire!Bytes
      BY <1>0, <2>4, <2>5, Streams
    <3>. QED BY <3>1, <1>0, <2>3, Streams
  <2>11. Undoes(CipherC0(c.slots, c.L)[c.c0], c, x)
    <3>1. CipherEdges(c.slots, c.L, c.c0)[c.E] = Yield(c)
      BY <2>5, <2>6 DEF CipherEdges
    <3>2. Undoes(After(Enlist(Wide, Wire!ReadEdge), CipherEdges(c.slots, c.L, c.c0)), c, x)
      BY <1>0, <2>5, <3>1, AfterYield
    <3>. QED BY <2>4, <3>2 DEF CipherC0
  <2>12. Undoes(CipherLayers(c.slots)[c.L], c, w \o x)
    <3>1. Undoes(After(Enlist(2 * Wide, Wire!ReadFp), CipherC0(c.slots, c.L)), c, w \o x)
      BY <1>0, <2>4, <2>5, <2>11, AfterUndoes
    <3>. QED BY <2>3, <3>1 DEF CipherLayers
  <2>13. Undoes(CipherStart(2)[c.slots], c, v \o (w \o x))
    <3>1. Undoes(After(Enlist(Wide, Wire!ReadLayer(2)), CipherLayers(c.slots)),
              c, v \o (w \o x))
      BY <1>0, <2>3, <2>10, <2>12, AfterUndoes
    <3>. QED BY <2>2, <3>1 DEF CipherStart
  <2>14. Undoes(CipherRead(2), c, u \o (v \o (w \o x)))
    BY <1>0, <2>2, <2>10, <2>13, AfterUndoes DEF CipherRead
  <2>15. Undoes(Wire!ReadCipher(2), c, u \o (v \o (w \o x)))
    <3> DEFINE rd == CipherRead(2)
               z == u \o (v \o (w \o x))
    <3>1. rd \in Good(CiphersRead)
      BY CipherParts
    <3>2. Wire!ReadCipher(2) = Filter(rd, CiphersValid)
      BY CipherUnfolds
    <3> HIDE DEF rd, z
    <3>3. Undoes(Filter(rd, CiphersValid), c, z)
      BY <3>1, <2>7, <2>9, <2>14, FilterIs DEF rd, z
    <3>. QED BY <3>2, <3>3 DEF z
  <2>16. Len(Wire!WriteCipher(c)) >= Wide
    <3>1. Len(u) \in Nat /\ Len(v) \in Nat /\ Len(u \o (v \o (w \o x))) \in Nat
      BY <1>0, <2>2, <2>3, <2>9, Streams
    <3>. QED BY <3>1, <1>0, <2>2, <2>8, <2>9
  <2>. QED BY <2>7, <2>8, <2>9, <2>15, <2>16
<1>. QED BY <1>1, <1>2

-----------------------------------------------------------------------------
(* Proofs of zero.                                                         *)

\* Points and scalars that can be read.
PointsRead == Nat \cap Points
ScalarsRead == Nat \cap CanonicalScalars

\* Proofs that can be read.
ProofsRead ==
  [points : Lists(8, PointsRead), scalars : Lists(3, ScalarsRead), ippL : Seq(PointsRead),
   ippR : Seq(PointsRead), ab : Lists(2, ScalarsRead), V : Seq(PointsRead), bound : BOOLEAN]

\* Points, scalars, L, as many of R, two scalars, V, and whether it is bound.
ProofOf(po, sc, ls, rs, ab, vs, b) ==
  [points |-> po, scalars |-> sc, ippL |-> ls, ippR |-> rs, ab |-> ab, V |-> vs, bound |-> b # 0]
ProofBound(po, sc, ls, rs, ab, vs) == [b \in Nat |-> Yield(ProofOf(po, sc, ls, rs, ab, vs, b))]
ProofV(po, sc, ls, rs, ab) ==
  [vs \in Seq(PointsRead) |-> After(Wire!ReadByte, ProofBound(po, sc, ls, rs, ab, vs))]
ProofAb(po, sc, ls, rs) ==
  [ab \in Lists(2, ScalarsRead) |-> After(Enlist(1, Wire!ReadPoint),
      ProofV(po, sc, ls, rs, ab))]
ProofR(po, sc, ls) ==
  [rs \in Lists(Len(ls), PointsRead) |-> After(Repeat(2, Wire!ReadScalar),
      ProofAb(po, sc, ls, rs))]
ProofL(po, sc) ==
  [ls \in Seq(PointsRead) |-> After(Repeat(Len(ls), Wire!ReadPoint), ProofR(po, sc, ls))]
ProofScalars(po) ==
  [sc \in Lists(3, ScalarsRead) |-> After(Enlist(1, Wire!ReadPoint), ProofL(po, sc))]
ProofStart ==
  [po \in Lists(8, PointsRead) |-> After(Repeat(3, Wire!ReadScalar), ProofScalars(po))]

\* These are good.
LEMMA ProofReaders ==
  ASSUME WireSizes
  PROVE  /\ Wire!ReadByte \in Good(Nat)
         /\ Wire!ReadPoint \in Good(PointsRead) /\ Wire!ReadScalar \in Good(ScalarsRead)
         /\ \A n \in Nat : Repeat(n, Wire!ReadPoint) \in Good(Lists(n, PointsRead))
         /\ \A n \in Nat : Repeat(n, Wire!ReadScalar) \in Good(Lists(n, ScalarsRead))
         /\ Enlist(1, Wire!ReadPoint) \in Good(Seq(PointsRead))
<1>1. Byte \in Nat \ {0, 1}
  BY DEF WireSizes
<1>2. Wire!ReadByte \in Good(Nat) /\ Wire!ReadPoint \in Good(PointsRead)
      /\ Wire!ReadScalar \in Good(ScalarsRead)
  BY <1>1, ByteIs, PointIs DEF PointsRead, ScalarsRead
<1>3. Enlist(1, Wire!ReadPoint) \in Good(Seq(PointsRead))
  BY PointListIs DEF PointsRead
<1>. QED BY <1>1, <1>2, <1>3, RepeatIs

\* So is reading one after the other.
LEMMA ProofParts ==
  ASSUME WireSizes
  PROVE  ProofStart \in [Lists(8, PointsRead) -> Good(ProofsRead)]

<1>0. Byte \in Nat \ {0, 1} /\ 2 \in Nat /\ 3 \in Nat
  BY DEF WireSizes
<1>1. \A po \in Lists(8, PointsRead), sc \in Lists(3, ScalarsRead),
          ls \in Seq(PointsRead) :
              \A rs \in Lists(Len(ls), PointsRead), ab \in Lists(2, ScalarsRead),
                  vs \in Seq(PointsRead) :
        \A b \in Nat : Yield(ProofOf(po, sc, ls, rs, ab, vs, b)) \in Good(ProofsRead)
  <2> SUFFICES ASSUME NEW po \in Lists(8, PointsRead), NEW sc \in Lists(3, ScalarsRead),
          NEW ls \in Seq(PointsRead),
                      NEW rs \in Lists(Len(ls), PointsRead), NEW ab \in Lists(2, ScalarsRead),
                          NEW vs \in Seq(PointsRead), NEW b \in Nat
               PROVE  Yield(ProofOf(po, sc, ls, rs, ab, vs, b)) \in Good(ProofsRead)
    OBVIOUS
  <2> DEFINE x == ProofOf(po, sc, ls, rs, ab, vs, b)
  <2>1. rs \in Seq(PointsRead)
    BY DEF Lists
  <2>2. x \in ProofsRead
    BY <2>1 DEF ProofOf, ProofsRead
  <2> HIDE DEF x
  <2>3. Yield(x) \in Good(ProofsRead)
    BY <1>0, <2>2, YieldIs
  <2>. QED BY <2>3 DEF x
<1>2. \A po \in Lists(8, PointsRead), sc \in Lists(3, ScalarsRead),
          ls \in Seq(PointsRead) :
              \A rs \in Lists(Len(ls), PointsRead), ab \in Lists(2, ScalarsRead),
                  vs \in Seq(PointsRead) :
        ProofBound(po, sc, ls, rs, ab, vs) \in [Nat -> Good(ProofsRead)]
  BY <1>1 DEF ProofBound
<1>3. \A po \in Lists(8, PointsRead), sc \in Lists(3, ScalarsRead),
          ls \in Seq(PointsRead) :
              \A rs \in Lists(Len(ls), PointsRead), ab \in Lists(2, ScalarsRead),
                  vs \in Seq(PointsRead) :
        After(Wire!ReadByte, ProofBound(po, sc, ls, rs, ab, vs)) \in Good(ProofsRead)
  BY <1>0, <1>2, ProofReaders, AfterIs
<1>4. \A po \in Lists(8, PointsRead), sc \in Lists(3, ScalarsRead),
          ls \in Seq(PointsRead) :
              \A rs \in Lists(Len(ls), PointsRead), ab \in Lists(2, ScalarsRead) :
        ProofV(po, sc, ls, rs, ab) \in [Seq(PointsRead) -> Good(ProofsRead)]
  BY <1>3 DEF ProofV
<1>5. \A po \in Lists(8, PointsRead), sc \in Lists(3, ScalarsRead),
          ls \in Seq(PointsRead) :
              \A rs \in Lists(Len(ls), PointsRead), ab \in Lists(2, ScalarsRead) :
        After(Enlist(1, Wire!ReadPoint), ProofV(po, sc, ls, rs, ab)) \in Good(ProofsRead)
  BY <1>0, <1>4, ProofReaders, AfterIs
<1>6. \A po \in Lists(8, PointsRead), sc \in Lists(3, ScalarsRead),
          ls \in Seq(PointsRead) : \A rs \in Lists(Len(ls), PointsRead) :
        ProofAb(po, sc, ls, rs) \in [Lists(2, ScalarsRead) -> Good(ProofsRead)]
  BY <1>5 DEF ProofAb
<1>7. \A po \in Lists(8, PointsRead), sc \in Lists(3, ScalarsRead),
          ls \in Seq(PointsRead) : \A rs \in Lists(Len(ls), PointsRead) :
        After(Repeat(2, Wire!ReadScalar), ProofAb(po, sc, ls, rs)) \in Good(ProofsRead)
  BY <1>0, <1>6, ProofReaders, AfterIs
<1>8. \A po \in Lists(8, PointsRead), sc \in Lists(3, ScalarsRead), ls \in Seq(PointsRead) :
        ProofR(po, sc, ls) \in [Lists(Len(ls), PointsRead) -> Good(ProofsRead)]
  BY <1>7 DEF ProofR
<1>9. \A po \in Lists(8, PointsRead), sc \in Lists(3, ScalarsRead), ls \in Seq(PointsRead) :
        After(Repeat(Len(ls), Wire!ReadPoint), ProofR(po, sc, ls)) \in Good(ProofsRead)
  <2> SUFFICES ASSUME NEW po \in Lists(8, PointsRead), NEW sc \in Lists(3, ScalarsRead),
          NEW ls \in Seq(PointsRead)
               PROVE  After(Repeat(Len(ls), Wire!ReadPoint),
                   ProofR(po, sc, ls)) \in Good(ProofsRead)
    OBVIOUS
  <2>1. Len(ls) \in Nat
    OBVIOUS
  <2>. QED BY <1>0, <1>8, <2>1, ProofReaders, AfterIs
<1>10. \A po \in Lists(8, PointsRead), sc \in Lists(3, ScalarsRead) :
        ProofL(po, sc) \in [Seq(PointsRead) -> Good(ProofsRead)]
  BY <1>9 DEF ProofL
<1>11. \A po \in Lists(8, PointsRead), sc \in Lists(3, ScalarsRead) :
        After(Enlist(1, Wire!ReadPoint), ProofL(po, sc)) \in Good(ProofsRead)
  BY <1>0, <1>10, ProofReaders, AfterIs
<1>12. \A po \in Lists(8, PointsRead) :
        ProofScalars(po) \in [Lists(3, ScalarsRead) -> Good(ProofsRead)]
  BY <1>11 DEF ProofScalars
<1>13. \A po \in Lists(8, PointsRead) :
        After(Repeat(3, Wire!ReadScalar), ProofScalars(po)) \in Good(ProofsRead)
  BY <1>0, <1>12, ProofReaders, AfterIs
<1>. QED BY <1>13 DEF ProofStart

\* Reading a proof.
LEMMA ProofUnfolds ==
  ASSUME WireSizes
  PROVE  Wire!ReadProof = After(Repeat(8, Wire!ReadPoint), ProofStart)
<1> SUFFICES ASSUME NEW s \in Wire!Bytes
             PROVE  Wire!ReadProof[s] = After(Repeat(8, Wire!ReadPoint), ProofStart)[s]
  BY ZenonT(40) DEF Wire!ReadProof, After
<1> DEFINE a == Wire!Times(s, 8, Wire!ReadPoint)
           b == Wire!Times(a.rest, 3, Wire!ReadScalar)
           c == Wire!Counted(b.rest, 1, Wire!ReadPoint)
           d == Wire!Times(c.rest, Len(c.v), Wire!ReadPoint)
           e == Wire!Times(d.rest, 2, Wire!ReadScalar)
           f == Wire!Counted(e.rest, 1, Wire!ReadPoint)
           g == Wire!ReadByte[f.rest]
           x == [points |-> a.v, scalars |-> b.v, ippL |-> c.v, ippR |-> d.v, ab |-> e.v,
                 V |-> f.v, bound |-> g.v # 0]
           end == IF g.ok THEN Wire!Got(x, g.rest) ELSE Wire!Lost
<1>1. Wire!ReadProof[s] =
        IF a.ok THEN IF b.ok THEN IF c.ok THEN IF d.ok THEN IF e.ok THEN IF f.ok THEN end
        ELSE Wire!Lost ELSE Wire!Lost ELSE Wire!Lost ELSE Wire!Lost ELSE Wire!Lost ELSE Wire!Lost
  BY DEF Wire!ReadProof, Wire!Then
<1>2. /\ a.ok => a.v \in Lists(8, PointsRead) /\ a.rest \in Wire!Bytes
      /\ After(Repeat(8, Wire!ReadPoint), ProofStart)[s]
           = IF a.ok THEN ProofStart[a.v][a.rest] ELSE Wire!Lost
  <2>1. a = Repeat(8, Wire!ReadPoint)[s] /\ 8 \in Nat
    BY DEF Repeat
  <2> HIDE DEF a
  <2>. QED BY <2>1, ProofReaders, AfterAt
<1> HIDE DEF a
<1>3. ASSUME a.ok
      PROVE  /\ b.ok => b.v \in Lists(3, ScalarsRead) /\ b.rest \in Wire!Bytes
        /\ ProofStart[a.v][a.rest]
             = IF b.ok THEN ProofScalars(a.v)[b.v][b.rest] ELSE Wire!Lost
  <2>1. a.v \in Lists(8, PointsRead) /\ a.rest \in Wire!Bytes
    BY <1>3, <1>2
  <2>2. ProofStart[a.v] = After(Repeat(3, Wire!ReadScalar), ProofScalars(a.v))
    BY <2>1 DEF ProofStart
  <2>3. b = Repeat(3, Wire!ReadScalar)[a.rest]
            /\ Repeat(3, Wire!ReadScalar) \in Good(Lists(3, ScalarsRead)) /\ 3 \in Nat
    BY <2>1, ProofReaders DEF Repeat
  <2> HIDE DEF b
  <2>. QED BY <2>1, <2>2, <2>3, AfterAt
<1> HIDE DEF b
<1>4. ASSUME a.ok, b.ok
      PROVE  /\ c.ok => c.v \in Seq(PointsRead) /\ c.rest \in Wire!Bytes
        /\ ProofScalars(a.v)[b.v][b.rest]
             = IF c.ok THEN ProofL(a.v, b.v)[c.v][c.rest] ELSE Wire!Lost
  <2>1. b.v \in Lists(3, ScalarsRead) /\ b.rest \in Wire!Bytes
    BY <1>4, <1>3
  <2>2. ProofScalars(a.v)[b.v] = After(Enlist(1, Wire!ReadPoint), ProofL(a.v, b.v))
    BY <2>1 DEF ProofScalars
  <2>3. c = Enlist(1, Wire!ReadPoint)[b.rest]
            /\ Enlist(1, Wire!ReadPoint) \in Good(Seq(PointsRead))
    BY <2>1, ProofReaders DEF Enlist
  <2> HIDE DEF c
  <2>. QED BY <2>1, <2>2, <2>3, AfterAt
<1> HIDE DEF c
<1>5. ASSUME a.ok, b.ok, c.ok
      PROVE  /\ d.ok => d.v \in Lists(Len(c.v), PointsRead) /\ d.rest \in Wire!Bytes
        /\ ProofL(a.v, b.v)[c.v][c.rest]
             = IF d.ok THEN ProofR(a.v, b.v, c.v)[d.v][d.rest] ELSE Wire!Lost
  <2>1. c.v \in Seq(PointsRead) /\ c.rest \in Wire!Bytes
    BY <1>5, <1>4
  <2>2. ProofL(a.v, b.v)[c.v] = After(Repeat(Len(c.v), Wire!ReadPoint), ProofR(a.v, b.v, c.v))
    BY <2>1 DEF ProofL
  <2>3. d = Repeat(Len(c.v), Wire!ReadPoint)[c.rest]
            /\ Repeat(Len(c.v), Wire!ReadPoint) \in Good(Lists(Len(c.v), PointsRead))
    <3>1. Len(c.v) \in Nat
      BY <2>1
    <3>2. d = Repeat(Len(c.v), Wire!ReadPoint)[c.rest]
      BY <2>1 DEF Repeat
    <3>. QED BY <3>1, <3>2, ProofReaders
  <2> HIDE DEF d
  <2>. QED BY <2>1, <2>2, <2>3, AfterAt
<1> HIDE DEF d
<1>6. ASSUME a.ok, b.ok, c.ok, d.ok
      PROVE  /\ e.ok => e.v \in Lists(2, ScalarsRead) /\ e.rest \in Wire!Bytes
        /\ ProofR(a.v, b.v, c.v)[d.v][d.rest]
             = IF e.ok THEN ProofAb(a.v, b.v, c.v, d.v)[e.v][e.rest] ELSE Wire!Lost
  <2>1. d.v \in Lists(Len(c.v), PointsRead) /\ d.rest \in Wire!Bytes
    BY <1>6, <1>5
  <2>2. ProofR(a.v, b.v, c.v)[d.v] = After(Repeat(2, Wire!ReadScalar),
            ProofAb(a.v, b.v, c.v, d.v))
    BY <2>1 DEF ProofR
  <2>3. e = Repeat(2, Wire!ReadScalar)[d.rest]
            /\ Repeat(2, Wire!ReadScalar) \in Good(Lists(2, ScalarsRead)) /\ 2 \in Nat
    BY <2>1, ProofReaders DEF Repeat
  <2> HIDE DEF e
  <2>. QED BY <2>1, <2>2, <2>3, AfterAt
<1> HIDE DEF e
<1>7. ASSUME a.ok, b.ok, c.ok, d.ok, e.ok
      PROVE  /\ f.ok => f.v \in Seq(PointsRead) /\ f.rest \in Wire!Bytes
        /\ ProofAb(a.v, b.v, c.v, d.v)[e.v][e.rest]
             = IF f.ok THEN ProofV(a.v, b.v, c.v, d.v, e.v)[f.v][f.rest] ELSE Wire!Lost
  <2>1. e.v \in Lists(2, ScalarsRead) /\ e.rest \in Wire!Bytes
    BY <1>7, <1>6
  <2>2. ProofAb(a.v, b.v, c.v, d.v)[e.v] = After(Enlist(1, Wire!ReadPoint),
            ProofV(a.v, b.v, c.v, d.v, e.v))
    BY <2>1 DEF ProofAb
  <2>3. f = Enlist(1, Wire!ReadPoint)[e.rest]
            /\ Enlist(1, Wire!ReadPoint) \in Good(Seq(PointsRead))
    BY <2>1, ProofReaders DEF Enlist
  <2> HIDE DEF f
  <2>. QED BY <2>1, <2>2, <2>3, AfterAt
<1> HIDE DEF f
<1>8. ASSUME a.ok, b.ok, c.ok, d.ok, e.ok, f.ok
      PROVE  /\ g.ok => g.v \in Nat /\ g.rest \in Wire!Bytes
        /\ ProofV(a.v, b.v, c.v, d.v, e.v)[f.v][f.rest]
             = IF g.ok THEN ProofBound(a.v, b.v, c.v, d.v, e.v, f.v)[g.v][g.rest] ELSE Wire!Lost
  <2>1. f.v \in Seq(PointsRead) /\ f.rest \in Wire!Bytes
    BY <1>8, <1>7
  <2>2. ProofV(a.v, b.v, c.v, d.v, e.v)[f.v] =
            After(Wire!ReadByte, ProofBound(a.v, b.v, c.v, d.v, e.v, f.v))
    BY <2>1 DEF ProofV
  <2>3. g = Wire!ReadByte[f.rest] /\ Wire!ReadByte \in Good(Nat)
    BY <2>1, ProofReaders
  <2> HIDE DEF g
  <2>. QED BY <2>1, <2>2, <2>3, AfterAt
<1> HIDE DEF g
<1>9. ASSUME a.ok, b.ok, c.ok, d.ok, e.ok, f.ok, g.ok
      PROVE  ProofBound(a.v, b.v, c.v, d.v, e.v, f.v)[g.v][g.rest] = Wire!Got(x, g.rest)
  <2>1. g.v \in Nat /\ g.rest \in Wire!Bytes
    BY <1>9, <1>8
  <2>2. x = ProofOf(a.v, b.v, c.v, d.v, e.v, f.v, g.v)
    BY DEF ProofOf
  <2> HIDE DEF x
  <2>. QED BY <2>1, <2>2 DEF ProofBound, Yield
<1> HIDE DEF x
<1>. QED BY <1>1, <1>2, <1>3, <1>4, <1>5, <1>6, <1>7, <1>8, <1>9

\* Proofs that can be written: as many points of R as of L.
ProofsWritten ==
  {p \in [points : Lists(8, Points), scalars : Lists(3, CanonicalScalars), ippL : PointSeqs,
          ippR : PointSeqs, ab : Lists(2, CanonicalScalars), V : PointSeqs, bound : BOOLEAN] :
     Len(p.ippR) = Len(p.ippL)}

\* Points and scalars are written as themselves.
LEMMA PointsAre ==
  ASSUME WireSizes
  PROVE  /\ \A ps \in Seq(Points) :
              /\ ps \in Seq(PointsRead) /\ ps \in Wire!Bytes
                  /\ Wire!All(ps, Wire!WriteOne) = ps
              /\ Undoes(Repeat(Len(ps), Wire!ReadPoint), ps, ps)
         /\ \A ss \in Seq(CanonicalScalars) :
              /\ ss \in Seq(ScalarsRead) /\ ss \in Wire!Bytes
              /\ Undoes(Repeat(Len(ss), Wire!ReadScalar), ss, ss)
<1>0. Byte \in Nat \ {0, 1} /\ Points \subseteq 0..Byte - 1 /\ CanonicalScalars \subseteq 0..Byte - 1
  BY DEF WireSizes
<1>1. /\ Points \subseteq PointsRead /\ Points \cap (0..Byte - 1) = Points
      /\ CanonicalScalars \subseteq ScalarsRead
      /\ CanonicalScalars \cap (0..Byte - 1) = CanonicalScalars
  BY <1>0 DEF PointsRead, ScalarsRead
<1>2. ASSUME NEW ps \in Seq(Points)
      PROVE  /\ ps \in Seq(PointsRead) /\ ps \in Wire!Bytes /\ Wire!All(ps, Wire!WriteOne) = ps
             /\ Undoes(Repeat(Len(ps), Wire!ReadPoint), ps, ps)
  <2>1. ps \in Seq(PointsRead) /\ ps \in Wire!Bytes
    BY <1>0, <1>1 DEF Wire!Bytes
  <2>2. \A i \in 1..Len(ps) : Undoes(Wire!ReadPoint, ps[i], <<ps[i]>>)
    <3>1. \A i \in 1..Len(ps) : ps[i] \in Points
      OBVIOUS
    <3>. QED BY <1>0, <1>1, <3>1, PointIs
  <2>3. /\ Undoes(Repeat(Len(ps), Wire!ReadPoint), ps, ps)
        /\ Wire!FlattenSeq([i \in DOMAIN ps |-> <<ps[i]>>]) = ps
    BY <1>0, <2>1, <2>2, BytesUndo, ProofReaders
  <2>4. Wire!All(ps, Wire!WriteOne) = Wire!FlattenSeq([i \in DOMAIN ps |-> <<ps[i]>>])
    BY DEF Wire!All, Wire!WriteOne
  <2>. QED BY <2>1, <2>3, <2>4
<1>3. ASSUME NEW ss \in Seq(CanonicalScalars)
      PROVE  /\ ss \in Seq(ScalarsRead) /\ ss \in Wire!Bytes
             /\ Undoes(Repeat(Len(ss), Wire!ReadScalar), ss, ss)
  <2>1. ss \in Seq(ScalarsRead) /\ ss \in Wire!Bytes
    BY <1>0, <1>1 DEF Wire!Bytes
  <2>2. \A i \in 1..Len(ss) : Undoes(Wire!ReadScalar, ss[i], <<ss[i]>>)
    <3>1. \A i \in 1..Len(ss) : ss[i] \in CanonicalScalars
      OBVIOUS
    <3>. QED BY <1>0, <1>1, <3>1, PointIs
  <2>. QED BY <1>0, <2>1, <2>2, BytesUndo, ProofReaders
<1>. QED BY <1>2, <1>3

\* Seven streams, one after the other, can be taken apart from the front.
FromTheFront(a, b, c, d, e, f, g) ==
  /\ (((((a \o b) \o c) \o d) \o e) \o f) \o g
       = a \o (b \o (c \o (d \o (e \o (f \o g)))))
  /\ f \o g \in Wire!Bytes /\ e \o (f \o g) \in Wire!Bytes
  /\ d \o (e \o (f \o g)) \in Wire!Bytes /\ c \o (d \o (e \o (f \o g))) \in Wire!Bytes
  /\ b \o (c \o (d \o (e \o (f \o g)))) \in Wire!Bytes
  /\ a \o (b \o (c \o (d \o (e \o (f \o g))))) \in Wire!Bytes

\* They always can.
LEMMA SevenStreams ==
  ASSUME Byte \in Nat \ {0, 1}, NEW a \in Wire!Bytes, NEW b \in Wire!Bytes,
         NEW c \in Wire!Bytes, NEW d \in Wire!Bytes, NEW e \in Wire!Bytes,
         NEW f \in Wire!Bytes, NEW g \in Wire!Bytes
  PROVE  FromTheFront(a, b, c, d, e, f, g)
<1> DEFINE x == ((a \o b) \o c) \o d
           y == (a \o b) \o c
           r == e \o (f \o g)
<1>1. f \o g \in Wire!Bytes
  BY Streams
<1>2. r \in Wire!Bytes
  BY <1>1, Streams
<1>3. a \o b \in Wire!Bytes
  BY Streams
<1>4. y \in Wire!Bytes
  BY <1>3, Streams
<1>5. x \in Wire!Bytes
  BY <1>4, Streams
<1>6. /\ ((x \o e) \o f) \o g = x \o (e \o (f \o g))
      /\ x \o (e \o (f \o g)) \in Wire!Bytes
      /\ Len(x \o (e \o (f \o g))) >= Len(x) + Len(e)
  <2> HIDE DEF x
  <2>. QED BY <1>5, FourStreams
<1>7. x \o r = y \o (d \o r)
  <2>1. x = y \o d
    OBVIOUS
  <2> HIDE DEF x, y, r
  <2>2. y \in Wire!Bytes /\ d \in Wire!Bytes /\ r \in Wire!Bytes
    BY <1>2, <1>4
  <2>3. Associates(y, d, r)
    BY <2>2, ThreeStreams
  <2>. QED BY <2>1, <2>3 DEF Associates
<1>8. d \o r \in Wire!Bytes
  <2> HIDE DEF r
  <2>. QED BY <1>2, Streams
<1> DEFINE z == d \o r
<1>9. /\ ((a \o b) \o c) \o z = a \o (b \o (c \o z))
      /\ a \o (b \o (c \o z)) \in Wire!Bytes
      /\ Len(a \o (b \o (c \o z))) >= Len(a) + Len(b)
  <2>1. z \in Wire!Bytes
    BY <1>8
  <2> HIDE DEF z
  <2>. QED BY <2>1, FourStreams
<1>10. c \o z \in Wire!Bytes
  <2> HIDE DEF z
  <2>. QED BY <1>8, Streams DEF z
<1>11. b \o (c \o z) \in Wire!Bytes
  <2> DEFINE u == c \o z
  <2> HIDE DEF u
  <2>. QED BY <1>10, Streams DEF u
<1> HIDE DEF z
<1>12. (((((a \o b) \o c) \o d) \o e) \o f) \o g = y \o z
  BY <1>6, <1>7 DEF z
<1>13. y \o z = a \o (b \o (c \o z))
  BY <1>9
<1>14. z = d \o (e \o (f \o g))
  BY DEF z
<1> HIDE DEF x, y
<1>. QED BY <1>14, <1>1, <1>2, <1>8, <1>9, <1>10, <1>11, <1>12, <1>13 DEF FromTheFront

\* Proofs are read as they were written.
LEMMA ProofIs ==
  ASSUME WireSizes
  PROVE  /\ Wire!ReadProof \in Good(ProofsRead)
         /\ \A p \in ProofsWritten : /\ p \in ProofsRead /\ Wire!WriteProof(p) \in Wire!Bytes
                                     /\ Undoes(Wire!ReadProof, p, Wire!WriteProof(p))
<1>0. Byte \in Nat \ {0, 1} /\ 0 \in 0..Byte - 1 /\ 1 \in 0..Byte - 1 /\ 8 \in Nat
  BY DEF WireSizes
<1>1. Wire!ReadProof \in Good(ProofsRead)
  BY <1>0, ProofReaders, ProofParts, ProofUnfolds, AfterIs
<1>2. ASSUME NEW p \in ProofsWritten
      PROVE  /\ p \in ProofsRead /\ Wire!WriteProof(p) \in Wire!Bytes
             /\ Undoes(Wire!ReadProof, p, Wire!WriteProof(p))
  <2> DEFINE a == p.points
             b == p.scalars
             c == Wire!List(p.ippL, Wire!WriteOne)
             d == Wire!All(p.ippR, Wire!WriteOne)
             e == p.ab
             f == Wire!List(p.V, Wire!WriteOne)
             n == IF p.bound THEN 1 ELSE 0
             g == <<n>>
  <2>1. /\ p.points \in Seq(Points) /\ Len(p.points) = 8
        /\ p.scalars \in Seq(CanonicalScalars) /\ Len(p.scalars) = 3
        /\ p.ippL \in Seq(Points) /\ Len(p.ippL) <= MaxCount
        /\ p.ippR \in Seq(Points) /\ Len(p.ippR) = Len(p.ippL)
        /\ p.ab \in Seq(CanonicalScalars) /\ Len(p.ab) = 2
        /\ p.V \in Seq(Points) /\ Len(p.V) <= MaxCount /\ p.bound \in BOOLEAN
    BY DEF ProofsWritten, PointSeqs, Lists
  <2>2. /\ p.points \in Seq(PointsRead) /\ p.scalars \in Seq(ScalarsRead)
        /\ p.ippL \in Seq(PointsRead) /\ p.ippR \in Seq(PointsRead)
        /\ p.ab \in Seq(ScalarsRead) /\ p.V \in Seq(PointsRead)
    BY <2>1, PointsAre
  <2>3. /\ p.points \in Lists(8, PointsRead) /\ p.scalars \in Lists(3, ScalarsRead)
        /\ p.ippR \in Lists(Len(p.ippL), PointsRead) /\ p.ab \in Lists(2, ScalarsRead)
    BY <2>1, <2>2 DEF Lists
  <2>4. n \in 0..Byte - 1 /\ n \in Nat /\ (n # 0) = p.bound
    BY <1>0, <2>1
  <2>5. p = ProofOf(p.points, p.scalars, p.ippL, p.ippR, p.ab, p.V, n)
    <3>1. p = [points |-> p.points, scalars |-> p.scalars, ippL |-> p.ippL, ippR |-> p.ippR,
               ab |-> p.ab, V |-> p.V, bound |-> p.bound]
      BY DEF ProofsWritten
    <3> HIDE DEF n
    <3>. QED BY <2>4, <3>1 DEF ProofOf
  <2>6. p \in ProofsRead
    <3>1. p = [points |-> p.points, scalars |-> p.scalars, ippL |-> p.ippL, ippR |-> p.ippR,
               ab |-> p.ab, V |-> p.V, bound |-> p.bound]
      BY DEF ProofsWritten
    <3>. QED BY <2>1, <2>2, <2>3, <3>1 DEF ProofsRead
  <2>7. Wire!WriteProof(p) = (((((a \o b) \o c) \o d) \o e) \o f) \o g
    BY DEF Wire!WriteProof
  <2>8. a \in Wire!Bytes /\ Undoes(Repeat(8, Wire!ReadPoint), p.points, a)
    BY <2>1, PointsAre
  <2>9. b \in Wire!Bytes /\ Undoes(Repeat(3, Wire!ReadScalar), p.scalars, b)
    BY <2>1, PointsAre
  <2>10. c \in Wire!Bytes /\ Undoes(Enlist(1, Wire!ReadPoint), p.ippL, c)
    BY <2>1, PointListIs
  <2>11. d \in Wire!Bytes /\ Undoes(Repeat(Len(p.ippL), Wire!ReadPoint), p.ippR, d)
    <3>1. d = p.ippR /\ p.ippR \in Wire!Bytes
      BY <2>1, PointsAre
    <3>2. Undoes(Repeat(Len(p.ippR), Wire!ReadPoint), p.ippR, p.ippR)
      BY <2>1, PointsAre
    <3> HIDE DEF d
    <3>. QED BY <2>1, <3>1, <3>2
  <2>12. e \in Wire!Bytes /\ Undoes(Repeat(2, Wire!ReadScalar), p.ab, e)
    BY <2>1, PointsAre
  <2>13. f \in Wire!Bytes /\ Undoes(Enlist(1, Wire!ReadPoint), p.V, f)
    BY <2>1, PointListIs
  <2>14. g \in Wire!Bytes /\ Undoes(Wire!ReadByte, n, g)
    <3> HIDE DEF n
    <3>. QED BY <1>0, <2>4, ByteIs
  <2> HIDE DEF a, b, c, d, e, f, g, n
  <2>15. /\ (((((a \o b) \o c) \o d) \o e) \o f) \o g
              = a \o (b \o (c \o (d \o (e \o (f \o g)))))
         /\ f \o g \in Wire!Bytes /\ e \o (f \o g) \in Wire!Bytes
         /\ d \o (e \o (f \o g)) \in Wire!Bytes /\ c \o (d \o (e \o (f \o g))) \in Wire!Bytes
         /\ b \o (c \o (d \o (e \o (f \o g)))) \in Wire!Bytes
         /\ a \o (b \o (c \o (d \o (e \o (f \o g))))) \in Wire!Bytes
    <3>1. FromTheFront(a, b, c, d, e, f, g)
      BY <1>0, <2>8, <2>9, <2>10, <2>11, <2>12, <2>13, <2>14, SevenStreams
    <3>. QED BY <3>1 DEF FromTheFront
  <2> DEFINE po == p.points
             sc == p.scalars
             ls == p.ippL
             rs == p.ippR
             ab == p.ab
             vs == p.V
  <2>16. /\ po \in Lists(8, PointsRead) /\ sc \in Lists(3, ScalarsRead)
             /\ ls \in Seq(PointsRead)
         /\ rs \in Lists(Len(ls), PointsRead) /\ ab \in Lists(2, ScalarsRead)
         /\ vs \in Seq(PointsRead)
    BY <2>2, <2>3
  <2>17. p = ProofOf(po, sc, ls, rs, ab, vs, n)
    BY <2>5
  <2> HIDE DEF po, sc, ls, rs, ab, vs
  <2>18. Undoes(ProofV(po, sc, ls, rs, ab)[vs], p, g)
    <3>1. ProofBound(po, sc, ls, rs, ab, vs)[n] = Yield(p)
      BY <2>4, <2>17 DEF ProofBound
    <3>2. Undoes(After(Wire!ReadByte, ProofBound(po, sc, ls, rs, ab, vs)), p, g)
      BY <1>0, <2>14, <3>1, AfterYield
    <3>. QED BY <2>16, <3>2 DEF ProofV
  <2>19. Undoes(ProofAb(po, sc, ls, rs)[ab], p, f \o g)
    <3>1. Undoes(After(Enlist(1, Wire!ReadPoint), ProofV(po, sc, ls, rs, ab)), p, f \o g)
      BY <1>0, <2>13, <2>14, <2>18, AfterUndoes DEF vs
    <3>. QED BY <2>16, <3>1 DEF ProofAb
  <2>20. Undoes(ProofR(po, sc, ls)[rs], p, e \o (f \o g))
    <3>1. Undoes(After(Repeat(2, Wire!ReadScalar), ProofAb(po, sc, ls, rs)), p, e \o (f \o g))
      BY <1>0, <2>12, <2>15, <2>19, AfterUndoes DEF ab
    <3>. QED BY <2>16, <3>1 DEF ProofR
  <2>21. Undoes(ProofL(po, sc)[ls], p, d \o (e \o (f \o g)))
    <3>1. Undoes(After(Repeat(Len(ls), Wire!ReadPoint), ProofR(po, sc, ls)),
              p, d \o (e \o (f \o g)))
      BY <1>0, <2>11, <2>15, <2>20, AfterUndoes DEF rs, ls
    <3>. QED BY <2>16, <3>1 DEF ProofL
  <2>22. Undoes(ProofScalars(po)[sc], p, c \o (d \o (e \o (f \o g))))
    <3>1. Undoes(After(Enlist(1, Wire!ReadPoint), ProofL(po, sc)),
              p, c \o (d \o (e \o (f \o g))))
      BY <1>0, <2>10, <2>15, <2>21, AfterUndoes DEF ls
    <3>. QED BY <2>16, <3>1 DEF ProofScalars
  <2>23. Undoes(ProofStart[po], p, b \o (c \o (d \o (e \o (f \o g)))))
    <3>1. Undoes(After(Repeat(3, Wire!ReadScalar), ProofScalars(po)), p,
                 b \o (c \o (d \o (e \o (f \o g)))))
      BY <1>0, <2>9, <2>15, <2>22, AfterUndoes DEF sc
    <3>. QED BY <2>16, <3>1 DEF ProofStart
  <2>24. Undoes(Wire!ReadProof, p, a \o (b \o (c \o (d \o (e \o (f \o g))))))
    BY <1>0, <2>8, <2>15, <2>23, AfterUndoes, ProofUnfolds DEF po
  <2>. QED BY <2>6, <2>7, <2>15, <2>24
<1>. QED BY <1>1, <1>2

-----------------------------------------------------------------------------
(* Streams.                                                                *)

\* Headers that are accepted, and reading one.
Headers(tag) ==
  {h \in Lists(3, Nat) : h[1] = Wire!Magic /\ h[2] \in {1, 2} /\ h[3] = tag}
HeaderEnd == [h \in Lists(3, Nat) |-> Yield(h[2])]
HeaderRead(tag) == After(Filter(Repeat(3, Wire!ReadByte), Headers(tag)), HeaderEnd)

\* The header is a good reader's, and read as it was written.
LEMMA HeaderIs ==
  ASSUME WireSizes, NEW tag \in 0..2
  PROVE  /\ HeaderRead(tag) \in Good({1, 2})
         /\ \A s \in Wire!Bytes : Wire!Opened(s, tag) = HeaderRead(tag)[s]
         /\ <<Wire!Magic, 2, tag>> \in Wire!Bytes
         /\ Undoes(HeaderRead(tag), 2, <<Wire!Magic, 2, tag>>)
<1>0. Byte \in Nat \ {0, 1} /\ 3 \in Nat /\ 3 \in 0..Byte - 1 /\ 2 \in 0..Byte - 1
      /\ tag \in 0..Byte - 1 /\ tag \in Nat
  BY DEF WireSizes
<1> DEFINE three == Repeat(3, Wire!ReadByte)
           rd == Filter(three, Headers(tag))
<1>1. three \in Good(Lists(3, Nat))
  BY <1>0, ByteIs, RepeatIs
<1>2. rd \in Good(Headers(tag))
  <2>1. Lists(3, Nat) \cap Headers(tag) = Headers(tag)
    BY DEF Headers
  <2>2. rd \in Good(Lists(3, Nat) \cap Headers(tag))
    <3> HIDE DEF three
    <3>. QED BY <1>1, FilterIs
  <2>. QED BY <2>1, <2>2
<1>3. HeaderRead(tag) = After(rd, HeaderEnd)
  BY DEF HeaderRead
<1>4. \A h \in Headers(tag) : HeaderEnd[h] = Yield(h[2]) /\ h[2] \in {1, 2}
  BY DEF HeaderEnd, Headers
<1> DEFINE ends == [h \in Headers(tag) |-> HeaderEnd[h]]
<1>5. ends \in [Headers(tag) -> Good({1, 2})]
  BY <1>0, <1>4, YieldIs
<1>6. HeaderRead(tag) = After(rd, ends)
  <2> SUFFICES ASSUME NEW s \in Wire!Bytes, rd[s].ok PROVE HeaderEnd[rd[s].v] = ends[rd[s].v]
    BY <1>3 DEF After
  <2> HIDE DEF rd
  <2>1. rd[s].v \in Headers(tag)
    BY <1>2, AfterAt
  <2>. QED BY <2>1
<1>7. HeaderRead(tag) \in Good({1, 2})
  <2> HIDE DEF rd, ends
  <2>. QED BY <1>0, <1>2, <1>5, <1>6, AfterIs
<1>8. ASSUME NEW s \in Wire!Bytes PROVE Wire!Opened(s, tag) = HeaderRead(tag)[s]
  <2> DEFINE h == Wire!Times(s, 3, Wire!ReadByte)
             fine == h.v[1] = Wire!Magic /\ h.v[2] \in {1, 2} /\ h.v[3] = tag
  <2>1. Wire!Opened(s, tag) =
          IF h.ok THEN IF fine THEN Wire!Got(h.v[2], h.rest) ELSE Wire!Lost ELSE Wire!Lost
    BY DEF Wire!Opened, Wire!Then
  <2>2. h = three[s]
    BY DEF Repeat
  <2> HIDE DEF h, three
  <2>3. h.ok => h.v \in Lists(3, Nat) /\ h.rest \in Wire!Bytes
    BY <1>1, <2>2, AfterAt
  <2>4. rd[s] = IF h.ok /\ h.v \in Headers(tag) THEN h ELSE Wire!Lost
    BY <2>2 DEF Filter
  <2>5. h.ok => (h.v \in Headers(tag) <=> fine)
    BY <2>3 DEF Headers
  <2>6. HeaderRead(tag)[s] = IF rd[s].ok THEN HeaderEnd[rd[s].v][rd[s].rest] ELSE Wire!Lost
    BY <1>3 DEF After
  <2>7. h.ok => HeaderEnd[h.v][h.rest] = Wire!Got(h.v[2], h.rest)
    BY <2>3 DEF HeaderEnd, Yield
  <2> HIDE DEF fine, rd
  <2>8. CASE h.ok /\ fine
    <3>1. rd[s] = h
      BY <2>4, <2>5, <2>8
    <3>. QED BY <3>1, <2>1, <2>6, <2>7, <2>8
  <2>9. CASE ~(h.ok /\ fine)
    <3>1. rd[s] = Wire!Lost
      BY <2>4, <2>5, <2>9
    <3>. QED BY <3>1, <2>1, <2>6, <2>9, ReadIs
  <2>. QED BY <2>8, <2>9
<1> DEFINE w == <<Wire!Magic, 2, tag>>
<1>9. /\ w \in Seq(Nat) /\ Len(w) = 3 /\ w \in Wire!Bytes
      /\ w[1] = 3 /\ w[2] = 2 /\ w[3] = tag /\ w \in Headers(tag)
  <2>1. /\ w \in Seq(Nat) /\ Len(w) = 3 /\ w[1] = 3 /\ w[2] = 2 /\ w[3] = tag
        /\ w \in Seq(0..Byte - 1)
    BY <1>0 DEF Wire!Magic
  <2> HIDE DEF w
  <2>. QED BY <2>1 DEF Headers, Lists, Wire!Bytes, Wire!Magic
<1> HIDE DEF w
<1>10. Undoes(three, w, w)
  <2>1. \A i \in 1..Len(w) : w[i] \in 0..Byte - 1
    BY <1>0, <1>9, Streams
  <2>2. \A i \in 1..Len(w) : Undoes(Wire!ReadByte, w[i], <<w[i]>>)
    BY <1>0, <2>1, ByteIs
  <2>. QED BY <1>0, <1>9, <2>2, ByteIs, BytesUndo
<1>11. Undoes(rd, w, w)
  <2> HIDE DEF three
  <2>. QED BY <1>1, <1>9, <1>10, FilterIs
<1>12. HeaderEnd[w] = Yield(2)
  BY <1>9 DEF HeaderEnd, Headers
<1>13. Undoes(HeaderRead(tag), 2, w)
  <2> HIDE DEF rd
  <2>. QED BY <1>0, <1>3, <1>9, <1>11, <1>12, AfterYield
<1>. QED BY <1>7, <1>8, <1>9, <1>13 DEF w

\* What a good reader reads of what was written for a value, and nothing of less.
LEMMA NothingLess ==
  ASSUME Byte \in Nat \ {0, 1}, NEW V, NEW rd \in Good(V), NEW x, NEW w \in Wire!Bytes,
         Undoes(rd, x, w)
  PROVE  rd[w] = Wire!Got(x, << >>) /\ \A n \in 0..Len(w) - 1 : ~rd[SubSeq(w, 1, n)].ok
<1>1. rd[w] = Wire!Got(x, << >>)
  <2>1. << >> \in Wire!Bytes /\ w \o << >> = w
    BY Streams
  <2>2. rd[w \o << >>] = Wire!Got(x, << >>)
    BY <2>1 DEF Undoes
  <2>. QED BY <2>1, <2>2
<1>2. ASSUME NEW n \in 0..Len(w) - 1 PROVE ~rd[SubSeq(w, 1, n)].ok
  <2> DEFINE s == SubSeq(w, 1, n)
             t == SubSeq(w, n + 1, Len(w))
  <2> SUFFICES ASSUME rd[s].ok PROVE FALSE
    OBVIOUS
  <2>1. s \in Wire!Bytes /\ t \in Wire!Bytes /\ Len(t) = Len(w) - n /\ s \o t = w
    <3> DEFINE D == 0..Byte - 1
    <3>1. w \in Seq(D)
      BY DEF Wire!Bytes
    <3>2. s \in Seq(D) /\ Len(s) = n /\ \A i \in 1..n : s[i] = w[i]
      <4> HIDE DEF D
      <4>. QED BY <3>1
    <3>3. t \in Seq(D) /\ Len(t) = Len(w) - n /\ \A i \in 1..Len(w) - n : t[i] = w[i + n]
      <4> HIDE DEF D
      <4>1. Len(w) \in Nat /\ n \in Nat /\ n < Len(w)
        BY <3>1
      <4>2. t \in Seq(D) /\ Len(t) = Len(w) - n
        BY <3>1, <4>1
      <4>3. \A i \in 1..Len(w) - n : t[i] = w[i + n]
        BY <3>1, <4>1
      <4>. QED BY <4>2, <4>3
    <3> HIDE DEF s, t, D
    <3>4. s \o t \in Seq(D) /\ Len(s \o t) = Len(w) /\ \A i \in 1..Len(w) : (s \o t)[i] = w[i]
      <4>1. Len(w) \in Nat /\ n \in Nat /\ n < Len(w)
        BY <3>1
      <4> DEFINE joined == s \o t
      <4>2. /\ joined \in Seq(D) /\ Len(joined) = Len(s) + Len(t)
            /\ \A i \in 1..Len(s) : joined[i] = s[i]
            /\ \A i \in 1..Len(t) : joined[i + Len(s)] = t[i]
        <5>1. \A p, q \in Seq(D) : /\ p \o q \in Seq(D) /\ Len(p \o q) = Len(p) + Len(q)
                                   /\ \A i \in 1..Len(p) : (p \o q)[i] = p[i]
                                   /\ \A i \in 1..Len(q) : (p \o q)[i + Len(p)] = q[i]
          OBVIOUS
        <5>2. s \in Seq(D) /\ t \in Seq(D)
          BY <3>2, <3>3
        <5>. QED BY <5>1, <5>2
      <4> HIDE DEF joined
      <4>3. ASSUME NEW i \in 1..Len(w) PROVE joined[i] = w[i]
        <5>1. CASE i <= n
          BY <5>1, <4>1, <4>2, <3>2
        <5>2. CASE i > n
          <6>1. i - n \in 1..Len(w) - n /\ (i - n) + n = i
            BY <5>2, <4>1
          <6>2. joined[i] = t[i - n]
            BY <6>1, <4>2, <3>2, <3>3
          <6>. QED BY <6>1, <6>2, <3>3
        <5>. QED BY <5>1, <5>2, <4>1
      <4>. QED BY <4>1, <4>2, <4>3, <3>2, <3>3 DEF joined
    <3>5. s \o t = w
      BY <3>1, <3>4
    <3>. QED BY <3>2, <3>3, <3>5 DEF D, Wire!Bytes
  <2> HIDE DEF s, t
  <2>2. rd[s].rest \in Wire!Bytes /\ rd[w] = Wire!Got(rd[s].v, rd[s].rest \o t)
    <3>1. rd[s].rest \in Wire!Bytes
      BY <2>1, AfterAt
    <3>2. rd[s \o t] = Wire!Got(rd[s].v, rd[s].rest \o t)
      BY <2>1 DEF Good, Steady
    <3>. QED BY <2>1, <3>1, <3>2
  <2>3. rd[s].rest \o t = << >>
    <3>1. Wire!Got(x, << >>).rest = << >>
          /\ Wire!Got(rd[s].v, rd[s].rest \o t).rest = rd[s].rest \o t
      BY DEF Wire!Got
    <3>. QED BY <1>1, <2>2, <3>1
  <2>4. Len(rd[s].rest \o t) = Len(rd[s].rest) + Len(t) /\ Len(rd[s].rest) \in Nat
            /\ Len(w) \in Nat
    BY <2>1, <2>2, Streams
  <2>5. Len(rd[s].rest \o t) = 0
    BY <2>3
  <2>. QED BY <2>1, <2>4, <2>5
<1>. QED BY <1>1, <1>2

\* Streams of ciphers.
CipherFile == [s \in Wire!Bytes |-> Wire!DeserializeCipher(s)]
CipherBodies == [version \in {1, 2} |-> Wire!ReadCipher(version)]

\* Reading one.
LEMMA CipherFileIs ==
  ASSUME WireSizes
  PROVE  /\ CipherFile \in Good(CiphersValid)
         /\ \A c \in CiphersWritten :
              LET w == Wire!Stream(Wire!Tag.cipher, Wire!WriteCipher(c))
              IN w \in Wire!Bytes /\ Undoes(CipherFile, c, w)
<1>0. Byte \in Nat \ {0, 1} /\ 0 \in 0..2 /\ Wire!Tag.cipher = 0
  BY DEF WireSizes, Wire!Tag
<1>1. CipherBodies \in [{1, 2} -> Good(CiphersValid)]
  BY CipherIs DEF CipherBodies
<1>2. HeaderRead(0) \in Good({1, 2})
  BY <1>0, HeaderIs
<1>3. CipherFile = After(HeaderRead(0), CipherBodies)
  <2> SUFFICES ASSUME NEW s \in Wire!Bytes
               PROVE  Wire!DeserializeCipher(s) = After(HeaderRead(0), CipherBodies)[s]
    BY DEF CipherFile, After
  <2> DEFINE h == HeaderRead(0)[s]
  <2>1. Wire!Opened(s, Wire!Tag.cipher) = h
    BY <1>0, HeaderIs
  <2> HIDE DEF h
  <2>2. Wire!DeserializeCipher(s) = IF h.ok THEN Wire!ReadCipher(h.v)[h.rest] ELSE Wire!Lost
    BY <2>1 DEF Wire!DeserializeCipher, Wire!Then
  <2>3. /\ h.ok => h.v \in {1, 2}
        /\ After(HeaderRead(0),
            CipherBodies)[s] = IF h.ok THEN CipherBodies[h.v][h.rest] ELSE Wire!Lost
    BY <1>2, AfterAt DEF h
  <2>4. h.ok => CipherBodies[h.v] = Wire!ReadCipher(h.v)
    BY <2>3 DEF CipherBodies
  <2>. QED BY <2>2, <2>3, <2>4
<1>4. CipherFile \in Good(CiphersValid)
  BY <1>0, <1>1, <1>2, <1>3, AfterIs
<1>5. ASSUME NEW c \in CiphersWritten
      PROVE  LET w == Wire!Stream(Wire!Tag.cipher, Wire!WriteCipher(c))
             IN w \in Wire!Bytes /\ Undoes(CipherFile, c, w)
  <2> DEFINE u == <<Wire!Magic, 2, 0>>
             v == Wire!WriteCipher(c)
  <2>1. Wire!Stream(Wire!Tag.cipher, v) = u \o v
    BY <1>0 DEF Wire!Stream
  <2>2. u \in Wire!Bytes /\ Undoes(HeaderRead(0), 2, u)
    BY <1>0, HeaderIs
  <2>3. v \in Wire!Bytes /\ Undoes(Wire!ReadCipher(2), c, v)
    BY CipherIs
  <2>4. Undoes(CipherBodies[2], c, v)
    BY <2>3 DEF CipherBodies
  <2> HIDE DEF u, v
  <2>5. Undoes(CipherFile, c, u \o v)
    BY <1>0, <1>3, <2>2, <2>3, <2>4, AfterUndoes
  <2>6. u \o v \in Wire!Bytes
    BY <1>0, <2>2, <2>3, Streams
  <2>. QED BY <2>1, <2>5, <2>6 DEF v
<1>. QED BY <1>4, <1>5

\* Streams of single proofs have no header.
ZeroFile == [s \in Wire!Bytes |-> Wire!DeserializeZeroProof(s)]

\* Reading one.
LEMMA ZeroFileIs ==
  ASSUME WireSizes
  PROVE  /\ ZeroFile \in Good(ProofsRead)
         /\ \A p \in ProofsWritten : /\ Wire!WriteProof(p) \in Wire!Bytes
                                     /\ Undoes(ZeroFile, p, Wire!WriteProof(p))
<1>1. Wire!ReadProof = [s \in Wire!Bytes |-> Wire!ReadProof[s]]
  BY Zenon DEF Wire!ReadProof
<1>2. ZeroFile = Wire!ReadProof
  BY <1>1, Zenon DEF ZeroFile, Wire!DeserializeZeroProof
<1>. QED BY <1>2, ProofIs, Zenon

-----------------------------------------------------------------------------
(* Range proofs.                                                           *)

\* Range proofs that can be read, and those that can be written.
RangesRead ==
  [bits : Lists(RangeBits, CiphersValid), proofs : Lists(RangeBits, ProofsRead),
      lc : ProofsRead]
RangesWritten ==
  [bits : Lists(RangeBits, CiphersWritten), proofs : Lists(RangeBits, ProofsWritten),
   lc : ProofsWritten]

\* The ciphers of the bits, as many proofs, and the last proof.
RangeOfThese(bits, ps, lc) == [bits |-> bits, proofs |-> ps, lc |-> lc]
RangeEnd(bits, ps) == [lc \in ProofsRead |-> Yield(RangeOfThese(bits, ps, lc))]
RangeProofs(bits) ==
  [ps \in Lists(RangeBits, ProofsRead) |-> After(Wire!ReadProof, RangeEnd(bits, ps))]
RangeStart ==
  [bits \in Lists(RangeBits, CiphersValid) |->
     After(Repeat(RangeBits, Wire!ReadProof), RangeProofs(bits))]
BitsRead(version) ==
  Filter(Enlist(Wide, Wire!ReadCipher(version)), Lists(RangeBits, CiphersValid))
RangeBody(version) == After(BitsRead(version), RangeStart)
RangeBodies == [version \in {1, 2} |-> RangeBody(version)]
RangeFile == [s \in Wire!Bytes |-> Wire!DeserializeRange(s)]

\* These are good.
LEMMA RangeParts ==
  ASSUME WireSizes
  PROVE  /\ \A version : /\ Enlist(Wide, Wire!ReadCipher(version)) \in Good(Seq(CiphersValid))
                         /\ BitsRead(version) \in Good(Lists(RangeBits, CiphersValid))
                         /\ RangeBody(version) \in Good(RangesRead)
         /\ RangeBodies \in [{1, 2} -> Good(RangesRead)]
         /\ Repeat(RangeBits, Wire!ReadProof) \in Good(Lists(RangeBits, ProofsRead))
         /\ Wire!ReadProof \in Good(ProofsRead)
<1>0. Byte \in Nat \ {0, 1} /\ Wide \in Nat \ {0} /\ RangeBits \in Nat
      /\ Wire!ReadProof \in Good(ProofsRead)
  BY ProofIs DEF WireSizes
<1>1. Repeat(RangeBits, Wire!ReadProof) \in Good(Lists(RangeBits, ProofsRead))
  BY <1>0, RepeatIs
<1>2. ASSUME NEW version
      PROVE  Enlist(Wide, Wire!ReadCipher(version)) \in Good(Seq(CiphersValid))
  BY <1>0, CipherIs, EnlistIs
<1>3. ASSUME NEW version PROVE BitsRead(version) \in Good(Lists(RangeBits, CiphersValid))
  <2> DEFINE L == Lists(RangeBits, CiphersValid)
             rd == Enlist(Wide, Wire!ReadCipher(version))
  <2>1. Seq(CiphersValid) \cap L = L
    BY DEF Lists
  <2>2. rd \in Good(Seq(CiphersValid)) /\ BitsRead(version) = Filter(rd, L)
    BY <1>2 DEF BitsRead
  <2> HIDE DEF L, rd
  <2>3. Filter(rd, L) \in Good(Seq(CiphersValid) \cap L)
    BY <2>2, FilterIs
  <2>. QED BY <2>1, <2>2, <2>3 DEF L
<1>4. \A bits \in Lists(RangeBits, CiphersValid), ps \in Lists(RangeBits, ProofsRead),
         lc \in ProofsRead : RangeOfThese(bits, ps, lc) \in RangesRead
  BY DEF RangeOfThese, RangesRead
<1>5. \A bits \in Lists(RangeBits, CiphersValid), ps \in Lists(RangeBits, ProofsRead),
         lc \in ProofsRead : Yield(RangeOfThese(bits, ps, lc)) \in Good(RangesRead)
  BY <1>0, <1>4, YieldIs
<1>6. \A bits \in Lists(RangeBits, CiphersValid), ps \in Lists(RangeBits, ProofsRead) :
        RangeEnd(bits, ps) \in [ProofsRead -> Good(RangesRead)]
  BY <1>5 DEF RangeEnd
<1>7. \A bits \in Lists(RangeBits, CiphersValid), ps \in Lists(RangeBits, ProofsRead) :
        After(Wire!ReadProof, RangeEnd(bits, ps)) \in Good(RangesRead)
  BY <1>0, <1>6, AfterIs
<1>8. \A bits \in Lists(RangeBits, CiphersValid) :
        RangeProofs(bits) \in [Lists(RangeBits, ProofsRead) -> Good(RangesRead)]
  BY <1>7 DEF RangeProofs
<1>9. \A bits \in Lists(RangeBits, CiphersValid) :
        After(Repeat(RangeBits, Wire!ReadProof), RangeProofs(bits)) \in Good(RangesRead)
  BY <1>0, <1>1, <1>8, AfterIs
<1>10. RangeStart \in [Lists(RangeBits, CiphersValid) -> Good(RangesRead)]
  BY <1>9 DEF RangeStart
<1>11. \A version : RangeBody(version) \in Good(RangesRead)
  BY <1>0, <1>3, <1>10, AfterIs DEF RangeBody
<1>12. RangeBodies \in [{1, 2} -> Good(RangesRead)]
  BY <1>11 DEF RangeBodies
<1>. QED BY <1>0, <1>1, <1>2, <1>3, <1>11, <1>12

\* Reading a range proof.
LEMMA RangeUnfolds ==
  ASSUME WireSizes
  PROVE  RangeFile = After(HeaderRead(1), RangeBodies)
<1> SUFFICES ASSUME NEW s \in Wire!Bytes
             PROVE  Wire!DeserializeRange(s) = After(HeaderRead(1), RangeBodies)[s]
  BY DEF RangeFile, After
<1>0. 1 \in 0..2 /\ Wire!Tag.range = 1
  BY DEF Wire!Tag
<1> DEFINE h == Wire!Opened(s, Wire!Tag.range)
           l == Wire!Counted(h.rest, Wide, Wire!ReadCipher(h.v))
           b == IF l.ok /\ Len(l.v) = RangeBits THEN l ELSE Wire!Lost
           p == Wire!Times(b.rest, RangeBits, Wire!ReadProof)
           c == Wire!ReadProof[p.rest]
           x == [bits |-> b.v, proofs |-> p.v, lc |-> c.v]
           end == IF c.ok THEN Wire!Got(x, c.rest) ELSE Wire!Lost
<1>1. Wire!DeserializeRange(s) =
        IF h.ok THEN IF b.ok THEN IF p.ok THEN end ELSE Wire!Lost ELSE Wire!Lost ELSE Wire!Lost
  BY DEF Wire!DeserializeRange, Wire!Then, Wire!Must
<1>2. /\ h.ok => h.v \in {1, 2} /\ h.rest \in Wire!Bytes
      /\ After(HeaderRead(1), RangeBodies)[s]
           = IF h.ok THEN RangeBodies[h.v][h.rest] ELSE Wire!Lost
  <2>1. h = HeaderRead(1)[s] /\ HeaderRead(1) \in Good({1, 2})
    BY <1>0, HeaderIs
  <2> HIDE DEF h
  <2>. QED BY <2>1, AfterAt
<1> HIDE DEF h
<1>3. ASSUME h.ok
      PROVE  /\ b.ok => b.v \in Lists(RangeBits, CiphersValid) /\ b.rest \in Wire!Bytes
             /\ RangeBodies[h.v][h.rest] = IF b.ok THEN RangeStart[b.v][b.rest] ELSE Wire!Lost
  <2>1. h.v \in {1, 2} /\ h.rest \in Wire!Bytes
    BY <1>2, <1>3
  <2>2. RangeBodies[h.v] = After(BitsRead(h.v), RangeStart)
    BY <2>1 DEF RangeBodies, RangeBody
  <2>3. b = BitsRead(h.v)[h.rest]
    <3>1. l = Enlist(Wide, Wire!ReadCipher(h.v))[h.rest]
      BY <2>1 DEF Enlist
    <3> HIDE DEF l
    <3>2. l.ok => l.v \in Seq(CiphersValid)
      BY <3>1, <2>1, RangeParts, AfterAt
    <3>3. BitsRead(h.v)[h.rest]
            = IF l.ok /\ l.v \in Lists(RangeBits, CiphersValid) THEN l ELSE Wire!Lost
      BY <3>1, <2>1 DEF BitsRead, Filter
    <3>4. l.ok => (l.v \in Lists(RangeBits, CiphersValid) <=> Len(l.v) = RangeBits)
      BY <3>2 DEF Lists
    <3>. QED BY <3>3, <3>4
  <2> HIDE DEF b
  <2>. QED BY <2>1, <2>2, <2>3, RangeParts, AfterAt
<1> HIDE DEF b
<1>4. ASSUME h.ok, b.ok
      PROVE  /\ p.ok => p.v \in Lists(RangeBits, ProofsRead) /\ p.rest \in Wire!Bytes
             /\ RangeStart[b.v][b.rest] =
                 IF p.ok THEN RangeProofs(b.v)[p.v][p.rest] ELSE Wire!Lost
  <2>1. b.v \in Lists(RangeBits, CiphersValid) /\ b.rest \in Wire!Bytes
    BY <1>3, <1>4
  <2>2. RangeStart[b.v] = After(Repeat(RangeBits, Wire!ReadProof), RangeProofs(b.v))
    BY <2>1 DEF RangeStart
  <2>3. p = Repeat(RangeBits, Wire!ReadProof)[b.rest]
    BY <2>1 DEF Repeat
  <2> HIDE DEF p
  <2>. QED BY <2>1, <2>2, <2>3, RangeParts, AfterAt
<1> HIDE DEF p
<1>5. ASSUME h.ok, b.ok, p.ok PROVE RangeProofs(b.v)[p.v][p.rest] = end
  <2>1. p.v \in Lists(RangeBits, ProofsRead) /\ p.rest \in Wire!Bytes
    BY <1>4, <1>5
  <2>2. RangeProofs(b.v)[p.v] = After(Wire!ReadProof, RangeEnd(b.v, p.v))
    BY <2>1 DEF RangeProofs
  <2>3. x = RangeOfThese(b.v, p.v, c.v)
    BY DEF RangeOfThese
  <2>4. /\ c.ok => c.v \in ProofsRead
        /\ After(Wire!ReadProof, RangeEnd(b.v, p.v))[p.rest]
             = IF c.ok THEN RangeEnd(b.v, p.v)[c.v][c.rest] ELSE Wire!Lost
        /\ c.ok => c.rest \in Wire!Bytes
    BY <2>1, RangeParts, AfterAt
  <2> HIDE DEF c, x
  <2>5. c.ok => RangeEnd(b.v, p.v)[c.v][c.rest] = Wire!Got(x, c.rest)
    BY <2>3, <2>4 DEF RangeEnd, Yield
  <2>. QED BY <2>2, <2>4, <2>5
<1> HIDE DEF end
<1>. QED BY <1>1, <1>2, <1>3, <1>4, <1>5

\* What is written of the parts is read as the parts.
LEMMA RangePartsAre ==
  ASSUME WireSizes, NEW r \in RangesWritten
  PROVE  LET u == Wire!List(r.bits, Wire!WriteCipher)
             v == Wire!All(r.proofs, Wire!WriteProof)
         IN /\ u \in Wire!Bytes /\ Undoes(BitsRead(2), r.bits, u)
            /\ v \in Wire!Bytes /\ Undoes(Repeat(RangeBits, Wire!ReadProof), r.proofs, v)
            /\ r.bits \in Lists(RangeBits, CiphersValid)
            /\ r.proofs \in Lists(RangeBits, ProofsRead)
<1>0. /\ Byte \in Nat \ {0, 1} /\ Wide \in Nat \ {0} /\ RangeBits \in Nat
      /\ RangeBits <= MaxCount
  BY DEF WireSizes
<1> DEFINE bits == r.bits
           ps == r.proofs
           u == Wire!List(bits, Wire!WriteCipher)
           v == Wire!All(ps, Wire!WriteProof)
<1>1. /\ bits \in Seq(CiphersWritten) /\ Len(bits) = RangeBits
      /\ ps \in Seq(ProofsWritten) /\ Len(ps) = RangeBits
  BY DEF RangesWritten, Lists
<1> HIDE DEF bits, ps
<1>2. /\ u \in Wire!Bytes /\ bits \in Seq(CiphersValid)
      /\ Undoes(Enlist(Wide, Wire!ReadCipher(2)), bits, u)
  <2> DEFINE write == [x \in CiphersWritten |-> Wire!WriteCipher(x)]
             w == Listed(bits, write)
  <2>1. u = w
    <3>1. \A i \in DOMAIN bits : bits[i] \in CiphersWritten
      BY <1>1
    <3>2. [i \in DOMAIN bits |-> Wire!WriteCipher(bits[i])] =
              [i \in DOMAIN bits |-> write[bits[i]]]
      BY <3>1
    <3>. QED BY <3>2 DEF Wire!List, Wire!All, Listed
  <2>2. Writes(write, CiphersWritten, Wire!ReadCipher(2), CiphersValid, Wide)
    <3>1. CiphersWritten \subseteq CiphersValid
          /\ \A x \in CiphersWritten : write[x] = Wire!WriteCipher(x)
      BY CipherIs
    <3>2. write \in [CiphersWritten -> Wire!Bytes]
      BY CipherIs
    <3> HIDE DEF write
    <3>3. \A x \in CiphersWritten : Len(write[x]) >= Wide
              /\ Undoes(Wire!ReadCipher(2), x, write[x])
      BY <3>1, CipherIs
    <3>. QED BY <1>0, <3>1, <3>2, <3>3, CipherIs DEF Writes
  <2> HIDE DEF u, w, write
  <2>3. /\ bits \in Seq(CiphersValid) /\ w \in Wire!Bytes
        /\ Undoes(Enlist(Wide, Wire!ReadCipher(2)), bits, w)
    BY <1>0, <1>1, <2>2, ListIs DEF w
  <2>. QED BY <2>1, <2>3
<1>3. bits \in Lists(RangeBits, CiphersValid)
  BY <1>1, <1>2 DEF Lists
<1>4. Undoes(BitsRead(2), bits, u)
  <2> DEFINE L == Lists(RangeBits, CiphersValid)
             rd == Enlist(Wide, Wire!ReadCipher(2))
  <2>1. rd \in Good(Seq(CiphersValid)) /\ BitsRead(2) = Filter(rd, L)
    BY RangeParts DEF BitsRead
  <2>2. bits \in L /\ u \in Wire!Bytes /\ Undoes(rd, bits, u)
    BY <1>2, <1>3
  <2> HIDE DEF L, rd, u
  <2>3. Undoes(Filter(rd, L), bits, u)
    BY <2>1, <2>2, FilterIs
  <2>. QED BY <2>1, <2>3
<1>5. ProofsWritten \subseteq ProofsRead
  BY ProofIs
<1>6. ps \in Seq(ProofsRead)
  BY <1>1, <1>5
<1>7. v \in Wire!Bytes /\ Undoes(Repeat(RangeBits, Wire!ReadProof), ps, v)
  <2> DEFINE ws == [i \in DOMAIN ps |-> Wire!WriteProof(ps[i])]
  <2>1. \A i \in 1..Len(ps) : ws[i] = Wire!WriteProof(ps[i]) /\ ps[i] \in ProofsWritten
    BY <1>1
  <2>2. Cut(ws, Len(ps)) = ws
    <3>1. DOMAIN ps = 1..Len(ps)
      BY <1>1
    <3>. QED BY <3>1 DEF Cut
  <2>3. v = Wire!FlattenSeq(ws)
    BY DEF Wire!All
  <2> HIDE DEF ws, v
  <2>4. \A i \in 1..Len(ps) : ws[i] \in Wire!Bytes /\ Undoes(Wire!ReadProof, ps[i], ws[i])
    BY <2>1, ProofIs
  <2>5. /\ Wire!FlattenSeq(Cut(ws, Len(ps))) \in Wire!Bytes
        /\ Undoes(Repeat(Len(ps), Wire!ReadProof), ps, Wire!FlattenSeq(Cut(ws, Len(ps))))
    BY <1>0, <1>6, <2>4, RangeParts, RepeatUndoes
  <2>. QED BY <1>1, <2>2, <2>3, <2>5
<1>8. ps \in Lists(RangeBits, ProofsRead)
  BY <1>1, <1>6 DEF Lists
<1>. QED BY <1>2, <1>3, <1>4, <1>7, <1>8 DEF bits, ps

\* Range proofs are read as they were written.
LEMMA RangeFileIs ==
  ASSUME WireSizes
  PROVE  /\ RangeFile \in Good(RangesRead)
         /\ \A r \in RangesWritten :
              LET w == Wire!Stream(Wire!Tag.range, Wire!WriteRange(r))
              IN w \in Wire!Bytes /\ Undoes(RangeFile, r, w)
<1>0. Byte \in Nat \ {0, 1} /\ 1 \in 0..2 /\ Wire!Tag.range = 1
  BY DEF WireSizes, Wire!Tag
<1>1. HeaderRead(1) \in Good({1, 2})
  BY <1>0, HeaderIs
<1>2. RangeFile \in Good(RangesRead)
  BY <1>0, <1>1, RangeParts, RangeUnfolds, AfterIs
<1>3. ASSUME NEW r \in RangesWritten
      PROVE  LET w == Wire!Stream(Wire!Tag.range, Wire!WriteRange(r))
             IN w \in Wire!Bytes /\ Undoes(RangeFile, r, w)
  <2> DEFINE a == <<Wire!Magic, 2, 1>>
             b == Wire!List(r.bits, Wire!WriteCipher)
             c == Wire!All(r.proofs, Wire!WriteProof)
             d == Wire!WriteProof(r.lc)
  <2>1. Wire!Stream(Wire!Tag.range, Wire!WriteRange(r)) = a \o ((b \o c) \o d)
    BY <1>0 DEF Wire!Stream, Wire!WriteRange
  <2>2. a \in Wire!Bytes /\ Undoes(HeaderRead(1), 2, a)
    BY <1>0, HeaderIs
  <2>3. /\ b \in Wire!Bytes /\ Undoes(BitsRead(2), r.bits, b)
        /\ c \in Wire!Bytes /\ Undoes(Repeat(RangeBits, Wire!ReadProof), r.proofs, c)
        /\ r.bits \in Lists(RangeBits, CiphersValid)
            /\ r.proofs \in Lists(RangeBits, ProofsRead)
    BY RangePartsAre
  <2>4. r.lc \in ProofsWritten /\ r = RangeOfThese(r.bits, r.proofs, r.lc)
    BY DEF RangesWritten, RangeOfThese
  <2>5. d \in Wire!Bytes /\ Undoes(Wire!ReadProof, r.lc, d) /\ r.lc \in ProofsRead
    BY <2>4, ProofIs
  <2> HIDE DEF a, b, c, d
  <2>6. c \o d \in Wire!Bytes /\ (b \o c) \o d = b \o (c \o d)
    BY <1>0, <2>3, <2>5, Streams
  <2>7. b \o (c \o d) \in Wire!Bytes
    BY <1>0, <2>3, <2>6, Streams
  <2>8. a \o (b \o (c \o d)) \in Wire!Bytes
    BY <1>0, <2>2, <2>7, Streams
  <2>9. Undoes(RangeProofs(r.bits)[r.proofs], r, d)
    <3>1. RangeEnd(r.bits, r.proofs)[r.lc] = Yield(r)
      BY <2>4, <2>5 DEF RangeEnd
    <3>2. Undoes(After(Wire!ReadProof, RangeEnd(r.bits, r.proofs)), r, d)
      BY <1>0, <2>5, <3>1, AfterYield
    <3>. QED BY <2>3, <3>2 DEF RangeProofs
  <2>10. Undoes(RangeStart[r.bits], r, c \o d)
    <3>1. Undoes(After(Repeat(RangeBits, Wire!ReadProof), RangeProofs(r.bits)), r, c \o d)
      BY <1>0, <2>3, <2>5, <2>9, AfterUndoes
    <3>. QED BY <2>3, <3>1 DEF RangeStart
  <2>11. Undoes(RangeBodies[2], r, b \o (c \o d))
    <3>1. Undoes(After(BitsRead(2), RangeStart), r, b \o (c \o d))
      BY <1>0, <2>3, <2>6, <2>10, AfterUndoes
    <3>. QED BY <3>1 DEF RangeBodies, RangeBody
  <2>12. Undoes(RangeFile, r, a \o (b \o (c \o d)))
    BY <1>0, <2>2, <2>7, <2>11, RangeUnfolds, AfterUndoes
  <2>. QED BY <2>1, <2>6, <2>8, <2>12
<1>. QED BY <1>2, <1>3

-----------------------------------------------------------------------------
(* What is read of whatever bytes.                                         *)

\* The function that Resolvable computes.
Knows(layers) == CHOOSE known : known =
  [k \in 0..Len(layers) |->
    IF k = 0 THEN {i \in 1..Len(layers) : layers[i].rule = 0}
    ELSE known[k - 1] \cup {i \in 1..Len(layers) : layers[i].rule # 0 /\
                              {layers[i].pa + 1, layers[i].pb + 1} \subseteq known[k - 1]}]

\* Layers that pass validate_cipher_structure can be computed one after the other.
LEMMA ValidResolves ==
  ASSUME NEW c, c.L \in Seq(LayersRead), Wire!Valid(c)
  PROVE  Wire!Resolvable(c.L)
<1> DEFINE layers == c.L
           n == Len(layers)
           D == SUBSET (1..n)
           base == {i \in 1..n : layers[i].rule = 0}
           Wider(X) == X \cup {i \in 1..n : layers[i].rule # 0 /\
                                {layers[i].pa + 1, layers[i].pb + 1} \subseteq X}
           turn == [k \in 1..n |-> [X \in D |-> Wider(X)]]
           f == Knows(layers)
           Is(known) == known = [k \in 0..n |-> IF k = 0 THEN base ELSE Wider(known[k - 1])]
<1>1. n \in Nat /\ base \in D /\ \A X \in D : Wider(X) \in D
  <2>1. n \in Nat
    OBVIOUS
  <2>2. base \in D
    OBVIOUS
  <2> HIDE DEF n
  <2>3. \A X \in D : Wider(X) \in D
    OBVIOUS
  <2>. QED BY <2>1, <2>2, <2>3
<1>2. (\E g : Is(g)) => Is(f)
  BY DEF Knows
<1>3. Wire!Resolvable(layers) <=> f[n] = 1..n
  BY DEF Wire!Resolvable, Knows
<1>4. \A i \in 1..n : \/ i \in base
                      \/ /\ layers[i].rule # 0
                         /\ layers[i].pa + 1 \in 1..(i - 1) /\ layers[i].pb + 1 \in 1..(i - 1)
  <2> SUFFICES ASSUME NEW i \in 1..n, i \notin base
               PROVE  /\ layers[i].rule # 0
                      /\ layers[i].pa + 1 \in 1..(i - 1) /\ layers[i].pb + 1 \in 1..(i - 1)
    OBVIOUS
  <2>1. layers[i] \in LayersRead
    OBVIOUS
  <2>2. layers[i].rule # 0
    OBVIOUS
  <2>3. layers[i].pa \in Nat /\ layers[i].pb \in Nat
    BY <2>1, <2>2 DEF LayersRead, BaseLayers, PairLayers
  <2>4. i \in DOMAIN c.L
    OBVIOUS
  <2>5. layers[i].pa < i - 1 /\ layers[i].pb < i - 1
    BY <2>2, <2>4 DEF Wire!Valid
  <2>. QED BY <2>2, <2>3, <2>5
<1>5. \A X : \A i \in 1..n : /\ layers[i].rule # 0
                             /\ layers[i].pa + 1 \in X /\ layers[i].pb + 1 \in X
                             => i \in Wider(X)
  OBVIOUS
<1>6. \A X : X \subseteq Wider(X)
  OBVIOUS
<1> HIDE DEF Wider, base, f
<1>7. turn \in [1..n -> [D -> D]] /\ \A k \in 1..n, X \in D : turn[k][X] = Wider(X)
  BY <1>1
<1> HIDE DEF turn, n
<1>8. PICK g \in [0..n -> D] : Iterates(g, base, n, turn)
  BY <1>1, <1>7, Iteration
<1>9. Is(g)
  <2>1. \A k \in 1..n : g[k - 1] \in D /\ g[k] = turn[k][g[k - 1]]
    BY <1>1, <1>8 DEF Iterates
  <2>2. \A k \in 1..n : g[k] = Wider(g[k - 1])
    BY <2>1, <1>7
  <2>. QED BY <2>2, <1>8 DEF Iterates
<1>10. f[0] = base /\ \A k \in 1..n : f[k] = Wider(f[k - 1])
  BY <1>1, <1>2, <1>9
<1> DEFINE S == {k \in Nat : k <= n => f[k] \in D /\ base \subseteq f[k]
        /\ 1..k \subseteq f[k]}
<1>11. 0 \in S
  <2>1. 1..0 = {} /\ f[0] = base /\ base \in D
    BY <1>1, <1>10
  <2> HIDE DEF D
  <2>. QED BY <2>1
<1>12. ASSUME NEW k \in Nat, k \in S PROVE k + 1 \in S
  <2> SUFFICES ASSUME k + 1 <= n
               PROVE  f[k + 1] \in D /\ base \subseteq f[k + 1]
                   /\ 1..(k + 1) \subseteq f[k + 1]
    OBVIOUS
  <2> DEFINE X == f[k]
             i == k + 1
  <2>1. X \in D /\ base \subseteq X /\ 1..k \subseteq X
    BY <1>1, <1>12
  <2>2. i \in 1..n /\ i - 1 = k /\ 1..i = (1..k) \cup {i}
    BY <1>1
  <2>3. f[i] = Wider(X)
    BY <2>2, <1>10
  <2>4. i \in Wider(X)
    BY <2>1, <2>2, <1>4, <1>5, <1>6
  <2> HIDE DEF X, i
  <2>5. Wider(X) \in D /\ X \subseteq Wider(X)
    BY <2>1, <1>1, <1>6
  <2>6. base \subseteq Wider(X) /\ 1..i \subseteq Wider(X)
    BY <2>1, <2>2, <2>4, <2>5
  <2>. QED BY <2>3, <2>5, <2>6 DEF i
<1>13. Nat \subseteq S
  <2> HIDE DEF S
  <2>. QED BY <1>11, <1>12, NatInduct
<1>14. f[n] \in D /\ 1..n \subseteq f[n]
  BY <1>13, <1>1
<1>. QED BY <1>3, <1>14

(* Whatever the bytes, the layers of a cipher that is read can be computed:  *)
(* layer_R_cached (src/pvac/include/pvac/ops/decrypt.hpp) asks for the       *)
(* factors of the parents and comes to an end.                               *)
THEOREM ReadsOnlyResolvable ==
  ASSUME WireSizes, NEW s \in Wire!Bytes
  PROVE  Wire!ReadsResolvable(s)
<1> DEFINE r == Wire!DeserializeCipher(s)
           c == r.v
<1>1. r = CipherFile[s] /\ CipherFile \in Good(CiphersValid)
  BY CipherFileIs DEF CipherFile
<1>2. SUFFICES ASSUME r.ok PROVE Wire!Resolvable(c.L)
  BY DEF Wire!ReadsResolvable
<1> HIDE DEF r
<1>3. c \in CiphersValid
  BY <1>1, <1>2, AfterAt
<1>4. c.L \in Seq(LayersRead) /\ Wire!Valid(c)
  BY <1>3 DEF CiphersValid, CiphersRead
<1> HIDE DEF c
<1>. QED BY <1>4, ValidResolves

-----------------------------------------------------------------------------
(* What is read of what was written.                                       *)

\* What is written of an input that can be written: it is read, and no less of it.
StreamInputs ==
    [kind : {"cipher"}, v : CiphersWritten] \cup [kind : {"zero"}, v : ProofsWritten]
                  \cup [kind : {"range"}, v : RangesWritten]

(* Every cipher, every proof of zero and every range proof that fits its     *)
(* numbers is read by deserialize_cipher, read_zero_proof_raw and            *)
(* deserialize_range_proof (src/pvac/pvac_serialize.hpp) as it was written,  *)
(* and what is left of its bytes when some are cut off at the end is refused. *)
THEOREM CiphersAreKept ==
  ASSUME WireSizes, input \in StreamInputs
  PROVE  CiphersKept
<1>0. Byte \in Nat \ {0, 1}
  BY DEF WireSizes
<1> DEFINE Kept(rd, x, w) == /\ w \in Wire!Bytes /\ rd[w] = Wire!Got(x, << >>)
                             /\ \A n \in 0..Len(w) - 1 : /\ SubSeq(w, 1, n) \in Wire!Bytes
                                                         /\ ~rd[SubSeq(w, 1, n)].ok
<1>1. ASSUME NEW V, NEW rd \in Good(V), NEW x, NEW w \in Wire!Bytes, Undoes(rd, x, w)
      PROVE  Kept(rd, x, w)
  <2>1. ASSUME NEW n \in 0..Len(w) - 1 PROVE SubSeq(w, 1, n) \in Wire!Bytes
    <3>1. \A S : \A t \in Seq(S) : \A m \in 0..Len(t) : SubSeq(t, 1, m) \in Seq(S)
      OBVIOUS
    <3>2. n \in 0..Len(w)
      BY DEF Wire!Bytes
    <3>. QED BY <3>1, <3>2 DEF Wire!Bytes
  <2>. QED BY <1>0, <1>1, <2>1, NothingLess
<1> HIDE DEF Kept
<1>2. CASE input \in [kind : {"cipher"}, v : CiphersWritten]
  <2> DEFINE w == Wire!Stream(Wire!Tag.cipher, Wire!WriteCipher(input.v))
  <2>1. input.kind = "cipher" /\ input.v \in CiphersWritten
    BY <1>2
  <2>2. InputBytes = w /\ \A s : ReadBack(s) = Wire!DeserializeCipher(s)
    BY <2>1 DEF InputBytes, ReadBack
  <2>3. w \in Wire!Bytes /\ Undoes(CipherFile, input.v, w) /\ CipherFile \in Good(CiphersValid)
    BY <2>1, CipherFileIs
  <2> HIDE DEF w
  <2>4. Kept(CipherFile, input.v, w)
    BY <2>3, <1>1
  <2>5. \A s \in Wire!Bytes : CipherFile[s] = ReadBack(s)
    BY <2>2 DEF CipherFile
  <2>. QED BY <2>2, <2>4, <2>5, ReadIs DEF Kept, CiphersKept
<1>3. CASE input \in [kind : {"zero"}, v : ProofsWritten]
  <2> DEFINE w == Wire!WriteProof(input.v)
  <2>1. input.kind = "zero" /\ input.v \in ProofsWritten
    BY <1>3
  <2>2. InputBytes = w /\ \A s : ReadBack(s) = Wire!DeserializeZeroProof(s)
    BY <2>1 DEF InputBytes, ReadBack
  <2>3. w \in Wire!Bytes /\ Undoes(ZeroFile, input.v, w) /\ ZeroFile \in Good(ProofsRead)
    BY <2>1, ZeroFileIs
  <2> HIDE DEF w
  <2>4. Kept(ZeroFile, input.v, w)
    BY <2>3, <1>1
  <2>5. \A s \in Wire!Bytes : ZeroFile[s] = ReadBack(s)
    BY <2>2 DEF ZeroFile
  <2>. QED BY <2>2, <2>4, <2>5, ReadIs DEF Kept, CiphersKept
<1>4. CASE input \in [kind : {"range"}, v : RangesWritten]
  <2> DEFINE w == Wire!Stream(Wire!Tag.range, Wire!WriteRange(input.v))
  <2>1. input.kind = "range" /\ input.v \in RangesWritten
    BY <1>4
  <2>2. InputBytes = w /\ \A s : ReadBack(s) = Wire!DeserializeRange(s)
    BY <2>1 DEF InputBytes, ReadBack
  <2>3. w \in Wire!Bytes /\ Undoes(RangeFile, input.v, w) /\ RangeFile \in Good(RangesRead)
    BY <2>1, RangeFileIs
  <2> HIDE DEF w
  <2>4. Kept(RangeFile, input.v, w)
    BY <2>3, <1>1
  <2>5. \A s \in Wire!Bytes : RangeFile[s] = ReadBack(s)
    BY <2>2 DEF RangeFile
  <2>. QED BY <2>2, <2>4, <2>5, ReadIs DEF Kept, CiphersKept
<1>. QED BY <1>2, <1>3, <1>4 DEF StreamInputs

(* A written cipher with any one byte replaced by another is refused, or its *)
(* layers can be computed.                                                   *)
THEOREM CiphersAreSound ==
  ASSUME WireSizes, input.kind = "cipher" => input.v \in CiphersWritten
  PROVE  CiphersSound
<1> SUFFICES ASSUME input.kind = "cipher", NEW i \in DOMAIN InputBytes, NEW b \in 0..Byte - 1
             PROVE  Wire!ReadsResolvable([InputBytes EXCEPT ![i] = b])
  BY DEF CiphersSound
<1>1. InputBytes = Wire!Stream(Wire!Tag.cipher, Wire!WriteCipher(input.v))
  BY DEF InputBytes
<1>2. InputBytes \in Wire!Bytes
  BY <1>1, CipherFileIs
<1>3. \A w \in Seq(0..Byte - 1) : \A k \in DOMAIN w : [w EXCEPT ![k] = b] \in Seq(0..Byte - 1)
  OBVIOUS
<1>4. [InputBytes EXCEPT ![i] = b] \in Wire!Bytes
  BY <1>2, <1>3 DEF Wire!Bytes
<1>. QED BY <1>4, ReadsOnlyResolvable
-----------------------------------------------------------------------------
(* Numbers in digits, the last first.                                       *)

\* A step at a time, values stay in a set.
LEMMA StaysIn ==
  ASSUME NEW D, NEW N \in Nat, NEW f, f[0] \in D, \A k \in 1..N : f[k - 1] \in D => f[k] \in D
  PROVE  \A k \in 0..N : f[k] \in D
<1> DEFINE S == {k \in Nat : k <= N => f[k] \in D}
<1>1. 0 \in S
  OBVIOUS
<1>2. ASSUME NEW k \in Nat, k \in S PROVE k + 1 \in S
  <2> SUFFICES ASSUME k + 1 <= N PROVE f[k + 1] \in D
    OBVIOUS
  <2>1. k + 1 \in 1..N /\ (k + 1) - 1 = k /\ f[k] \in D
    BY <1>2
  <2>. QED BY <2>1
<1>3. Nat \subseteq S
  <2> HIDE DEF S
  <2>. QED BY <1>1, <1>2, NatInduct
<1>. QED BY <1>3

\* A step back at a time, what holds at the end holds before.
LEMMA StaysBack ==
  ASSUME NEW D, NEW N \in Nat, NEW f, f[N] \in D, \A k \in 1..N : f[k] \in D => f[k - 1] \in D
  PROVE  \A k \in 0..N : f[k] \in D
<1> DEFINE g == [k \in 0..N |-> f[N - k]]
<1>1. g[0] \in D
  OBVIOUS
<1>2. ASSUME NEW k \in 1..N, g[k - 1] \in D PROVE g[k] \in D
  <2>1. N - (k - 1) \in 1..N /\ N - (k - 1) - 1 = N - k /\ k - 1 \in 0..N /\ k \in 0..N
    OBVIOUS
  <2>. QED BY <2>1, <1>2
<1>3. \A k \in 0..N : g[k] \in D
  <2> HIDE DEF g
  <2>. QED BY <1>1, <1>2, StaysIn
<1>4. ASSUME NEW k \in 0..N PROVE f[k] \in D
  <2>1. N - k \in 0..N /\ N - (N - k) = k
    OBVIOUS
  <2>. QED BY <2>1, <1>3
<1>. QED BY <1>4

\* The function whose last value is Power.
KeyPowers(base, n) == CHOOSE power : power = [k \in 0..n |-> IF k = 0 THEN 1 ELSE base * power[k - 1]]

\* Its values are those powers.
LEMMA KeyPowersAre ==
  ASSUME NEW base \in Nat, NEW n \in Nat
  PROVE  /\ KeyPowers(base, n) \in [0..n -> Nat] /\ KeyPowers(base, n)[0] = 1
         /\ \A k \in 1..n : KeyPowers(base, n)[k] = base * KeyPowers(base, n)[k - 1]
         /\ Coder!Power(base, n) = KeyPowers(base, n)[n]
<1> DEFINE f == KeyPowers(base, n)
           turn == [k \in 1..n |-> [x \in Nat |-> base * x]]
           Is(power) == power = [k \in 0..n |-> IF k = 0 THEN 1 ELSE base * power[k - 1]]
<1>1. turn \in [1..n -> [Nat -> Nat]] /\ \A k \in 1..n, x \in Nat : turn[k][x] = base * x
  OBVIOUS
<1> HIDE DEF turn
<1>2. PICK g \in [0..n -> Nat] : Iterates(g, 1, n, turn)
  BY <1>1, Iteration
<1>3. Is(g)
  <2>1. \A k \in 1..n : g[k - 1] \in Nat /\ g[k] = turn[k][g[k - 1]]
    BY <1>2 DEF Iterates
  <2>2. \A k \in 1..n : g[k] = base * g[k - 1]
    BY <2>1, <1>1
  <2>. QED BY <2>2, <1>2 DEF Iterates
<1>4. Is(f)
  BY <1>3 DEF KeyPowers
<1> HIDE DEF f
<1>5. f[0] = 1 /\ \A k \in 1..n : f[k] = base * f[k - 1]
  BY <1>4
<1>6. \A k \in 0..n : f[k] \in Nat
  <2>1. f[0] \in Nat /\ \A k \in 1..n : f[k - 1] \in Nat => f[k] \in Nat
    BY <1>5
  <2>. QED BY <2>1, StaysIn
<1>7. f \in [0..n -> Nat]
  BY <1>4, <1>6
<1>8. Coder!Power(base, n) = KeyPowers(base, n)[n]
  BY DEF KeyPowers, Coder!Power
<1>. QED BY <1>5, <1>7, <1>8 DEF f

\* Powers of one base agree.
LEMMA KeyPowerIs ==
  ASSUME NEW base \in Nat
  PROVE  /\ Coder!Power(base, 0) = 1
         /\ \A n \in Nat : /\ Coder!Power(base, n) \in Nat
                           /\ Coder!Power(base, n + 1) = base * Coder!Power(base, n)
<1>1. Coder!Power(base, 0) = 1
  BY KeyPowersAre
<1>2. ASSUME NEW n \in Nat
      PROVE  /\ Coder!Power(base, n) \in Nat
             /\ Coder!Power(base, n + 1) = base * Coder!Power(base, n)
  <2> DEFINE f == KeyPowers(base, n)
             g == KeyPowers(base, n + 1)
             D == {k \in 0..n : f[k] = g[k]}
  <2>1. /\ f \in [0..n -> Nat] /\ f[0] = 1 /\ (\A k \in 1..n : f[k] = base * f[k - 1])
        /\ Coder!Power(base, n) = f[n]
    BY KeyPowersAre
  <2>2. /\ g \in [0..n + 1 -> Nat] /\ g[0] = 1 /\ (\A k \in 1..n + 1 : g[k] = base * g[k - 1])
        /\ Coder!Power(base, n + 1) = g[n + 1]
    <3>1. n + 1 \in Nat
      OBVIOUS
    <3>. QED BY <3>1, KeyPowersAre
  <2> HIDE DEF f, g
  <2> DEFINE id == [k \in 0..n |-> k]
  <2>3. \A k \in 0..n : id[k] \in D
    <3>1. id[0] \in D
      BY <2>1, <2>2
    <3>2. ASSUME NEW k \in 1..n, id[k - 1] \in D PROVE id[k] \in D
      <4>1. k - 1 \in 0..n /\ k \in 0..n /\ k \in 1..n + 1 /\ f[k - 1] = g[k - 1]
        BY <3>2
      <4>. QED BY <4>1, <2>1, <2>2
    <3> HIDE DEF D, id
    <3>. QED BY <3>1, <3>2, StaysIn
  <2>4. f[n] = g[n] /\ f[n] \in Nat /\ n + 1 \in 1..n + 1 /\ (n + 1) - 1 = n
    BY <2>1, <2>3
  <2>. QED BY <2>1, <2>2, <2>4
<1>. QED BY <1>1, <1>2

\* The function whose last value is Down.
KeyDowns(v, n, base) ==
  CHOOSE down : down = [j \in 0..n |-> IF j = 0 THEN v ELSE down[j - 1] \div base]

\* Its values are what is left.
LEMMA KeyDownsAre ==
  ASSUME NEW base \in Nat \ {0}, NEW n \in Nat, NEW v \in Nat
  PROVE  /\ KeyDowns(v, n, base) \in [0..n -> Nat] /\ KeyDowns(v, n, base)[0] = v
         /\ \A k \in 1..n : KeyDowns(v, n, base)[k] = KeyDowns(v, n, base)[k - 1] \div base
         /\ Coder!Down(v, n, base) = KeyDowns(v, n, base)[n]
<1> DEFINE f == KeyDowns(v, n, base)
           turn == [k \in 1..n |-> [x \in Nat |-> x \div base]]
           Is(down) == down = [j \in 0..n |-> IF j = 0 THEN v ELSE down[j - 1] \div base]
<1>1. turn \in [1..n -> [Nat -> Nat]] /\ \A k \in 1..n, x \in Nat : turn[k][x] = x \div base
  OBVIOUS
<1> HIDE DEF turn
<1>2. PICK g \in [0..n -> Nat] : Iterates(g, v, n, turn)
  BY <1>1, Iteration
<1>3. Is(g)
  <2>1. \A k \in 1..n : g[k - 1] \in Nat /\ g[k] = turn[k][g[k - 1]]
    BY <1>2 DEF Iterates
  <2>2. \A k \in 1..n : g[k] = g[k - 1] \div base
    BY <2>1, <1>1
  <2>. QED BY <2>2, <1>2 DEF Iterates
<1>4. Is(f)
  BY <1>3 DEF KeyDowns
<1> HIDE DEF f
<1>5. f[0] = v /\ \A k \in 1..n : f[k] = f[k - 1] \div base
  BY <1>4
<1>6. \A k \in 0..n : f[k] \in Nat
  <2>1. \A x \in Nat : x \div base \in Nat
    OBVIOUS
  <2>2. ASSUME NEW k \in 1..n, f[k - 1] \in Nat PROVE f[k] \in Nat
    BY <2>1, <2>2, <1>5
  <2>3. f[0] \in Nat
    BY <1>5
  <2>. QED BY <2>2, <2>3, StaysIn
<1>7. f \in [0..n -> Nat]
  BY <1>4, <1>6
<1>8. Coder!Down(v, n, base) = KeyDowns(v, n, base)[n]
  BY DEF KeyDowns, Coder!Down
<1>. QED BY <1>5, <1>7, <1>8 DEF f

\* A digit less at a time.
LEMMA KeyDownIs ==
  ASSUME NEW base \in Nat \ {0}, NEW v \in Nat
  PROVE  /\ Coder!Down(v, 0, base) = v
         /\ \A n \in Nat : /\ Coder!Down(v, n, base) \in Nat
                           /\ Coder!Down(v, n + 1, base) = Coder!Down(v, n, base) \div base
<1>1. Coder!Down(v, 0, base) = v
  <2>1. KeyDowns(v, 0, base)[0] = v /\ Coder!Down(v, 0, base) = KeyDowns(v, 0, base)[0]
    BY KeyDownsAre
  <2>. QED BY <2>1
<1>2. ASSUME NEW n \in Nat
      PROVE  /\ Coder!Down(v, n, base) \in Nat
             /\ Coder!Down(v, n + 1, base) = Coder!Down(v, n, base) \div base
  <2> DEFINE f == KeyDowns(v, n, base)
             g == KeyDowns(v, n + 1, base)
             D == {k \in 0..n : f[k] = g[k]}
             id == [k \in 0..n |-> k]
  <2>1. /\ f \in [0..n -> Nat] /\ f[0] = v /\ (\A k \in 1..n : f[k] = f[k - 1] \div base)
        /\ Coder!Down(v, n, base) = f[n]
    BY KeyDownsAre
  <2>2. /\ g \in [0..n + 1 -> Nat] /\ g[0] = v
        /\ (\A k \in 1..n + 1 : g[k] = g[k - 1] \div base)
        /\ Coder!Down(v, n + 1, base) = g[n + 1]
    <3>1. n + 1 \in Nat
      OBVIOUS
    <3>. QED BY <3>1, KeyDownsAre
  <2> HIDE DEF f, g
  <2>3. \A k \in 0..n : id[k] \in D
    <3>1. id[0] \in D
      BY <2>1, <2>2
    <3>2. ASSUME NEW k \in 1..n, id[k - 1] \in D PROVE id[k] \in D
      <4>1. k - 1 \in 0..n /\ k \in 0..n /\ k \in 1..n + 1 /\ f[k - 1] = g[k - 1]
        BY <3>2
      <4>. QED BY <4>1, <2>1, <2>2
    <3> HIDE DEF D, id
    <3>. QED BY <3>1, <3>2, StaysIn
  <2>4. f[n] = g[n] /\ f[n] \in Nat /\ n + 1 \in 1..n + 1 /\ (n + 1) - 1 = n
    BY <2>1, <2>3
  <2>. QED BY <2>1, <2>2, <2>4
<1>. QED BY <1>1, <1>2

\* A quotient is less than what the number is a multiple of.
LEMMA QuotientLess ==
  ASSUME NEW m \in Nat \ {0}, NEW n \in Nat, NEW x \in 0..m * n - 1
  PROVE  x \div m \in 0..n - 1
<1> DEFINE q == x \div m
           r == x % m
           mn == m * n
           mq == m * q
<1>1. x = q * m + r /\ r \in 0..m - 1 /\ q \in Int /\ x \in Int
  <2>1. x \in Int
    BY Ints
  <2>. QED BY <2>1, DivMod
<1> HIDE DEF q, r
<1>2. mn \in Int /\ mq \in Int /\ q * m = mq /\ m * (-1) = -m
  BY <1>1, Products
<1>3. n <= q => mn <= mq
  BY <1>1, Monotone
<1>4. q <= -1 => mq <= -m
  <2>1. q <= -1 => m * q <= m * (-1)
    BY <1>1, Monotone
  <2>. QED BY <2>1, <1>2
<1>5. 0 <= x /\ x <= mn - 1
  BY <1>2
<1> HIDE DEF mn, mq
<1>6. x = mq + r
  BY <1>1, <1>2
<1>7. ~(n <= q)
  BY <1>1, <1>2, <1>3, <1>5, <1>6
<1>8. ~(q <= -1)
  BY <1>1, <1>2, <1>4, <1>5, <1>6
<1>9. q \in 0..n - 1
  BY <1>1, <1>7, <1>8
<1>. QED BY <1>9 DEF q

\* A number of n digits has no more.
LEMMA NoDigitsLeft ==
  ASSUME NEW base \in Nat \ {0}, NEW n \in Nat, NEW v \in 0..Coder!Power(base, n) - 1
  PROVE  Coder!Down(v, n, base) = 0
<1> DEFINE P(k) == Coder!Power(base, k)
           D(k) == Coder!Down(v, k, base)
           S == {k \in 0..n : D(k) \in 0..P(n - k) - 1}
           id == [k \in 0..n |-> k]
<1>1. P(0) = 1 /\ \A k \in Nat : P(k) \in Nat /\ P(k + 1) = base * P(k)
  BY KeyPowerIs
<1>2. P(n) \in Nat /\ v \in Nat
  BY <1>1
<1>3. D(0) = v /\ \A k \in Nat : D(k) \in Nat /\ D(k + 1) = D(k) \div base
  BY <1>2, KeyDownIs
<1> HIDE DEF P, D
<1>4. id[0] \in S
  <2>1. n - 0 = n /\ v \in 0..P(n) - 1
    BY DEF P
  <2>. QED BY <2>1, <1>3
<1>5. ASSUME NEW k \in 1..n, id[k - 1] \in S PROVE id[k] \in S
  <2>1. k - 1 \in Nat /\ (k - 1) + 1 = k /\ n - k \in Nat /\ n - (k - 1) = (n - k) + 1
        /\ k - 1 \in 0..n /\ k \in 0..n
    OBVIOUS
  <2>2. D(k - 1) \in 0..base * P(n - k) - 1 /\ D(k) = D(k - 1) \div base /\ P(n - k) \in Nat
    BY <2>1, <1>1, <1>3, <1>5
  <2>3. D(k) \in 0..P(n - k) - 1
    BY <2>2, QuotientLess
  <2>. QED BY <2>1, <2>3
<1>6. \A k \in 0..n : id[k] \in S
  <2> HIDE DEF id, S
  <2>. QED BY <1>4, <1>5, StaysIn
<1>7. D(n) \in 0..P(0) - 1
  BY <1>6
<1>. QED BY <1>1, <1>7 DEF D

\* A number is its last digit and the others.
LEMMA LastDigit ==
  ASSUME NEW base \in Nat \ {0}, NEW v \in Nat, NEW k \in Nat
  PROVE  /\ Coder!Down(v, k, base) = base * Coder!Down(v, k + 1, base) + (Coder!Down(v, k, base) % base)
         /\ Coder!Down(v, k, base) \in Nat /\ Coder!Down(v, k + 1, base) \in Nat
         /\ Coder!Down(v, k, base) % base \in 0..base - 1
<1> DEFINE x == Coder!Down(v, k, base)
           y == Coder!Down(v, k + 1, base)
<1>1. x \in Nat /\ y \in Nat /\ y = x \div base
  BY KeyDownIs
<1> HIDE DEF x, y
<1>2. x = base * (x \div base) + (x % base) /\ x % base \in 0..base - 1
  BY <1>1
<1>. QED BY <1>1, <1>2 DEF x, y

-----------------------------------------------------------------------------
(***************************************************************************)
(* Frames: a message is read as it was written.  The number in a header is  *)
(* the length that was written there (LengthIsRead), a frame is found where *)
(* it is held (PlainHeld, HiddenHeld), a turn of a reader reads one frame   *)
(* (PlainDataRead, HiddenDataRead, ControlRead), and the turns of a reader end *)
(* with the message (ReadEnds).                                             *)
(***************************************************************************)

\* What is assumed of the parameters, for a header's first two bytes.
LEMMA HeaderBytes ==
  ASSUME FrameSizes
  PROVE  /\ FrameByte \in Nat \ {0} /\ Frames!Half \in Nat /\ FrameByte = 2 * Frames!Half
         /\ ShortLength \in Nat /\ ShortLength + 1 < Frames!Half /\ Frames!Bytes = 0..FrameByte - 1
         /\ \A op \in 0..Opcodes - 1 :
              /\ op % Opcodes = op /\ (Frames!Half + op) % Opcodes = op
              /\ op \in Frames!Bytes /\ Frames!Half + op \in Frames!Bytes
              /\ op < Frames!Half /\ Frames!Half + op >= Frames!Half
<1> DEFINE h == Frames!Half
           o == Opcodes
<1>1. /\ FrameByte \in Nat /\ FrameByte = 2 * h /\ ShortLength \in Nat /\ ShortLength + 1 < h
      /\ o \in Nat \ {0} /\ h % o = 0
  BY DEF FrameSizes
<1>2. Frames!Bytes = 0..FrameByte - 1
  BY DEF Frames!Bytes
<1> HIDE DEF h, o
<1>3. h \in Nat /\ h > 1
  <2>1. h \in Int
    <3>1. FrameByte \div 2 \in Int
      BY <1>1
    <3>. QED BY <3>1 DEF h, Frames!Half
  <2>. QED BY <2>1, <1>1
<1>4. o <= h
  <2> SUFFICES ASSUME h < o PROVE FALSE
    BY <1>1, <1>3
  <2>1. h % o = h
    <3>1. h \in 0..o - 1
      BY <1>1, <1>3
    <3>2. (0 * o + h) % o = h
      BY <3>1, <1>1, DivModUnique
    <3>3. 0 * o + h = h
      BY <1>1, <1>3
    <3>. QED BY <3>2, <3>3
  <2>. QED BY <2>1, <1>1, <1>3
<1>5. ASSUME NEW op \in 0..o - 1
      PROVE  op % o = op /\ (h + op) % o = op
  <2> DEFINE q == h \div o
  <2>1. h = q * o + 0 /\ q \in Int
    <3>1. h = q * o + (h % o) /\ q \in Int
      BY <1>1, <1>3, DivMod
    <3>. QED BY <3>1, <1>1
  <2>2. (q * o + op) % o = op
    BY <2>1, <1>1, DivModUnique
  <2>3. (0 * o + op) % o = op
    BY <1>1, DivModUnique
  <2>4. q * o + op = h + op
    <3> DEFINE qo == q * o
    <3>1. qo \in Int
      BY <2>1, <1>1, Ints
    <3>2. h = qo + 0
      BY <2>1
    <3> HIDE DEF qo
    <3>3. qo + op = h + op
      BY <3>1, <3>2, <1>1
    <3>. QED BY <3>3 DEF qo
  <2>5. 0 * o + op = op
    BY <1>1
  <2>. QED BY <2>2, <2>3, <2>4, <2>5
<1>6. ASSUME NEW op \in 0..o - 1
      PROVE  /\ op \in Frames!Bytes /\ h + op \in Frames!Bytes /\ op < h /\ h + op >= h
  BY <1>1, <1>2, <1>3, <1>4
<1>7. FrameByte \in Nat \ {0}
  BY <1>1, <1>3
<1>. QED BY <1>1, <1>2, <1>3, <1>5, <1>6, <1>7 DEF h, o

\* The number that is read from bytes, with each of them.
Numbers(s, p, k) ==
  CHOOSE number : number = [i \in 0..k |-> IF i = 0 THEN 0
                                           ELSE number[i - 1] * FrameByte + s[p + i]]

BytesAt(s, p, k) == \A i \in 1..k : s[p + i] \in Frames!Bytes
NumbersFrom(r, s, p, k) ==
  r[0] = 0 /\ r[k] \in Nat /\ \A i \in 1..k : r[i] = r[i - 1] * FrameByte + s[p + i]

\* They are numbers.
LEMMA NumbersAre ==
  ASSUME FrameSizes, NEW s, NEW p \in Nat, NEW k \in Nat, BytesAt(s, p, k)
  PROVE  /\ Frames!Number(s, p, k) = Numbers(s, p, k)[k]
         /\ NumbersFrom(Numbers(s, p, k), s, p, k)
<1> DEFINE r == Numbers(s, p, k)
           b == FrameByte
           Up(x, i) == x * b + s[p + i]
           turn == [i \in 1..k |-> [x \in Nat |-> Up(x, i)]]
           Is(f) == f = [i \in 0..k |-> IF i = 0 THEN 0 ELSE Up(f[i - 1], i)]
<1>1. b \in Nat \ {0} /\ Frames!Bytes = 0..b - 1
  BY HeaderBytes
<1>2. Frames!Number(s, p, k) = r[k] /\ r = CHOOSE f : Is(f)
  BY DEF Frames!Number, Numbers
<1> HIDE DEF b, r
<1>3. ASSUME NEW i \in 1..k, NEW x \in Nat PROVE Up(x, i) \in Nat
  <2>1. s[p + i] \in Nat
    BY <1>1 DEF BytesAt
  <2>2. x * b \in Nat
    BY <1>1
  <2>. QED BY <2>1, <2>2
<1>4. turn \in [1..k -> [Nat -> Nat]] /\ \A i \in 1..k, x \in Nat : turn[i][x] = Up(x, i)
  <2> HIDE DEF Up
  <2>. QED BY <1>3
<1> HIDE DEF turn, Up
<1>5. PICK g \in [0..k -> Nat] : Iterates(g, 0, k, turn)
  BY <1>4, Iteration
<1>6. Is(g)
  <2>1. \A i \in 1..k : g[i - 1] \in Nat /\ g[i] = turn[i][g[i - 1]]
    BY <1>5 DEF Iterates
  <2>2. \A i \in 1..k : g[i] = Up(g[i - 1], i)
    BY <2>1, <1>4
  <2>. QED BY <2>2, <1>5 DEF Iterates
<1>7. Is(r)
  BY <1>2, <1>6
<1>8. r[0] = 0 /\ \A i \in 1..k : r[i] = Up(r[i - 1], i)
  BY <1>7
<1>9. \A i \in 0..k : r[i] \in Nat
  <2>1. ASSUME NEW i \in 1..k, r[i - 1] \in Nat PROVE r[i] \in Nat
    BY <2>1, <1>3, <1>8
  <2>2. r[0] \in Nat
    BY <1>8
  <2>. QED BY <2>1, <2>2, StaysIn
<1>. QED BY <1>2, <1>8, <1>9 DEF b, r, Up, NumbersFrom

\* A length is read as it was written.
LEMMA LengthIsRead ==
  ASSUME FrameSizes, NEW s, NEW p \in Nat, NEW k \in Nat,
         NEW n \in 0..Coder!Power(FrameByte, k) - 1,
         \A i \in 1..k : s[p + i] = Frames!Down(n, k - i) % FrameByte
  PROVE  Frames!Number(s, p, k) = n
<1> DEFINE b == FrameByte
           W(i) == Coder!Down(n, i, b)
           r == Numbers(s, p, k)
           S == {i \in 0..k : r[i] = W(k - i)}
           id == [i \in 0..k |-> i]
<1>1. b \in Nat \ {0} /\ Frames!Bytes = 0..b - 1 /\ n \in Nat
  <2>1. b \in Nat \ {0} /\ Frames!Bytes = 0..b - 1
    BY HeaderBytes
  <2>2. Coder!Power(b, k) \in Nat
    BY <2>1, KeyPowerIs
  <2>. QED BY <2>1, <2>2
<1>2. \A i \in Nat : Frames!Down(n, i) = W(i)
  BY DEF Frames!Down, Coder!Down
<1>3. W(0) = n /\ W(k) = 0
  BY <1>1, KeyDownIs, NoDigitsLeft
<1>4. \A i \in Nat : /\ W(i) = b * W(i + 1) + (W(i) % b) /\ W(i) \in Nat /\ W(i + 1) \in Nat
                     /\ W(i) % b \in 0..b - 1
  BY <1>1, LastDigit
<1> HIDE DEF W, b
<1>5. \A i \in 1..k : k - i \in Nat /\ s[p + i] = W(k - i) % b
  BY <1>2 DEF b
<1>6. BytesAt(s, p, k)
  BY <1>1, <1>4, <1>5 DEF BytesAt
<1>7. /\ Frames!Number(s, p, k) = r[k] /\ r[0] = 0
      /\ \A i \in 1..k : r[i] = r[i - 1] * b + s[p + i]
  <2>1. /\ Frames!Number(s, p, k) = Numbers(s, p, k)[k]
        /\ NumbersFrom(Numbers(s, p, k), s, p, k)
    BY <1>6, NumbersAre
  <2>. QED BY <2>1 DEF b, NumbersFrom
<1> HIDE DEF r
<1>8. id[0] \in S
  <2>1. k - 0 = k /\ 0 \in 0..k
    OBVIOUS
  <2>. QED BY <2>1, <1>3, <1>7
<1>9. ASSUME NEW i \in 1..k, id[i - 1] \in S PROVE id[i] \in S
  <2> DEFINE j == k - i
             w == W(j + 1)
  <2>1. j \in Nat /\ k - (i - 1) = j + 1 /\ i - 1 \in 0..k /\ i \in 0..k
    OBVIOUS
  <2>2. r[i - 1] = w
    BY <1>9, <2>1
  <2>3. r[i] = w * b + (W(j) % b)
    BY <2>2, <1>5, <1>7
  <2> HIDE DEF j
  <2>4. W(j) = b * w + (W(j) % b) /\ w \in Nat
    BY <2>1, <1>4
  <2> HIDE DEF w
  <2>5. b * w = w * b
    BY <2>4, <1>1
  <2>6. r[i] = W(j)
    BY <2>3, <2>4, <2>5
  <2>. QED BY <2>1, <2>6 DEF j
<1>10. \A i \in 0..k : id[i] \in S
  <2> HIDE DEF id, S
  <2>. QED BY <1>8, <1>9, StaysIn
<1>11. r[k] = W(0)
  <2>1. k \in 0..k /\ k - k = 0
    OBVIOUS
  <2>. QED BY <2>1, <1>10
<1>12. r[k] = n
  BY <1>3, <1>11
<1>. QED BY <1>7, <1>12

-----------------------------------------------------------------------------
(* What a stream holds from a place on.                                     *)

Starts(s, p, t) == p + Len(t) <= Len(s) /\ \A i \in 1..Len(t) : s[p + i] = t[i]

\* The parts of a joined sequence, one after the other.
LEMMA StartsJoined ==
  ASSUME NEW D, NEW t \in Seq(D), NEW u \in Seq(D), NEW s \in Seq(D), NEW p \in Nat,
         Starts(s, p, t \o u)
  PROVE  Starts(s, p, t) /\ Starts(s, p + Len(t), u)
<1> DEFINE v == t \o u
           m == Len(t)
           n == Len(u)
<1>1. /\ v \in Seq(D) /\ Len(v) = m + n /\ m \in Nat /\ n \in Nat /\ Len(s) \in Nat
      /\ \A i \in 1..m : v[i] = t[i]
      /\ \A i \in 1..n : v[m + i] = u[i]
  OBVIOUS
<1>2. p + Len(v) <= Len(s) /\ \A i \in 1..Len(v) : s[p + i] = v[i]
  BY DEF Starts
<1> HIDE DEF v
<1>3. Starts(s, p, t)
  <2>1. p + m <= Len(s)
    BY <1>1, <1>2
  <2>2. ASSUME NEW i \in 1..m PROVE s[p + i] = t[i]
    <3>1. i \in 1..Len(v)
      BY <1>1
    <3>. QED BY <3>1, <1>1, <1>2
  <2>. QED BY <2>1, <2>2 DEF Starts
<1>4. Starts(s, p + m, u)
  <2>1. (p + m) + n <= Len(s)
    BY <1>1, <1>2
  <2>2. ASSUME NEW i \in 1..n PROVE s[(p + m) + i] = u[i]
    <3>1. m + i \in 1..Len(v) /\ p + (m + i) = (p + m) + i
      BY <1>1
    <3>2. s[p + (m + i)] = v[m + i]
      BY <3>1, <1>2
    <3>. QED BY <3>1, <3>2, <1>1
  <2> HIDE DEF m, n
  <2>. QED BY <2>1, <2>2 DEF Starts, n
<1>. QED BY <1>3, <1>4

\* The first part of a joined sequence.
LEMMA StartsFirst ==
  ASSUME NEW D, NEW t \in Seq(D), NEW u \in Seq(D)
  PROVE  Starts(t \o u, 0, t) /\ t \o u \in Seq(D)
<1>1. 0 + Len(t) <= Len(t \o u) /\ t \o u \in Seq(D)
  OBVIOUS
<1>2. ASSUME NEW i \in 1..Len(t) PROVE (t \o u)[0 + i] = t[i]
  OBVIOUS
<1>. QED BY <1>1, <1>2 DEF Starts

\* What is held is what is cut out.
LEMMA StartsCut ==
  ASSUME NEW D, NEW t \in Seq(D), NEW s \in Seq(D), NEW p \in Nat, Starts(s, p, t)
  PROVE  SubSeq(s, p + 1, p + Len(t)) = t
<1> DEFINE u == SubSeq(s, p + 1, p + Len(t))
           m == Len(t)
<1>1. m \in Nat /\ p + m <= Len(s) /\ Len(s) \in Nat /\ \A i \in 1..m : s[p + i] = t[i]
  BY DEF Starts
<1>2. Len(u) = m /\ u \in Seq(D) /\ \A i \in 1..m : u[i] = s[p + i]
  <2>1. \A i \in p + 1..p + m : s[i] \in D
    BY <1>1
  <2>2. u = [i \in 1..m |-> s[p + i]]
    <3>1. (p + m) - (p + 1) + 1 = m
      BY <1>1
    <3>2. \A i \in 1..m : (i + (p + 1)) - 1 = p + i
      BY <1>1
    <3>. QED BY <3>1, <3>2, <1>1
  <2>3. \A i \in 1..m : s[p + i] \in D
    BY <2>1, <1>1
  <2> HIDE DEF u, m
  <2>. QED BY <2>2, <2>3, <1>1
<1> HIDE DEF u
<1>3. u = t
  BY <1>1, <1>2
<1>. QED BY <1>3 DEF u

-----------------------------------------------------------------------------
(* Lengths.                                                                 *)

\* How many bytes a length takes after the first of them, and what is that one's.
Extra(n) == IF n < ShortLength THEN 0
            ELSE IF n < FrameByte * FrameByte THEN 2 ELSE LengthBytes
Code(n) == IF n < ShortLength THEN n
           ELSE IF n < FrameByte * FrameByte THEN ShortLength ELSE ShortLength + 1

\* The lengths of messages.
MessageSizes == 0..Coder!Power(FrameByte, LengthBytes) - 1

\* A length is a code and a number of so many bytes.
LEMMA LengthsAre ==
  ASSUME FrameSizes, NEW n \in MessageSizes, NEW bit \in {0, Frames!Half}
  PROVE  /\ n \in Nat /\ Extra(n) \in Nat /\ Frames!Digits(n, Extra(n)) \in Seq(Frames!Bytes)
         /\ Len(Frames!Digits(n, Extra(n))) = Extra(n)
         /\ bit + Code(n) \in Frames!Bytes /\ (bit + Code(n)) % Frames!Half = Code(n)
         /\ (bit + Code(n) >= Frames!Half <=> bit = Frames!Half)
         /\ Frames!Lengths(n, bit) = IF Extra(n) = 0 THEN <<bit + Code(n)>>
                                     ELSE <<bit + Code(n)>> \o Frames!Digits(n, Extra(n))
         /\ Extra(n) # 0 => n \in 0..Coder!Power(FrameByte, Extra(n)) - 1
<1> DEFINE b == FrameByte
           h == Frames!Half
           k == Extra(n)
           c == Code(n)
           P(i) == Coder!Power(b, i)
<1>1. /\ b \in Nat \ {0} /\ h \in Nat /\ b = 2 * h /\ ShortLength \in Nat /\ ShortLength + 1 < h
      /\ Frames!Bytes = 0..b - 1 /\ LengthBytes \in Nat
  BY HeaderBytes DEF FrameSizes
<1>2. P(LengthBytes) \in Nat /\ P(0) = 1 /\ P(2) = b * b /\ n \in 0..P(LengthBytes) - 1
  <2>1. \A i \in Nat : P(i) \in Nat /\ P(i + 1) = b * P(i)
    BY <1>1, KeyPowerIs
  <2>2. P(0) = 1
    BY <1>1, KeyPowerIs
  <2> HIDE DEF P
  <2>3. P(0 + 1) = b * P(0) /\ P(1 + 1) = b * P(1) /\ P(LengthBytes) \in Nat
    BY <2>1, <1>1
  <2>4. P(1) = b
    BY <2>2, <2>3, <1>1
  <2>5. P(2) = b * b
    BY <2>3, <2>4
  <2>. QED BY <2>2, <2>3, <2>5 DEF P, MessageSizes
<1>3. n \in Nat /\ n < P(LengthBytes)
  BY <1>2
<1> HIDE DEF P
<1>4. k \in Nat /\ c \in 0..ShortLength + 1 /\ c < h
  BY <1>1, <1>3 DEF Extra, Code
<1>5. k # 0 => n \in 0..P(k) - 1
  <2> DEFINE bb == b * b
  <2>1. bb \in Nat
    BY <1>1
  <2>2. k # 0 => (k = 2 /\ n < bb) \/ k = LengthBytes
    BY DEF Extra
  <2> HIDE DEF k
  <2>3. P(2) = bb
    BY <1>2
  <2> HIDE DEF bb
  <2>. QED BY <2>1, <2>2, <2>3, <1>2, <1>3
<1>6. bit + c \in Frames!Bytes /\ (bit + c) % h = c /\ (bit + c >= h <=> bit = h)
  <2> HIDE DEF c, h
  <2>1. bit = 0 \/ bit = h
    BY DEF h
  <2>2. CASE bit = 0
    <3>1. bit + c = 0 * h + c
      BY <2>2, <1>1, <1>4
    <3>2. (0 * h + c) % h = c
      BY <1>1, <1>4, DivModUnique
    <3>. QED BY <3>1, <3>2, <2>2, <1>1, <1>4
  <2>3. CASE bit = h
    <3>1. bit + c = 1 * h + c
      BY <2>3, <1>1, <1>4
    <3>2. (1 * h + c) % h = c
      BY <1>1, <1>4, DivModUnique
    <3>. QED BY <3>1, <3>2, <2>3, <1>1, <1>4
  <2>. QED BY <2>1, <2>2, <2>3
<1>7. Frames!Digits(n, k) \in Seq(Frames!Bytes) /\ Len(Frames!Digits(n, k)) = k
  <2> DEFINE d(i) == Frames!Down(n, k - i) % b
  <2>1. ASSUME NEW i \in 1..k PROVE d(i) \in Frames!Bytes
    <3>1. k - i \in Nat
      BY <1>4
    <3>2. \A j \in Nat : Coder!Down(n, j, b) % b \in 0..b - 1
      BY <1>1, <1>3, LastDigit
    <3>3. \A j \in Nat : Frames!Down(n, j) = Coder!Down(n, j, b)
      BY DEF Frames!Down, Coder!Down
    <3>. QED BY <3>1, <3>2, <3>3, <1>1
  <2>2. Frames!Digits(n, k) = [i \in 1..k |-> d(i)]
    BY DEF Frames!Digits
  <2> HIDE DEF d, k
  <2>. QED BY <2>1, <2>2, <1>4
<1>8. Frames!Lengths(n, bit) = IF k = 0 THEN <<bit + c>> ELSE <<bit + c>> \o Frames!Digits(n, k)
  <2>1. Frames!Lengths(n, bit) =
          IF n < ShortLength THEN <<bit + n>>
          ELSE IF n < b * b THEN <<bit + ShortLength>> \o Frames!Digits(n, 2)
          ELSE <<bit + ShortLength + 1>> \o Frames!Digits(n, LengthBytes)
    BY DEF Frames!Lengths
  <2> DEFINE bb == b * b
  <2>2. bb \in Nat /\ k = (IF n < ShortLength THEN 0 ELSE IF n < bb THEN 2 ELSE LengthBytes)
    BY <1>1 DEF Extra
  <2>3. c = (IF n < ShortLength THEN n ELSE IF n < bb THEN ShortLength ELSE ShortLength + 1)
    BY DEF Code
  <2> HIDE DEF k, c
  <2>4. CASE n < ShortLength
    BY <2>1, <2>2, <2>3, <2>4
  <2>5. CASE ~(n < ShortLength) /\ n < bb
    BY <2>1, <2>2, <2>3, <2>5
  <2>6. CASE ~(n < ShortLength) /\ ~(n < bb)
    <3>1. LengthBytes # 0
      <4> SUFFICES ASSUME LengthBytes = 0 PROVE FALSE
        OBVIOUS
      <4>1. n = 0 /\ bb > 0
        BY <1>1, <1>2, <1>3
      <4>. QED BY <4>1, <2>6
    <3>2. bit + ShortLength + 1 = bit + c
      <4>1. c = ShortLength + 1
        BY <2>3, <2>6
      <4>2. bit \in Nat
        BY <1>1
      <4>. QED BY <4>1, <4>2, <1>1
    <3>. QED BY <3>1, <3>2, <2>1, <2>2, <2>6
  <2>. QED BY <2>4, <2>5, <2>6
<1>. QED BY <1>3, <1>4, <1>5, <1>6, <1>7, <1>8 DEF P

\* A number that takes no bytes is its own code.
LEMMA NoExtra ==
  ASSUME FrameSizes, NEW n \in MessageSizes
  PROVE  /\ Extra(n) = 0 => n < ShortLength /\ Code(n) = n
         /\ Extra(n) # 0 => \/ Code(n) = ShortLength /\ Extra(n) = 2
                            \/ Code(n) = ShortLength + 1 /\ Extra(n) = LengthBytes
         /\ n < ShortLength => Extra(n) = 0 /\ Code(n) = n
<1> DEFINE bb == FrameByte * FrameByte
<1>1. n \in Nat /\ FrameByte \in Nat \ {0} /\ bb \in Nat /\ bb > 0 /\ LengthBytes \in Nat
  <2>1. FrameByte \in Nat \ {0}
    BY HeaderBytes
  <2>2. n \in Nat
    BY LengthsAre
  <2>3. bb \in Nat /\ bb > 0
    BY <2>1
  <2>. QED BY <2>1, <2>2, <2>3 DEF FrameSizes
<1>2. n >= bb => LengthBytes # 0
  <2> SUFFICES ASSUME n >= bb, LengthBytes = 0 PROVE FALSE
    OBVIOUS
  <2>1. Coder!Power(FrameByte, 0) = 1
    BY <1>1, KeyPowerIs
  <2>2. n \in 0..Coder!Power(FrameByte, 0) - 1
    BY DEF MessageSizes
  <2>3. n = 0
    BY <2>1, <2>2
  <2> HIDE DEF bb
  <2>. QED BY <2>3, <1>1
<1>3. /\ Extra(n) = (IF n < ShortLength THEN 0 ELSE IF n < bb THEN 2 ELSE LengthBytes)
      /\ Code(n) = (IF n < ShortLength THEN n ELSE IF n < bb THEN ShortLength ELSE ShortLength + 1)
  BY DEF Extra, Code
<1> HIDE DEF bb
<1>. QED BY <1>1, <1>2, <1>3

\* What a length is read as.
LengthRead(s, p, wide, n, bit) ==
  LET l == Frames!LengthOf(s, p, wide)
  IN /\ l.ok /\ l.n = n /\ l.end = p + 2 + Extra(n) /\ p + 2 + Extra(n) <= Len(s)
     /\ (s[p + 2] >= Frames!Half <=> bit = Frames!Half)

LEMMA LengthOfIs ==
  ASSUME FrameSizes, NEW n \in MessageSizes, NEW bit \in {0, Frames!Half},
         NEW s \in Seq(Frames!Bytes), NEW p \in Nat, Starts(s, p + 1, Frames!Lengths(n, bit)),
         NEW wide \in BOOLEAN, wide \/ n < ShortLength
  PROVE  LengthRead(s, p, wide, n, bit) /\ Len(Frames!Lengths(n, bit)) = 1 + Extra(n)
         /\ Frames!Lengths(n, bit) \in Seq(Frames!Bytes)
<1> DEFINE bytes == Frames!Bytes
           h == Frames!Half
           t == Frames!Lengths(n, bit)
           k == Extra(n)
           c == Code(n)
           d == Frames!Digits(n, k)
           l == Frames!LengthOf(s, p, wide)
<1>1. /\ n \in Nat /\ k \in Nat /\ d \in Seq(bytes) /\ Len(d) = k /\ bit + c \in bytes /\ (bit + c) % h = c
      /\ (bit + c >= h <=> bit = h)
      /\ t = (IF k = 0 THEN <<bit + c>> ELSE <<bit + c>> \o d)
      /\ k # 0 => n \in 0..Coder!Power(FrameByte, k) - 1
  BY LengthsAre
<1>2. /\ k = 0 => n < ShortLength /\ c = n
      /\ k # 0 => \/ c = ShortLength /\ k = 2
                  \/ c = ShortLength + 1 /\ k = LengthBytes
      /\ n < ShortLength => k = 0 /\ c = n
  BY NoExtra
<1>3. ShortLength \in Nat /\ Len(s) \in Nat
  BY DEF FrameSizes
<1> HIDE DEF bytes, h, t, k, c, d, l
<1>4. /\ Len(t) = 1 + k /\ t \in Seq(bytes) /\ t[1] = bit + c
      /\ \A i \in 1..k : t[1 + i] = d[i]
  <2> DEFINE a == bit + c
  <2>1. a \in bytes
    BY <1>1
  <2>2. t = (IF k = 0 THEN <<a>> ELSE <<a>> \o d)
    BY <1>1
  <2> HIDE DEF a
  <2>3. CASE k = 0
    <3>1. t = <<a>>
      BY <2>2, <2>3
    <3>. QED BY <3>1, <2>1, <2>3 DEF a
  <2>4. CASE k # 0
    <3>1. t = <<a>> \o d
      BY <2>2, <2>4
    <3>2. Len(<<a>> \o d) = 1 + k /\ <<a>> \o d \in Seq(bytes) /\ (<<a>> \o d)[1] = a
      BY <2>1, <1>1
    <3>3. \A i \in 1..k : (<<a>> \o d)[1 + i] = d[i]
      BY <2>1, <1>1
    <3>. QED BY <3>1, <3>2, <3>3 DEF a
  <2>. QED BY <2>3, <2>4
<1>5. p + 2 + k <= Len(s) /\ s[p + 2] = bit + c /\ \A i \in 1..k : s[(p + 2) + i] = d[i]
  <2>1. (p + 1) + Len(t) <= Len(s) /\ \A i \in 1..Len(t) : s[(p + 1) + i] = t[i]
    BY DEF Starts, t
  <2>2. s[(p + 1) + 1] = t[1] /\ (p + 1) + 1 = p + 2
    <3>1. 1 \in 1..Len(t)
      BY <1>1, <1>4
    <3>. QED BY <3>1, <2>1
  <2>3. ASSUME NEW i \in 1..k PROVE s[(p + 2) + i] = d[i]
    <3>1. 1 + i \in 1..Len(t) /\ (p + 1) + (1 + i) = (p + 2) + i
      BY <1>1, <1>4
    <3>2. s[(p + 1) + (1 + i)] = t[1 + i]
      BY <2>1, <3>1
    <3>. QED BY <3>1, <3>2, <1>4
  <2>4. p + 2 + k <= Len(s)
    <3> DEFINE m == Len(t)
               q == Len(s)
    <3>1. (p + 1) + m <= q /\ m = 1 + k /\ q \in Nat /\ k \in Nat
      BY <2>1, <1>1, <1>3, <1>4
    <3> HIDE DEF m, q
    <3>2. p + 2 + k <= q
      BY <3>1
    <3>. QED BY <3>2 DEF q
  <2>. QED BY <2>2, <2>3, <2>4, <1>4
<1>6. k # 0 => Frames!Number(s, p + 2, k) = n
  <2> SUFFICES ASSUME k # 0 PROVE Frames!Number(s, p + 2, k) = n
    OBVIOUS
  <2>1. \A i \in 1..k : s[(p + 2) + i] = Frames!Down(n, k - i) % FrameByte
    <3>1. \A i \in 1..k : d[i] = Frames!Down(n, k - i) % FrameByte
      BY DEF d, Frames!Digits
    <3>. QED BY <3>1, <1>5
  <2>2. p + 2 \in Nat /\ n \in 0..Coder!Power(FrameByte, k) - 1
    BY <1>1
  <2>. QED BY <2>1, <2>2, <1>1, LengthIsRead
<1> DEFINE v == s[p + 2] % h
           j == IF v = ShortLength THEN 2
                ELSE IF v = ShortLength + 1 /\ wide THEN LengthBytes ELSE 0
<1>7. l = [ok |-> Len(s) >= p + 2 + j,
           n |-> IF j = 0 THEN v ELSE Frames!Number(s, p + 2, j), end |-> p + 2 + j]
  BY DEF l, Frames!LengthOf, h
<1>8. v = c
  BY <1>1, <1>5
<1> HIDE DEF v
<1>9. j = k
  BY <1>2, <1>3, <1>8
<1> HIDE DEF j
<1>10. l.ok /\ l.end = p + 2 + k /\ l.n = n
  BY <1>1, <1>2, <1>5, <1>6, <1>7, <1>8, <1>9
<1>11. s[p + 2] >= h <=> bit = h
  BY <1>1, <1>5
<1>. QED BY <1>4, <1>5, <1>10, <1>11 DEF LengthRead, l, k, t, bytes, h

-----------------------------------------------------------------------------
(* Masks.                                                                   *)

Keys == {key \in Seq(Frames!Bytes) : Len(key) = MaskBytes}

\* What masks and unmasks.
LEMMA MaskedIs ==
  ASSUME FrameSizes, NEW part \in Seq(Frames!Bytes), NEW key \in Keys
  PROVE  /\ Frames!Masked(part, key) \in Seq(Frames!Bytes)
         /\ Len(Frames!Masked(part, key)) = Len(part)
         /\ Frames!Masked(Frames!Masked(part, key), key) = part
<1> DEFINE bytes == Frames!Bytes
           n == Len(part)
           k(i) == key[((i - 1) % MaskBytes) + 1]
           u == Frames!Masked(part, key)
           v == Frames!Masked(u, key)
<1>1. n \in Nat /\ part = [i \in 1..n |-> part[i]] /\ \A i \in 1..n : part[i] \in bytes
  OBVIOUS
<1>2. \A i \in 1..n : k(i) \in bytes
  <2>1. MaskBytes \in Nat \ {0} /\ key \in Seq(bytes) /\ Len(key) = MaskBytes
    BY DEF FrameSizes, Keys
  <2> HIDE DEF bytes
  <2>2. ASSUME NEW i \in 1..n PROVE ((i - 1) % MaskBytes) + 1 \in 1..MaskBytes
    <3>1. i - 1 \in Int
      OBVIOUS
    <3>2. (i - 1) % MaskBytes \in 0..MaskBytes - 1
      BY <2>1, <3>1, DivMod
    <3>. QED BY <3>2, <2>1
  <2>3. \A j \in 1..MaskBytes : key[j] \in bytes
    BY <2>1
  <2>. QED BY <2>2, <2>3
<1>3. \A a, b \in bytes : XorBytes[a][b] \in bytes
  BY DEF FrameSizes
<1>4. \A a, b \in bytes : XorBytes[XorBytes[a][b]][b] = a
  BY DEF FrameSizes
<1>5. u = [i \in 1..n |-> XorBytes[part[i]][k(i)]]
  BY DEF Frames!Masked
<1>6. v = [i \in 1..Len(u) |-> XorBytes[u[i]][k(i)]]
  BY DEF Frames!Masked
<1> HIDE DEF bytes, n, k, u, v
<1>7. \A i \in 1..n : u[i] = XorBytes[part[i]][k(i)] /\ u[i] \in bytes
  BY <1>1, <1>2, <1>3, <1>5
<1>8. u = [i \in 1..n |-> u[i]]
  BY <1>5
<1>9. u \in Seq(bytes) /\ Len(u) = n
  BY <1>1, <1>7, <1>8
<1>10. \A i \in 1..n : XorBytes[u[i]][k(i)] = part[i]
  BY <1>1, <1>2, <1>4, <1>7
<1>11. v = [i \in 1..n |-> part[i]]
  BY <1>6, <1>9, <1>10
<1>12. v = part
  BY <1>1, <1>11
<1>. QED BY <1>9, <1>12 DEF bytes, n, u, v

\* No mask changes nothing.
LEMMA NoMaskIs ==
  ASSUME FrameSizes, NEW part \in Seq(Frames!Bytes)
  PROVE  Frames!Masked(part, Frames!NoMask) = part
<1> DEFINE bytes == Frames!Bytes
           n == Len(part)
           k(i) == Frames!NoMask[((i - 1) % MaskBytes) + 1]
           u == Frames!Masked(part, Frames!NoMask)
<1>1. n \in Nat /\ part = [i \in 1..n |-> part[i]] /\ \A i \in 1..n : part[i] \in bytes
  OBVIOUS
<1>2. \A i \in 1..n : k(i) = 0
  <2>1. MaskBytes \in Nat \ {0}
    BY DEF FrameSizes
  <2>2. ASSUME NEW i \in 1..n PROVE ((i - 1) % MaskBytes) + 1 \in 1..MaskBytes
    <3>1. i - 1 \in Int
      OBVIOUS
    <3>2. (i - 1) % MaskBytes \in 0..MaskBytes - 1
      BY <2>1, <3>1, DivMod
    <3>. QED BY <3>2, <2>1
  <2>3. \A j \in 1..MaskBytes : Frames!NoMask[j] = 0
    BY DEF Frames!NoMask
  <2>. QED BY <2>2, <2>3
<1>3. \A a \in bytes : XorBytes[a][0] = a
  BY DEF FrameSizes
<1>4. u = [i \in 1..n |-> XorBytes[part[i]][k(i)]]
  BY DEF Frames!Masked
<1> HIDE DEF bytes, n, k, u
<1>5. \A i \in 1..n : XorBytes[part[i]][k(i)] = part[i]
  BY <1>1, <1>2, <1>3
<1>6. u = part
  BY <1>1, <1>4, <1>5
<1>. QED BY <1>6 DEF u

-----------------------------------------------------------------------------
(* Frames in a stream.                                                      *)

HeaderAt(s, p, fin, op) ==
  p + 2 <= Len(s) /\ s[p + 1] % Opcodes = op /\ (s[p + 1] >= Frames!Half <=> fin)

\* The length of a frame's header, without a key.
HeaderLen(part) == 2 + Extra(Len(part))

\* A frame's first byte, and the rest of it.
LEMMA FirstByte ==
  ASSUME FrameSizes, NEW fin \in BOOLEAN, NEW op \in 0..Opcodes - 1
  PROVE  LET a == (IF fin THEN Frames!Half ELSE 0) + op
         IN a \in Frames!Bytes /\ a % Opcodes = op /\ (a >= Frames!Half <=> fin)
<1> DEFINE h == Frames!Half
           a == (IF fin THEN h ELSE 0) + op
<1>1. /\ op % Opcodes = op /\ (h + op) % Opcodes = op /\ op \in Frames!Bytes
      /\ h + op \in Frames!Bytes /\ op < h /\ h + op >= h /\ h \in Nat /\ op \in Nat
  BY HeaderBytes
<1> HIDE DEF h
<1>2. a = IF fin THEN h + op ELSE op
  BY <1>1
<1> HIDE DEF a
<1>3. CASE fin
  BY <1>1, <1>2, <1>3 DEF a, h
<1>4. CASE ~fin
  <2>1. ~(op >= h)
    BY <1>1
  <2>. QED BY <1>1, <1>2, <1>4, <2>1 DEF a, h
<1>. QED BY <1>3, <1>4

\* A length is bytes.
LEMMA LengthsLen ==
  ASSUME FrameSizes, NEW n \in MessageSizes, NEW bit \in {0, Frames!Half}
  PROVE  /\ Extra(n) \in Nat /\ Frames!Lengths(n, bit) \in Seq(Frames!Bytes)
         /\ Len(Frames!Lengths(n, bit)) = 1 + Extra(n)
<1> DEFINE k == Extra(n)
           bytes == Frames!Bytes
           s == Frames!Lengths(n, bit)
           y == bit + Code(n)
           d == Frames!Digits(n, k)
<1>1. /\ k \in Nat /\ d \in Seq(bytes) /\ Len(d) = k /\ y \in bytes
      /\ s = (IF k = 0 THEN <<y>> ELSE <<y>> \o d)
  BY LengthsAre
<1> HIDE DEF y, d, s, bytes, k
<1>2. CASE k = 0
  <2>1. s = <<y>>
    BY <1>1, <1>2
  <2>. QED BY <2>1, <1>1, <1>2 DEF s, k, bytes
<1>3. CASE k # 0
  <2>1. s = <<y>> \o d
    BY <1>1, <1>3
  <2>2. s \in Seq(bytes) /\ Len(s) = 1 + k
    BY <1>1, <2>1
  <2>. QED BY <2>2, <1>1 DEF s, k, bytes
<1>. QED BY <1>2, <1>3

\* Frames are bytes, as many as this.
LEMMA FramesAre ==
  ASSUME FrameSizes, NEW fin \in BOOLEAN, NEW op \in 0..Opcodes - 1,
         NEW part \in Seq(Frames!Bytes), Len(part) \in MessageSizes
  PROVE  /\ Frames!Plain(fin, op, part) \in Seq(Frames!Bytes)
         /\ Len(Frames!Plain(fin, op, part)) = HeaderLen(part) + Len(part)
         /\ \A key \in Keys :
              /\ Frames!Hidden(fin, op, part, key) \in Seq(Frames!Bytes)
              /\ Len(Frames!Hidden(fin, op, part, key)) = HeaderLen(part) + MaskBytes + Len(part)
<1> DEFINE a == (IF fin THEN Frames!Half ELSE 0) + op
           n == Len(part)
           t(bit) == Frames!Lengths(n, bit)
           bytes == Frames!Bytes
           k == Extra(n)
<1>1. a \in bytes /\ n \in Nat /\ k \in Nat /\ MaskBytes \in Nat
  BY FirstByte, LengthsAre DEF FrameSizes
<1>2. ASSUME NEW bit \in {0, Frames!Half} PROVE t(bit) \in Seq(bytes) /\ Len(t(bit)) = 1 + k
  BY LengthsLen
<1>3. Frames!Plain(fin, op, part) = <<a>> \o t(0) \o part
  BY DEF Frames!Plain
<1>4. \A key : Frames!Hidden(fin, op, part, key)
                 = <<a>> \o t(Frames!Half) \o key \o Frames!Masked(part, key)
  BY DEF Frames!Hidden
<1>5. \A key \in Keys : /\ key \in Seq(bytes) /\ Len(key) = MaskBytes
                        /\ Frames!Masked(part, key) \in Seq(bytes)
                        /\ Len(Frames!Masked(part, key)) = n
  BY MaskedIs DEF Keys
<1>6. t(0) \in Seq(bytes) /\ Len(t(0)) = 1 + k
  BY <1>2
<1>7. t(Frames!Half) \in Seq(bytes) /\ Len(t(Frames!Half)) = 1 + k
  BY <1>2
<1> HIDE DEF a, n, t, bytes, k
<1>8. part \in Seq(bytes) /\ n = Len(part)
  BY DEF bytes, n
<1>9. /\ <<a>> \o t(0) \o part \in Seq(bytes)
      /\ Len(<<a>> \o t(0) \o part) = 2 + k + n
  <2>1. <<a>> \o t(0) \in Seq(bytes) /\ Len(<<a>> \o t(0)) = 2 + k
    BY <1>1, <1>6
  <2> DEFINE u == <<a>> \o t(0)
  <2> HIDE DEF u
  <2>2. u \in Seq(bytes) /\ Len(u) = 2 + k
    BY <2>1 DEF u
  <2>3. u \o part \in Seq(bytes) /\ Len(u \o part) = 2 + k + n
    BY <2>2, <1>8
  <2>. QED BY <2>3 DEF u
<1>10. ASSUME NEW key \in Keys
       PROVE  LET w == <<a>> \o t(Frames!Half) \o key \o Frames!Masked(part, key)
              IN w \in Seq(bytes) /\ Len(w) = 2 + k + MaskBytes + n
  <2> DEFINE x == t(Frames!Half)
             z == key
             u == <<a>> \o x
             v == u \o z
             m == Frames!Masked(part, key)
  <2>1. x \in Seq(bytes) /\ Len(x) = 1 + k
    BY <1>7
  <2>2. z \in Seq(bytes) /\ Len(z) = MaskBytes /\ m \in Seq(bytes) /\ Len(m) = n
    BY <1>5
  <2> HIDE DEF x, m, z
  <2>3. u \in Seq(bytes) /\ Len(u) = 2 + k
    BY <2>1, <1>1
  <2> HIDE DEF u
  <2>4. v \in Seq(bytes) /\ Len(v) = 2 + k + MaskBytes
    <3>1. v \in Seq(bytes)
      BY <2>2, <2>3
    <3>2. Len(v) = Len(u) + Len(z)
      BY <2>2, <2>3, ConcatProperties, Zenon
    <3>. QED BY <3>1, <3>2, <2>2, <2>3
  <2> HIDE DEF v
  <2>5. v \o m \in Seq(bytes) /\ Len(v \o m) = 2 + k + MaskBytes + n
    <3>1. v \o m \in Seq(bytes)
      BY <2>2, <2>4
    <3>2. Len(v \o m) = Len(v) + Len(m)
      BY <2>2, <2>4, ConcatProperties, Zenon
    <3>. QED BY <3>1, <3>2, <2>2, <2>4
  <2>6. v \o m = <<a>> \o t(Frames!Half) \o key \o Frames!Masked(part, key)
    BY DEF v, u, x, m, z
  <2>. QED BY <2>5, <2>6
<1>11. HeaderLen(part) = 2 + k
  BY DEF HeaderLen, k, n
<1>. QED BY <1>3, <1>4, <1>8, <1>9, <1>10, <1>11 DEF bytes

\* Where a frame is held, its parts are.
LEMMA PartsHeld ==
  ASSUME FrameSizes, NEW fin \in BOOLEAN, NEW op \in 0..Opcodes - 1, NEW n \in MessageSizes,
         NEW bit \in {0, Frames!Half}, NEW s \in Seq(Frames!Bytes), NEW p \in Nat,
         NEW wide \in BOOLEAN, wide \/ n < ShortLength, NEW rest \in Seq(Frames!Bytes),
         NEW f, f = (<<(IF fin THEN Frames!Half ELSE 0) + op>> \o Frames!Lengths(n, bit)) \o rest,
         Starts(s, p, f)
  PROVE  /\ HeaderAt(s, p, fin, op) /\ LengthRead(s, p, wide, n, bit)
         /\ Starts(s, p + 2 + Extra(n), rest)
<1> DEFINE bytes == Frames!Bytes
           a == (IF fin THEN Frames!Half ELSE 0) + op
           one == <<a>>
           t == Frames!Lengths(n, bit)
           u == one \o t
           k == Extra(n)
<1>1. a \in bytes /\ a % Opcodes = op /\ (a >= Frames!Half <=> fin)
  BY FirstByte
<1>2. k \in Nat /\ t \in Seq(bytes) /\ Len(t) = 1 + k
  BY LengthsLen
<1>3. Len(s) \in Nat
  OBVIOUS
<1>4. f = u \o rest
  OBVIOUS
<1> HIDE DEF a, t, k
<1>5. one \in Seq(bytes) /\ Len(one) = 1 /\ one[1] = a
  BY <1>1
<1> HIDE DEF one, bytes
<1>6. u \in Seq(bytes) /\ Len(u) = 2 + k
  <2>1. u \in Seq(bytes) /\ Len(u) = Len(one) + Len(t)
    BY <1>2, <1>5, ConcatProperties, Zenon
  <2>. QED BY <2>1, <1>2, <1>5
<1>7. rest \in Seq(bytes) /\ s \in Seq(bytes) /\ Starts(s, p, u \o rest)
  BY <1>4 DEF bytes
<1>8. Starts(s, p, u) /\ Starts(s, p + Len(u), rest)
  <2> HIDE DEF u
  <2>. QED BY <1>6, <1>7, StartsJoined, Zenon
<1>9. Starts(s, p, one) /\ Starts(s, p + Len(one), t)
  BY <1>2, <1>5, <1>7, <1>8, StartsJoined, Zenon
<1> HIDE DEF u
<1>10. Starts(s, p + 1, t)
  BY <1>5, <1>9, Zenon
<1>11. LengthRead(s, p, wide, n, bit)
  BY <1>10, LengthOfIs DEF t
<1>12. Starts(s, p + 2 + k, rest)
  <2>1. p + Len(u) = p + 2 + k
    BY <1>2, <1>6
  <2>. QED BY <2>1, <1>8, Zenon
<1>13. HeaderAt(s, p, fin, op)
  <2>1. p + 2 <= Len(s)
    <3>1. p + 2 + k <= Len(s)
      BY <1>11 DEF LengthRead, k
    <3>. QED BY <3>1, <1>2, <1>3
  <2>2. s[p + 1] = a
    <3>1. \A i \in 1..Len(one) : s[p + i] = one[i]
      BY <1>9 DEF Starts
    <3>. QED BY <3>1, <1>5
  <2>. QED BY <2>1, <2>2, <1>1 DEF HeaderAt
<1>. QED BY <1>11, <1>12, <1>13 DEF k

LEMMA PlainHeld ==
  ASSUME FrameSizes, NEW fin \in BOOLEAN, NEW op \in 0..Opcodes - 1, NEW part \in Seq(Frames!Bytes),
         Len(part) \in MessageSizes, NEW s \in Seq(Frames!Bytes), NEW p \in Nat,
         NEW wide \in BOOLEAN, wide \/ Len(part) < ShortLength,
         Starts(s, p, Frames!Plain(fin, op, part))
  PROVE  /\ HeaderAt(s, p, fin, op) /\ LengthRead(s, p, wide, Len(part), 0)
         /\ Starts(s, p + HeaderLen(part), part)
<1> DEFINE n == Len(part)
           f == Frames!Plain(fin, op, part)
<1>1. f = (<<(IF fin THEN Frames!Half ELSE 0) + op>> \o Frames!Lengths(n, 0)) \o part
  BY DEF Frames!Plain
<1>2. p + HeaderLen(part) = p + 2 + Extra(n)
  <2>1. Extra(n) \in Nat
    BY LengthsAre
  <2>. QED BY <2>1 DEF HeaderLen
<1> HIDE DEF n, f
<1>3. n \in MessageSizes /\ 0 \in {0, Frames!Half} /\ (wide \/ n < ShortLength) /\ Starts(s, p, f)
  BY DEF n, f
<1>4. /\ HeaderAt(s, p, fin, op) /\ LengthRead(s, p, wide, n, 0)
      /\ Starts(s, p + 2 + Extra(n), part)
  BY <1>1, <1>3, PartsHeld, Zenon
<1>. QED BY <1>2, <1>4 DEF n

LEMMA HiddenHeld ==
  ASSUME FrameSizes, NEW fin \in BOOLEAN, NEW op \in 0..Opcodes - 1, NEW part \in Seq(Frames!Bytes),
         Len(part) \in MessageSizes, NEW s \in Seq(Frames!Bytes), NEW p \in Nat, NEW key \in Keys,
         Starts(s, p, Frames!Hidden(fin, op, part, key))
  PROVE  /\ HeaderAt(s, p, fin, op) /\ LengthRead(s, p, TRUE, Len(part), Frames!Half)
         /\ Starts(s, p + HeaderLen(part), key)
         /\ Starts(s, p + HeaderLen(part) + MaskBytes, Frames!Masked(part, key))
<1> DEFINE n == Len(part)
           f == Frames!Hidden(fin, op, part, key)
           m == Frames!Masked(part, key)
           h == <<(IF fin THEN Frames!Half ELSE 0) + op>> \o Frames!Lengths(n, Frames!Half)
           bytes == Frames!Bytes
           z == key
<1>1. z \in Seq(bytes) /\ Len(z) = MaskBytes /\ m \in Seq(bytes) /\ MaskBytes \in Nat
  BY MaskedIs DEF Keys, FrameSizes
<1>2. Extra(n) \in Nat /\ p + HeaderLen(part) = p + 2 + Extra(n)
  <2>1. Extra(n) \in Nat
    BY LengthsAre
  <2>. QED BY <2>1 DEF HeaderLen
<1>3. f = (h \o z) \o m
  BY DEF Frames!Hidden
<1>4. h \in Seq(bytes)
  <2> DEFINE a == (IF fin THEN Frames!Half ELSE 0) + op
             t == Frames!Lengths(n, Frames!Half)
  <2>1. a \in bytes
    BY FirstByte
  <2>2. t \in Seq(bytes)
    BY LengthsLen
  <2> HIDE DEF a, t
  <2>3. <<a>> \o t \in Seq(bytes)
    BY <2>1, <2>2
  <2>. QED BY <2>3 DEF a, t
<1>5. n \in MessageSizes /\ Frames!Half \in {0, Frames!Half}
  OBVIOUS
<1> DEFINE rest == z \o m
<1> HIDE DEF n, m, z
<1>6. f = h \o rest
  <2>1. f = (h \o z) \o m
    BY <1>3
  <2> HIDE DEF h, f
  <2>2. (h \o z) \o m = h \o (z \o m)
    BY <1>1, <1>4, ConcatAssociative, SMTT(40)
  <2>. QED BY <2>1, <2>2 DEF rest
<1>7. rest \in Seq(bytes)
  BY <1>1
<1> HIDE DEF rest
<1>8. Starts(s, p, f)
  OBVIOUS
<1> HIDE DEF f
<1>9. f = (<<(IF fin THEN Frames!Half ELSE 0) + op>> \o Frames!Lengths(n, Frames!Half)) \o rest
  BY <1>6
<1> HIDE DEF h
<1>10. /\ HeaderAt(s, p, fin, op) /\ LengthRead(s, p, TRUE, n, Frames!Half)
       /\ Starts(s, p + 2 + Extra(n), rest)
  BY <1>5, <1>7, <1>8, <1>9, PartsHeld, Zenon DEF bytes
<1> DEFINE q == p + 2 + Extra(n)
<1>11. q \in Nat /\ q = p + HeaderLen(part)
  BY <1>2
<1> HIDE DEF q
<1>12. Starts(s, q, z \o m)
  BY <1>10 DEF q, rest
<1>13. Starts(s, q, z) /\ Starts(s, q + Len(z), m)
  <2>1. s \in Seq(bytes)
    OBVIOUS
  <2> HIDE DEF bytes
  <2>. QED BY <2>1, <1>1, <1>11, <1>12, StartsJoined, Zenon
<1>. QED BY <1>1, <1>10, <1>11, <1>13 DEF n, z, m

-----------------------------------------------------------------------------
(* A turn of a reader.                                                      *)

IsReader(reader) == /\ reader.knows \subseteq {PingOp, PongOp} /\ reader.masks \in BOOLEAN
                    /\ reader.wide \in BOOLEAN /\ reader.limit \in Nat

\* What a frame of data leads to, when end is where it ends.
AfterData(reader, x, fin, part, end) ==
  IF Len(x.out) + Len(part) > reader.limit THEN Frames!Failed
  ELSE Frames!Reads(IF fin THEN "message" ELSE "frame", end, x.out \o part, x.pongs)

\* That is what the turn does.
DataTurn(reader, s, x, fin, part, end) ==
  Frames!ReadFrame(reader, s, x) = AfterData(reader, x, fin, part, end)
PongsFor(op, n) == IF op = PingOp THEN n + 1 ELSE n
ControlTurn(reader, s, x, op, end) ==
  Frames!ReadFrame(reader, s, x) = Frames!Reads("frame", end, x.out, PongsFor(op, x.pongs))

\* A size that is a message's is kept whole.
LEMMA InWordIs ==
  ASSUME FrameSizes, NEW n \in MessageSizes
  PROVE  Frames!InWord(n) = n
<1> DEFINE k == LengthBytes
           d == Frames!Digits(n, k)
<1>1. k \in Nat /\ n \in 0..Coder!Power(FrameByte, k) - 1
  BY DEF FrameSizes, MessageSizes
<1>2. \A i \in 1..k : d[i] = Frames!Down(n, k - i) % FrameByte
  BY DEF Frames!Digits
<1> HIDE DEF d
<1>3. \A i \in 1..k : d[0 + i] = Frames!Down(n, k - i) % FrameByte
  <2>1. ASSUME NEW i \in 1..k PROVE d[0 + i] = Frames!Down(n, k - i) % FrameByte
    <3>1. 0 + i = i
      BY <1>1
    <3>. QED BY <3>1, <1>2, Zenon
  <2>. QED BY <2>1
<1> HIDE DEF k
<1>4. Frames!Number(d, 0, k) = n
  BY <1>1, <1>3, LengthIsRead
<1>. QED BY <1>4, Zenon DEF d, k, Frames!InWord

\* The message that a frame of data belongs to has a size that is kept whole.
SizeKept(x, part) == Len(x.out) + Len(part) \in MessageSizes

\* What the code asks first.
LEMMA DataIsRead ==
  ASSUME FrameSizes, NEW reader, IsReader(reader), NEW s, NEW x, x.at = "frame",
         NEW fin \in BOOLEAN, NEW op \in {0, TextOp}, HeaderAt(s, x.pos, fin, op),
         Len(s) \in Nat, x.pos \in Nat
  PROVE  Frames!ReadFrame(reader, s, x) = Frames!ReadData(reader, s, x)
<1>1. op # CloseOp /\ op \notin reader.knows
  BY DEF FrameSizes, IsReader
<1>2. ~(Len(s) < x.pos + 2) /\ s[x.pos + 1] % Opcodes = op
  BY DEF HeaderAt
<1>3. ~(s[x.pos + 1] % Opcodes \in reader.knows) /\ ~(s[x.pos + 1] % Opcodes = CloseOp)
  BY <1>1, <1>2, Zenon
<1>4. Frames!ReadFrame(reader, s, x) =
        IF x.at # "frame" THEN x
        ELSE IF Len(s) < x.pos + 2 \/ s[x.pos + 1] % Opcodes = CloseOp THEN Frames!Failed
        ELSE IF s[x.pos + 1] % Opcodes \in reader.knows THEN Frames!ReadControl(reader, s, x)
        ELSE Frames!ReadData(reader, s, x)
  BY Zenon DEF Frames!ReadFrame
<1>. QED BY <1>2, <1>3, <1>4, Zenon

\* A frame of data without a mask.
LEMMA PlainDataRead ==
  ASSUME FrameSizes, NEW reader, IsReader(reader), NEW s \in Seq(Frames!Bytes),
         NEW x \in Frames!Reading, x.at = "frame", NEW fin \in BOOLEAN, NEW op \in {0, TextOp},
         NEW part \in Seq(Frames!Bytes), Len(part) \in MessageSizes, SizeKept(x, part),
         Starts(s, x.pos, Frames!Plain(fin, op, part)),
         NEW end, end = x.pos + HeaderLen(part) + Len(part)
  PROVE  DataTurn(reader, s, x, fin, part, end)
<1> DEFINE p == x.pos
           n == Len(part)
           q == p + HeaderLen(part)
           l == Frames!LengthOf(s, p, TRUE)
           masked == s[p + 2] >= Frames!Half /\ reader.masks
           start == l.end + IF masked THEN MaskBytes ELSE 0
           key == IF masked THEN SubSeq(s, l.end + 1, start) ELSE Frames!NoMask
           after == Frames!Reads(IF s[p + 1] >= Frames!Half THEN "message" ELSE "frame", start + l.n,
                        x.out \o Frames!Masked(SubSeq(s, start + 1, start + l.n), key), x.pongs)
<1>1. p \in Nat /\ x.out \in Seq(Frames!Bytes) /\ Len(s) \in Nat /\ n \in Nat /\ Len(x.out) \in Nat
  <2>1. p \in Nat /\ x.out \in Seq(Frames!Bytes)
    BY DEF Frames!Reading
  <2>. QED BY <2>1
<1>2. op \in 0..Opcodes - 1 /\ Frames!Half # 0
  <2>1. Opcodes \in Nat \ {0} /\ TextOp \in 1..Opcodes - 1
    BY DEF FrameSizes
  <2>2. Frames!Half # 0
    <3>1. Frames!Half \in Nat /\ ShortLength \in Nat /\ ShortLength + 1 < Frames!Half
      BY HeaderBytes
    <3>. QED BY <3>1
  <2>. QED BY <2>1, <2>2
<1>3. HeaderAt(s, p, fin, op) /\ LengthRead(s, p, TRUE, n, 0) /\ Starts(s, q, part)
  BY <1>1, <1>2, PlainHeld
<1>4. Frames!ReadFrame(reader, s, x) = Frames!ReadData(reader, s, x)
  BY <1>1, <1>3, DataIsRead
<1>5. Frames!ReadData(reader, s, x) =
        IF ~l.ok \/ Len(s) < start \/ Frames!InWord(Len(x.out) + l.n) > reader.limit
        THEN Frames!Failed
        ELSE IF Len(x.out) + l.n > reader.limit THEN Frames!Overrun
        ELSE IF Len(s) < start + l.n THEN Frames!Failed ELSE after
  BY Zenon DEF Frames!ReadData
<1>6. Extra(n) \in Nat /\ p + 2 + Extra(n) = q
  <2> DEFINE k == Extra(n)
  <2>1. k \in Nat /\ HeaderLen(part) = 2 + k
    BY LengthsLen DEF HeaderLen
  <2> HIDE DEF k, p
  <2>. QED BY <2>1, <1>1 DEF k
<1>7. l.ok /\ l.n = n /\ l.end = q /\ ~masked
  BY <1>2, <1>3, <1>6 DEF LengthRead
<1>8. q \in Nat /\ q + n <= Len(s)
  BY <1>1, <1>3, <1>6 DEF Starts
<1> HIDE DEF l, masked
<1>9. start = q /\ key = Frames!NoMask
  <2>1. start = l.end + 0
    BY <1>7
  <2>. QED BY <2>1, <1>7, <1>8
<1> HIDE DEF start, key
<1>10. Frames!Masked(SubSeq(s, start + 1, start + l.n), key) = part
  <2>1. SubSeq(s, q + 1, q + n) = part
    BY <1>3, <1>8, StartsCut, Zenon
  <2>2. Frames!Masked(part, Frames!NoMask) = part
    BY NoMaskIs
  <2>. QED BY <2>1, <2>2, <1>7, <1>9, Zenon
<1>11. (s[p + 1] >= Frames!Half) = fin
  BY <1>3 DEF HeaderAt
<1>12. after = Frames!Reads(IF fin THEN "message" ELSE "frame", q + n, x.out \o part, x.pongs)
  BY <1>7, <1>9, <1>10, <1>11, Zenon
<1> HIDE DEF after
<1>13. ~(~l.ok \/ Len(s) < start \/ Len(s) < start + l.n) /\ Len(x.out) + l.n = Len(x.out) + n
  BY <1>1, <1>7, <1>8, <1>9
<1>14. Frames!InWord(Len(x.out) + n) = Len(x.out) + n
  <2> DEFINE k == Len(x.out) + n
  <2>1. k \in MessageSizes
    BY DEF SizeKept
  <2> HIDE DEF k
  <2>2. Frames!InWord(k) = k
    BY <2>1, InWordIs
  <2>. QED BY <2>2 DEF k
<1>15. Frames!ReadData(reader, s, x) = IF Len(x.out) + n > reader.limit THEN Frames!Failed ELSE after
  BY <1>5, <1>13, <1>14, Zenon
<1>. QED BY <1>4, <1>12, <1>15, Zenon DEF AfterData, DataTurn

\* A frame of data with a mask, at a reader that reads masks.
LEMMA HiddenDataRead ==
  ASSUME FrameSizes, NEW reader, IsReader(reader), reader.masks, NEW s \in Seq(Frames!Bytes),
         NEW x \in Frames!Reading, x.at = "frame", NEW fin \in BOOLEAN, NEW op \in {0, TextOp},
         NEW part \in Seq(Frames!Bytes), Len(part) \in MessageSizes, SizeKept(x, part),
         NEW mask \in Keys,
         Starts(s, x.pos, Frames!Hidden(fin, op, part, mask)),
         NEW end, end = x.pos + HeaderLen(part) + MaskBytes + Len(part)
  PROVE  DataTurn(reader, s, x, fin, part, end)
<1> DEFINE p == x.pos
           n == Len(part)
           q == p + HeaderLen(part)
           r == q + MaskBytes
           l == Frames!LengthOf(s, p, TRUE)
           masked == s[p + 2] >= Frames!Half /\ reader.masks
           start == l.end + IF masked THEN MaskBytes ELSE 0
           key == IF masked THEN SubSeq(s, l.end + 1, start) ELSE Frames!NoMask
           after == Frames!Reads(IF s[p + 1] >= Frames!Half THEN "message" ELSE "frame", start + l.n,
                        x.out \o Frames!Masked(SubSeq(s, start + 1, start + l.n), key), x.pongs)
           m == Frames!Masked(part, mask)
<1>1. p \in Nat /\ x.out \in Seq(Frames!Bytes) /\ Len(s) \in Nat /\ n \in Nat /\ Len(x.out) \in Nat
  <2>1. p \in Nat /\ x.out \in Seq(Frames!Bytes)
    BY DEF Frames!Reading
  <2>. QED BY <2>1
<1>2. op \in 0..Opcodes - 1 /\ MaskBytes \in Nat
  BY DEF FrameSizes
<1>3. HeaderAt(s, p, fin, op) /\ LengthRead(s, p, TRUE, n, Frames!Half)
      /\ Starts(s, q, mask) /\ Starts(s, r, m)
  BY <1>1, <1>2, HiddenHeld
<1>4. Frames!ReadFrame(reader, s, x) = Frames!ReadData(reader, s, x)
  BY <1>1, <1>3, DataIsRead
<1>5. Frames!ReadData(reader, s, x) =
        IF ~l.ok \/ Len(s) < start \/ Frames!InWord(Len(x.out) + l.n) > reader.limit
        THEN Frames!Failed
        ELSE IF Len(x.out) + l.n > reader.limit THEN Frames!Overrun
        ELSE IF Len(s) < start + l.n THEN Frames!Failed ELSE after
  BY Zenon DEF Frames!ReadData
<1>6. Extra(n) \in Nat /\ p + 2 + Extra(n) = q
  <2> DEFINE k == Extra(n)
  <2>1. k \in Nat /\ HeaderLen(part) = 2 + k
    BY LengthsLen DEF HeaderLen
  <2> HIDE DEF k, p
  <2>. QED BY <2>1, <1>1 DEF k
<1>7. l.ok /\ l.n = n /\ l.end = q /\ masked
  BY <1>3, <1>6 DEF LengthRead
<1>8. /\ mask \in Seq(Frames!Bytes) /\ Len(mask) = MaskBytes
      /\ m \in Seq(Frames!Bytes) /\ Len(m) = n /\ Frames!Masked(m, mask) = part
  BY MaskedIs DEF Keys
<1> HIDE DEF l, masked, m
<1>9. q \in Nat /\ r \in Nat /\ r + n <= Len(s)
  BY <1>1, <1>2, <1>3, <1>6, <1>8 DEF Starts
<1>10. start = r
  <2>1. start = l.end + MaskBytes
    BY <1>7
  <2>. QED BY <2>1, <1>7, <1>9
<1>11. key = mask
  <2>1. key = SubSeq(s, q + 1, q + MaskBytes)
    BY <1>7, <1>10, Zenon
  <2>2. SubSeq(s, q + 1, q + Len(mask)) = mask
    BY <1>3, <1>8, <1>9, StartsCut, Zenon
  <2>. QED BY <2>1, <2>2, <1>8, Zenon
<1> HIDE DEF start, key, r
<1>12. Frames!Masked(SubSeq(s, start + 1, start + l.n), key) = part
  <2>1. SubSeq(s, r + 1, r + Len(m)) = m
    BY <1>3, <1>8, <1>9, StartsCut, Zenon
  <2>. QED BY <2>1, <1>7, <1>8, <1>10, <1>11, Zenon
<1>13. (s[p + 1] >= Frames!Half) = fin
  BY <1>3 DEF HeaderAt
<1>14. after = Frames!Reads(IF fin THEN "message" ELSE "frame", r + n, x.out \o part, x.pongs)
  BY <1>7, <1>10, <1>12, <1>13, Zenon
<1> HIDE DEF after
<1>15. ~(~l.ok \/ Len(s) < start \/ Len(s) < start + l.n) /\ Len(x.out) + l.n = Len(x.out) + n
  BY <1>1, <1>7, <1>9, <1>10
<1>16. Frames!InWord(Len(x.out) + n) = Len(x.out) + n
  <2> DEFINE k == Len(x.out) + n
  <2>1. k \in MessageSizes
    BY DEF SizeKept
  <2> HIDE DEF k
  <2>2. Frames!InWord(k) = k
    BY <2>1, InWordIs
  <2>. QED BY <2>2 DEF k
<1>17. Frames!ReadData(reader, s, x) = IF Len(x.out) + n > reader.limit THEN Frames!Failed ELSE after
  BY <1>5, <1>15, <1>16, Zenon
<1>. QED BY <1>4, <1>14, <1>17, Zenon DEF AfterData, DataTurn, r

\* What a reader may know.
LEMMA KnownIs ==
  ASSUME FrameSizes, NEW reader, IsReader(reader), NEW op \in reader.knows
  PROVE  op \in 0..Opcodes - 1 /\ op # CloseOp
<1>1. op \in {PingOp, PongOp}
  BY Zenon DEF IsReader
<1>2. \A k \in {PingOp, PongOp} : k \in 0..Opcodes - 1 /\ k # CloseOp
  BY DEF FrameSizes
<1>. QED BY <1>1, <1>2, Zenon

\* A control frame at a reader that knows it.
LEMMA ControlRead ==
  ASSUME FrameSizes, NEW reader, IsReader(reader),
         NEW op \in reader.knows,
         NEW s \in Seq(Frames!Bytes), NEW x \in Frames!Reading, x.at = "frame",
         NEW part \in Seq(Frames!Bytes), Len(part) \in MessageSizes, Len(part) < ShortLength,
         Starts(s, x.pos, Frames!Plain(TRUE, op, part)),
         NEW end, end = x.pos + HeaderLen(part) + Len(part)
  PROVE  ControlTurn(reader, s, x, op, end)
<1> DEFINE p == x.pos
           n == Len(part)
           q == p + HeaderLen(part)
           l == Frames!LengthOf(s, p, reader.wide)
<1>1. p \in Nat /\ Len(s) \in Nat /\ n \in Nat
  <2>1. p \in Nat
    BY DEF Frames!Reading
  <2>. QED BY <2>1
<1>2. op \in 0..Opcodes - 1 /\ op # CloseOp /\ reader.wide \in BOOLEAN
  BY KnownIs DEF IsReader
<1>3. HeaderAt(s, p, TRUE, op) /\ LengthRead(s, p, reader.wide, n, 0) /\ Starts(s, q, part)
  BY <1>1, <1>2, PlainHeld
<1>4. Extra(n) \in Nat /\ p + 2 + Extra(n) = q
  <2> DEFINE k == Extra(n)
  <2>1. k \in Nat /\ HeaderLen(part) = 2 + k
    BY LengthsLen DEF HeaderLen
  <2> HIDE DEF k, p
  <2>. QED BY <2>1, <1>1 DEF k
<1>5. l.ok /\ l.n = n /\ l.end = q
  BY <1>3, <1>4 DEF LengthRead
<1>6. q \in Nat /\ q + n <= Len(s)
  BY <1>1, <1>3, <1>4 DEF Starts
<1>7. s[p + 1] % Opcodes = op /\ ~(Len(s) < p + 2)
  BY <1>1, <1>3 DEF HeaderAt
<1>8. Frames!ReadFrame(reader, s, x) =
        IF x.at # "frame" THEN x
        ELSE IF Len(s) < p + 2 \/ s[p + 1] % Opcodes = CloseOp THEN Frames!Failed
        ELSE IF s[p + 1] % Opcodes \in reader.knows THEN Frames!ReadControl(reader, s, x)
        ELSE Frames!ReadData(reader, s, x)
  BY Zenon DEF Frames!ReadFrame
<1>9. Frames!ReadControl(reader, s, x) =
        IF ~l.ok THEN Frames!Failed
        ELSE IF l.n > MaxString THEN Frames!Thrown
        ELSE IF Len(s) < l.end + l.n THEN Frames!Failed
        ELSE Frames!Reads("frame", l.end + l.n, x.out,
                IF s[p + 1] % Opcodes = PingOp THEN x.pongs + 1 ELSE x.pongs)
  BY Zenon DEF Frames!ReadControl
<1>10. Frames!ReadFrame(reader, s, x) = Frames!ReadControl(reader, s, x)
  BY <1>2, <1>7, <1>8, Zenon
<1>11. ~(Len(s) < q + n) /\ ~(n > MaxString)
  <2>1. ~(Len(s) < q + n)
    BY <1>1, <1>6
  <2>2. ~(n > MaxString)
    <3>1. n < ShortLength /\ ShortLength \in Nat /\ MaxString \in Nat /\ ShortLength <= MaxString
      BY DEF FrameSizes
    <3> HIDE DEF n
    <3>. QED BY <3>1, <1>1
  <2>. QED BY <2>1, <2>2
<1> HIDE DEF l, q, n, p
<1>12. Frames!ReadControl(reader, s, x) = Frames!Reads("frame", q + n, x.out, PongsFor(op, x.pongs))
  BY <1>5, <1>7, <1>9, <1>11, Zenon DEF PongsFor
<1>. QED BY <1>10, <1>12 DEF ControlTurn, q, n, p

-----------------------------------------------------------------------------
(* Turns until the message is complete or refused.                          *)

FirstReading == Frames!Reads("frame", 0, <<>>, 0)

\* A reader's turns are these.
TurnsOn(reader, s, k, path) ==
  /\ path[0] = FirstReading /\ path[k].at # "frame"
  /\ \A i \in 0..k - 1 : path[i].at = "frame"
  /\ \A i \in 1..k : path[i] = Frames!ReadFrame(reader, s, path[i - 1])

LEMMA ReadEnds ==
  ASSUME NEW reader, NEW s, NEW k \in Nat, k \in 0..Len(s) \div 2 + 1, Len(s) \div 2 \in Nat,
         NEW path, TurnsOn(reader, s, k, path)
  PROVE  Frames!ReadText(reader, s) = path[k]
<1> DEFINE turns == 0..Len(s) \div 2 + 1
           Go(x) == Frames!ReadFrame(reader, s, x)
           Is(f) == f = [n \in turns |-> IF n = 0 THEN FirstReading ELSE Go(f[n - 1])]
           r == CHOOSE f : Is(f)
           m == Len(s) \div 2 + 1
           TurnAt(i) == IF i <= k THEN path[i] ELSE path[k]
           S == {i \in turns : r[i] = TurnAt(i)}
           id == [i \in 0..m |-> i]
<1>1. Frames!ReadText(reader, s) = r[CHOOSE n \in turns : r[n].at # "frame"]
  BY Zenon DEF Frames!ReadText, FirstReading
<1>2. /\ path[0] = FirstReading /\ path[k].at # "frame"
      /\ \A i \in 0..k - 1 : path[i].at = "frame"
      /\ \A i \in 1..k : path[i] = Go(path[i - 1])
  BY DEF TurnsOn
<1>3. Go(path[k]) = path[k]
  BY <1>2, Zenon DEF Frames!ReadFrame
<1>4. m \in Nat /\ turns = 0..m /\ k \in 0..m
  OBVIOUS
<1> HIDE DEF m, turns, Go, r
<1>5. TurnAt(0) = FirstReading /\ \A i \in 1..m : TurnAt(i) = Go(TurnAt(i - 1))
  <2>1. TurnAt(0) = FirstReading
    BY <1>2
  <2>2. ASSUME NEW i \in 1..m PROVE TurnAt(i) = Go(TurnAt(i - 1))
    <3>1. CASE i <= k
      <4>1. i \in 1..k /\ i - 1 <= k
        BY <3>1
      <4>. QED BY <4>1, <1>2
    <3>2. CASE i = k + 1
      <4>1. ~(i <= k) /\ i - 1 = k
        BY <3>2
      <4>. QED BY <4>1, <1>3
    <3>3. CASE i > k + 1
      <4>1. ~(i <= k) /\ ~(i - 1 <= k)
        BY <3>3
      <4>. QED BY <4>1, <1>3
    <3>. QED BY <3>1, <3>2, <3>3
  <2>. QED BY <2>1, <2>2
<1> HIDE DEF TurnAt
<1>6. Is(r)
  <2> DEFINE f == [i \in 0..m |-> TurnAt(i)]
  <2>1. f = [n \in 0..m |-> IF n = 0 THEN FirstReading ELSE Go(f[n - 1])]
    <3>1. ASSUME NEW n \in 0..m PROVE TurnAt(n) = IF n = 0 THEN FirstReading ELSE Go(f[n - 1])
      <4>1. CASE n = 0
        BY <4>1, <1>5
      <4>2. CASE n # 0
        <5>1. n \in 1..m /\ n - 1 \in 0..m
          BY <4>2, <1>4
        <5>2. f[n - 1] = TurnAt(n - 1)
          BY <5>1
        <5>. QED BY <5>1, <5>2, <4>2, <1>5
      <4>. QED BY <4>1, <4>2
    <3>. QED BY <3>1
  <2>2. Is(f)
    BY <2>1, <1>4
  <2> HIDE DEF f
  <2>. QED BY <2>2 DEF r
<1>7. r[0] = FirstReading /\ \A i \in 1..m : r[i] = Go(r[i - 1])
  BY <1>4, <1>6
<1>8. id[0] \in S
  BY <1>4, <1>5, <1>7
<1>9. ASSUME NEW i \in 1..m, id[i - 1] \in S PROVE id[i] \in S
  <2>1. id[i - 1] = i - 1 /\ id[i] = i /\ i \in turns
    BY <1>4
  <2>2. r[i - 1] = TurnAt(i - 1)
    BY <2>1, <1>9
  <2>. QED BY <2>1, <2>2, <1>5, <1>7
<1>10. \A i \in 0..m : id[i] \in S
  <2> HIDE DEF id, S
  <2>. QED BY <1>4, <1>8, <1>9, StaysIn
<1>11. \A i \in turns : r[i] = TurnAt(i)
  BY <1>4, <1>10
<1>12. TurnAt(k) = path[k] /\ \A i \in turns : TurnAt(i).at # "frame" => TurnAt(i) = path[k]
  <2>1. TurnAt(k) = path[k]
    BY DEF TurnAt
  <2>2. ASSUME NEW i \in turns, TurnAt(i).at # "frame" PROVE TurnAt(i) = path[k]
    <3>1. CASE i < k
      <4>1. i \in 0..k - 1 /\ TurnAt(i) = path[i]
        BY <1>4, <3>1 DEF TurnAt
      <4>. QED BY <4>1, <2>2, <1>2
    <3>2. CASE i >= k
      BY <1>4, <3>2 DEF TurnAt
    <3>. QED BY <3>1, <3>2, <1>4
  <2>. QED BY <2>1, <2>2
<1>13. k \in turns /\ r[k].at # "frame"
  BY <1>2, <1>4, <1>11, <1>12
<1> DEFINE c == CHOOSE n \in turns : r[n].at # "frame"
<1>14. c \in turns /\ r[c].at # "frame"
  BY <1>13
<1> HIDE DEF c
<1>15. r[c] = path[k]
  BY <1>11, <1>12, <1>14
<1>. QED BY <1>1, <1>15 DEF c

\* One turn.
LEMMA ReadOnce ==
  ASSUME NEW reader, NEW s, Len(s) \in Nat, NEW one,
         one = Frames!ReadFrame(reader, s, FirstReading), one.at # "frame"
  PROVE  Frames!ReadText(reader, s) = one
<1> DEFINE path == [i \in 0..1 |-> IF i = 0 THEN FirstReading ELSE one]
<1>1. TurnsOn(reader, s, 1, path)
  <2>1. path[0] = FirstReading /\ path[1] = one
    OBVIOUS
  <2>2. FirstReading.at = "frame"
    BY DEF FirstReading, Frames!Reads
  <2>3. 0..1 - 1 = {0} /\ 1..1 = {1} /\ 1 - 1 = 0
    OBVIOUS
  <2> HIDE DEF path
  <2>. QED BY <2>1, <2>2, <2>3 DEF TurnsOn
<1>2. 1 \in Nat /\ Len(s) \div 2 \in Nat /\ 1 \in 0..Len(s) \div 2 + 1 /\ path[1] = one
  OBVIOUS
<1> HIDE DEF path
<1>. QED BY <1>1, <1>2, ReadEnds

\* Two turns.
LEMMA ReadTwice ==
  ASSUME NEW reader, NEW s, Len(s) \in Nat, Len(s) > 1, NEW one, NEW two,
         one = Frames!ReadFrame(reader, s, FirstReading), one.at = "frame",
         two = Frames!ReadFrame(reader, s, one), two.at # "frame"
  PROVE  Frames!ReadText(reader, s) = two
<1> DEFINE path == [i \in 0..2 |-> IF i = 0 THEN FirstReading ELSE IF i = 1 THEN one ELSE two]
<1>1. TurnsOn(reader, s, 2, path)
  <2>1. path[0] = FirstReading /\ path[1] = one /\ path[2] = two
    OBVIOUS
  <2>2. FirstReading.at = "frame"
    BY DEF FirstReading, Frames!Reads
  <2>3. 0..2 - 1 = {0, 1} /\ 1..2 = {1, 2} /\ 1 - 1 = 0 /\ 2 - 1 = 1
    OBVIOUS
  <2> HIDE DEF path
  <2>4. \A i \in 0..2 - 1 : path[i].at = "frame"
    BY <2>1, <2>2, <2>3
  <2>5. \A i \in 1..2 : path[i] = Frames!ReadFrame(reader, s, path[i - 1])
    BY <2>1, <2>3
  <2>. QED BY <2>1, <2>4, <2>5 DEF TurnsOn
<1>2. 2 \in Nat /\ Len(s) \div 2 \in Nat /\ 2 \in 0..Len(s) \div 2 + 1 /\ path[2] = two
  OBVIOUS
<1> HIDE DEF path
<1>. QED BY <1>1, <1>2, ReadEnds

\* Three turns.
LEMMA ReadThrice ==
  ASSUME NEW reader, NEW s, Len(s) \in Nat, Len(s) > 3, NEW one, NEW two, NEW three,
         one = Frames!ReadFrame(reader, s, FirstReading), one.at = "frame",
         two = Frames!ReadFrame(reader, s, one), two.at = "frame",
         three = Frames!ReadFrame(reader, s, two), three.at # "frame"
  PROVE  Frames!ReadText(reader, s) = three
<1> DEFINE path == [i \in 0..3 |-> IF i = 0 THEN FirstReading ELSE IF i = 1 THEN one
                                   ELSE IF i = 2 THEN two ELSE three]
<1>1. TurnsOn(reader, s, 3, path)
  <2>1. path[0] = FirstReading /\ path[1] = one /\ path[2] = two /\ path[3] = three
    OBVIOUS
  <2>2. FirstReading.at = "frame"
    BY DEF FirstReading, Frames!Reads
  <2>3. 0..3 - 1 = {0, 1, 2} /\ 1..3 = {1, 2, 3} /\ 1 - 1 = 0 /\ 2 - 1 = 1 /\ 3 - 1 = 2
    OBVIOUS
  <2> HIDE DEF path
  <2>4. \A i \in 0..3 - 1 : path[i].at = "frame"
    BY <2>1, <2>2, <2>3
  <2>5. \A i \in 1..3 : path[i] = Frames!ReadFrame(reader, s, path[i - 1])
    BY <2>1, <2>3
  <2>. QED BY <2>1, <2>4, <2>5 DEF TurnsOn
<1>2. 3 \in Nat /\ Len(s) \div 2 \in Nat /\ 3 \in 0..Len(s) \div 2 + 1 /\ path[3] = three
  OBVIOUS
<1> HIDE DEF path
<1>. QED BY <1>1, <1>2, ReadEnds

-----------------------------------------------------------------------------
(* Messages.                                                                *)

\* A message is what a reader has got, or it was too long for it.
ArrivesAs(r, limit, msg, end, pongs) ==
  IF Len(msg) <= limit THEN r = Frames!Reads("message", end, msg, pongs) ELSE r.at = "failed"

FirstIs == FirstReading \in Frames!Reading /\ FirstReading.at = "frame" /\ FirstReading.pos = 0
             /\ FirstReading.out = <<>> /\ FirstReading.pongs = 0

LEMMA FirstReadingIs == FirstIs
<1>1. <<>> \in Seq(Frames!Bytes)
  OBVIOUS
<1>. QED BY <1>1 DEF FirstIs, FirstReading, Frames!Reads, Frames!Reading

\* After a reader's first frame, if that is of data.
LEMMA FirstData ==
  ASSUME NEW reader, IsReader(reader), NEW fin \in BOOLEAN, NEW part \in Seq(Frames!Bytes), NEW end
  PROVE  AfterData(reader, FirstReading, fin, part, end)
           = IF Len(part) <= reader.limit
             THEN Frames!Reads(IF fin THEN "message" ELSE "frame", end, part, 0)
             ELSE Frames!Failed
<1> DEFINE x == FirstReading
           go == Frames!Reads(IF fin THEN "message" ELSE "frame", end, x.out \o part, x.pongs)
<1>1. x.out = <<>> /\ x.pongs = 0
  BY FirstReadingIs DEF FirstIs
<1>2. AfterData(reader, x, fin, part, end)
        = IF Len(x.out) + Len(part) > reader.limit THEN Frames!Failed ELSE go
  BY Zenon DEF AfterData
<1>3. <<>> \o part = part /\ Len(<<>>) + Len(part) = Len(part) /\ Len(part) \in Nat
  OBVIOUS
<1>4. reader.limit \in Nat
  BY DEF IsReader
<1> HIDE DEF x
<1>5. go = Frames!Reads(IF fin THEN "message" ELSE "frame", end, part, 0)
  BY <1>1, <1>3, Zenon
<1> HIDE DEF go
<1>6. Len(x.out) + Len(part) = Len(part)
  BY <1>1, <1>3, Zenon
<1>7. (Len(part) > reader.limit) = ~(Len(part) <= reader.limit)
  BY <1>3, <1>4
<1>. QED BY <1>2, <1>5, <1>6, <1>7 DEF x

\* A message in one frame.
LEMMA WholeArrives ==
  ASSUME NEW reader, IsReader(reader), NEW s \in Seq(Frames!Bytes), NEW msg \in Seq(Frames!Bytes),
         NEW end, Frames!ReadFrame(reader, s, FirstReading)
                    = AfterData(reader, FirstReading, TRUE, msg, end)
  PROVE  ArrivesAs(Frames!ReadText(reader, s), reader.limit, msg, end, 0)
<1> DEFINE y == Frames!ReadFrame(reader, s, FirstReading)
<1>1. y = IF Len(msg) <= reader.limit THEN Frames!Reads("message", end, msg, 0) ELSE Frames!Failed
  BY FirstData
<1> HIDE DEF y
<1>2. Frames!Reads("message", end, msg, 0).at = "message" /\ Frames!Failed.at = "failed"
  BY DEF Frames!Reads, Frames!Failed
<1>3. y.at # "frame"
  BY <1>1, <1>2
<1>4. Len(s) \in Nat
  OBVIOUS
<1>5. Frames!ReadText(reader, s) = y
  BY <1>3, <1>4, ReadOnce DEF y
<1>. QED BY <1>1, <1>2, <1>5 DEF ArrivesAs

\* A message in two frames.
LEMMA BothArrive ==
  ASSUME NEW reader, IsReader(reader), NEW s \in Seq(Frames!Bytes), Len(s) > 1,
         NEW one \in Seq(Frames!Bytes), NEW two \in Seq(Frames!Bytes),
         NEW end1, NEW end2, NEW x1, x1 = Frames!Reads("frame", end1, one, 0),
         Frames!ReadFrame(reader, s, FirstReading)
           = AfterData(reader, FirstReading, FALSE, one, end1),
         Frames!ReadFrame(reader, s, x1) = AfterData(reader, x1, TRUE, two, end2)
  PROVE  ArrivesAs(Frames!ReadText(reader, s), reader.limit, one \o two, end2, 0)
<1> DEFINE y == Frames!ReadFrame(reader, s, FirstReading)
           z == Frames!ReadFrame(reader, s, x1)
           msg == one \o two
           limit == reader.limit
           got == Frames!Reads("message", end2, msg, 0)
<1>1. /\ Len(one) \in Nat /\ Len(two) \in Nat /\ Len(msg) = Len(one) + Len(two) /\ limit \in Nat
      /\ Len(s) \in Nat
  BY DEF IsReader
<1>2. y = IF Len(one) <= limit THEN x1 ELSE Frames!Failed
  BY FirstData
<1>3. x1.out = one /\ x1.pongs = 0 /\ x1.at = "frame"
  BY DEF Frames!Reads
<1>4. got.at = "message" /\ Frames!Failed.at = "failed"
  BY DEF Frames!Reads, Frames!Failed
<1>5. z = IF Len(one) + Len(two) > limit THEN Frames!Failed ELSE got
  BY <1>3, Zenon DEF AfterData
<1> HIDE DEF y, z, got, msg, limit
<1>6. CASE Len(one) <= limit
  <2>1. y = x1
    BY <1>2, <1>6
  <2>2. z.at # "frame"
    BY <1>4, <1>5
  <2>3. Frames!ReadText(reader, s) = z
    BY <2>1, <2>2, <1>1, <1>3, ReadTwice DEF y, z
  <2>. QED BY <2>3, <1>1, <1>4, <1>5 DEF ArrivesAs, msg, limit, got
<1>7. CASE Len(one) > limit
  <2>1. y = Frames!Failed
    BY <1>1, <1>2, <1>7
  <2>2. y.at # "frame"
    BY <2>1, <1>4
  <2>3. Frames!ReadText(reader, s) = y
    BY <2>2, <1>1, ReadOnce DEF y
  <2>4. ~(Len(msg) <= limit)
    BY <1>1, <1>7
  <2>. QED BY <2>1, <2>3, <2>4, <1>4 DEF ArrivesAs, msg, limit
<1>. QED BY <1>1, <1>6, <1>7

\* A message in two frames with a control frame between them.
LEMMA PartsArrive ==
  ASSUME NEW reader, IsReader(reader), NEW s \in Seq(Frames!Bytes), Len(s) > 3,
         NEW one \in Seq(Frames!Bytes), NEW two \in Seq(Frames!Bytes),
         NEW end1, NEW end2, NEW end3, NEW x1, x1 = Frames!Reads("frame", end1, one, 0),
         NEW pongs, NEW x2, x2 = Frames!Reads("frame", end2, one, pongs),
         Frames!ReadFrame(reader, s, FirstReading)
           = AfterData(reader, FirstReading, FALSE, one, end1),
         Frames!ReadFrame(reader, s, x1) = x2,
         Frames!ReadFrame(reader, s, x2) = AfterData(reader, x2, TRUE, two, end3)
  PROVE  ArrivesAs(Frames!ReadText(reader, s), reader.limit, one \o two, end3, pongs)
<1> DEFINE y == Frames!ReadFrame(reader, s, FirstReading)
           z == Frames!ReadFrame(reader, s, x2)
           msg == one \o two
           limit == reader.limit
           got == Frames!Reads("message", end3, msg, pongs)
<1>1. /\ Len(one) \in Nat /\ Len(two) \in Nat /\ Len(msg) = Len(one) + Len(two) /\ limit \in Nat
      /\ Len(s) \in Nat
  BY DEF IsReader
<1>2. y = IF Len(one) <= limit THEN x1 ELSE Frames!Failed
  BY FirstData
<1>3. x2.out = one /\ x2.pongs = pongs /\ x1.at = "frame" /\ x2.at = "frame"
  BY DEF Frames!Reads
<1>4. got.at = "message" /\ Frames!Failed.at = "failed"
  BY DEF Frames!Reads, Frames!Failed
<1>5. z = IF Len(one) + Len(two) > limit THEN Frames!Failed ELSE got
  BY <1>3, Zenon DEF AfterData
<1> HIDE DEF y, z, got, msg, limit
<1>6. CASE Len(one) <= limit
  <2>1. y = x1
    BY <1>2, <1>6
  <2>2. z.at # "frame"
    BY <1>4, <1>5
  <2>3. Frames!ReadText(reader, s) = z
    BY <2>1, <2>2, <1>1, <1>3, ReadThrice DEF y, z
  <2>. QED BY <2>3, <1>1, <1>4, <1>5 DEF ArrivesAs, msg, limit, got
<1>7. CASE Len(one) > limit
  <2>1. y = Frames!Failed
    BY <1>1, <1>2, <1>7
  <2>2. y.at # "frame"
    BY <2>1, <1>4
  <2>3. Frames!ReadText(reader, s) = y
    BY <2>2, <1>1, ReadOnce DEF y
  <2>4. ~(Len(msg) <= limit)
    BY <1>1, <1>7
  <2>. QED BY <2>1, <2>3, <2>4, <1>4 DEF ArrivesAs, msg, limit
<1>. QED BY <1>1, <1>6, <1>7

\* Parts of a stream, one after the other.
Follow(s, D, t, u, v, f) ==
  /\ s \in Seq(D) /\ f \in Seq(D) /\ Len(f) = Len(t) + Len(u) + Len(v) /\ Len(f) <= Len(s)
  /\ Starts(s, 0, t) /\ Starts(s, Len(t), u) /\ Starts(s, Len(t) + Len(u), v)

LEMMA FourHeld ==
  ASSUME NEW D, NEW t \in Seq(D), NEW u \in Seq(D), NEW v \in Seq(D), NEW rest \in Seq(D),
         NEW f, f = (t \o u) \o v, NEW s, s = f \o rest
  PROVE  Follow(s, D, t, u, v, f)
<1> DEFINE w == t \o u
<1>1. w \in Seq(D) /\ Len(w) = Len(t) + Len(u)
  OBVIOUS
<1>2. f = w \o v
  OBVIOUS
<1>3. Len(t) \in Nat /\ Len(u) \in Nat /\ Len(v) \in Nat /\ Len(rest) \in Nat
  OBVIOUS
<1> HIDE DEF w
<1>4. f \in Seq(D) /\ Len(f) = Len(w) + Len(v)
  BY <1>1, <1>2, ConcatProperties, Zenon
<1>5. s \in Seq(D) /\ Len(s) = Len(f) + Len(rest)
  BY <1>4, ConcatProperties, Zenon
<1>6. Starts(s, 0, f)
  BY <1>4, StartsFirst, Zenon
<1>7. Starts(s, 0, w) /\ Starts(s, 0 + Len(w), v)
  <2>1. Starts(s, 0, w \o v) /\ 0 \in Nat
    BY <1>2, <1>6
  <2>. QED BY <2>1, <1>1, <1>5, StartsJoined, Zenon
<1>8. Starts(s, 0, t) /\ Starts(s, 0 + Len(t), u)
  <2>1. Starts(s, 0, t \o u) /\ 0 \in Nat
    BY <1>7 DEF w
  <2>. QED BY <2>1, <1>5, StartsJoined, Zenon
<1>9. 0 + Len(w) = Len(t) + Len(u) /\ 0 + Len(t) = Len(t)
  BY <1>1, <1>3
<1>10. Len(f) = Len(t) + Len(u) + Len(v) /\ Len(f) <= Len(s)
  BY <1>1, <1>3, <1>4, <1>5
<1>. QED BY <1>4, <1>5, <1>7, <1>8, <1>9, <1>10, Zenon DEF Follow

\* Each of the three readers is one.
LEMMA ReadersAre ==
  ASSUME FrameSizes
  PROVE  /\ IsReader(Frames!Server) /\ IsReader(Frames!Relay) /\ IsReader(Frames!Local)
         /\ Frames!Server.limit = ServerLimit /\ Frames!Relay.limit = RelayLimit
         /\ Frames!Local.limit = RelayLimit
         /\ Frames!Relay.knows = {PingOp, PongOp} /\ Frames!Server.masks
BY DEF FrameSizes, IsReader, Frames!Server, Frames!Relay, Frames!Local

\* A frame with a mask is bytes, as many as this.
LEMMA HiddenIs ==
  ASSUME FrameSizes, NEW fin \in BOOLEAN, NEW op \in 0..Opcodes - 1,
         NEW part \in Seq(Frames!Bytes), Len(part) \in MessageSizes, NEW key \in Keys
  PROVE  /\ Frames!Hidden(fin, op, part, key) \in Seq(Frames!Bytes)
         /\ Len(Frames!Hidden(fin, op, part, key)) = HeaderLen(part) + MaskBytes + Len(part)
BY FramesAre, Zenon

\* A message in one frame without a mask, and in one with it.
LEMMA PlainArrives ==
  ASSUME FrameSizes, NEW reader, IsReader(reader), NEW msg \in Seq(Frames!Bytes),
         Len(msg) \in MessageSizes, NEW next \in Seq(Frames!Bytes), NEW f,
         f = Frames!ServerFrame(msg), NEW s, s = f \o next
  PROVE  ArrivesAs(Frames!ReadText(reader, s), reader.limit, msg, Len(f), 0)
<1>1. f = Frames!Plain(TRUE, TextOp, msg)
  BY DEF Frames!ServerFrame
<1>2. TextOp \in 0..Opcodes - 1
  BY DEF FrameSizes
<1>3. f \in Seq(Frames!Bytes) /\ Len(f) = HeaderLen(msg) + Len(msg)
  BY <1>1, <1>2, FramesAre
<1>4. Starts(s, 0, f) /\ s \in Seq(Frames!Bytes)
  BY <1>3, StartsFirst, Zenon
<1>5. FirstReading \in Frames!Reading /\ FirstReading.at = "frame" /\ FirstReading.pos = 0
  BY FirstReadingIs DEF FirstIs
<1>6. Starts(s, FirstReading.pos, Frames!Plain(TRUE, TextOp, msg))
  BY <1>1, <1>4, <1>5, Zenon
<1> DEFINE end == FirstReading.pos + HeaderLen(msg) + Len(msg)
<1>10. SizeKept(FirstReading, msg)
  <2>1. Len(FirstReading.out) + Len(msg) = Len(msg)
    BY FirstReadingIs DEF FirstIs
  <2>. QED BY <2>1, Zenon DEF SizeKept
<1>7. DataTurn(reader, s, FirstReading, TRUE, msg, end)
  BY <1>4, <1>5, <1>6, <1>10, PlainDataRead
<1>8. end = Len(f)
  <2>1. Extra(Len(msg)) \in Nat /\ HeaderLen(msg) = 2 + Extra(Len(msg))
    BY LengthsLen DEF HeaderLen
  <2> DEFINE k == Extra(Len(msg))
             n == Len(msg)
  <2>2. n \in Nat /\ k \in Nat
    BY <2>1
  <2>3. end = 0 + (2 + k) + n /\ Len(f) = (2 + k) + n
    BY <2>1, <1>3, <1>5, Zenon
  <2> HIDE DEF k, n, end
  <2>. QED BY <2>2, <2>3
<1> HIDE DEF end
<1>9. ArrivesAs(Frames!ReadText(reader, s), reader.limit, msg, end, 0)
  BY <1>4, <1>7, WholeArrives, Zenon DEF DataTurn
<1>. QED BY <1>8, <1>9, Zenon

LEMMA HiddenArrives ==
  ASSUME FrameSizes, NEW reader, IsReader(reader), reader.masks, NEW msg \in Seq(Frames!Bytes),
         Len(msg) \in MessageSizes, NEW key \in Keys, NEW next \in Seq(Frames!Bytes), NEW f,
         f = Frames!ClientFrame(msg, key), NEW s, s = f \o next
  PROVE  ArrivesAs(Frames!ReadText(reader, s), reader.limit, msg, Len(f), 0)
<1>1. f = Frames!Hidden(TRUE, TextOp, msg, key)
  BY DEF Frames!ClientFrame
<1>2. TextOp \in 0..Opcodes - 1
  BY DEF FrameSizes
<1>3. f \in Seq(Frames!Bytes) /\ Len(f) = HeaderLen(msg) + MaskBytes + Len(msg)
  <2> DEFINE g == Frames!Hidden(TRUE, TextOp, msg, key)
  <2>1. g \in Seq(Frames!Bytes) /\ Len(g) = HeaderLen(msg) + MaskBytes + Len(msg)
    BY <1>2, HiddenIs, Zenon
  <2>. QED BY <2>1, <1>1, Zenon
<1>4. Starts(s, 0, f) /\ s \in Seq(Frames!Bytes)
  BY <1>3, StartsFirst, Zenon
<1>5. FirstReading \in Frames!Reading /\ FirstReading.at = "frame" /\ FirstReading.pos = 0
  BY FirstReadingIs DEF FirstIs
<1>6. Starts(s, FirstReading.pos, Frames!Hidden(TRUE, TextOp, msg, key))
  BY <1>1, <1>4, <1>5, Zenon
<1> DEFINE end == FirstReading.pos + HeaderLen(msg) + MaskBytes + Len(msg)
<1>10. SizeKept(FirstReading, msg)
  <2>1. Len(FirstReading.out) + Len(msg) = Len(msg)
    BY FirstReadingIs DEF FirstIs
  <2>. QED BY <2>1, Zenon DEF SizeKept
<1>7. DataTurn(reader, s, FirstReading, TRUE, msg, end)
  BY <1>4, <1>5, <1>6, <1>10, HiddenDataRead
<1>8. end = Len(f)
  <2>1. Extra(Len(msg)) \in Nat /\ HeaderLen(msg) = 2 + Extra(Len(msg)) /\ MaskBytes \in Nat
    BY LengthsLen DEF HeaderLen, FrameSizes
  <2> DEFINE k == Extra(Len(msg))
             n == Len(msg)
  <2>2. n \in Nat /\ k \in Nat /\ MaskBytes \in Nat
    BY <2>1
  <2>3. end = 0 + (2 + k) + MaskBytes + n /\ Len(f) = (2 + k) + MaskBytes + n
    BY <2>1, <1>3, <1>5, Zenon
  <2> HIDE DEF k, n, end
  <2>. QED BY <2>2, <2>3
<1> HIDE DEF end
<1>9. ArrivesAs(Frames!ReadText(reader, s), reader.limit, msg, end, 0)
  BY <1>4, <1>7, WholeArrives, Zenon DEF DataTurn
<1>. QED BY <1>8, <1>9, Zenon

\* AddedInOrder in another order.
AddsTwo(i, j, k, l) == i + j = i + k + l
AddsThree(i, j, k, l, m) == i + j = i + k + l + m

LEMMA AddedTwo ==
  ASSUME NEW i \in Nat, NEW k \in Nat, NEW l \in Nat, NEW j, j = k + l
  PROVE  AddsTwo(i, j, k, l)
BY DEF AddsTwo

LEMMA AddedThree ==
  ASSUME NEW i \in Nat, NEW k \in Nat, NEW l \in Nat, NEW m \in Nat, NEW j, j = k + l + m
  PROVE  AddsThree(i, j, k, l, m)
BY DEF AddsThree

LEMMA AddedNumbers == \A i, j, k \in Nat : i + j \in Nat /\ i + j + k \in Nat
OBVIOUS

\* A frame takes bytes.
LEMMA FrameHeaderIs ==
  ASSUME FrameSizes, NEW part \in Seq(Frames!Bytes), Len(part) \in MessageSizes
  PROVE  HeaderLen(part) \in Nat /\ HeaderLen(part) > 1 /\ Len(part) \in Nat
<1> DEFINE k == Extra(Len(part))
<1>1. k \in Nat /\ Len(part) \in Nat
  BY LengthsLen
<1> HIDE DEF k
<1>2. HeaderLen(part) = 2 + k
  BY DEF HeaderLen, k
<1>. QED BY <1>1, <1>2

\* Two frames without masks and a control frame.
LEMMA PlainTurns ==
  ASSUME FrameSizes, NEW reader, IsReader(reader), NEW op \in reader.knows,
         NEW s \in Seq(Frames!Bytes), Len(s) > 3,
         NEW one \in Seq(Frames!Bytes), Len(one) \in MessageSizes,
         NEW two \in Seq(Frames!Bytes), Len(two) \in MessageSizes,
         Len(one) + Len(two) \in MessageSizes,
         NEW echo \in Seq(Frames!Bytes), Len(echo) \in MessageSizes, Len(echo) < ShortLength,
         NEW a, a = HeaderLen(one) + Len(one), NEW b, b = HeaderLen(echo) + Len(echo),
         NEW c, c = HeaderLen(two) + Len(two),
         Starts(s, 0, Frames!Plain(FALSE, TextOp, one)),
         Starts(s, a, Frames!Plain(TRUE, op, echo)),
         Starts(s, a + b, Frames!Plain(TRUE, 0, two))
  PROVE  ArrivesAs(Frames!ReadText(reader, s), reader.limit, one \o two, a + b + c,
                   PongsFor(op, 0))
<1> DEFINE x0 == FirstReading
           x1 == Frames!Reads("frame", a, one, 0)
           x2 == Frames!Reads("frame", a + b, one, PongsFor(op, 0))
<1>1. x0 \in Frames!Reading /\ x0.at = "frame" /\ x0.pos = 0
  BY FirstReadingIs DEF FirstIs
<1>2. a \in Nat /\ b \in Nat /\ c \in Nat
  <2>1. /\ HeaderLen(one) \in Nat /\ Len(one) \in Nat /\ HeaderLen(two) \in Nat /\ Len(two) \in Nat
        /\ HeaderLen(echo) \in Nat /\ Len(echo) \in Nat
    BY FrameHeaderIs
  <2>. QED BY <2>1, AddedNumbers, Zenon
<1>9. a + b \in Nat /\ PongsFor(op, 0) \in Nat
  <2>1. a + b \in Nat
    BY <1>2, AddedNumbers, Zenon
  <2>2. 0 + 1 \in Nat /\ 0 \in Nat
    OBVIOUS
  <2>3. PongsFor(op, 0) \in Nat
    BY <2>2, Zenon DEF PongsFor
  <2>. QED BY <2>1, <2>3
<1>3. /\ x1 \in Frames!Reading /\ x1.at = "frame" /\ x1.pos = a /\ x1.out = one /\ x1.pongs = 0
      /\ x2 \in Frames!Reading /\ x2.at = "frame" /\ x2.pos = a + b /\ x2.out = one
  BY <1>2, <1>9 DEF Frames!Reads, Frames!Reading
<1> HIDE DEF x0, x1, x2
<1>8. SizeKept(x0, one) /\ SizeKept(x2, two)
  <2>1. x0.out = <<>>
    BY FirstReadingIs DEF FirstIs, x0
  <2>2. Len(x0.out) + Len(one) = Len(one)
    BY <2>1
  <2>3. SizeKept(x0, one)
    BY <2>2, Zenon DEF SizeKept
  <2>4. SizeKept(x2, two)
    BY <1>3, Zenon DEF SizeKept
  <2>. QED BY <2>3, <2>4
<1>4. DataTurn(reader, s, x0, FALSE, one, a)
  <2>1. Starts(s, x0.pos, Frames!Plain(FALSE, TextOp, one)) /\ TextOp \in {0, TextOp}
    BY <1>1
  <2>2. a = x0.pos + HeaderLen(one) + Len(one)
    BY <1>1, FrameHeaderIs
  <2>. QED BY <2>1, <2>2, <1>1, <1>8, PlainDataRead, Zenon
<1>5. ControlTurn(reader, s, x1, op, a + b)
  <2>1. Starts(s, x1.pos, Frames!Plain(TRUE, op, echo))
    BY <1>3
  <2>2. a + b = x1.pos + HeaderLen(echo) + Len(echo)
    <3> DEFINE h == HeaderLen(echo)
               n == Len(echo)
    <3>1. h \in Nat /\ n \in Nat
      BY FrameHeaderIs
    <3>2. b = h + n /\ x1.pos = a
      BY <1>3
    <3> HIDE DEF h, n
    <3>3. a + b = a + h + n
      <4>1. AddsTwo(a, b, h, n)
        BY <3>1, <3>2, <1>2, AddedTwo, Zenon
      <4>. QED BY <4>1, Zenon DEF AddsTwo
    <3>. QED BY <3>2, <3>3 DEF h, n
  <2>. QED BY <2>1, <2>2, <1>3, ControlRead, Zenon
<1>6. DataTurn(reader, s, x2, TRUE, two, a + b + c)
  <2>1. Starts(s, x2.pos, Frames!Plain(TRUE, 0, two)) /\ 0 \in {0, TextOp}
    BY <1>3
  <2>2. a + b + c = x2.pos + HeaderLen(two) + Len(two)
    <3> DEFINE h == HeaderLen(two)
               n == Len(two)
    <3>1. h \in Nat /\ n \in Nat
      BY FrameHeaderIs
    <3>2. c = h + n /\ x2.pos = a + b
      BY <1>3
    <3> HIDE DEF h, n
    <3> DEFINE d == a + b
    <3>3. d \in Nat
      BY <1>2
    <3> HIDE DEF d
    <3>4. AddsTwo(d, c, h, n)
      BY <3>1, <3>2, <3>3, AddedTwo, Zenon
    <3>5. d + c = d + h + n
      BY <3>4, Zenon DEF AddsTwo
    <3>. QED BY <3>2, <3>5 DEF h, n, d
  <2>. QED BY <2>1, <2>2, <1>3, <1>8, PlainDataRead, Zenon
<1>7. Frames!ReadFrame(reader, s, x1) = x2
  <2>1. x1.out = one /\ x1.pongs = 0
    BY <1>3
  <2>. QED BY <2>1, <1>5, Zenon DEF ControlTurn, x2
<1>. QED BY <1>4, <1>6, <1>7, PartsArrive, Zenon DEF DataTurn, x0, x1, x2

LEMMA PlainPartsArrive ==
  ASSUME FrameSizes, NEW reader, IsReader(reader), NEW op \in reader.knows,
         NEW one \in Seq(Frames!Bytes), Len(one) \in MessageSizes,
         NEW two \in Seq(Frames!Bytes), Len(two) \in MessageSizes,
         Len(one) + Len(two) \in MessageSizes,
         NEW echo \in Seq(Frames!Bytes), Len(echo) \in MessageSizes, Len(echo) < ShortLength,
         NEW next \in Seq(Frames!Bytes), NEW f,
         f = (Frames!Plain(FALSE, TextOp, one) \o Frames!Plain(TRUE, op, echo))
               \o Frames!Plain(TRUE, 0, two),
         NEW s, s = f \o next
  PROVE  ArrivesAs(Frames!ReadText(reader, s), reader.limit, one \o two, Len(f), PongsFor(op, 0))
<1> DEFINE t == Frames!Plain(FALSE, TextOp, one)
           u == Frames!Plain(TRUE, op, echo)
           v == Frames!Plain(TRUE, 0, two)
           a == HeaderLen(one) + Len(one)
           b == HeaderLen(echo) + Len(echo)
           c == HeaderLen(two) + Len(two)
<1>1. TextOp \in 0..Opcodes - 1 /\ op \in 0..Opcodes - 1 /\ 0 \in 0..Opcodes - 1
  <2>1. TextOp \in 0..Opcodes - 1 /\ 0 \in 0..Opcodes - 1
    BY DEF FrameSizes
  <2>. QED BY <2>1, KnownIs, Zenon
<1>2. /\ t \in Seq(Frames!Bytes) /\ Len(t) = a
      /\ u \in Seq(Frames!Bytes) /\ Len(u) = b
      /\ v \in Seq(Frames!Bytes) /\ Len(v) = c
  BY <1>1, FramesAre
<1>3. a \in Nat /\ a > 1 /\ b \in Nat /\ b > 1 /\ c \in Nat /\ c > 1
  <2>1. ASSUME NEW part \in Seq(Frames!Bytes), Len(part) \in MessageSizes
        PROVE  HeaderLen(part) + Len(part) \in Nat /\ HeaderLen(part) + Len(part) > 1
    <3>1. HeaderLen(part) \in Nat /\ HeaderLen(part) > 1 /\ Len(part) \in Nat
      BY <2>1, FrameHeaderIs
    <3>. QED BY <3>1
  <2>. QED BY <2>1
<1>4. f = (t \o u) \o v
  OBVIOUS
<1> HIDE DEF t, u, v, a, b, c
<1>5. /\ s \in Seq(Frames!Bytes) /\ f \in Seq(Frames!Bytes)
      /\ Len(f) = Len(t) + Len(u) + Len(v) /\ Len(f) <= Len(s)
      /\ Starts(s, 0, t) /\ Starts(s, Len(t), u) /\ Starts(s, Len(t) + Len(u), v)
  <2>1. Follow(s, Frames!Bytes, t, u, v, f)
    BY <1>2, <1>4, FourHeld
  <2>. QED BY <2>1, Zenon DEF Follow
<1>6. Len(f) = a + b + c /\ Starts(s, 0, t) /\ Starts(s, a, u) /\ Starts(s, a + b, v)
  BY <1>2, <1>5, Zenon
<1>7. Len(s) > 3
  <2>1. Len(s) \in Nat
    BY <1>5, LenProperties, Zenon
  <2> DEFINE m == Len(s)
             n == Len(f)
  <2>2. m \in Nat /\ n <= m /\ n = a + b + c
    BY <2>1, <1>5, <1>6, Zenon
  <2> HIDE DEF m, n
  <2>3. m > 3
    BY <2>2, <1>3
  <2>. QED BY <2>3 DEF m
<1>8. s \in Seq(Frames!Bytes)
  BY <1>5
<1>9. ArrivesAs(Frames!ReadText(reader, s), reader.limit, one \o two, a + b + c,
                   PongsFor(op, 0))
  BY <1>6, <1>7, <1>8, PlainTurns, Zenon DEF t, u, v, a, b, c
<1>. QED BY <1>6, <1>9, Zenon

\* Two frames with masks.
LEMMA HiddenTurns ==
  ASSUME FrameSizes, NEW reader, IsReader(reader), reader.masks, NEW key \in Keys,
         NEW s \in Seq(Frames!Bytes), Len(s) > 1,
         NEW one \in Seq(Frames!Bytes), Len(one) \in MessageSizes,
         NEW two \in Seq(Frames!Bytes), Len(two) \in MessageSizes,
         Len(one) + Len(two) \in MessageSizes,
         NEW a, a = HeaderLen(one) + MaskBytes + Len(one),
         NEW c, c = HeaderLen(two) + MaskBytes + Len(two),
         Starts(s, 0, Frames!Hidden(FALSE, TextOp, one, key)),
         Starts(s, a, Frames!Hidden(TRUE, 0, two, key))
  PROVE  ArrivesAs(Frames!ReadText(reader, s), reader.limit, one \o two, a + c, 0)
<1> DEFINE x0 == FirstReading
           x1 == Frames!Reads("frame", a, one, 0)
<1>1. x0 \in Frames!Reading /\ x0.at = "frame" /\ x0.pos = 0 /\ x0.out = <<>>
  BY FirstReadingIs DEF FirstIs
<1>2. a \in Nat /\ c \in Nat
  <2>1. /\ HeaderLen(one) \in Nat /\ Len(one) \in Nat /\ HeaderLen(two) \in Nat /\ Len(two) \in Nat
        /\ MaskBytes \in Nat
    BY FrameHeaderIs DEF FrameSizes
  <2>. QED BY <2>1, AddedNumbers, Zenon
<1>3. x1 \in Frames!Reading /\ x1.at = "frame" /\ x1.pos = a /\ x1.out = one /\ x1.pongs = 0
  BY <1>2 DEF Frames!Reads, Frames!Reading
<1> HIDE DEF x0, x1
<1>4. SizeKept(x0, one) /\ SizeKept(x1, two)
  <2>1. Len(x0.out) + Len(one) = Len(one)
    BY <1>1
  <2>2. SizeKept(x0, one)
    BY <2>1, Zenon DEF SizeKept
  <2>3. SizeKept(x1, two)
    BY <1>3, Zenon DEF SizeKept
  <2>. QED BY <2>2, <2>3
<1>5. DataTurn(reader, s, x0, FALSE, one, a)
  <2>1. Starts(s, x0.pos, Frames!Hidden(FALSE, TextOp, one, key)) /\ TextOp \in {0, TextOp}
    BY <1>1
  <2>2. a = x0.pos + HeaderLen(one) + MaskBytes + Len(one)
    BY <1>1, FrameHeaderIs DEF FrameSizes
  <2>. QED BY <2>1, <2>2, <1>1, <1>4, HiddenDataRead, Zenon
<1>6. DataTurn(reader, s, x1, TRUE, two, a + c)
  <2>1. Starts(s, x1.pos, Frames!Hidden(TRUE, 0, two, key)) /\ 0 \in {0, TextOp}
    BY <1>3
  <2>2. a + c = x1.pos + HeaderLen(two) + MaskBytes + Len(two)
    <3> DEFINE h == HeaderLen(two)
               n == Len(two)
    <3>1. h \in Nat /\ n \in Nat /\ MaskBytes \in Nat
      BY FrameHeaderIs DEF FrameSizes
    <3>2. c = h + MaskBytes + n /\ x1.pos = a
      BY <1>3
    <3> HIDE DEF h, n
    <3>3. a + c = a + h + MaskBytes + n
      <4>1. AddsThree(a, c, h, MaskBytes, n)
        BY <3>1, <3>2, <1>2, AddedThree, Zenon
      <4>. QED BY <4>1, Zenon DEF AddsThree
    <3>. QED BY <3>2, <3>3 DEF h, n
  <2>. QED BY <2>1, <2>2, <1>3, <1>4, HiddenDataRead, Zenon
<1>. QED BY <1>5, <1>6, BothArrive, Zenon DEF DataTurn, x0, x1

LEMMA HiddenPartsArrive ==
  ASSUME FrameSizes, NEW reader, IsReader(reader), reader.masks, NEW key \in Keys,
         NEW one \in Seq(Frames!Bytes), Len(one) \in MessageSizes,
         NEW two \in Seq(Frames!Bytes), Len(two) \in MessageSizes,
         Len(one) + Len(two) \in MessageSizes,
         NEW next \in Seq(Frames!Bytes), NEW f,
         f = Frames!Hidden(FALSE, TextOp, one, key) \o Frames!Hidden(TRUE, 0, two, key),
         NEW s, s = f \o next
  PROVE  ArrivesAs(Frames!ReadText(reader, s), reader.limit, one \o two, Len(f), 0)
<1> DEFINE t == Frames!Hidden(FALSE, TextOp, one, key)
           v == Frames!Hidden(TRUE, 0, two, key)
           a == HeaderLen(one) + MaskBytes + Len(one)
           c == HeaderLen(two) + MaskBytes + Len(two)
           D == Frames!Bytes
<1>1. TextOp \in 0..Opcodes - 1 /\ 0 \in 0..Opcodes - 1
  BY DEF FrameSizes
<1>2. t \in Seq(D) /\ Len(t) = a /\ v \in Seq(D) /\ Len(v) = c
  BY <1>1, HiddenIs, Zenon
<1>3. a \in Nat /\ c \in Nat /\ c > 1
  <2>1. ASSUME NEW part \in Seq(Frames!Bytes), Len(part) \in MessageSizes
        PROVE  /\ HeaderLen(part) + MaskBytes + Len(part) \in Nat
               /\ HeaderLen(part) + MaskBytes + Len(part) > 1
    <3>1. /\ HeaderLen(part) \in Nat /\ HeaderLen(part) > 1 /\ Len(part) \in Nat
          /\ MaskBytes \in Nat
      BY <2>1, FrameHeaderIs DEF FrameSizes
    <3>. QED BY <3>1
  <2>. QED BY <2>1
<1>4. f = t \o v /\ next \in Seq(D)
  OBVIOUS
<1> HIDE DEF t, v, a, c, D
<1>5. f \in Seq(D) /\ Len(f) = a + c
  BY <1>2, <1>4, ConcatProperties, Zenon
<1>6. s \in Seq(D) /\ Len(s) = Len(f) + Len(next)
  BY <1>4, <1>5, ConcatProperties, Zenon
<1>7. Starts(s, 0, t) /\ Starts(s, 0 + Len(t), v)
  <2>1. Starts(s, 0, f)
    BY <1>4, <1>5, StartsFirst, Zenon
  <2>2. Starts(s, 0, t \o v) /\ 0 \in Nat
    BY <1>4, <2>1
  <2>. QED BY <2>2, <1>2, <1>6, StartsJoined, Zenon
<1>8. Starts(s, a, v)
  <2>1. 0 + Len(t) = a
    BY <1>2, <1>3
  <2>. QED BY <2>1, <1>7, Zenon
<1>9. Len(s) > 1
  <2>1. Len(next) \in Nat
    BY <1>4, LenProperties, Zenon
  <2> DEFINE m == Len(s)
             n == Len(f)
             k == Len(next)
  <2>2. m = n + k /\ n = a + c /\ k \in Nat
    BY <2>1, <1>5, <1>6, Zenon
  <2> HIDE DEF m, n, k
  <2>3. m > 1
    BY <2>2, <1>3
  <2>. QED BY <2>3 DEF m
<1>10. s \in Seq(Frames!Bytes)
  BY <1>6 DEF D
<1>11. ArrivesAs(Frames!ReadText(reader, s), reader.limit, one \o two, a + c, 0)
  BY <1>7, <1>8, <1>9, <1>10, HiddenTurns, Zenon DEF t, v, a, c
<1>. QED BY <1>5, <1>11, Zenon

-----------------------------------------------------------------------------
\* What a message, a control frame and a masking key are.
FramesInput ==
  /\ input.msg \in Seq(Frames!Bytes) /\ Len(input.msg) \in MessageSizes /\ input.first \in Nat
  /\ input.ping \in Seq(Frames!Bytes) /\ Len(input.ping) \in MessageSizes
  /\ Len(input.ping) < ShortLength /\ input.control \in {PingOp, PongOp}
  /\ input.key \in Keys /\ input.next \in Seq(Frames!Bytes)

\* A message is its two parts.
LEMMA CutInTwo ==
  ASSUME NEW D, NEW m \in Seq(D), NEW n \in 0..Len(m)
  PROVE  /\ SubSeq(m, 1, n) \in Seq(D) /\ Len(SubSeq(m, 1, n)) = n
         /\ SubSeq(m, n + 1, Len(m)) \in Seq(D) /\ Len(SubSeq(m, n + 1, Len(m))) = Len(m) - n
         /\ SubSeq(m, 1, n) \o SubSeq(m, n + 1, Len(m)) = m
<1> DEFINE one == SubSeq(m, 1, n)
           two == SubSeq(m, n + 1, Len(m))
<1>1. one \in Seq(D) /\ Len(one) = n /\ \A i \in 1..n : one[i] = m[i]
  OBVIOUS
<1>2. two \in Seq(D) /\ Len(two) = Len(m) - n /\ \A i \in 1..Len(m) - n : two[i] = m[n + i]
  OBVIOUS
<1>3. Len(m) \in Nat /\ n \in Nat /\ n <= Len(m)
  OBVIOUS
<1> HIDE DEF one, two
<1> DEFINE w == one \o two
<1>4. w \in Seq(D) /\ Len(w) = Len(m)
  BY <1>1, <1>2, <1>3
<1>5. ASSUME NEW i \in 1..Len(m) PROVE w[i] = m[i]
  <2>1. CASE i <= n
    BY <2>1, <1>1, <1>2, <1>3
  <2>2. CASE i > n
    <3>1. i - n \in 1..Len(m) - n /\ n + (i - n) = i
      BY <2>2, <1>3
    <3>2. w[i] = two[i - n]
      BY <2>2, <1>1, <1>2, <1>3
    <3>. QED BY <3>1, <3>2, <1>2
  <2> HIDE DEF w
  <2>3. i <= n \/ i > n
    BY <1>3
  <2>. QED BY <2>1, <2>2, <2>3
<1> HIDE DEF w
<1>6. w = m
  BY <1>4, <1>5
<1>. QED BY <1>1, <1>2, <1>6 DEF w, one, two

(* A message in well-formed frames arrives as it was sent (server.hpp,       *)
(* relay_bridge.hpp: the writers and readers of frames), whatever its bytes, *)
(* its masking key, the place where it is cut in two and its length below   *)
(* 2^64, at every reader, with any numbers for the protocol's parameters; a *)
(* reader gives up exactly the messages that are longer than its limit, and *)
(* throws or writes past its buffer for none.  A ping or a pong may stand   *)
(* between the parts where the code's own peers may send one, at the relay's *)
(* reader.  Frames that no peer in the repository sends are not in it: a     *)
(* control frame with a mask, or one of a length that cannot be (FrameSizes). *)
THEOREM FramesDoArrive ==
  ASSUME FrameSizes, input.kind = "frames" => FramesInput
  PROVE  FramesArrive
<1> SUFFICES ASSUME input.kind = "frames", FramesInput PROVE FramesArrive
  BY DEF FramesArrive
<1> DEFINE m == input.msg
           n == IF input.first < Len(m) THEN input.first ELSE Len(m)
           one == SubSeq(m, 1, n)
           two == SubSeq(m, n + 1, Len(m))
           key == input.key
           next == input.next
           op == input.control
           sent == IF op = PingOp THEN 1 ELSE 0
           echo == Frames!Plain(TRUE, op, input.ping)
           fromClient == Frames!ClientFrame(m, key)
           fromServer == Frames!ServerFrame(m)
           hidden == Frames!Hidden(FALSE, TextOp, one, key) \o Frames!Hidden(TRUE, 0, two, key)
           plain == Frames!Plain(FALSE, TextOp, one) \o echo \o Frames!Plain(TRUE, 0, two)
<1>1. /\ m \in Seq(Frames!Bytes) /\ Len(m) \in MessageSizes /\ key \in Keys
      /\ next \in Seq(Frames!Bytes) /\ input.first \in Nat
      /\ input.ping \in Seq(Frames!Bytes) /\ Len(input.ping) \in MessageSizes
      /\ Len(input.ping) < ShortLength /\ op \in {PingOp, PongOp}
  BY DEF FramesInput
<1>2. n \in 0..Len(m)
  <2>1. Len(m) \in Nat /\ input.first \in Nat
    BY <1>1
  <2>. QED BY <2>1
<1> HIDE DEF n, m
<1>3. /\ one \in Seq(Frames!Bytes) /\ Len(one) = n
      /\ two \in Seq(Frames!Bytes) /\ Len(two) = Len(m) - n /\ one \o two = m
  BY <1>1, <1>2, CutInTwo, Zenon
<1>4. /\ Len(one) \in MessageSizes /\ Len(two) \in MessageSizes
      /\ Len(one) + Len(two) \in MessageSizes
  <2>1. Len(m) \in Nat
    BY <1>1
  <2> DEFINE k == Len(m)
             P == Coder!Power(FrameByte, LengthBytes)
  <2>2. P \in Nat
    <3>1. FrameByte \in Nat \ {0}
      BY HeaderBytes
    <3>2. LengthBytes \in Nat
      BY DEF FrameSizes
    <3>. QED BY <3>1, <3>2, KeyPowerIs
  <2>3. k \in 0..P - 1
    BY <1>1 DEF MessageSizes
  <2> HIDE DEF k, P
  <2>4. n \in 0..P - 1 /\ k - n \in 0..P - 1 /\ n + (k - n) \in 0..P - 1
    <3>1. n \in 0..k
      BY <1>2 DEF k
    <3>. QED BY <3>1, <2>2, <2>3
  <2>. QED BY <2>4, <1>3 DEF MessageSizes, k, P
<1> HIDE DEF one, two, key, next, op
<1>5. /\ IsReader(Frames!Server) /\ IsReader(Frames!Relay) /\ IsReader(Frames!Local)
      /\ Frames!Server.limit = ServerLimit /\ Frames!Relay.limit = RelayLimit
      /\ Frames!Local.limit = RelayLimit
      /\ Frames!Relay.knows = {PingOp, PongOp} /\ Frames!Server.masks
  BY ReadersAre
<1>6. ArrivesAs(Frames!ServerReads(fromClient \o next), ServerLimit, m, Len(fromClient), 0)
  BY <1>1, <1>5, HiddenArrives, Zenon DEF Frames!ServerReads
<1>7. ArrivesAs(Frames!LocalReads(fromServer \o next), RelayLimit, m, Len(fromServer), 0)
  BY <1>1, <1>5, PlainArrives, Zenon DEF Frames!LocalReads
<1>8. ArrivesAs(Frames!RelayReads(fromServer \o next), RelayLimit, m, Len(fromServer), 0)
  BY <1>1, <1>5, PlainArrives, Zenon DEF Frames!RelayReads
<1>9. ArrivesAs(Frames!ServerReads(hidden \o next), ServerLimit, m, Len(hidden), 0)
  <2>1. ArrivesAs(Frames!ServerReads(hidden \o next), ServerLimit, one \o two, Len(hidden), 0)
    BY <1>1, <1>3, <1>4, <1>5, HiddenPartsArrive, Zenon DEF Frames!ServerReads
  <2>. QED BY <2>1, <1>3, Zenon
<1>10. ArrivesAs(Frames!RelayReads(plain \o next), RelayLimit, m, Len(plain), sent)
  <2>1. op \in Frames!Relay.knows
    BY <1>1, <1>5
  <2>2. ArrivesAs(Frames!RelayReads(plain \o next), RelayLimit, one \o two, Len(plain),
                  PongsFor(op, 0))
    <3>1. ArrivesAs(Frames!ReadText(Frames!Relay, plain \o next), Frames!Relay.limit, one \o two,
                    Len(plain), PongsFor(op, 0))
      BY <2>1, <1>1, <1>3, <1>4, <1>5, PlainPartsArrive, ZenonT(60)
    <3>. QED BY <3>1, <1>5, Zenon DEF Frames!RelayReads
  <2>3. PongsFor(op, 0) = sent
    BY DEF PongsFor
  <2>. QED BY <2>2, <2>3, <1>3, Zenon
<1>11. \A r, limit, end, k : ArrivesAs(r, limit, m, end, k) => Arrives(r, limit, end, k)
  BY Zenon DEF ArrivesAs, Arrives, Frames!Reads, m
<1>. QED BY <1>6, <1>7, <1>8, <1>9, <1>10, <1>11, Zenon
         DEF FramesArrive, m, n, one, two, key, next, op
=============================================================================
