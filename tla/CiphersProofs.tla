--------------------------- MODULE CiphersProofs ----------------------------
(***************************************************************************)
(* For every prime, root, noise and budget: each operation on ciphers makes *)
(* a cipher, and decryption finds what the operation stands for.  Before    *)
(* that, what the proofs rest on: sums, inverses and powers in the field,   *)
(* and what becomes of the sum of a sequence that is cut, scaled or         *)
(* rearranged.                                                              *)
(***************************************************************************)
EXTENDS Ciphers, TLAPS, WellFoundedInduction, SequenceTheorems, FiniteSetTheorems

-----------------------------------------------------------------------------
(* Induction and iteration.                                                 *)

\* Induction, over a set.
LEMMA NatInduct ==
  ASSUME NEW S, 0 \in S, \A n \in Nat : n \in S => n + 1 \in S
  PROVE  Nat \subseteq S
<1> DEFINE T == Nat \ S
<1> SUFFICES ASSUME T # {} PROVE FALSE
  OBVIOUS
<1>1. PICK x \in T : \A y \in T : ~(<<y, x>> \in OpToRel(<, Nat))
  <2>1. T \subseteq Nat
    OBVIOUS
  <2> HIDE DEF T
  <2>. QED BY <2>1, NatLessThanWellFounded, WFMin
<1>2. \A y \in T : ~(y < x)
  BY <1>1 DEF OpToRel
<1>3. x # 0 /\ x - 1 \in Nat
  OBVIOUS
<1>. QED BY <1>2, <1>3

\* g takes step n from g[n - 1] to g[n].
Iterates(g, base, N, step) == g[0] = base /\ \A k \in 1..N : g[k] = step[k][g[k - 1]]

\* Functions defined by iteration exist.
LEMMA Iteration ==
  ASSUME NEW D, NEW base \in D, NEW N \in Nat, NEW step \in [1..N -> [D -> D]]
  PROVE  \E g \in [0..N -> D] : Iterates(g, base, N, step)
<1> DEFINE Up(n, g) == g[0] = base /\ \A k \in 1..n : g[k] = step[k][g[k - 1]]
           S == {n \in Nat : n <= N => \E g \in [0..n -> D] : Up(n, g)}
<1>1. 0 \in S
  <2>1. [k \in 0..0 |-> base] \in [0..0 -> D] /\ Up(0, [k \in 0..0 |-> base])
    OBVIOUS
  <2>. QED BY <2>1
<1>2. ASSUME NEW n \in Nat, n \in S PROVE n + 1 \in S
  <2> SUFFICES ASSUME n + 1 <= N PROVE \E g \in [0..n + 1 -> D] : Up(n + 1, g)
    OBVIOUS
  <2>1. PICK g \in [0..n -> D] : Up(n, g)
    BY <1>2
  <2> DEFINE h == [k \in 0..n + 1 |-> IF k = n + 1 THEN step[n + 1][g[n]] ELSE g[k]]
  <2>2. h \in [0..n + 1 -> D]
    OBVIOUS
  <2>3. Up(n + 1, h)
    BY <2>1
  <2>. QED BY <2>2, <2>3
<1>3. N \in S
  <2> HIDE DEF S
  <2>. QED BY <1>1, <1>2, NatInduct
<1>. QED BY <1>3 DEF Iterates
-----------------------------------------------------------------------------
(* Numbers modulo p.                                                        *)

\* Sums, differences and products are integers.
LEMMA Ints == \A x, y \in Int : x + y \in Int /\ x - y \in Int /\ x * y \in Int
  OBVIOUS

\* Multiplying in an order of one's own.
LEMMA Products ==
  \A x, y, z \in Int : /\ x * y \in Int /\ x * y = y * x /\ (x * y) * z = x * (y * z)
                       /\ x * (y + z) = x * y + x * z /\ (x + y) * z = x * z + y * z
  OBVIOUS

\* A product grows with its factor.
LEMMA Monotone == \A x, y, z \in Int : 0 <= x /\ y <= z => x * y <= x * z
  OBVIOUS

\* A number from its quotient and its remainder.
LEMMA DivMod ==
  ASSUME NEW m \in Nat \ {0}, NEW x \in Int
  PROVE  x = (x \div m) * m + (x % m) /\ x % m \in 0..m - 1 /\ x \div m \in Int
  OBVIOUS

\* Quotient and remainder from the number.
LEMMA DivModUnique ==
  ASSUME NEW m \in Nat \ {0}, NEW q \in Int, NEW r \in 0..m - 1
  PROVE  (q * m + r) \div m = q /\ (q * m + r) % m = r
  OBVIOUS

\* A scaled sum plus a sum, regrouped.
LEMMA Regroup ==
  \A c, s, x, t, y \in Int : c * (s + x) + (t + y) = (c * s + t) + (c * x + y)
<1> SUFFICES ASSUME NEW c \in Int, NEW s \in Int, NEW x \in Int, NEW t \in Int, NEW y \in Int
             PROVE  c * (s + x) + (t + y) = (c * s + t) + (c * x + y)
  OBVIOUS
<1> DEFINE v == c * s
           w == c * x
<1>1. v \in Int /\ w \in Int /\ c * (s + x) = v + w
  BY Ints, Products
<1> HIDE DEF v, w
<1>2. (v + w) + (t + y) = (v + t) + (w + y)
  BY <1>1
<1>. QED BY <1>1, <1>2 DEF v, w

\* The field's elements, and what is congruent.
Fld == 0..Prime - 1
Same(x, y) == x % Prime = y % Prime

\* p is positive.
LEMMA PrimeType == Prime \in Nat \ {0}
  BY CiphersAssumption

\* A remainder is an element of the field.
LEMMA ModType == \A x \in Int : x % Prime \in Fld /\ x % Prime \in Int
  BY PrimeType DEF Fld

\* An element of the field is its own remainder.
LEMMA ModSmall == \A x \in Fld : x % Prime = x /\ x \in Int
  BY PrimeType DEF Fld

\* Multiples of p do not count.
LEMMA SameShift ==
  ASSUME NEW x \in Int, NEW k \in Int
  PROVE  Same(x + k * Prime, x)
<1> DEFINE q == x \div Prime
           r == x % Prime
<1>1. x = q * Prime + r /\ q \in Int /\ r \in 0..Prime - 1
  BY DivMod, PrimeType
<1> HIDE DEF q
<1>2. x + k * Prime = (q + k) * Prime + r /\ q + k \in Int
  <2> HIDE DEF r
  <2>. QED BY <1>1, PrimeType
<1>3. ((q + k) * Prime + r) % Prime = r
  BY <1>1, <1>2, DivModUnique, PrimeType
<1>. QED BY <1>2, <1>3 DEF Same

\* A number and its remainder are congruent.
LEMMA SameMod == \A x \in Int : Same(x % Prime, x)
  BY ModType, ModSmall DEF Same

\* What is congruent differs by a multiple.
LEMMA SameGap ==
  ASSUME NEW x \in Int, NEW y \in Int, Same(x, y)
  PROVE  \E k \in Int : x = y + k * Prime
<1>1. /\ x = (x \div Prime) * Prime + (x % Prime) /\ x \div Prime \in Int /\ x % Prime \in Int
      /\ y = (y \div Prime) * Prime + (y % Prime) /\ y \div Prime \in Int
  BY DivMod, PrimeType
<1>2. x = y + ((x \div Prime) - (y \div Prime)) * Prime
  <2> DEFINE q == x \div Prime
             w == y \div Prime
             r == x % Prime
  <2>1. x = q * Prime + r /\ y = w * Prime + r /\ q \in Int /\ w \in Int /\ r \in Int
    BY <1>1 DEF Same
  <2> HIDE DEF q, w, r
  <2>2. x = y + (q - w) * Prime
    BY <2>1, PrimeType
  <2>. QED BY <2>2 DEF q, w
<1>. QED BY <1>1, <1>2

\* Sums and differences of congruent numbers are congruent.
LEMMA SamePlus ==
  ASSUME NEW x \in Int, NEW y \in Int, NEW z \in Int, NEW w \in Int, Same(x, y), Same(z, w)
  PROVE  Same(x + z, y + w) /\ Same(x - z, y - w)
<1>1. PICK k \in Int : x = y + k * Prime
  BY SameGap
<1>2. PICK j \in Int : z = w + j * Prime
  BY SameGap
<1>3. x + z = (y + w) + (k + j) * Prime /\ x - z = (y - w) + (k - j) * Prime
  BY <1>1, <1>2, PrimeType
<1>. QED BY <1>3, SameShift

\* So are products.
LEMMA SameTimes ==
  ASSUME NEW x \in Int, NEW y \in Int, NEW z \in Int, NEW w \in Int, Same(x, y), Same(z, w)
  PROVE  Same(x * z, y * w)
<1>1. PICK k \in Int : x = y + k * Prime
  BY SameGap
<1>2. PICK j \in Int : z = w + j * Prime
  BY SameGap
<1>3. x * z = y * w + (y * j + k * w + k * j * Prime) * Prime
  BY <1>1, <1>2, PrimeType
<1>4. y * w \in Int /\ y * j + k * w + k * j * Prime \in Int
  BY <1>1, <1>2, PrimeType
<1>. QED BY <1>3, <1>4, SameShift

\* A field element that a difference takes to zero.
LEMMA ZeroDifference ==
  ASSUME NEW x \in Fld, NEW y \in Fld
  PROVE  (x - y) % Prime = 0 <=> x = y
<1>1. x \in Int /\ y \in Int /\ x % Prime = x /\ y % Prime = y
  BY ModSmall
<1>2. ASSUME (x - y) % Prime = 0 PROVE x = y
  <2>1. Same(x - y, 0) /\ Same(y, y)
    BY <1>2, PrimeType DEF Same
  <2>2. Same((x - y) + y, 0 + y)
    BY <2>1, <1>1, SamePlus
  <2>3. (x - y) + y = x /\ 0 + y = y
    BY <1>1
  <2>. QED BY <2>2, <2>3, <1>1 DEF Same
<1>3. ASSUME x = y PROVE (x - y) % Prime = 0
  <2>1. x - y = 0
    BY <1>3, <1>1
  <2>. QED BY <2>1, PrimeType
<1>. QED BY <1>2, <1>3
-----------------------------------------------------------------------------
(* Sums.                                                                    *)

\* The function whose last value SumOf is.
Sums(s) == CHOOSE sum : sum =
  [n \in 0..Len(s) |-> IF n = 0 THEN 0 ELSE (sum[n - 1] + s[n]) % Prime]

\* SumOf is its last value.
LEMMA SumOfDef == \A s : SumOf(s) = Sums(s)[Len(s)]
  BY DEF SumOf, Sums

\* The partial sums.
LEMMA SumsAre ==
  ASSUME NEW s \in Seq(Int)
  PROVE  /\ Sums(s) \in [0..Len(s) -> Fld]
         /\ Sums(s)[0] = 0
         /\ \A n \in 1..Len(s) : Sums(s)[n] = (Sums(s)[n - 1] + s[n]) % Prime
<1> DEFINE step == [n \in 1..Len(s) |-> [x \in Fld |-> (x + s[n]) % Prime]]
<1>1. step \in [1..Len(s) -> [Fld -> Fld]] /\ 0 \in Fld /\ Len(s) \in Nat
  <2>1. 0 \in Fld /\ Len(s) \in Nat
    BY PrimeType DEF Fld
  <2>2. \A n \in 1..Len(s), x \in Fld : x + s[n] \in Int
    BY <2>1, PrimeType DEF Fld
  <2>3. \A n \in 1..Len(s), x \in Fld : (x + s[n]) % Prime \in Fld
    BY <2>2, ModType
  <2>. QED BY <2>1, <2>3
<1>2. \A n \in 1..Len(s), x \in Fld : step[n][x] = (x + s[n]) % Prime
  OBVIOUS
<1>3. PICK g \in [0..Len(s) -> Fld] : Iterates(g, 0, Len(s), step)
  <2> HIDE DEF step
  <2>. QED BY <1>1, Iteration
<1> DEFINE Is(sum) ==
      sum = [n \in 0..Len(s) |-> IF n = 0 THEN 0 ELSE (sum[n - 1] + s[n]) % Prime]
<1>4. Is(g)
  <2> HIDE DEF step
  <2>1. \A k \in 1..Len(s) : g[k - 1] \in Fld
    OBVIOUS
  <2>2. \A k \in 1..Len(s) : g[k] = step[k][g[k - 1]]
    BY <1>3 DEF Iterates
  <2>3. \A k \in 1..Len(s) : g[k] = (g[k - 1] + s[k]) % Prime
    BY <2>1, <2>2, <1>2
  <2>. QED BY <2>3, <1>3, <1>1 DEF Iterates
<1>5. Is(Sums(s))
  BY <1>4 DEF Sums
<1> DEFINE t == Sums(s)
           S == {n \in Nat : n <= Len(s) => t[n] \in Fld}
<1> HIDE DEF t
<1>6. /\ DOMAIN t = 0..Len(s) /\ t[0] = 0
      /\ \A n \in 1..Len(s) : t[n] = (t[n - 1] + s[n]) % Prime
  BY <1>5, <1>1 DEF t
<1>7. 0 \in S
  BY <1>6, <1>1
<1>8. ASSUME NEW n \in Nat, n \in S PROVE n + 1 \in S
  <2> SUFFICES ASSUME n + 1 <= Len(s) PROVE t[n + 1] \in Fld
    OBVIOUS
  <2>1. t[n] \in Int /\ s[n + 1] \in Int
    BY <1>8, <1>1, PrimeType DEF Fld
  <2>2. t[n + 1] = (t[n] + s[n + 1]) % Prime
    BY <1>6, <1>1
  <2>3. t[n] + s[n + 1] \in Int
    BY <2>1
  <2>. QED BY <2>2, <2>3, ModType
<1>9. \A n \in 0..Len(s) : t[n] \in Fld
  <2>1. Nat \subseteq S
    <3> HIDE DEF S
    <3>. QED BY <1>7, <1>8, NatInduct
  <2>. QED BY <2>1, <1>1
<1>10. t = [n \in 0..Len(s) |-> t[n]]
  BY <1>5 DEF t
<1>. QED BY <1>6, <1>9, <1>10 DEF t

\* What grows like the sum is the sum.
LEMMA SumIs ==
  ASSUME NEW s \in Seq(Int), NEW g \in [0..Len(s) -> Int],
         Same(g[0], 0), \A k \in 1..Len(s) : Same(g[k], g[k - 1] + s[k])
  PROVE  SumOf(s) = g[Len(s)] % Prime
<1> DEFINE t == Sums(s)
           S == {n \in Nat : n <= Len(s) => t[n] = g[n] % Prime}
<1>1. Len(s) \in Nat
  OBVIOUS
<1>2. /\ t \in [0..Len(s) -> Fld] /\ t[0] = 0
      /\ \A n \in 1..Len(s) : t[n] = (t[n - 1] + s[n]) % Prime
  BY SumsAre
<1> HIDE DEF t
<1>3. 0 \in S
  BY <1>2, ModSmall, PrimeType DEF Same, Fld
<1>4. ASSUME NEW n \in Nat, n \in S PROVE n + 1 \in S
  <2> SUFFICES ASSUME n + 1 <= Len(s) PROVE t[n + 1] = g[n + 1] % Prime
    OBVIOUS
  <2>1. n \in 0..Len(s) /\ n + 1 \in 1..Len(s) /\ t[n] = g[n] % Prime /\ g[n] \in Int
        /\ s[n + 1] \in Int /\ t[n] \in Int
    <3>1. n \in 0..Len(s) /\ n + 1 \in 1..Len(s) /\ s[n + 1] \in Int /\ g[n] \in Int
      BY <1>1
    <3>2. t[n] = g[n] % Prime
      BY <1>4, <1>1
    <3>3. t[n] \in Int
      <4>1. t[n] \in Fld
        BY <3>1, <1>2
      <4>. QED BY <4>1 DEF Fld
    <3>. QED BY <3>1, <3>2, <3>3
  <2>2. t[n + 1] = (t[n] + s[n + 1]) % Prime /\ Same(g[n + 1], g[n] + s[n + 1])
    <3>1. (n + 1) - 1 = n
      OBVIOUS
    <3>. QED BY <3>1, <1>2, <2>1
  <2>3. Same(t[n] + s[n + 1], g[n] + s[n + 1])
    <3>1. Same(t[n], g[n])
      BY <2>1, SameMod
    <3>2. Same(s[n + 1], s[n + 1])
      BY DEF Same
    <3>. QED BY <3>1, <3>2, <2>1, SamePlus
  <2>. QED BY <2>2, <2>3 DEF Same
<1>5. Len(s) \in S
  <2> HIDE DEF S
  <2>. QED BY <1>1, <1>3, <1>4, NatInduct
<1>. QED BY <1>5, <1>1, SumOfDef DEF t

\* What the partial sums s makes are, for SumIs.
LEMMA SumsGrow ==
  ASSUME NEW s \in Seq(Int)
  PROVE  /\ Len(s) \in Nat
         /\ SumOf(s) = Sums(s)[Len(s)] /\ SumOf(s) \in Fld /\ SumOf(s) \in Int
         /\ Sums(s) \in [0..Len(s) -> Int] /\ Sums(s)[0] = 0
         /\ \A k \in 1..Len(s) : /\ Same(Sums(s)[k], Sums(s)[k - 1] + s[k])
                                /\ k - 1 \in 0..Len(s)
                                /\ Sums(s)[k] \in Int /\ Sums(s)[k - 1] \in Int /\ s[k] \in Int
<1>1. Len(s) \in Nat
  OBVIOUS
<1>2. Sums(s) \in [0..Len(s) -> Int] /\ Sums(s)[Len(s)] \in Fld /\ Sums(s)[Len(s)] \in Int
  BY SumsAre, <1>1 DEF Fld
<1>3. ASSUME NEW k \in 1..Len(s)
      PROVE  /\ Same(Sums(s)[k], Sums(s)[k - 1] + s[k]) /\ k - 1 \in 0..Len(s)
             /\ Sums(s)[k] \in Int /\ Sums(s)[k - 1] \in Int /\ s[k] \in Int
  <2>1. k - 1 \in 0..Len(s) /\ k \in 0..Len(s) /\ s[k] \in Int
    BY <1>1
  <2>2. Sums(s)[k] \in Int /\ Sums(s)[k - 1] \in Int
    BY <2>1, <1>2
  <2>3. Sums(s)[k - 1] + s[k] \in Int
    BY <2>1, <2>2
  <2>4. Sums(s)[k] = (Sums(s)[k - 1] + s[k]) % Prime
    BY SumsAre
  <2>5. Same(Sums(s)[k], Sums(s)[k - 1] + s[k])
    BY <2>3, <2>4, SameMod
  <2>. QED BY <2>1, <2>2, <2>5
<1>. QED BY <1>1, <1>2, <1>3, SumOfDef, SumsAre

\* The empty sum.
LEMMA SumEmpty == SumOf(<<>>) = 0
<1>1. <<>> \in Seq(Int) /\ Len(<<>>) = 0
  OBVIOUS
<1>. QED BY <1>1, SumsGrow

\* The sum of two sequences one after the other.
LEMMA SumConcat ==
  ASSUME NEW s \in Seq(Int), NEW t \in Seq(Int)
  PROVE  s \o t \in Seq(Int) /\ SumOf(s \o t) = (SumOf(s) + SumOf(t)) % Prime
<1> DEFINE u == s \o t
           g == [k \in 0..Len(u) |-> IF k <= Len(s) THEN Sums(s)[k]
                                     ELSE SumOf(s) + Sums(t)[k - Len(s)]]
<1>1. /\ u \in Seq(Int) /\ Len(u) = Len(s) + Len(t) /\ Len(s) \in Nat /\ Len(t) \in Nat
      /\ \A k \in 1..Len(u) : u[k] = IF k <= Len(s) THEN s[k] ELSE t[k - Len(s)]
  BY ConcatProperties
<1> HIDE DEF u
<1>2. g \in [0..Len(u) -> Int]
  <2>1. ASSUME NEW k \in 0..Len(u) PROVE g[k] \in Int
    <3>1. CASE k <= Len(s)
      BY <3>1, <1>1, SumsGrow
    <3>2. CASE ~(k <= Len(s))
      <4>1. k - Len(s) \in 0..Len(t)
        BY <3>2, <1>1
      <4>2. Sums(t)[k - Len(s)] \in Int /\ SumOf(s) \in Int
        BY <4>1, SumsGrow
      <4>. QED BY <3>2, <4>2
    <3>. QED BY <3>1, <3>2
  <2>. QED BY <2>1
<1>3. Same(g[0], 0)
  BY <1>1, SumsGrow DEF Same
<1>4. ASSUME NEW k \in 1..Len(u) PROVE Same(g[k], g[k - 1] + u[k])
  <2>1. k \in 0..Len(u) /\ k - 1 \in 0..Len(u)
    BY <1>1
  <2>2. CASE k <= Len(s)
    <3>1. k \in 1..Len(s) /\ k - 1 <= Len(s) /\ u[k] = s[k]
      BY <2>2, <1>1
    <3>. QED BY <2>1, <2>2, <3>1, SumsGrow
  <2>3. CASE ~(k <= Len(s))
    <3>1. k - Len(s) \in 1..Len(t) /\ u[k] = t[k - Len(s)]
      BY <2>3, <1>1
    <3> DEFINE j == k - Len(s)
    <3>2. g[k] = SumOf(s) + Sums(t)[j]
      BY <2>1, <2>3
    <3>3. g[k - 1] = SumOf(s) + Sums(t)[j - 1]
      <4>1. CASE k - 1 <= Len(s)
        <5>1. k - 1 = Len(s) /\ j - 1 = 0
          <6>1. k \in Int /\ Len(s) \in Int
            BY <1>1
          <6>. QED BY <6>1, <4>1, <2>3
        <5>. QED BY <5>1, <2>1, <4>1, SumsGrow
      <4>2. CASE ~(k - 1 <= Len(s))
        <5>1. (k - 1) - Len(s) = j - 1
          BY <1>1
        <5>. QED BY <5>1, <2>1, <4>2
      <4>. QED BY <4>1, <4>2
    <3> HIDE DEF g, j
    <3>4. Same(Sums(t)[j], Sums(t)[j - 1] + t[j]) /\ Sums(t)[j] \in Int /\ Sums(t)[j - 1] \in Int
          /\ t[j] \in Int /\ SumOf(s) \in Int
      BY <3>1, SumsGrow DEF j
    <3>5. Same(SumOf(s) + Sums(t)[j], SumOf(s) + (Sums(t)[j - 1] + t[j]))
      <4>1. Same(SumOf(s), SumOf(s)) /\ Sums(t)[j - 1] + t[j] \in Int
        BY <3>4 DEF Same
      <4>. QED BY <4>1, <3>4, SamePlus
    <3>6. SumOf(s) + (Sums(t)[j - 1] + t[j]) = g[k - 1] + u[k]
      BY <3>1, <3>3, <3>4 DEF j
    <3>. QED BY <3>2, <3>5, <3>6
  <2>. QED BY <2>2, <2>3
<1>5. SumOf(u) = g[Len(u)] % Prime
  <2> HIDE DEF g
  <2>. QED BY <1>1, <1>2, <1>3, <1>4, SumIs
<1>6. g[Len(u)] = SumOf(s) + SumOf(t)
  <2>1. CASE Len(t) = 0
    <3>1. Len(u) = Len(s) /\ Len(u) \in 0..Len(u)
      BY <2>1, <1>1
    <3>2. SumOf(t) = 0 /\ SumOf(s) \in Int
      BY <2>1, SumsGrow
    <3>. QED BY <3>1, <3>2, <1>1, SumsGrow
  <2>2. CASE Len(t) # 0
    <3>1. ~(Len(u) <= Len(s)) /\ Len(u) - Len(s) = Len(t) /\ Len(u) \in 0..Len(u)
      BY <2>2, <1>1
    <3>. QED BY <3>1, SumsGrow
  <2>. QED BY <2>1, <2>2
<1>. QED BY <1>1, <1>5, <1>6 DEF u

\* Sums of terms that are congruent, multiples or sums of each other's.
THEOREM SumLinear ==
  ASSUME NEW s \in Seq(Int), NEW t \in Seq(Int), NEW u \in Seq(Int), NEW c \in Int,
         Len(t) = Len(s), Len(u) = Len(s),
         \A k \in 1..Len(s) : Same(u[k], c * s[k] + t[k])
  PROVE  SumOf(u) = (c * SumOf(s) + SumOf(t)) % Prime
<1> DEFINE g == [k \in 0..Len(s) |-> c * Sums(s)[k] + Sums(t)[k]]
<1>1. Len(s) \in Nat
  OBVIOUS
<1>2. g \in [0..Len(s) -> Int] /\ g[0] = 0 /\ g[Len(s)] = c * SumOf(s) + SumOf(t)
  <2>1. \A k \in 0..Len(s) : Sums(s)[k] \in Int /\ Sums(t)[k] \in Int
    BY SumsGrow
  <2>2. \A k \in 0..Len(s) : c * Sums(s)[k] \in Int
    BY <2>1
  <2>3. \A k \in 0..Len(s) : c * Sums(s)[k] + Sums(t)[k] \in Int
    BY <2>1, <2>2
  <2>4. c * 0 + 0 = 0
    OBVIOUS
  <2>. QED BY <2>3, <2>4, <1>1, SumsGrow
<1>3. ASSUME NEW k \in 1..Len(s) PROVE Same(g[k], g[k - 1] + u[k])
  <2> DEFINE s1 == Sums(s)[k]
             s0 == Sums(s)[k - 1]
             t1 == Sums(t)[k]
             t0 == Sums(t)[k - 1]
  <2>1. /\ s1 \in Int /\ s0 \in Int /\ t1 \in Int /\ t0 \in Int
        /\ s[k] \in Int /\ t[k] \in Int /\ u[k] \in Int
        /\ Same(s1, s0 + s[k]) /\ Same(t1, t0 + t[k])
    BY SumsGrow
  <2>2. g[k] = c * s1 + t1 /\ g[k - 1] = c * s0 + t0
    BY <1>1
  <2> HIDE DEF g, s1, s0, t1, t0
  <2>3. Same(c * s1 + t1, c * (s0 + s[k]) + (t0 + t[k]))
    <3>1. Same(c * s1, c * (s0 + s[k]))
      <4>1. Same(c, c) /\ s0 + s[k] \in Int
        BY <2>1 DEF Same
      <4>. QED BY <4>1, <2>1, SameTimes
    <3>2. c * s1 \in Int /\ c * (s0 + s[k]) \in Int /\ t0 + t[k] \in Int
      BY <2>1, Ints
    <3>. QED BY <3>1, <3>2, <2>1, SamePlus
  <2>4. Same((c * s0 + t0) + u[k], (c * s0 + t0) + (c * s[k] + t[k]))
    <3>1. c * s0 + t0 \in Int /\ c * s[k] + t[k] \in Int
      <4>1. c * s0 \in Int /\ c * s[k] \in Int
        BY <2>1, Ints
      <4>. QED BY <4>1, <2>1, Ints
    <3>2. Same(c * s0 + t0, c * s0 + t0) /\ Same(u[k], c * s[k] + t[k])
      BY DEF Same
    <3>. QED BY <3>1, <3>2, <2>1, SamePlus
  <2>5. c * (s0 + s[k]) + (t0 + t[k]) = (c * s0 + t0) + (c * s[k] + t[k])
    <3> DEFINE x == s[k]
               y == t[k]
    <3>1. s0 \in Int /\ x \in Int /\ t0 \in Int /\ y \in Int
      BY <2>1
    <3> HIDE DEF x, y
    <3>2. c * (s0 + x) + (t0 + y) = (c * s0 + t0) + (c * x + y)
      BY <3>1, Regroup
    <3>. QED BY <3>2 DEF x, y
  <2>. QED BY <2>2, <2>3, <2>4, <2>5 DEF Same
<1>4. SumOf(u) = g[Len(u)] % Prime
  <2>1. Same(g[0], 0)
    BY <1>2 DEF Same
  <2> HIDE DEF g
  <2>. QED BY <2>1, <1>2, <1>3, SumIs
<1> HIDE DEF g
<1>. QED BY <1>2, <1>4

\* A sum of nothing.
LEMMA SumZero ==
  ASSUME NEW s \in Seq(Int), \A k \in 1..Len(s) : Same(s[k], 0)
  PROVE  SumOf(s) = 0
<1> DEFINE g == [k \in 0..Len(s) |-> 0]
<1>1. Len(s) \in Nat
  OBVIOUS
<1>2. g \in [0..Len(s) -> Int] /\ g[0] = 0 /\ g[Len(s)] = 0
  BY <1>1
<1>3. ASSUME NEW k \in 1..Len(s) PROVE Same(g[k], g[k - 1] + s[k])
  <2>1. g[k] = 0 /\ g[k - 1] = 0 /\ s[k] \in Int
    BY <1>1
  <2>2. 0 + s[k] = s[k]
    BY <2>1
  <2>. QED BY <2>1, <2>2 DEF Same
<1>4. SumOf(s) = g[Len(s)] % Prime
  <2>1. Same(g[0], 0)
    BY <1>2 DEF Same
  <2> HIDE DEF g
  <2>. QED BY <2>1, <1>2, <1>3, SumIs
<1>5. 0 % Prime = 0
  BY PrimeType
<1>. QED BY <1>2, <1>4, <1>5

\* Each element of u is c times that of s, plus that of t.
Linear(u, c, s, t) == \A k \in 1..Len(s) : Same(u[k], c * s[k] + t[k])

\* SumLinear, its hypothesis as one fact.
LEMMA SumLinearly ==
  ASSUME NEW s \in Seq(Int), NEW t \in Seq(Int), NEW u \in Seq(Int), NEW c \in Int,
         Len(t) = Len(s), Len(u) = Len(s), Linear(u, c, s, t)
  PROVE  SumOf(u) = (c * SumOf(s) + SumOf(t)) % Prime
BY SumLinear DEF Linear

\* A factor of every term is one of the sum.
LEMMA SumScaled ==
  ASSUME NEW s \in Seq(Int), NEW u \in Seq(Int), NEW c \in Int, Len(u) = Len(s),
         \A k \in 1..Len(s) : Same(u[k], c * s[k])
  PROVE  SumOf(u) = (c * SumOf(s)) % Prime
<1> DEFINE t == [k \in 1..Len(s) |-> 0]
<1>1. t \in Seq(Int) /\ Len(t) = Len(s) /\ \A k \in 1..Len(s) : t[k] = 0
  OBVIOUS
<1> HIDE DEF t
<1>2. SumOf(t) = 0
  BY <1>1, SumZero DEF Same
<1>3. \A k \in 1..Len(s) : c * s[k] + t[k] = c * s[k]
  <2>1. \A k \in 1..Len(s) : c * s[k] \in Int
    BY Ints
  <2>. QED BY <2>1, <1>1
<1>4. SumOf(u) = (c * SumOf(s) + SumOf(t)) % Prime
  <2>1. Linear(u, c, s, t)
    BY <1>3 DEF Linear
  <2>. QED BY <2>1, <1>1, SumLinearly
<1>5. c * SumOf(s) + 0 = c * SumOf(s)
  BY SumsGrow, Ints
<1>. QED BY <1>2, <1>4, <1>5

\* Congruent terms, equal sums.
LEMMA SumSame ==
  ASSUME NEW s \in Seq(Int), NEW u \in Seq(Int), Len(u) = Len(s),
         \A k \in 1..Len(s) : Same(u[k], s[k])
  PROVE  SumOf(u) = SumOf(s)
<1>1. 1 \in Int /\ \A k \in 1..Len(s) : Same(u[k], 1 * s[k])
  <2>1. \A k \in 1..Len(s) : 1 * s[k] = s[k]
    OBVIOUS
  <2>. QED BY <2>1
<1>2. SumOf(u) = (1 * SumOf(s)) % Prime
  BY <1>1, SumScaled
<1>3. 1 * SumOf(s) = SumOf(s) /\ SumOf(s) \in Fld
  BY SumsGrow
<1>. QED BY <1>2, <1>3, ModSmall

\* Sums of terms are sums of sums.
LEMMA SumPlus ==
  ASSUME NEW s \in Seq(Int), NEW t \in Seq(Int), NEW u \in Seq(Int),
         Len(t) = Len(s), Len(u) = Len(s), \A k \in 1..Len(s) : Same(u[k], s[k] + t[k])
  PROVE  SumOf(u) = (SumOf(s) + SumOf(t)) % Prime
<1>1. 1 \in Int /\ Linear(u, 1, s, t)
  <2>1. \A k \in 1..Len(s) : 1 * s[k] = s[k]
    OBVIOUS
  <2>. QED BY <2>1 DEF Linear
<1>2. SumOf(u) = (1 * SumOf(s) + SumOf(t)) % Prime
  BY <1>1, SumLinearly
<1>3. 1 * SumOf(s) = SumOf(s)
  BY SumsGrow
<1>. QED BY <1>2, <1>3

\* The sum of one term.
LEMMA SumOne ==
  ASSUME NEW x \in Int
  PROVE  SumOf(<<x>>) = x % Prime
<1> DEFINE s == <<x>>
           g == [k \in 0..1 |-> IF k = 0 THEN 0 ELSE x]
<1>1. s \in Seq(Int) /\ Len(s) = 1 /\ s[1] = x
  OBVIOUS
<1> HIDE DEF s
<1>2. g \in [0..Len(s) -> Int] /\ g[0] = 0 /\ g[1] = x
  BY <1>1
<1> HIDE DEF g
<1>3. \A k \in 1..Len(s) : Same(g[k], g[k - 1] + s[k])
  BY <1>1, <1>2 DEF Same
<1>4. Same(g[0], 0)
  BY <1>2 DEF Same
<1>. QED BY <1>1, <1>2, <1>3, <1>4, SumIs DEF s

\* Only one term counts.
LEMMA SumPoint ==
  ASSUME NEW s \in Seq(Int), NEW j \in 1..Len(s),
         \A k \in 1..Len(s) : k # j => Same(s[k], 0)
  PROVE  SumOf(s) = s[j] % Prime
<1> DEFINE g == [k \in 0..Len(s) |-> IF k < j THEN 0 ELSE s[j]]
<1>1. Len(s) \in Nat /\ j \in Int /\ s[j] \in Int
  OBVIOUS
<1>2. g \in [0..Len(s) -> Int] /\ g[0] = 0 /\ g[Len(s)] = s[j]
  BY <1>1
<1>3. ASSUME NEW k \in 1..Len(s) PROVE Same(g[k], g[k - 1] + s[k])
  <2>1. k \in Int /\ s[k] \in Int
    OBVIOUS
  <2>2. CASE k < j
    <3>1. g[k] = 0 /\ g[k - 1] = 0
      BY <2>2, <1>1
    <3>2. 0 + s[k] = s[k] /\ Same(s[k], 0)
      BY <2>1, <2>2, <1>1
    <3>. QED BY <3>1, <3>2 DEF Same
  <2>3. CASE k = j
    <3>1. g[k] = s[j] /\ g[k - 1] = 0
      BY <2>3, <1>1
    <3>2. 0 + s[k] = s[j]
      BY <2>1, <2>3
    <3>. QED BY <3>1, <3>2 DEF Same
  <2>4. CASE k > j
    <3>1. g[k] = s[j] /\ g[k - 1] = s[j]
      BY <2>4, <1>1
    <3>2. Same(s[j] + s[k], s[j] + 0)
      <4>1. Same(s[k], 0) /\ Same(s[j], s[j]) /\ 0 \in Int
        BY <2>4, <1>1, <2>1 DEF Same
      <4>. QED BY <4>1, <1>1, <2>1, SamePlus
    <3>3. s[j] + 0 = s[j]
      BY <1>1
    <3>. QED BY <3>1, <3>2, <3>3 DEF Same
  <2>. QED BY <2>2, <2>3, <2>4, <2>1, <1>1
<1>4. Same(g[0], 0)
  BY <1>2 DEF Same
<1> HIDE DEF g
<1>. QED BY <1>2, <1>3, <1>4, SumIs

\* The sum of a table's rows is the sum of its columns.
LEMMA SumExchange ==
  ASSUME NEW n \in Nat, NEW m \in Nat, NEW a \in [1..n -> Seq(Int)],
         \A k \in 1..n : Len(a[k]) = m
  PROVE  SumOf([k \in 1..n |-> SumOf(a[k])])
           = SumOf([i \in 1..m |-> SumOf([k \in 1..n |-> a[k][i]])])
<1> DEFINE col(i) == [k \in 1..n |-> a[k][i]]
           upto(k) == [i \in 1..m |-> Sums(col(i))[k]]
           rows == [k \in 1..n |-> SumOf(a[k])]
           g == [k \in 0..n |-> SumOf(upto(k))]
<1>1. rows \in Seq(Int) /\ Len(rows) = n
  BY SumsGrow
<1>2. \A i \in 1..m : col(i) \in Seq(Int) /\ Len(col(i)) = n
  <2>1. \A i \in 1..m, k \in 1..n : a[k][i] \in Int
    OBVIOUS
  <2>. QED BY <2>1
<1>3. ASSUME NEW k \in 0..n PROVE upto(k) \in Seq(Int) /\ Len(upto(k)) = m
  <2>1. ASSUME NEW i \in 1..m PROVE Sums(col(i))[k] \in Int
    <3> HIDE DEF col
    <3>. QED BY <1>2, SumsGrow
  <2> HIDE DEF col
  <2>. QED BY <2>1
<1>4. g \in [0..n -> Int]
  <2> HIDE DEF upto
  <2>. QED BY <1>3, SumsGrow
<1>5. Same(g[0], 0)
  <2>1. \A i \in 1..m : upto(0)[i] = 0
    <3> HIDE DEF col
    <3>. QED BY <1>2, SumsGrow
  <2> HIDE DEF upto
  <2>2. SumOf(upto(0)) = 0
    <3>1. upto(0) \in Seq(Int) /\ \A i \in 1..Len(upto(0)) : Same(upto(0)[i], 0)
      BY <2>1, <1>3 DEF Same
    <3>. QED BY <3>1, SumZero
  <2>. QED BY <2>2 DEF Same
<1>6. ASSUME NEW k \in 1..n PROVE Same(g[k], g[k - 1] + rows[k])
  <2>1. k \in 0..n /\ k - 1 \in 0..n
    OBVIOUS
  <2>2. ASSUME NEW i \in 1..m PROVE Same(upto(k)[i], upto(k - 1)[i] + a[k][i])
    <3>1. col(i)[k] = a[k][i]
      OBVIOUS
    <3> HIDE DEF col
    <3>2. Same(Sums(col(i))[k], Sums(col(i))[k - 1] + a[k][i])
      BY <1>2, <3>1, SumsGrow
    <3>. QED BY <3>2
  <2> HIDE DEF upto
  <2>3. SumOf(upto(k)) = (SumOf(upto(k - 1)) + SumOf(a[k])) % Prime
    <3>1. a[k] \in Seq(Int)
      OBVIOUS
    <3>2. /\ upto(k) \in Seq(Int) /\ upto(k - 1) \in Seq(Int)
          /\ Len(upto(k)) = m /\ Len(upto(k - 1)) = m /\ Len(a[k]) = m
      BY <2>1, <1>3
    <3> DEFINE x == upto(k)
               y == upto(k - 1)
               z == a[k]
    <3>3. \A i \in 1..m : Same(x[i], y[i] + z[i])
      BY <2>2
    <3> HIDE DEF x, y, z
    <3>4. x \in Seq(Int) /\ y \in Seq(Int) /\ z \in Seq(Int)
          /\ Len(x) = Len(y) /\ Len(z) = Len(y) /\ Len(y) = m
      BY <3>1, <3>2 DEF x, y, z
    <3>5. SumOf(x) = (SumOf(y) + SumOf(z)) % Prime
      BY <3>3, <3>4, SumPlus
    <3>. QED BY <3>5 DEF x, y, z
  <2>4. SumOf(upto(k - 1)) + SumOf(a[k]) \in Int
    BY <2>1, <1>3, SumsGrow, Ints
  <2>. QED BY <2>1, <2>3, <2>4, SameMod
<1>7. SumOf(rows) = g[n] % Prime
  <2> HIDE DEF g, rows
  <2>. QED BY <1>1, <1>4, <1>5, <1>6, SumIs
<1>8. upto(n) = [i \in 1..m |-> SumOf(col(i))]
  <2> HIDE DEF col
  <2>. QED BY <1>2, SumsGrow
<1>9. g[n] % Prime = SumOf(upto(n))
  <2> HIDE DEF upto
  <2>1. SumOf(upto(n)) \in Fld
    BY <1>3, SumsGrow
  <2>. QED BY <2>1, ModSmall
<1>. QED BY <1>7, <1>8, <1>9
-----------------------------------------------------------------------------
(* Inverses and powers.                                                     *)

\* What has an inverse.
Units == 1..Prime - 1

\* Inverse1 finds an inverse.
LEMMA InverseIs ==
  ASSUME NEW a \in Units
  PROVE  Inverse1(a) \in Units /\ Inverse1(a) \in Int /\ Same(a * Inverse1(a), 1)
<1>1. \E b \in Units : (a * b) % Prime = 1
  BY CiphersAssumption DEF Units
<1>2. a # 0
  BY DEF Units
<1>3. Inverse1(a) = CHOOSE b \in Units : (a * b) % Prime = 1
  BY <1>2 DEF Inverse1, Units
<1>4. Inverse1(a) \in Units /\ (a * Inverse1(a)) % Prime = 1
  BY <1>1, <1>3
<1>5. 1 % Prime = 1
  BY CiphersAssumption
<1>. QED BY <1>4, <1>5 DEF Same, Units

\* What is not zero has no zero product.
LEMMA UnitProduct ==
  ASSUME NEW a \in Units, NEW b \in Units
  PROVE  (a * b) % Prime \in Units
<1>1. a \in Int /\ b \in Int /\ a * b \in Int /\ b \in Fld
  BY Ints DEF Units, Fld
<1>2. (a * b) % Prime \in Fld
  BY <1>1, ModType
<1>3. ASSUME (a * b) % Prime = 0 PROVE FALSE
  <2> DEFINE c == Inverse1(a)
  <2>1. c \in Int /\ Same(a * c, 1)
    BY InverseIs
  <2> HIDE DEF c
  <2>2. Same(a * b, 0)
    BY <1>3, PrimeType DEF Same
  <2>3. Same((a * b) * c, 0 * c)
    <3>1. Same(c, c) /\ 0 \in Int
      BY DEF Same
    <3>. QED BY <3>1, <2>1, <2>2, <1>1, SameTimes
  <2>4. Same((a * c) * b, 1 * b)
    <3>1. Same(b, b) /\ 1 \in Int /\ a * c \in Int
      BY <1>1, <2>1, Ints DEF Same
    <3>. QED BY <3>1, <2>1, <1>1, SameTimes
  <2>5. (a * b) * c = (a * c) * b /\ 0 * c = 0 /\ 1 * b = b
    BY <1>1, <2>1
  <2>6. Same(b, 0)
    BY <2>3, <2>4, <2>5 DEF Same
  <2>7. b = 0
    BY <2>6, <1>1, ModSmall, PrimeType DEF Same, Fld
  <2>. QED BY <2>7 DEF Units
<1>. QED BY <1>2, <1>3 DEF Fld, Units

\* Inverses are unique.
LEMMA InverseUnique ==
  ASSUME NEW a \in Int, NEW b \in Int, NEW c \in Int, Same(a * b, 1), Same(a * c, 1)
  PROVE  Same(b, c)
<1>1. Same((a * b) * c, 1 * c)
  <2>1. Same(c, c) /\ 1 \in Int /\ a * b \in Int
    BY Ints DEF Same
  <2>. QED BY <2>1, SameTimes
<1>2. Same((a * c) * b, 1 * b)
  <2>1. Same(b, b) /\ 1 \in Int /\ a * c \in Int
    BY Ints DEF Same
  <2>. QED BY <2>1, SameTimes
<1>3. (a * b) * c = (a * c) * b /\ 1 * c = c /\ 1 * b = b
  OBVIOUS
<1>. QED BY <1>1, <1>2, <1>3 DEF Same

\* The inverse of a product.
LEMMA InverseProduct ==
  ASSUME NEW a \in Units, NEW b \in Units
  PROVE  Same(Inverse1((a * b) % Prime), Inverse1(a) * Inverse1(b))
<1> DEFINE c == (a * b) % Prime
           x == Inverse1(a)
           y == Inverse1(b)
           z == Inverse1(c)
<1>1. /\ a \in Int /\ b \in Int /\ c \in Int /\ x \in Int /\ y \in Int /\ z \in Int
      /\ Same(a * x, 1) /\ Same(b * y, 1) /\ Same(c * z, 1)
  BY UnitProduct, InverseIs DEF Units
<1>2. Same(c, a * b)
  BY <1>1, Ints, SameMod
<1> HIDE DEF c, x, y, z
<1>3. Same((a * b) * z, 1)
  <2>1. a * b \in Int /\ Same(z, z)
    BY <1>1, Ints DEF Same
  <2>2. Same(c * z, (a * b) * z)
    BY <2>1, <1>1, <1>2, SameTimes
  <2>. QED BY <2>2, <1>1 DEF Same
<1>4. Same((a * b) * (x * y), 1)
  <2>1. Same((a * x) * (b * y), 1 * 1)
    <3>1. a * x \in Int /\ b * y \in Int /\ 1 \in Int
      BY <1>1, Ints
    <3>. QED BY <3>1, <1>1, SameTimes
  <2>2. (a * x) * (b * y) = (a * b) * (x * y) /\ 1 * 1 = 1
    BY <1>1
  <2>. QED BY <2>1, <2>2
<1>5. a * b \in Int /\ x * y \in Int
  BY <1>1, Ints
<1>6. Same(z, x * y)
  BY <1>1, <1>3, <1>4, <1>5, InverseUnique
<1>. QED BY <1>6 DEF c, x, y, z

\* The function behind Gen, powg_B of keygen.hpp.
Powers == CHOOSE powg : powg =
  [i \in 0..B - 1 |-> IF i = 0 THEN 1 ELSE (powg[i - 1] * Root) % Prime]

\* The table of powers.
LEMMA PowersAre ==
  /\ Powers \in [0..B - 1 -> Units] /\ Powers[0] = 1
  /\ \A i \in 1..B - 1 : Powers[i] = (Powers[i - 1] * Root) % Prime
  /\ \A i : Gen(i) = Powers[i]
<1> DEFINE N == B - 1
           step == [n \in 1..N |-> [x \in Units |-> (x * Root) % Prime]]
<1>1. N \in Nat /\ Root \in Units /\ 1 \in Units
  BY CiphersAssumption DEF Units
<1>2. step \in [1..N -> [Units -> Units]]
  BY <1>1, UnitProduct
<1>3. \A n \in 1..N, x \in Units : step[n][x] = (x * Root) % Prime
  OBVIOUS
<1> HIDE DEF step, N
<1>4. PICK g \in [0..N -> Units] : Iterates(g, 1, N, step)
  BY <1>1, <1>2, Iteration
<1> DEFINE Is(f) == f = [i \in 0..N |-> IF i = 0 THEN 1 ELSE (f[i - 1] * Root) % Prime]
<1>5. Is(g)
  <2>1. \A k \in 1..N : g[k - 1] \in Units
    BY <1>1
  <2>2. \A k \in 1..N : g[k] = step[k][g[k - 1]]
    BY <1>4 DEF Iterates
  <2>3. \A k \in 1..N : g[k] = (g[k - 1] * Root) % Prime
    BY <2>1, <2>2, <1>3
  <2>. QED BY <2>3, <1>4, <1>1 DEF Iterates
<1> DEFINE p == Powers
           S == {n \in Nat : n <= N => p[n] \in Units}
<1>6. Is(p)
  BY <1>5 DEF Powers, N
<1> HIDE DEF p
<1>7. /\ DOMAIN p = 0..N /\ p[0] = 1
      /\ \A i \in 1..N : p[i] = (p[i - 1] * Root) % Prime
  BY <1>6, <1>1
<1>8. 0 \in S
  BY <1>7, <1>1
<1>9. ASSUME NEW n \in Nat, n \in S PROVE n + 1 \in S
  <2> SUFFICES ASSUME n + 1 <= N PROVE p[n + 1] \in Units
    OBVIOUS
  <2>1. p[n] \in Units
    BY <1>9, <1>1
  <2>2. p[n + 1] = (p[n] * Root) % Prime
    BY <1>7, <1>1
  <2>. QED BY <2>1, <2>2, <1>1, UnitProduct
<1>10. \A n \in 0..N : p[n] \in Units
  <2>1. Nat \subseteq S
    <3> HIDE DEF S
    <3>. QED BY <1>8, <1>9, NatInduct
  <2>. QED BY <2>1, <1>1
<1>11. p = [n \in 0..N |-> p[n]]
  BY <1>6
<1>12. \A i : Gen(i) = Powers[i]
  BY DEF Gen, Powers
<1>13. p \in [0..N -> Units]
  BY <1>10, <1>11
<1>. QED BY <1>7, <1>12, <1>13 DEF p, N

\* No power of g is zero.
LEMMA GenUnit == \A i \in 0..B - 1 : Gen(i) \in Units /\ Gen(i) \in Int
  BY PowersAre DEF Units

\* The power of g that undoes another is the one that completes the order.
LEMMA GenInverse ==
  \A i \in 0..B - 1 : (B - i) % B \in 0..B - 1 /\ Same(Gen(i) * Gen((B - i) % B), 1)
<1> DEFINE p == [i \in 0..B - 1 |-> Gen(i)]
           S == {i \in Nat : i + 1 <= B - 1 => Same(p[i + 1] * p[B - (i + 1)], 1)}
<1>1. B \in Nat /\ B > 0 /\ B - 1 \in Int /\ Root \in Int
  BY CiphersAssumption
<1>2. /\ \A i \in 0..B - 1 : p[i] = Gen(i) /\ p[i] \in Int
      /\ p[0] = 1
      /\ \A i \in 0..B - 2 : Same(p[i + 1], p[i] * Root)
  <2>1. \A i \in 0..B - 1 : p[i] = Gen(i) /\ p[i] \in Int
    BY GenUnit
  <2>2. p[0] = 1
    BY <1>1, PowersAre
  <2>3. ASSUME NEW i \in 0..B - 2 PROVE Same(p[i + 1], p[i] * Root)
    <3>1. i + 1 \in 1..B - 1 /\ (i + 1) - 1 = i /\ i \in 0..B - 1 /\ i + 1 \in 0..B - 1
      BY <1>1
    <3>2. p[i + 1] = (p[i] * Root) % Prime
      BY <3>1, PowersAre
    <3>3. p[i] * Root \in Int
      BY <3>1, <2>1, <1>1, Ints
    <3>. QED BY <3>2, <3>3, SameMod
  <2>. QED BY <2>1, <2>2, <2>3
<1>3. Same(p[B - 1] * Root, 1)
  <2>1. p[B - 1] = Gen(B - 1)
    BY <1>1, <1>2
  <2>2. 1 % Prime = 1
    <3>1. 1 \in Fld
      BY CiphersAssumption DEF Fld
    <3>. QED BY <3>1, ModSmall
  <2>. QED BY <2>1, <2>2, RootAssumption DEF Same
<1> HIDE DEF p
<1>4. 0 \in S
  <2> SUFFICES ASSUME 1 <= B - 1 PROVE Same(p[1] * p[B - 1], 1)
    OBVIOUS
  <2> DEFINE x == p[1]
             y == p[B - 1]
  <2>1. Same(x, 1 * Root) /\ x \in Int /\ y \in Int /\ 1 * Root = Root
    <3>1. 0 \in 0..B - 2 /\ 0 + 1 = 1 /\ 1 \in 0..B - 1 /\ B - 1 \in 0..B - 1
      BY <1>1
    <3>2. Same(p[0 + 1], p[0] * Root)
      BY <3>1, <1>2
    <3>. QED BY <3>1, <3>2, <1>1, <1>2
  <2> HIDE DEF x
  <2>2. Same(y, y)
    BY DEF Same
  <2> HIDE DEF y
  <2>3. Same(x * y, Root * y)
    BY <2>1, <2>2, <1>1, SameTimes
  <2>4. Root * y = y * Root
    BY <2>1, <1>1, Products
  <2>. QED BY <2>3, <2>4, <1>3 DEF Same, x, y
<1>5. ASSUME NEW i \in Nat, i \in S PROVE i + 1 \in S
  <2> SUFFICES ASSUME (i + 1) + 1 <= B - 1 PROVE Same(p[(i + 1) + 1] * p[B - ((i + 1) + 1)], 1)
    OBVIOUS
  <2> DEFINE x == p[(i + 1) + 1]
             y == p[B - ((i + 1) + 1)]
             z == p[i + 1]
             w == p[B - (i + 1)]
  <2>1. /\ x \in Int /\ y \in Int /\ z \in Int /\ w \in Int
        /\ Same(x, z * Root) /\ Same(w, y * Root)
    <3>1. /\ (i + 1) + 1 \in 0..B - 1 /\ i + 1 \in 0..B - 2 /\ i + 1 \in 0..B - 1
          /\ B - ((i + 1) + 1) \in 0..B - 2 /\ B - ((i + 1) + 1) \in 0..B - 1
          /\ B - (i + 1) \in 0..B - 1 /\ (B - ((i + 1) + 1)) + 1 = B - (i + 1)
      BY <1>1
    <3>2. /\ Same(p[(i + 1) + 1], p[i + 1] * Root)
          /\ Same(p[(B - ((i + 1) + 1)) + 1], p[B - ((i + 1) + 1)] * Root)
      BY <3>1, <1>2
    <3>. QED BY <3>1, <3>2, <1>2
  <2>2. Same(z * w, 1)
    <3>1. i + 1 <= B - 1
      BY <1>1
    <3>. QED BY <3>1, <1>5
  <2> HIDE DEF x, y, z, w
  <2>3. z * Root \in Int /\ y * Root \in Int /\ (z * Root) * y = z * (y * Root)
    BY <2>1, <1>1
  <2>4. Same(x * y, (z * Root) * y)
    <3>1. Same(y, y)
      BY DEF Same
    <3>. QED BY <3>1, <2>1, <2>3, SameTimes
  <2>5. Same(z * w, z * (y * Root))
    <3>1. Same(z, z)
      BY DEF Same
    <3>. QED BY <3>1, <2>1, <2>3, SameTimes
  <2>. QED BY <2>2, <2>3, <2>4, <2>5 DEF Same, x, y
<1>6. Nat \subseteq S
  <2> HIDE DEF S
  <2>. QED BY <1>4, <1>5, NatInduct
<1>7. ASSUME NEW i \in 0..B - 1
      PROVE  (B - i) % B \in 0..B - 1 /\ Same(Gen(i) * Gen((B - i) % B), 1)
  <2>1. CASE i = 0
    <3>1. (B - i) % B = 0
      <4>1. (1 * B + 0) % B = 0
        BY <1>1, DivModUnique
      <4>2. B - i = 1 * B + 0
        BY <2>1, <1>1
      <4>. QED BY <4>1, <4>2
    <3>2. Gen(0) = 1
      BY <1>2, <1>1
    <3>3. 1 * 1 = 1
      OBVIOUS
    <3>. QED BY <2>1, <3>1, <3>2, <3>3, <1>1 DEF Same
  <2>2. CASE i # 0
    <3>1. (B - i) % B = B - i /\ B - i \in 0..B - 1
      <4>1. B - i \in 0..B - 1 /\ B - i = 0 * B + (B - i)
        BY <2>2, <1>1
      <4>2. (0 * B + (B - i)) % B = B - i
        BY <4>1, <1>1, DivModUnique
      <4>. QED BY <4>1, <4>2
    <3>2. i - 1 \in Nat /\ (i - 1) + 1 = i
      BY <2>2, <1>1
    <3>3. i - 1 \in S
      BY <3>2, <1>6
    <3>4. Same(p[i] * p[B - i], 1)
      BY <3>2, <3>3, <1>1
    <3>. QED BY <3>1, <3>4, <1>2
  <2>. QED BY <2>1, <2>2
<1>. QED BY <1>7

\* The function behind TwoTo.
Twos == CHOOSE power : power = [k \in 0..WordBits |-> IF k = 0 THEN 1 ELSE 2 * power[k - 1]]

\* The powers of two.
LEMMA TwoToIs ==
  /\ TwoTo(0) = 1
  /\ \A n \in 0..WordBits : TwoTo(n) \in Nat \ {0}
  /\ \A n \in 1..WordBits : TwoTo(n) = 2 * TwoTo(n - 1)
<1> DEFINE N == WordBits
           D == Nat \ {0}
           step == [n \in 1..N |-> [x \in D |-> 2 * x]]
<1>1. N \in Nat /\ 1 \in D
  BY CiphersAssumption
<1>2. step \in [1..N -> [D -> D]]
  OBVIOUS
<1>3. \A n \in 1..N, x \in D : step[n][x] = 2 * x
  OBVIOUS
<1> HIDE DEF step, N
<1>4. PICK g \in [0..N -> D] : Iterates(g, 1, N, step)
  <2> HIDE DEF D
  <2>. QED BY <1>1, <1>2, Iteration
<1> DEFINE Is(f) == f = [k \in 0..N |-> IF k = 0 THEN 1 ELSE 2 * f[k - 1]]
<1>5. Is(g)
  <2>1. \A k \in 1..N : g[k - 1] \in D
    BY <1>1
  <2>2. \A k \in 1..N : g[k] = step[k][g[k - 1]]
    BY <1>4 DEF Iterates
  <2>3. \A k \in 1..N : g[k] = 2 * g[k - 1]
    BY <2>1, <2>2, <1>3
  <2>. QED BY <2>3, <1>4, <1>1 DEF Iterates
<1> DEFINE p == Twos
           S == {n \in Nat : n <= N => p[n] \in D}
<1>6. Is(p)
  BY <1>5 DEF Twos, N
<1> HIDE DEF p
<1>7. p[0] = 1 /\ \A k \in 1..N : p[k] = 2 * p[k - 1]
  BY <1>6, <1>1
<1>8. 0 \in S
  BY <1>7, <1>1
<1>9. ASSUME NEW n \in Nat, n \in S PROVE n + 1 \in S
  <2> SUFFICES ASSUME n + 1 <= N PROVE p[n + 1] \in D
    OBVIOUS
  <2>1. p[n] \in D
    BY <1>9, <1>1
  <2>2. p[n + 1] = 2 * p[n]
    BY <1>7, <1>1
  <2>. QED BY <2>1, <2>2
<1>10. \A n \in 0..N : p[n] \in D
  <2>1. Nat \subseteq S
    <3> HIDE DEF S
    <3>. QED BY <1>8, <1>9, NatInduct
  <2>. QED BY <2>1, <1>1
<1>11. \A n : TwoTo(n) = Twos[n]
  BY DEF TwoTo, Twos
<1>. QED BY <1>7, <1>10, <1>11 DEF p, N

\* One more bit of a number.
LEMMA NextBit ==
  ASSUME NEW v \in Nat, NEW t \in Nat \ {0}
  PROVE  /\ (v \div t) % 2 \in {0, 1}
         /\ v % (2 * t) = (v % t) + ((v \div t) % 2) * t
<1> DEFINE q == v \div t
           r == v % t
           s == q \div 2
           b == q % 2
<1>1. v = q * t + r /\ r \in 0..t - 1 /\ q \in Int
  BY DivMod
<1>2. q = s * 2 + b /\ b \in 0..1 /\ s \in Int
  <2> HIDE DEF q
  <2>1. 2 \in Nat \ {0} /\ 2 - 1 = 1
    OBVIOUS
  <2>. QED BY <2>1, <1>1, DivMod
<1> HIDE DEF q, r, s, b
<1>3. b * t + r \in 0..2 * t - 1 /\ b \in {0, 1}
  <2>1. b = 0 \/ b = 1
    BY <1>2
  <2>2. CASE b = 0
    <3>1. b * t = 0
      BY <2>2
    <3>. QED BY <3>1, <2>2, <1>1
  <2>3. CASE b = 1
    <3>1. b * t = t
      BY <2>3
    <3>. QED BY <3>1, <2>3, <1>1
  <2>. QED BY <2>1, <2>2, <2>3
<1>4. v = s * (2 * t) + (b * t + r)
  <2>1. v = (s * 2 + b) * t + r
    BY <1>1, <1>2
  <2>2. (s * 2 + b) * t = s * (2 * t) + b * t
    BY <1>2
  <2>3. s * (2 * t) \in Int /\ b * t \in Int /\ r \in Int
    BY <1>1, <1>2, Ints
  <2>. QED BY <2>1, <2>2, <2>3
<1>5. v % (2 * t) = b * t + r
  <2> DEFINE m == 2 * t
             e == b * t + r
  <2>1. m \in Nat \ {0}
    OBVIOUS
  <2>2. e \in 0..m - 1 /\ v = s * m + e
    BY <1>3, <1>4
  <2> HIDE DEF m, e
  <2>3. v % m = e
    BY <2>1, <2>2, <1>2, DivModUnique
  <2>. QED BY <2>3 DEF m, e
<1>6. b * t + r = r + b * t
  BY <1>1, <1>2
<1>. QED BY <1>3, <1>5, <1>6 DEF q, r, b
-----------------------------------------------------------------------------
(* Sequences in a row.                                                      *)

\* The function behind FlattenSeq.
Flat(seqs) == CHOOSE flatten : flatten =
  [i \in 1..Len(seqs) |-> IF i = 1 THEN seqs[i] ELSE flatten[i - 1] \o seqs[i]]

\* FlattenSeq is its last value.
LEMMA FlattenDef ==
  \A seqs : FlattenSeq(seqs) = IF Len(seqs) = 0 THEN seqs ELSE Flat(seqs)[Len(seqs)]
  BY DEF FlattenSeq, Flat

\* f takes one more sequence in at each step.
Flattens(f, seqs) == f[0] = <<>> /\ \A k \in 1..Len(seqs) : f[k] = f[k - 1] \o seqs[k]

\* A row of sequences over T is one over T, reached step by step.
LEMMA FlattenIs ==
  ASSUME NEW T, NEW seqs \in Seq(Seq(T))
  PROVE  /\ FlattenSeq(seqs) \in Seq(T)
         /\ \E f \in [0..Len(seqs) -> Seq(T)] : Flattens(f, seqs) /\ FlattenSeq(seqs) = f[Len(seqs)]
<1> DEFINE N == Len(seqs)
           step == [n \in 1..N |-> [x \in Seq(T) |-> x \o seqs[n]]]
<1>1. N \in Nat /\ <<>> \in Seq(T) /\ \A n \in 1..N : seqs[n] \in Seq(T)
  OBVIOUS
<1>2. step \in [1..N -> [Seq(T) -> Seq(T)]]
  BY <1>1
<1>3. \A n \in 1..N, x \in Seq(T) : step[n][x] = x \o seqs[n]
  OBVIOUS
<1> HIDE DEF step, N
<1>4. PICK g \in [0..N -> Seq(T)] : Iterates(g, <<>>, N, step)
  BY <1>1, <1>2, Iteration
<1>5. g[0] = <<>> /\ \A k \in 1..N : g[k - 1] \in Seq(T) /\ g[k] = g[k - 1] \o seqs[k]
  <2>1. \A k \in 1..N : g[k - 1] \in Seq(T)
    BY <1>1
  <2>2. g[0] = <<>> /\ \A k \in 1..N : g[k] = step[k][g[k - 1]]
    BY <1>4 DEF Iterates
  <2>. QED BY <2>1, <2>2, <1>3
<1>6. 1 \in 1..N => g[1] = <<>> \o seqs[1] /\ seqs[1] \in Seq(T)
  <2>1. 1 \in 1..N => g[1] = g[1 - 1] \o seqs[1] /\ seqs[1] \in Seq(T)
    BY <1>5, <1>1
  <2>2. 1 - 1 = 0
    OBVIOUS
  <2>. QED BY <2>1, <2>2, <1>5
<1> DEFINE Is(f) == f = [i \in 1..N |-> IF i = 1 THEN seqs[i] ELSE f[i - 1] \o seqs[i]]
           h == [i \in 1..N |-> g[i]]
           p == Flat(seqs)
           S == {n \in Nat : 1 <= n /\ n <= N => p[n] = g[n]}
<1>7. Is(h)
  <2>1. ASSUME NEW i \in 1..N PROVE h[i] = IF i = 1 THEN seqs[i] ELSE h[i - 1] \o seqs[i]
    <3>1. CASE i = 1
      <4>1. g[1] = <<>> \o seqs[1] /\ seqs[1] \in Seq(T)
        BY <3>1, <1>6
      <4>2. g[1] = seqs[1]
        BY <4>1, ConcatEmptySeq
      <4>3. h[i] = g[i]
        OBVIOUS
      <4>. QED BY <3>1, <4>2, <4>3
    <3>2. CASE i # 1
      <4>1. i - 1 \in 1..N
        BY <3>2, <1>1
      <4>2. h[i] = g[i] /\ h[i - 1] = g[i - 1]
        BY <4>1
      <4>3. g[i] = g[i - 1] \o seqs[i]
        BY <1>5
      <4>. QED BY <3>2, <4>2, <4>3
    <3>. QED BY <3>1, <3>2
  <2>. QED BY <2>1
<1>8. Is(p)
  <2> HIDE DEF h
  <2>. QED BY <1>7 DEF Flat, N
<1> HIDE DEF p
<1>9. \A i \in 1..N : p[i] = IF i = 1 THEN seqs[i] ELSE p[i - 1] \o seqs[i]
  BY <1>8
<1>10. \A n \in 1..N : p[n] = g[n]
  <2>1. 0 \in S
    OBVIOUS
  <2>2. ASSUME NEW n \in Nat, n \in S PROVE n + 1 \in S
    <3> SUFFICES ASSUME n + 1 <= N PROVE p[n + 1] = g[n + 1]
      OBVIOUS
    <3>1. n + 1 \in 1..N /\ (n + 1) - 1 = n
      BY <1>1
    <3>2. CASE n = 0
      <4>1. p[1] = seqs[1] /\ g[1] = <<>> \o seqs[1] /\ seqs[1] \in Seq(T)
        BY <3>1, <3>2, <1>9, <1>6
      <4>. QED BY <3>2, <4>1
    <3>3. CASE n # 0
      <4>1. p[n] = g[n]
        BY <3>3, <2>2, <3>1, <1>1
      <4>2. p[n + 1] = p[n] \o seqs[n + 1] /\ g[n + 1] = g[n] \o seqs[n + 1]
        <5>1. p[n + 1] = IF n + 1 = 1 THEN seqs[n + 1] ELSE p[(n + 1) - 1] \o seqs[n + 1]
          BY <3>1, <1>9
        <5>2. g[n + 1] = g[(n + 1) - 1] \o seqs[n + 1]
          BY <3>1, <1>5
        <5>3. n + 1 # 1
          BY <3>3
        <5>. QED BY <5>1, <5>2, <5>3, <3>1
      <4>. QED BY <4>1, <4>2
    <3>. QED BY <3>2, <3>3
  <2>3. Nat \subseteq S
    <3> HIDE DEF S
    <3>. QED BY <2>1, <2>2, NatInduct
  <2>. QED BY <2>3, <1>1
<1>11. FlattenSeq(seqs) = g[N]
  <2>1. CASE N = 0
    <3>1. FlattenSeq(seqs) = seqs
      BY <2>1, FlattenDef DEF N
    <3>2. seqs = <<>>
      BY <2>1 DEF N
    <3>. QED BY <2>1, <3>1, <3>2, <1>5
  <2>2. CASE N # 0
    <3>1. N \in 1..N
      BY <2>2, <1>1
    <3>2. FlattenSeq(seqs) = p[N]
      BY <2>2, FlattenDef DEF N, p
    <3>. QED BY <3>1, <3>2, <1>10
  <2>. QED BY <2>1, <2>2
<1>12. Flattens(g, seqs)
  BY <1>5 DEF Flattens, N
<1>13. g[N] \in Seq(T)
  BY <1>1
<1>. QED BY <1>11, <1>12, <1>13 DEF N

\* What is in one of them is in the row.
LEMMA FlattenHas ==
  ASSUME NEW T, NEW seqs \in Seq(Seq(T)), NEW k \in 1..Len(seqs), NEW j \in 1..Len(seqs[k])
  PROVE  \E i \in 1..Len(FlattenSeq(seqs)) : FlattenSeq(seqs)[i] = seqs[k][j]
<1> DEFINE N == Len(seqs)
           x == seqs[k][j]
           s == seqs[k]
           Has(t) == \E i \in 1..Len(t) : t[i] = x
<1>1. N \in Nat /\ k \in 1..N /\ s \in Seq(T) /\ j \in 1..Len(s) /\ s[j] = x
      /\ \A n \in 1..N : seqs[n] \in Seq(T)
  OBVIOUS
<1>2. PICK f \in [0..N -> Seq(T)] : Flattens(f, seqs) /\ FlattenSeq(seqs) = f[N]
  BY FlattenIs
<1>3. \A n \in 1..N : f[n - 1] \in Seq(T) /\ f[n] = f[n - 1] \o seqs[n]
  <2>1. \A n \in 1..N : n - 1 \in 0..N
    BY <1>1
  <2>. QED BY <2>1, <1>2 DEF Flattens
<1> HIDE DEF N, x, s
<1>4. ASSUME NEW a \in Seq(T), NEW b \in Seq(T), NEW c, c = a \o b
      PROVE  (Has(a) => Has(c)) /\ (Has(b) => Has(c))
  <2>1. Len(a) \in Nat /\ Len(b) \in Nat
    OBVIOUS
  <2>2. /\ Len(c) = Len(a) + Len(b)
        /\ \A i \in 1..Len(a) + Len(b) : c[i] = IF i <= Len(a) THEN a[i] ELSE b[i - Len(a)]
    BY <1>4, ConcatProperties
  <2>3. ASSUME NEW i \in 1..Len(a), a[i] = x PROVE Has(c)
    <3>1. i \in 1..Len(c) /\ c[i] = a[i]
      BY <2>1, <2>2
    <3>. QED BY <3>1, <2>3
  <2>4. ASSUME NEW i \in 1..Len(b), b[i] = x PROVE Has(c)
    <3> DEFINE y == Len(a)
    <3>1. i + y \in 1..Len(c) /\ ~(i + y <= y) /\ (i + y) - y = i
      BY <2>1, <2>2
    <3>2. c[i + y] = b[(i + y) - y]
      BY <2>2, <3>1
    <3> HIDE DEF y
    <3>. QED BY <3>1, <3>2, <2>4
  <2>. QED BY <2>3, <2>4
<1>5. Has(f[k])
  <2>1. Has(s)
    BY <1>1
  <2>2. f[k - 1] \in Seq(T) /\ f[k] = f[k - 1] \o s
    BY <1>1, <1>3 DEF s
  <2> HIDE DEF Has
  <2>. QED BY <2>1, <2>2, <1>1, <1>4
<1> DEFINE S == {n \in Nat : k <= n /\ n <= N => Has(f[n])}
<1> HIDE DEF Has
<1>6. 0 \in S
  BY <1>1
<1>7. ASSUME NEW n \in Nat, n \in S PROVE n + 1 \in S
  <2> SUFFICES ASSUME k <= n + 1, n + 1 <= N PROVE Has(f[n + 1])
    OBVIOUS
  <2>1. CASE k = n + 1
    BY <2>1, <1>5
  <2>2. CASE k # n + 1
    <3>1. k <= n /\ n <= N /\ n + 1 \in 1..N /\ (n + 1) - 1 = n
      BY <2>2, <1>1
    <3>2. Has(f[n])
      BY <3>1, <1>7
    <3>3. f[n] \in Seq(T) /\ seqs[n + 1] \in Seq(T) /\ f[n + 1] = f[n] \o seqs[n + 1]
      <4>1. f[(n + 1) - 1] \in Seq(T) /\ f[n + 1] = f[(n + 1) - 1] \o seqs[n + 1]
        BY ZenonT(30), <3>1, <1>3
      <4>2. seqs[n + 1] \in Seq(T)
        BY <3>1, <1>1
      <4>. QED BY <3>1, <4>1, <4>2
    <3>. QED BY <3>2, <3>3, <1>4
  <2>. QED BY <2>1, <2>2
<1>8. Has(f[N])
  <2>1. N \in S
    <3> HIDE DEF S
    <3>. QED BY <1>1, <1>6, <1>7, NatInduct
  <2>. QED BY <2>1, <1>1
<1>. QED BY <1>2, <1>8 DEF Has, x
-----------------------------------------------------------------------------
(* What a function gives for the members of a sequence, summed.             *)

\* Total, for a function f.
Over(f, s) == SumOf([i \in DOMAIN s |-> f[s[i]]])

\* Its terms are integers, its sum is in the field.
LEMMA OverIs ==
  ASSUME NEW T, NEW f \in [T -> Int], NEW s \in Seq(T)
  PROVE  /\ [i \in DOMAIN s |-> f[s[i]]] \in Seq(Int)
         /\ Len([i \in DOMAIN s |-> f[s[i]]]) = Len(s)
         /\ \A i \in 1..Len(s) : s[i] \in T /\ [j \in DOMAIN s |-> f[s[j]]][i] = f[s[i]]
         /\ Over(f, s) \in Fld /\ Over(f, s) \in Int
<1>1. /\ [i \in DOMAIN s |-> f[s[i]]] \in Seq(Int)
      /\ Len([i \in DOMAIN s |-> f[s[i]]]) = Len(s)
      /\ \A i \in 1..Len(s) : s[i] \in T /\ [j \in DOMAIN s |-> f[s[j]]][i] = f[s[i]]
  OBVIOUS
<1>. QED BY <1>1, SumsGrow DEF Over

\* Nothing gives nothing.
LEMMA OverEmpty == \A f : Over(f, <<>>) = 0
<1>1. \A f : [i \in DOMAIN <<>> |-> f[<<>>[i]]] = <<>>
  OBVIOUS
<1>. QED BY <1>1, SumEmpty DEF Over

\* What one member gives.
LEMMA OverOne ==
  ASSUME NEW T, NEW f \in [T -> Int], NEW x \in T
  PROVE  Over(f, <<x>>) = f[x] % Prime
<1>1. [i \in DOMAIN <<x>> |-> f[<<x>>[i]]] = <<f[x]>> /\ f[x] \in Int
  OBVIOUS
<1>. QED BY <1>1, SumOne DEF Over

\* What two sequences give one after the other.
LEMMA OverConcat ==
  ASSUME NEW T, NEW f \in [T -> Int], NEW s \in Seq(T), NEW t \in Seq(T)
  PROVE  s \o t \in Seq(T) /\ Over(f, s \o t) = (Over(f, s) + Over(f, t)) % Prime
<1> DEFINE fs == [i \in DOMAIN s |-> f[s[i]]]
           ft == [i \in DOMAIN t |-> f[t[i]]]
           fu == [i \in DOMAIN (s \o t) |-> f[(s \o t)[i]]]
<1>1. /\ s \o t \in Seq(T) /\ Len(s \o t) = Len(s) + Len(t) /\ DOMAIN (s \o t) = 1..Len(s) + Len(t)
      /\ \A i \in 1..Len(s) + Len(t) :
           (s \o t)[i] = IF i <= Len(s) THEN s[i] ELSE t[i - Len(s)]
  BY ConcatProperties, LenProperties
<1>2. /\ fs \in Seq(Int) /\ Len(fs) = Len(s) /\ \A i \in 1..Len(s) : fs[i] = f[s[i]]
      /\ ft \in Seq(Int) /\ Len(ft) = Len(t) /\ \A i \in 1..Len(t) : ft[i] = f[t[i]]
      /\ Len(s) \in Nat /\ Len(t) \in Nat
  BY OverIs
<1>3. /\ fs \o ft \in Seq(Int) /\ Len(fs \o ft) = Len(s) + Len(t)
      /\ \A i \in 1..Len(s) + Len(t) :
           (fs \o ft)[i] = IF i <= Len(s) THEN fs[i] ELSE ft[i - Len(s)]
  <2> HIDE DEF fs, ft
  <2>1. fs \in Seq(Int) /\ ft \in Seq(Int) /\ Len(fs) = Len(s) /\ Len(ft) = Len(t)
    BY <1>2
  <2>2. /\ fs \o ft \in Seq(Int) /\ Len(fs \o ft) = Len(fs) + Len(ft)
        /\ \A i \in 1..Len(fs) + Len(ft) :
             (fs \o ft)[i] = IF i <= Len(fs) THEN fs[i] ELSE ft[i - Len(fs)]
    BY <2>1, ConcatProperties
  <2>. QED BY <2>1, <2>2
<1>4. fu \in Seq(Int) /\ Len(fu) = Len(s) + Len(t)
      /\ \A i \in 1..Len(s) + Len(t) : fu[i] = f[(s \o t)[i]]
  BY <1>1, OverIs
<1> HIDE DEF fs, ft, fu
<1>5. ASSUME NEW i \in 1..Len(fu) PROVE fu[i] = (fs \o ft)[i]
  <2>1. i \in 1..Len(s) + Len(t) /\ i \in Int
    BY <1>4, <1>2
  <2>2. CASE i <= Len(s)
    <3>1. i \in 1..Len(s)
      BY <2>1, <2>2, <1>2
    <3>2. fu[i] = f[s[i]]
      BY <2>1, <2>2, <1>1, <1>4
    <3>3. (fs \o ft)[i] = fs[i]
      BY <2>1, <2>2, <1>3
    <3>. QED BY <3>1, <3>2, <3>3, <1>2
  <2>3. CASE ~(i <= Len(s))
    <3>1. i - Len(s) \in 1..Len(t)
      BY <2>1, <2>3, <1>2
    <3>2. fu[i] = f[t[i - Len(s)]]
      BY <2>1, <2>3, <1>1, <1>4
    <3>3. (fs \o ft)[i] = ft[i - Len(s)]
      BY <2>1, <2>3, <1>3
    <3>. QED BY <3>1, <3>2, <3>3, <1>2
  <2>. QED BY <2>2, <2>3
<1>6. fu = fs \o ft
  BY <1>3, <1>4, <1>5, SeqEqual
<1>. QED BY <1>1, <1>2, <1>6, SumConcat DEF Over, fs, ft, fu

\* What a row of sequences gives.
LEMMA OverFlatten ==
  ASSUME NEW T, NEW f \in [T -> Int], NEW seqs \in Seq(Seq(T))
  PROVE  /\ [k \in 1..Len(seqs) |-> Over(f, seqs[k])] \in Seq(Int)
         /\ Over(f, FlattenSeq(seqs)) = SumOf([k \in 1..Len(seqs) |-> Over(f, seqs[k])])
<1> DEFINE N == Len(seqs)
           s == [k \in 1..N |-> Over(f, seqs[k])]
<1>1. N \in Nat /\ \A k \in 1..N : seqs[k] \in Seq(T)
  OBVIOUS
<1>2. PICK g \in [0..N -> Seq(T)] : Flattens(g, seqs) /\ FlattenSeq(seqs) = g[N]
  BY FlattenIs
<1> DEFINE h == [k \in 0..N |-> Over(f, g[k])]
<1>3. s \in Seq(Int) /\ Len(s) = N
  <2> HIDE DEF N
  <2>1. \A k \in 1..N : Over(f, seqs[k]) \in Int
    BY <1>1, OverIs
  <2>. QED BY <2>1, <1>1
<1>4. h \in [0..N -> Int] /\ h[0] = 0 /\ h[N] = Over(f, FlattenSeq(seqs))
  <2> HIDE DEF N
  <2>1. \A k \in 0..N : Over(f, g[k]) \in Int
    BY OverIs
  <2>2. h[0] = Over(f, <<>>)
    BY <1>1, <1>2 DEF Flattens
  <2>. QED BY <2>1, <2>2, <1>1, <1>2, OverEmpty
<1>5. ASSUME NEW k \in 1..N PROVE Same(h[k], h[k - 1] + s[k])
  <2>1. k \in 0..N /\ k - 1 \in 0..N
    BY <1>1
  <2>2. g[k] = g[k - 1] \o seqs[k] /\ g[k - 1] \in Seq(T) /\ seqs[k] \in Seq(T)
    BY <2>1, <1>1, <1>2 DEF Flattens
  <2>3. h[k] = (Over(f, g[k - 1]) + Over(f, seqs[k])) % Prime
    <3>1. Over(f, g[k - 1] \o seqs[k]) = (Over(f, g[k - 1]) + Over(f, seqs[k])) % Prime
      BY <2>2, OverConcat
    <3>. QED BY <3>1, <2>1, <2>2
  <2>4. h[k] = (h[k - 1] + s[k]) % Prime
    BY <2>1, <2>3
  <2>5. h[k - 1] + s[k] \in Int
    <3> HIDE DEF h, s, N
    <3>1. Len(s) = N /\ s \in Seq(Int)
      BY <1>3
    <3>2. h[k - 1] \in Int
      BY <2>1, <1>4
    <3>3. s[k] \in Int
      BY <3>1
    <3>. QED BY <3>2, <3>3, Ints
  <2> HIDE DEF h, s
  <2>. QED BY <2>4, <2>5, SameMod
<1>6. SumOf(s) = h[N] % Prime
  <2>1. Same(h[0], 0)
    BY <1>4 DEF Same
  <2> HIDE DEF h, s, N
  <2>. QED BY <2>1, <1>3, <1>4, <1>5, SumIs
<1>7. Over(f, FlattenSeq(seqs)) \in Fld
  BY FlattenIs, OverIs
<1>. QED BY <1>3, <1>4, <1>6, <1>7, ModSmall
-----------------------------------------------------------------------------
(* The members of a set of numbers, counted.                                *)

\* How many members are up to l: the new number of l in compact_layers.
Rank(live, l) == Cardinality({k \in live : k <= l})

\* The numbers go up without gaps.
LEMMA Ranks ==
  ASSUME NEW n \in Nat, NEW live \in SUBSET (1..n)
  PROVE  /\ Cardinality(live) \in Nat /\ Cardinality(live) <= n
         /\ Cardinality(live) = n => live = 1..n
         /\ \A l \in live : Rank(live, l) \in 1..Cardinality(live)
         /\ \A l, m \in live : l < m => Rank(live, l) < Rank(live, m)
         /\ \A i \in 1..Cardinality(live) : \E l \in live : Rank(live, l) = i
<1> DEFINE upto(j) == {k \in live : k <= j}
           S == {j \in Nat : j <= n =>
                   /\ IsFiniteSet(upto(j)) /\ Cardinality(upto(j)) \in Nat
                   /\ \A l \in live : l <= j => Rank(live, l) \in 1..Cardinality(upto(j))
                   /\ \A l, m \in live : l < m /\ m <= j => Rank(live, l) < Rank(live, m)
                   /\ \A i \in 1..Cardinality(upto(j)) : \E l \in live : l <= j /\ Rank(live, l) = i}
<1>1. \A k \in live : k \in 1..n /\ k \in Int /\ k > 0 /\ k <= n
  OBVIOUS
<1>2. 0 \in S
  <2>1. \A k \in live : ~(k <= 0)
    BY <1>1
  <2>2. upto(0) = {}
    BY <2>1
  <2>3. IsFiniteSet({}) /\ Cardinality({}) = 0
    BY FS_EmptySet
  <2> HIDE DEF upto
  <2>. QED BY <2>2, <2>1, <2>3
<1>3. ASSUME NEW j \in Nat, j \in S PROVE j + 1 \in S
  <2> SUFFICES ASSUME j + 1 <= n
               PROVE  /\ IsFiniteSet(upto(j + 1)) /\ Cardinality(upto(j + 1)) \in Nat
                      /\ \A l \in live : l <= j + 1 => Rank(live, l) \in 1..Cardinality(upto(j + 1))
                      /\ \A l, m \in live : l < m /\ m <= j + 1 => Rank(live, l) < Rank(live, m)
                      /\ \A i \in 1..Cardinality(upto(j + 1)) :
                           \E l \in live : l <= j + 1 /\ Rank(live, l) = i
    OBVIOUS
  <2> DEFINE c == Cardinality(upto(j))
  <2>1. /\ IsFiniteSet(upto(j)) /\ c \in Nat
        /\ \A l \in live : l <= j => Rank(live, l) \in 1..c
        /\ \A l, m \in live : l < m /\ m <= j => Rank(live, l) < Rank(live, m)
        /\ \A i \in 1..c : \E l \in live : l <= j /\ Rank(live, l) = i
    BY <1>3
  <2>2. CASE j + 1 \in live
    <3>1. /\ \A k \in live : k <= j + 1 <=> k <= j \/ k = j + 1
          /\ ~(j + 1 <= j)
      BY <1>1
    <3>2. upto(j + 1) = upto(j) \cup {j + 1} /\ j + 1 \notin upto(j)
      BY <2>2, <3>1, Zenon
    <3>3. IsFiniteSet(upto(j + 1)) /\ Cardinality(upto(j + 1)) = c + 1
      <4> HIDE DEF upto
      <4>. QED BY <3>2, <2>1, FS_AddElement DEF c
    <3>4. Rank(live, j + 1) = c + 1
      BY <3>3 DEF Rank
    <3> HIDE DEF c, upto
    <3>5. \A l \in live : l <= j + 1 => l <= j \/ l = j + 1
      OBVIOUS
    <3>6. \A l \in live : l <= j + 1 => Rank(live, l) \in 1..c + 1
      BY <3>4, <3>5, <2>1
    <3>7. \A l, m \in live : l < m /\ m <= j + 1 => Rank(live, l) < Rank(live, m)
      <4> SUFFICES ASSUME NEW l \in live, NEW m \in live, l < m, m <= j + 1
                   PROVE  Rank(live, l) < Rank(live, m)
        OBVIOUS
      <4>1. CASE m <= j
        BY <4>1, <2>1
      <4>2. CASE m = j + 1
        <5>1. l <= j
          BY <4>2
        <5>2. Rank(live, l) \in 1..c
          BY <5>1, <2>1
        <5>. QED BY <5>2, <4>2, <3>4, <2>1
      <4>. QED BY <4>1, <4>2
    <3>8. ASSUME NEW i \in 1..c + 1 PROVE \E l \in live : l <= j + 1 /\ Rank(live, l) = i
      <4>1. CASE i = c + 1
        BY <4>1, <3>4, <2>2
      <4>2. CASE i # c + 1
        <5>1. i \in 1..c
          BY <4>2, <2>1
        <5>2. PICK l \in live : l <= j /\ Rank(live, l) = i
          BY <5>1, <2>1
        <5>3. l <= j + 1
          BY <5>2
        <5>. QED BY <5>2, <5>3
      <4>. QED BY <4>1, <4>2
    <3>. QED BY <3>3, <3>6, <3>7, <3>8, <2>1
  <2>3. CASE j + 1 \notin live
    <3>1. \A l \in live : l <= j + 1 <=> l <= j
      BY <2>3, <1>1
    <3>2. upto(j + 1) = upto(j)
      BY <3>1
    <3> HIDE DEF upto
    <3>. QED BY <3>2, <3>1, <2>1 DEF c
  <2>. QED BY <2>2, <2>3
<1>4. n \in S
  <2> HIDE DEF S
  <2>. QED BY <1>2, <1>3, NatInduct
<1>5. upto(n) = live
  BY <1>1
<1>6. Cardinality(live) <= n /\ (Cardinality(live) = n => live = 1..n)
  <2>1. IsFiniteSet(1..n) /\ Cardinality(1..n) = n
    BY FS_Interval
  <2>. QED BY <2>1, FS_Subset
<1>7. \A l \in live : l <= n
  BY <1>1
<1>8. n <= n
  OBVIOUS
<1>9. /\ Cardinality(upto(n)) \in Nat
      /\ \A l \in live : l <= n => Rank(live, l) \in 1..Cardinality(upto(n))
      /\ \A l, m \in live : l < m /\ m <= n => Rank(live, l) < Rank(live, m)
      /\ \A i \in 1..Cardinality(upto(n)) : \E l \in live : l <= n /\ Rank(live, l) = i
  BY <1>4, <1>8
<1> HIDE DEF upto, S
<1>. QED BY <1>5, <1>6, <1>7, <1>9

\* Max is the greatest member.
LEMMA MaxIs ==
  ASSUME NEW n \in Nat, NEW S \in SUBSET (0..n), 0 \in S
  PROVE  Max(S) \in S /\ Max(S) \in Nat /\ \A x \in S : x <= Max(S)
<1> DEFINE T == {j \in Nat : \E m \in S : m <= j /\ \A x \in S : x <= j => x <= m}
<1>1. \A x \in S : x \in Nat /\ x <= n
  OBVIOUS
<1>2. 0 \in T
  <2>1. \A x \in S : x <= 0 => x <= 0
    OBVIOUS
  <2>. QED BY <2>1
<1>3. ASSUME NEW j \in Nat, j \in T PROVE j + 1 \in T
  <2>1. PICK m \in S : m <= j /\ \A x \in S : x <= j => x <= m
    BY <1>3
  <2>2. \A x \in S : x <= j + 1 => x <= j \/ x = j + 1
    BY <1>1
  <2>3. CASE j + 1 \in S
    <3>1. \A x \in S : x <= j + 1 => x <= j + 1
      OBVIOUS
    <3>. QED BY <3>1, <2>3
  <2>4. CASE j + 1 \notin S
    <3>1. m <= j + 1
      BY <2>1, <1>1
    <3>2. \A x \in S : x <= j + 1 => x <= m
      BY <2>1, <2>2, <2>4
    <3>. QED BY <3>1, <3>2
  <2>. QED BY <2>3, <2>4
<1>4. n \in T
  <2> HIDE DEF T
  <2>. QED BY <1>2, <1>3, NatInduct
<1>5. PICK m \in S : \A x \in S : x <= m
  BY <1>4, <1>1
<1>6. \A x \in S : m >= x
  BY <1>5, <1>1
<1>7. Max(S) \in S /\ \A y \in S : Max(S) >= y
  BY <1>6 DEF Max
<1>8. \A y \in S : y <= Max(S)
  BY <1>7, <1>1
<1>. QED BY <1>1, <1>7, <1>8
-----------------------------------------------------------------------------
(* Each number of one sequence with each of another.                        *)

\* Row and column of the next place of a table with m columns.
LEMMA NextPlace ==
  ASSUME NEW m \in Nat \ {0}, NEW k \in Nat
  PROVE  /\ k % m \in 0..m - 1 /\ k \div m \in Nat
         /\ k % m < m - 1 => (k + 1) \div m = k \div m /\ (k + 1) % m = (k % m) + 1
         /\ k % m = m - 1 => (k + 1) \div m = k \div m + 1 /\ (k + 1) % m = 0
<1> DEFINE q == k \div m
           r == k % m
<1>1. k = q * m + r /\ r \in 0..m - 1 /\ q \in Int
  BY DivMod
<1> HIDE DEF q, r
<1>2. q \in Nat
  <2>1. CASE q < 0
    <3>1. q + 1 <= 0 /\ q + 1 \in Int
      BY <1>1, <2>1
    <3>2. m * (q + 1) <= m * 0
      BY <3>1, Monotone
    <3>3. m * (q + 1) = q * m + m
      BY <1>1
    <3>. QED BY <1>1, <3>2, <3>3
  <2>. QED BY <2>1, <1>1
<1>3. r < m - 1 => (k + 1) \div m = q /\ (k + 1) % m = r + 1
  <2> SUFFICES ASSUME r < m - 1 PROVE (k + 1) \div m = q /\ (k + 1) % m = r + 1
    OBVIOUS
  <2>1. r + 1 \in 0..m - 1 /\ k + 1 = q * m + (r + 1)
    BY <1>1
  <2>. QED BY <2>1, <1>1, DivModUnique
<1>4. r = m - 1 => (k + 1) \div m = q + 1 /\ (k + 1) % m = 0
  <2> SUFFICES ASSUME r = m - 1 PROVE (k + 1) \div m = q + 1 /\ (k + 1) % m = 0
    OBVIOUS
  <2>1. k + 1 = (q + 1) * m + 0 /\ q + 1 \in Int /\ 0 \in 0..m - 1
    BY <1>1
  <2>. QED BY <2>1, DivModUnique
<1>. QED BY <1>1, <1>2, <1>3, <1>4 DEF q, r

\* Row and column of a place are within the table.
LEMMA PlaceBound ==
  ASSUME NEW n \in Nat, NEW m \in Nat \ {0}, NEW k \in 0..n * m - 1
  PROVE  k \div m \in 0..n - 1 /\ k % m \in 0..m - 1 /\ n * m \in Nat
<1> DEFINE q == k \div m
           r == k % m
<1>1. n * m \in Nat /\ k \in Nat
  OBVIOUS
<1>2. k = q * m + r /\ r \in 0..m - 1 /\ q \in Nat
  <2>1. k \in Int /\ k \in Nat
    BY <1>1
  <2>2. k = q * m + r /\ r \in 0..m - 1
    BY <2>1, DivMod
  <2>3. q \in Nat
    BY <2>1, NextPlace
  <2>. QED BY <2>2, <2>3
<1> HIDE DEF q, r
<1>3. ASSUME n <= q PROVE FALSE
  <2>1. m * n <= m * q
    BY <1>2, <1>3, Monotone
  <2>2. m * n = n * m /\ m * q = q * m
    BY <1>2, Products
  <2>. QED BY <2>1, <2>2, <1>1, <1>2
<1>. QED BY <1>1, <1>2, <1>3 DEF q, r

\* Every pair of a layer of one and a layer of the other has a place.
Former(k, m) == (k - 1) \div m + 1

\* The same for the layer of the other.
Latter(k, m) == ((k - 1) % m) + 1

\* Every layer of either has a place.
LEMMA PairPlaces ==
  ASSUME NEW n \in Nat \ {0}, NEW m \in Nat \ {0}
  PROVE  /\ n * m \in Nat
         /\ \A k \in 1..n * m : Former(k, m) \in 1..n /\ Latter(k, m) \in 1..m
         /\ \A i \in 1..n : \E k \in 1..n * m : Former(k, m) = i
         /\ \A j \in 1..m : \E k \in 1..n * m : Latter(k, m) = j
<1>1. n * m \in Nat
  <2>1. 0 \in 0..n * m - 1 => n * m \in Nat
    BY PlaceBound
  <2>2. n * m \in Int /\ 0 <= n * m
    <3>1. 0 <= n /\ 0 <= m /\ n \in Int /\ m \in Int /\ 0 \in Int /\ n * 0 = 0
      OBVIOUS
    <3>. QED BY <3>1, Monotone, Ints
  <2>. QED BY <2>2
<1>2. ASSUME NEW k \in 1..n * m PROVE Former(k, m) \in 1..n /\ Latter(k, m) \in 1..m
  <2>1. k - 1 \in 0..n * m - 1
    BY <1>1
  <2>2. (k - 1) \div m \in 0..n - 1 /\ (k - 1) % m \in 0..m - 1
    BY <2>1, PlaceBound
  <2> DEFINE q == (k - 1) \div m
             r == (k - 1) % m
  <2> HIDE DEF q, r
  <2>3. q + 1 \in 1..n /\ r + 1 \in 1..m
    BY <2>2 DEF q, r
  <2>. QED BY <2>3 DEF q, r, Former, Latter
<1>3. ASSUME NEW i \in 1..n, NEW j \in 1..m
      PROVE  \E k \in 1..n * m : Former(k, m) = i /\ Latter(k, m) = j
  <2> DEFINE x == (i - 1) * m
             k == x + j
  <2>1. x \in Int /\ 0 <= x /\ x + m <= n * m
    <3>1. m \in Int /\ 0 <= m /\ i - 1 \in Int /\ 0 <= i - 1 /\ i <= n /\ i \in Int /\ n \in Int
      OBVIOUS
    <3>2. m * 0 <= m * (i - 1) /\ m * i <= m * n
      BY <3>1, Monotone
    <3>3. m * 0 = 0 /\ m * (i - 1) = x /\ m * i = x + m /\ m * n = n * m
      BY <3>1
    <3>4. x \in Int
      BY <3>1, Ints
    <3>. QED BY <3>2, <3>3, <3>4
  <2>2. k \in 1..n * m
    <3> HIDE DEF x
    <3>. QED BY <2>1, <1>1
  <2>3. k - 1 = (i - 1) * m + (j - 1) /\ i - 1 \in Int /\ j - 1 \in 0..m - 1
    <3>1. i - 1 \in Int /\ j - 1 \in 0..m - 1
      OBVIOUS
    <3> HIDE DEF x
    <3>2. k - 1 = x + (j - 1)
      BY <2>1
    <3>. QED BY <3>1, <3>2 DEF x
  <2> HIDE DEF k
  <2>4. (k - 1) \div m = i - 1 /\ (k - 1) % m = j - 1
    BY <2>3, DivModUnique
  <2>5. Former(k, m) = i /\ Latter(k, m) = j
    BY <2>4 DEF Former, Latter
  <2>. QED BY <2>2, <2>5
<1>4. 1 \in 1..n /\ 1 \in 1..m
  OBVIOUS
<1>5. \A i \in 1..n : \E k \in 1..n * m : Former(k, m) = i
  BY <1>3, <1>4
<1>6. \A j \in 1..m : \E k \in 1..n * m : Latter(k, m) = j
  BY <1>3, <1>4
<1>. QED BY <1>1, <1>2, <1>5, <1>6

\* s has the product of each term of x and each of y, row by row.
ByPairs(s, x, n, y, m) ==
  /\ Len(x) = n /\ Len(y) = m /\ Len(s) = n * m
  /\ \A k \in 1..n * m : Same(s[k], x[(k - 1) \div m + 1] * y[((k - 1) % m) + 1])

\* Its sum is the product of the sums.
LEMMA PairsSum ==
  ASSUME NEW n \in Nat, NEW m \in Nat \ {0}, NEW x \in Seq(Int), NEW y \in Seq(Int),
         NEW s \in Seq(Int), ByPairs(s, x, n, y, m)
  PROVE  SumOf(s) = (SumOf(x) * SumOf(y)) % Prime
<1> DEFINE X == Sums(x)
           Y == Sums(y)
           N == n * m
           row(k) == k \div m
           col(k) == k % m
           at(q) == IF q < n THEN x[q + 1] ELSE 0
           g == [k \in 0..N |-> X[row(k)] * Y[m] + at(row(k)) * Y[col(k)]]
<1>1. N \in Nat /\ n * m = N /\ Len(x) = n /\ Len(y) = m /\ Len(s) = N
  BY DEF ByPairs
<1>2. /\ X \in [0..n -> Int] /\ X[0] = 0 /\ SumOf(x) = X[n]
      /\ \A q \in 0..n - 1 : Same(X[q + 1], X[q] + x[q + 1]) /\ x[q + 1] \in Int
  <2>1. \A q \in 0..n - 1 : q + 1 \in 1..n /\ (q + 1) - 1 = q
    OBVIOUS
  <2>. QED BY <2>1, <1>1, SumsGrow
<1>3. /\ Y \in [0..m -> Int] /\ Y[0] = 0 /\ SumOf(y) = Y[m]
      /\ \A q \in 0..m - 1 : Same(Y[q + 1], Y[q] + y[q + 1]) /\ y[q + 1] \in Int
  <2>1. \A q \in 0..m - 1 : q + 1 \in 1..m /\ (q + 1) - 1 = q
    OBVIOUS
  <2>. QED BY <2>1, <1>1, SumsGrow
<1> HIDE DEF X, Y, N
<1>4. \A q \in Nat : at(q) \in Int
  <2>1. \A q \in Nat : q < n => q \in 0..n - 1
    OBVIOUS
  <2>2. \A q \in 0..n - 1 : x[q + 1] \in Int
    BY <1>2
  <2>. QED BY <2>1, <2>2
<1>5. ASSUME NEW k \in 0..N PROVE row(k) \in 0..n /\ col(k) \in 0..m
  <2>1. CASE k = N
    <3>1. k = n * m + 0 /\ 0 \in 0..m - 1
      BY <2>1, <1>1
    <3>2. row(k) = n /\ col(k) = 0
      BY <3>1, DivModUnique
    <3>. QED BY <3>2
  <2>2. CASE k # N
    <3>1. k \in 0..n * m - 1
      BY <2>2, <1>1
    <3>2. row(k) \in 0..n - 1 /\ col(k) \in 0..m - 1
      BY <3>1, PlaceBound
    <3>. QED BY <3>2
  <2>. QED BY <2>1, <2>2
<1>6. \A k \in 0..N : g[k] \in Int /\ g[k] = X[row(k)] * Y[m] + at(row(k)) * Y[col(k)]
  <2>1. ASSUME NEW k \in 0..N PROVE X[row(k)] * Y[m] + at(row(k)) * Y[col(k)] \in Int
    <3>1. X[row(k)] \in Int /\ Y[m] \in Int /\ at(row(k)) \in Int /\ Y[col(k)] \in Int
      <4>1. row(k) \in 0..n /\ col(k) \in 0..m
        BY <1>5
      <4>2. \A q \in 0..n : q \in Nat
        OBVIOUS
      <4> HIDE DEF row, col, at
      <4>. QED BY <4>1, <4>2, <1>2, <1>3, <1>4
    <3> HIDE DEF row, col, at
    <3>. QED BY <3>1, Ints
  <2>. QED BY <2>1
<1>7. ASSUME NEW k \in 1..N PROVE Same(g[k], g[k - 1] + s[k])
  <2> DEFINE j == k - 1
             q == row(j)
             r == col(j)
             a == X[q]
             b == x[q + 1]
             c == Y[r]
             d == y[r + 1]
             t == Y[m]
  <2>1. j \in Nat /\ j \in 0..N /\ k \in 0..N /\ j + 1 = k /\ j \in 0..n * m - 1
    BY <1>1
  <2> HIDE DEF j
  <2>2. q \in 0..n - 1 /\ r \in 0..m - 1 /\ q \in Nat
    <3>1. j \in 0..n * m - 1
      BY <2>1
    <3>2. q \in 0..n - 1 /\ r \in 0..m - 1
      BY <3>1, PlaceBound
    <3>. QED BY <3>2
  <2>3. /\ r < m - 1 => row(k) = q /\ col(k) = r + 1
        /\ r = m - 1 => row(k) = q + 1 /\ col(k) = 0
    BY <2>1, NextPlace
  <2>4. Same(s[k], b * d) /\ s[k] \in Int
    <3>1. k \in 1..n * m /\ k \in 1..Len(s)
      BY <1>1
    <3>2. Same(s[k], x[(k - 1) \div m + 1] * y[((k - 1) % m) + 1])
      BY <3>1 DEF ByPairs
    <3>3. s[k] \in Int
      BY <3>1
    <3>. QED BY <3>2, <3>3 DEF j
  <2> HIDE DEF q, r
  <2>5. /\ a \in Int /\ b \in Int /\ c \in Int /\ d \in Int /\ t \in Int
        /\ Same(X[q + 1], a + b) /\ X[q + 1] \in Int
        /\ Same(Y[r + 1], c + d) /\ Y[r + 1] \in Int
    <3>1. q \in 0..n /\ q + 1 \in 0..n /\ r \in 0..m /\ r + 1 \in 0..m /\ m \in 0..m
      BY <2>2
    <3>. QED BY <3>1, <2>2, <1>2, <1>3
  <2>6. g[k - 1] = a * t + b * c
    <3>1. g[j] = X[q] * Y[m] + at(q) * Y[r]
      BY <2>1, <1>6 DEF q, r
    <3>2. at(q) = b
      BY <2>2
    <3>. QED BY <3>1, <3>2, <2>1 DEF j
  <2>7. Same(g[k - 1] + s[k], (a * t + b * c) + b * d)
    <3>1. a * t \in Int /\ b * c \in Int /\ b * d \in Int
      <4> HIDE DEF a, b, c, d, t
      <4>. QED BY <2>5, Ints
    <3>2. g[k - 1] \in Int /\ b * d \in Int /\ Same(g[k - 1], a * t + b * c) /\ a * t + b * c \in Int
      <4> HIDE DEF a, b, c, d, t, g
      <4>. QED BY <3>1, <2>6, Ints DEF Same
    <3>. QED BY <3>2, <2>4, SamePlus
  <2>8. Same(g[k], (a * t + b * c) + b * d)
    <3>1. CASE r < m - 1
      <4>1. g[k] = X[q] * Y[m] + at(q) * Y[r + 1]
        <5>1. row(k) = q /\ col(k) = r + 1
          BY <3>1, <2>3
        <5> HIDE DEF row, col, at
        <5>. QED BY <5>1, <2>1, <1>6
      <4>2. at(q) = b
        BY <2>2
      <4> DEFINE f == Y[r + 1]
      <4>3. g[k] = a * t + b * f /\ f \in Int /\ Same(f, c + d)
        BY <4>1, <4>2, <2>5
      <4> HIDE DEF f, a, b, c, d, t
      <4>4. Same(b * f, b * (c + d))
        <5>1. Same(b, b) /\ c + d \in Int
          BY <2>5 DEF Same
        <5>. QED BY <5>1, <4>3, <2>5, SameTimes
      <4>5. Same(a * t + b * f, a * t + b * (c + d))
        <5>1. a * t \in Int /\ b * f \in Int /\ c + d \in Int /\ b * (c + d) \in Int /\ Same(a * t, a * t)
          BY <2>5, <4>3, Ints DEF Same
        <5>. QED BY <5>1, <4>4, SamePlus
      <4>6. a * t + b * (c + d) = (a * t + b * c) + b * d
        BY <2>5
      <4>. QED BY <4>3, <4>5, <4>6
    <3>2. CASE r = m - 1
      <4>1. g[k] = X[q + 1] * Y[m] + at(q + 1) * Y[0]
        <5>1. row(k) = q + 1 /\ col(k) = 0
          BY <3>2, <2>3
        <5> HIDE DEF row, col, at
        <5>. QED BY <5>1, <2>1, <1>6
      <4>2. at(q + 1) \in Int /\ at(q + 1) * 0 = 0
        <5>1. q + 1 \in Nat
          BY <2>2
        <5>2. at(q + 1) \in Int
          <6> HIDE DEF at
          <6>. QED BY <5>1, <1>4
        <5> HIDE DEF at
        <5>. QED BY <5>2
      <4> DEFINE f == X[q + 1]
                 h == at(q + 1)
      <4>3. g[k] = f * t + h * 0 /\ f \in Int /\ Same(f, a + b) /\ Same(t, c + d)
        <5>1. r + 1 = m
          BY <3>2, <2>2
        <5>. QED BY <5>1, <4>1, <2>5, <1>3
      <4> HIDE DEF f, h, a, b, c, d, t
      <4>4. g[k] = f * t
        <5>1. f * t \in Int /\ h * 0 = 0
          BY <4>2, <4>3, <2>5, Ints DEF h
        <5>. QED BY <5>1, <4>3
      <4>5. a + b \in Int /\ Same(f * t, (a + b) * t) /\ (a + b) * t = a * t + b * t
        <5>1. Same(t, t) /\ a + b \in Int
          BY <2>5 DEF Same
        <5>2. (a + b) * t = a * t + b * t
          BY <2>5
        <5>. QED BY <5>1, <5>2, <4>3, <2>5, SameTimes
      <4>6. Same(b * t, b * (c + d))
        <5>1. Same(b, b) /\ c + d \in Int
          BY <2>5 DEF Same
        <5>. QED BY <5>1, <4>3, <2>5, SameTimes
      <4>7. Same(a * t + b * t, a * t + b * (c + d))
        <5>1. a * t \in Int /\ b * t \in Int /\ c + d \in Int /\ b * (c + d) \in Int /\ Same(a * t, a * t)
          BY <2>5, Ints DEF Same
        <5>. QED BY <5>1, <4>6, SamePlus
      <4>8. a * t + b * (c + d) = (a * t + b * c) + b * d
        BY <2>5
      <4>. QED BY <4>4, <4>5, <4>7, <4>8 DEF Same
    <3>. QED BY <3>1, <3>2, <2>2
  <2>. QED BY <2>7, <2>8 DEF Same
<1>8. g \in [0..N -> Int] /\ Same(g[0], 0)
  <2>1. g \in [0..N -> Int]
    <3>1. g = [k \in 0..N |-> g[k]]
      OBVIOUS
    <3> HIDE DEF g
    <3>. QED BY <3>1, <1>6
  <2>2. row(0) = 0 /\ col(0) = 0
    <3>1. 0 = 0 * m + 0 /\ 0 \in 0..m - 1
      OBVIOUS
    <3>. QED BY <3>1, DivModUnique
  <2>3. g[0] = 0
    <3>1. g[0] = X[0] * Y[m] + at(0) * Y[0] /\ at(0) \in Int /\ Y[m] \in Int
      <4>1. 0 \in 0..N /\ m \in 0..m
        BY <1>1
      <4>. QED BY <4>1, <2>2, <1>6, <1>4, <1>3
    <3> HIDE DEF g, at
    <3>. QED BY <3>1, <1>2, <1>3
  <2>. QED BY <2>1, <2>3 DEF Same
<1>9. SumOf(s) = g[N] % Prime
  <2>1. N = Len(s)
    BY <1>1
  <2> HIDE DEF g
  <2>. QED BY <2>1, <1>7, <1>8, SumIs
<1>10. g[N] = X[n] * Y[m]
  <2>1. row(N) = n /\ col(N) = 0
    <3>1. N = n * m + 0 /\ 0 \in 0..m - 1 /\ n \in Int
      BY <1>1
    <3>. QED BY <3>1, DivModUnique
  <2>2. g[N] = X[n] * Y[m] + at(n) * Y[0]
    <3>1. N \in 0..N
      BY <1>1
    <3> HIDE DEF row, col, at, g
    <3>. QED BY <3>1, <2>1, <1>6
  <2>3. at(n) = 0
    OBVIOUS
  <2> HIDE DEF g, at
  <2>4. X[n] * Y[m] \in Int
    <3>1. n \in 0..n /\ m \in 0..m
      OBVIOUS
    <3>. QED BY <3>1, <1>2, <1>3, Ints
  <2>. QED BY <2>2, <2>3, <2>4, <1>3
<1>. QED BY <1>2, <1>3, <1>9, <1>10

-----------------------------------------------------------------------------
(* What an edge adds to the plaintext.                                      *)

\* Edges on n layers.
EdgesOn(n) == [layer : 1..n, idx : 0..B - 1, ch : {1, -1}, w : 0..Prime - 1]

\* Ciphers, as one fact.
IsCipher(ct) == ct \in CipherSet

\* What the edges on n layers with the factors r add.
Term(n, r) == [e \in EdgesOn(n) |-> (Weight(e) % Prime) * Inverse1(r[e.layer])]

\* What an edge's weight is multiplied with.
PerUnit(e, r) == (e.ch * Gen(e.idx)) * Inverse1(r[e.layer])

\* The parts of an edge, typed.
LEMMA EdgeIs ==
  ASSUME NEW n \in Nat, NEW e \in EdgesOn(n)
  PROVE  /\ e.layer \in 1..n /\ e.idx \in 0..B - 1 /\ e.idx \in Int
         /\ e.ch \in {1, -1} /\ e.ch \in Int /\ e.w \in Fld /\ e.w \in Int
         /\ Gen(e.idx) \in Units /\ Gen(e.idx) \in Int /\ Weight(e) \in Int
<1>1. /\ e.layer \in 1..n /\ e.idx \in 0..B - 1 /\ e.idx \in Int
      /\ e.ch \in {1, -1} /\ e.ch \in Int /\ e.w \in Fld /\ e.w \in Int
  BY CiphersAssumption DEF EdgesOn, Fld
<1>2. Gen(e.idx) \in Units /\ Gen(e.idx) \in Int
  BY <1>1, GenUnit
<1>. QED BY <1>1, <1>2, Ints DEF Weight

\* Every edge adds its weight times what it is multiplied with.
LEMMA TermIs ==
  ASSUME NEW n \in Nat, NEW r \in [1..n -> Units]
  PROVE  /\ Term(n, r) \in [EdgesOn(n) -> Int]
         /\ \A e \in EdgesOn(n) : /\ Term(n, r)[e] = (Weight(e) % Prime) * Inverse1(r[e.layer])
                                 /\ PerUnit(e, r) \in Int /\ r[e.layer] \in Units
                                 /\ Same(Term(n, r)[e], PerUnit(e, r) * e.w)
<1>1. ASSUME NEW e \in EdgesOn(n)
      PROVE  /\ (Weight(e) % Prime) * Inverse1(r[e.layer]) \in Int
             /\ PerUnit(e, r) \in Int /\ r[e.layer] \in Units
             /\ Same((Weight(e) % Prime) * Inverse1(r[e.layer]), PerUnit(e, r) * e.w)
  <2> DEFINE g == Gen(e.idx)
             i == Inverse1(r[e.layer])
             c == e.ch
             w == e.w
             t == Weight(e)
  <2>1. g \in Int /\ c \in Int /\ w \in Int /\ t \in Int /\ r[e.layer] \in Units /\ i \in Int
    BY EdgeIs, InverseIs
  <2>2. t = c * w * g
    BY DEF Weight
  <2>3. t % Prime \in Int /\ Same(t % Prime, t)
    BY <2>1, SameMod, ModType
  <2>4. PerUnit(e, r) = (c * g) * i
    BY DEF PerUnit
  <2> HIDE DEF g, i, c, w, t
  <2>5. (t % Prime) * i \in Int /\ (c * g) * i \in Int
    BY <2>1, <2>3, Ints
  <2>6. Same((t % Prime) * i, t * i)
    <3>1. Same(i, i)
      BY DEF Same
    <3>. QED BY <3>1, <2>1, <2>3, SameTimes
  <2>7. t * i = ((c * g) * i) * w
    BY <2>1, <2>2
  <2>. QED BY <2>1, <2>4, <2>5, <2>6, <2>7 DEF i, w, t
<1>. QED BY <1>1 DEF Term
-----------------------------------------------------------------------------
(* merge                                                                    *)

\* The place of an edge in the table of merge.
Place(e) == 2 * (B * (e.layer - 1) + e.idx) + (IF e.ch = 1 THEN 1 ELSE 2)

\* The table is large enough.
LEMMA PlaceIs ==
  ASSUME NEW n \in Nat, NEW e \in EdgesOn(n), NEW top \in Nat, e.layer <= top
  PROVE  Place(e) \in 1..2 * B * top
<1> DEFINE l == e.layer
           i == e.idx
<1>1. l \in Int /\ 1 <= l /\ i \in Int /\ 0 <= i /\ i < B /\ B \in Int /\ 0 < B
  BY EdgeIs, CiphersAssumption
<1>2. l <= top
  OBVIOUS
<1> HIDE DEF l, i
<1>3. B * 0 <= B * (l - 1) /\ B * (l - 1) <= B * (top - 1) /\ B * (l - 1) \in Int
      /\ B * (top - 1) \in Int /\ B * top \in Int
  BY <1>1, <1>2, Monotone, Ints
<1>4. B * (top - 1) = B * top - B /\ B * 0 = 0 /\ 2 * B * top = 2 * (B * top)
  BY <1>1, Ints
<1> DEFINE x == B * (l - 1)
           y == B * top
<1>5. 0 <= x /\ x <= y - B /\ x \in Int /\ y \in Int
  BY <1>3, <1>4
<1> HIDE DEF x, y
<1>6. 2 * (x + i) + 1 \in 1..2 * y /\ 2 * (x + i) + 2 \in 1..2 * y
  BY <1>1, <1>5
<1>. QED BY <1>4, <1>6 DEF Place, x, y, l, i

\* One place, one layer, position and sign.
LEMMA PlaceInjective ==
  ASSUME NEW n \in Nat, NEW e \in EdgesOn(n), NEW d \in EdgesOn(n), Place(e) = Place(d)
  PROVE  e.layer = d.layer /\ e.idx = d.idx /\ e.ch = d.ch
<1> DEFINE k == e.layer
           i == e.idx
           l == d.layer
           j == d.idx
           x == B * (k - 1)
           y == B * (l - 1)
<1>1. /\ k \in Int /\ l \in Int /\ i \in 0..B - 1 /\ j \in 0..B - 1 /\ B \in Nat \ {0}
      /\ e.ch \in {1, -1} /\ d.ch \in {1, -1}
  BY EdgeIs, CiphersAssumption
<1>2. Place(e) = 2 * (x + i) + (IF e.ch = 1 THEN 1 ELSE 2)
      /\ Place(d) = 2 * (y + j) + (IF d.ch = 1 THEN 1 ELSE 2)
  BY DEF Place
<1> HIDE DEF k, i, l, j
<1>3. x \in Int /\ y \in Int
  BY <1>1, Ints
<1> HIDE DEF x, y
<1>4. x + i = y + j /\ e.ch = d.ch
  <2> DEFINE u == x + i
             v == y + j
  <2>1. u \in Int /\ v \in Int
    BY <1>1, <1>3
  <2>2. 2 * u + (IF e.ch = 1 THEN 1 ELSE 2) = 2 * v + (IF d.ch = 1 THEN 1 ELSE 2)
    BY <1>2
  <2> HIDE DEF u, v
  <2>3. (e.ch = 1 <=> d.ch = 1) /\ u = v
    BY <2>1, <2>2
  <2>. QED BY <2>3, <1>1 DEF u, v
<1>5. x = (k - 1) * B /\ y = (l - 1) * B /\ k - 1 \in Int /\ l - 1 \in Int
  BY <1>1 DEF x, y
<1>6. /\ ((k - 1) * B + i) \div B = k - 1 /\ ((k - 1) * B + i) % B = i
      /\ ((l - 1) * B + j) \div B = l - 1 /\ ((l - 1) * B + j) % B = j
  BY <1>1, <1>5, DivModUnique
<1>7. k - 1 = l - 1 /\ i = j
  BY <1>4, <1>5, <1>6
<1>8. k = l
  BY <1>7, <1>1
<1>. QED BY <1>4, <1>7, <1>8 DEF k, i, l, j

\* merge keeps what edges add, and no layer loses all of its edges.
THEOREM MergeIs ==
  ASSUME NEW n \in Nat, NEW E \in Seq(EdgesOn(n)), NEW r \in [1..n -> Units]
  PROVE  /\ Merge(E) \in Seq(EdgesOn(n))
         /\ Over(Term(n, r), Merge(E)) = Over(Term(n, r), E)
         /\ \A i \in 1..Len(E) : \E j \in 1..Len(Merge(E)) : Merge(E)[j].layer = E[i].layer
<1> DEFINE m == Len(E)
           f == Term(n, r)
           layers == Max({0} \cup {E[i].layer : i \in DOMAIN E})
           N == 2 * B * layers
           here(k) == {i \in DOMAIN E : Place(E[i]) = k}
           ws(k) == [i \in DOMAIN E |-> IF Place(E[i]) = k THEN E[i].w ELSE 0]
           first(k) == E[CHOOSE i \in here(k) : TRUE]
           one(k) == [first(k) EXCEPT !.w = SumOf(ws(k))]
           seqs == [k \in 1..N |-> IF here(k) = {} THEN <<>> ELSE <<one(k)>>]
           a == [k \in 1..N |-> [i \in 1..m |-> IF Place(E[i]) = k THEN f[E[i]] ELSE 0]]
<1>1. /\ m \in Nat /\ DOMAIN E = 1..m
      /\ \A i \in 1..m : E[i] \in EdgesOn(n)
  OBVIOUS
<1>2. layers \in Nat /\ \A i \in 1..m : E[i].layer <= layers
  <2> DEFINE S == {0} \cup {E[i].layer : i \in DOMAIN E}
  <2>1. \A i \in 1..m : E[i].layer \in 1..n
    BY <1>1, EdgeIs
  <2>2. 0 \in 0..n /\ \A l \in 1..n : l \in 0..n
    OBVIOUS
  <2>3. S \in SUBSET (0..n) /\ 0 \in S /\ \A i \in 1..m : E[i].layer \in S
    <3> HIDE DEF m
    <3>. QED BY <1>1, <2>1, <2>2, Zenon
  <2> HIDE DEF S
  <2>4. Max(S) \in Nat /\ \A x \in S : x <= Max(S)
    BY <2>3, MaxIs
  <2>. QED BY <2>3, <2>4 DEF S
<1>3. \A i \in 1..m : Place(E[i]) \in 1..N
  <2> HIDE DEF layers, m
  <2>. QED BY <1>1, <1>2, PlaceIs
<1>4. N \in Nat
  <2> HIDE DEF layers
  <2>1. B \in Int /\ 0 <= B /\ layers \in Int /\ 0 <= layers /\ B * 0 = 0
    BY <1>2, CiphersAssumption
  <2>2. B * layers \in Int /\ 0 <= B * layers
    BY <2>1, Monotone, Ints
  <2>3. 2 * B * layers = 2 * (B * layers)
    BY <2>1
  <2>. QED BY <2>2, <2>3
<1>5. Merge(E) = FlattenSeq(seqs)
  BY DEF Merge, Place
<1>6. /\ f \in [EdgesOn(n) -> Int]
      /\ \A e \in EdgesOn(n) : PerUnit(e, r) \in Int /\ Same(f[e], PerUnit(e, r) * e.w)
  BY TermIs
<1> HIDE DEF m, N, f, layers
<1>7. ASSUME NEW k \in 1..N
      PROVE  ws(k) \in Seq(Int) /\ Len(ws(k)) = m
  BY <1>1, EdgeIs
<1>8. ASSUME NEW k \in 1..N, here(k) # {}
      PROVE  /\ one(k) \in EdgesOn(n) /\ first(k) \in EdgesOn(n) /\ Place(first(k)) = k
             /\ one(k).w = SumOf(ws(k)) /\ PerUnit(one(k), r) = PerUnit(first(k), r)
             /\ one(k).layer = first(k).layer
  <2> DEFINE i == CHOOSE j \in here(k) : TRUE
             e == E[i]
             w == SumOf(ws(k))
  <2>1. i \in here(k)
    BY <1>8
  <2>2. i \in 1..m /\ Place(e) = k
    BY <2>1, <1>1
  <2>3. e \in EdgesOn(n)
    BY <2>2, <1>1
  <2>4. w \in 0..Prime - 1
    <3> HIDE DEF ws
    <3>. QED BY <1>7, SumsGrow DEF Fld
  <2> HIDE DEF i, e, w
  <2>5. /\ [e EXCEPT !.w = w] \in EdgesOn(n) /\ [e EXCEPT !.w = w].w = w
        /\ [e EXCEPT !.w = w].layer = e.layer /\ [e EXCEPT !.w = w].idx = e.idx
        /\ [e EXCEPT !.w = w].ch = e.ch
    BY <2>3, <2>4 DEF EdgesOn
  <2>6. PerUnit([e EXCEPT !.w = w], r) = PerUnit(e, r)
    BY <2>5 DEF PerUnit
  <2>. QED BY <2>2, <2>3, <2>5, <2>6 DEF i, e, w
<1> HIDE DEF first
<1>9. seqs \in Seq(Seq(EdgesOn(n))) /\ Len(seqs) = N
      /\ \A k \in 1..N : seqs[k] = IF here(k) = {} THEN <<>> ELSE <<one(k)>>
  <2>1. ASSUME NEW k \in 1..N
        PROVE  (IF here(k) = {} THEN <<>> ELSE <<one(k)>>) \in Seq(EdgesOn(n))
    <3>1. CASE here(k) = {}
      BY <3>1
    <3>2. CASE here(k) # {}
      <4> DEFINE u == one(k)
      <4>1. u \in EdgesOn(n)
        BY <3>2, <1>8
      <4> HIDE DEF u
      <4>2. <<u>> \in Seq(EdgesOn(n))
        BY <4>1
      <4>. QED BY <3>2, <4>2 DEF u
    <3> HIDE DEF here, one
    <3>. QED BY <3>1, <3>2
  <2> HIDE DEF here, one
  <2>. QED BY <2>1, <1>4
<1>10. /\ a \in [1..N -> Seq(Int)] /\ \A k \in 1..N : Len(a[k]) = m
       /\ \A k \in 1..N, i \in 1..m : a[k][i] = IF Place(E[i]) = k THEN f[E[i]] ELSE 0
  <2>1. \A i \in 1..m : f[E[i]] \in Int
    BY <1>1, <1>6
  <2>. QED BY <2>1, <1>1
<1>11. ASSUME NEW k \in 1..N PROVE Over(f, seqs[k]) = SumOf(a[k])
  <2>1. CASE here(k) = {}
    <3>1. seqs[k] = <<>>
      BY <2>1, <1>9
    <3>2. \A i \in 1..Len(a[k]) : a[k][i] = 0
      BY <2>1, <1>1, <1>10
    <3>3. a[k] \in Seq(Int)
      BY <1>10
    <3>4. SumOf(a[k]) = 0
      BY <3>2, <3>3, SumZero DEF Same
    <3>. QED BY <3>1, <3>4, OverEmpty
  <2>2. CASE here(k) # {}
    <3> DEFINE c == PerUnit(first(k), r)
               u == one(k)
               v == ws(k)
    <3>1. /\ u \in EdgesOn(n) /\ first(k) \in EdgesOn(n) /\ Place(first(k)) = k
          /\ u.w = SumOf(v) /\ PerUnit(u, r) = c /\ c \in Int
      BY <2>2, <1>8, <1>6
    <3>2. Over(f, seqs[k]) = f[u] % Prime
      <4>1. seqs[k] = <<u>>
        BY <2>2, <1>9
      <4> HIDE DEF u
      <4>. QED BY <4>1, <3>1, <1>6, OverOne
    <3>3. Same(f[u], c * SumOf(v))
      <4> HIDE DEF u, v, c
      <4>. QED BY <3>1, <1>6
    <3>4. ASSUME NEW i \in 1..m PROVE Same(a[k][i], c * v[i])
      <4>1. v[i] = IF Place(E[i]) = k THEN E[i].w ELSE 0
        BY <1>1
      <4>2. a[k][i] = IF Place(E[i]) = k THEN f[E[i]] ELSE 0
        BY <1>10
      <4> HIDE DEF v
      <4>3. CASE Place(E[i]) = k
        <5>1. E[i] \in EdgesOn(n) /\ Same(f[E[i]], PerUnit(E[i], r) * E[i].w)
          BY <1>1, <1>6
        <5>2. PerUnit(E[i], r) = c
          <6>1. /\ E[i].layer = first(k).layer /\ E[i].idx = first(k).idx
                /\ E[i].ch = first(k).ch
            BY <4>3, <5>1, <3>1, PlaceInjective
          <6>. QED BY <6>1 DEF PerUnit
        <5>. QED BY <4>1, <4>2, <4>3, <5>1, <5>2
      <4>4. CASE Place(E[i]) # k
        <5>1. c * 0 = 0
          BY <3>1
        <5>. QED BY <4>1, <4>2, <4>4, <5>1 DEF Same
      <4>. QED BY <4>3, <4>4
    <3>5. SumOf(a[k]) = (c * SumOf(v)) % Prime
      <4>1. v \in Seq(Int) /\ Len(v) = m
        BY <1>7
      <4>2. a[k] \in Seq(Int) /\ Len(a[k]) = m
        BY <1>10
      <4> HIDE DEF a, v, c
      <4>. QED BY <4>1, <4>2, <3>1, <3>4, SumScaled
    <3>. QED BY <3>2, <3>3, <3>5 DEF Same
  <2>. QED BY <2>1, <2>2
<1> HIDE DEF seqs, a
<1>12. [k \in 1..N |-> Over(f, seqs[k])] = [k \in 1..N |-> SumOf(a[k])]
  BY <1>11
<1>13. Over(f, FlattenSeq(seqs)) = SumOf([k \in 1..N |-> SumOf(a[k])])
  <2>1. Over(f, FlattenSeq(seqs)) = SumOf([k \in 1..Len(seqs) |-> Over(f, seqs[k])])
    <3>1. f \in [EdgesOn(n) -> Int] /\ seqs \in Seq(Seq(EdgesOn(n)))
      BY <1>6, <1>9
    <3>. QED BY <3>1, OverFlatten, Zenon
  <2>2. Len(seqs) = N
    BY <1>9
  <2>. QED BY <2>1, <2>2, <1>12
<1>14. SumOf([k \in 1..N |-> SumOf(a[k])])
         = SumOf([i \in 1..m |-> SumOf([k \in 1..N |-> a[k][i]])])
  BY <1>1, <1>4, <1>10, SumExchange
<1>15. \A i \in 1..m : SumOf([k \in 1..N |-> a[k][i]]) = f[E[i]] % Prime
  <2> TAKE i \in 1..m
  <2> DEFINE col == [k \in 1..N |-> a[k][i]]
             j == Place(E[i])
  <2>1. f[E[i]] \in Int /\ j \in 1..N
    BY <1>1, <1>3, <1>6
  <2>2. \A k \in 1..N : col[k] = IF j = k THEN f[E[i]] ELSE 0
    BY <1>10
  <2>3. col \in Seq(Int) /\ Len(col) = N
    BY <1>4, <1>10
  <2> HIDE DEF col, j
  <2>4. SumOf(col) = col[j] % Prime
    BY <2>1, <2>2, <2>3, SumPoint DEF Same
  <2>. QED BY <2>1, <2>2, <2>4 DEF col
<1>16. SumOf([i \in 1..m |-> SumOf([k \in 1..N |-> a[k][i]])]) = Over(f, E)
  <2> DEFINE s == [i \in 1..m |-> SumOf([k \in 1..N |-> a[k][i]])]
             t == [i \in DOMAIN E |-> f[E[i]]]
  <2>1. Len(E) = m
    BY DEF m
  <2>2. t \in Seq(Int) /\ Len(t) = m /\ \A i \in 1..m : t[i] = f[E[i]] /\ t[i] \in Int
    BY <1>1, <1>6, <2>1, OverIs
  <2>3. s \in Seq(Int) /\ Len(s) = m /\ \A i \in 1..m : s[i] = f[E[i]] % Prime
    <3>1. \A i \in 1..m : s[i] = f[E[i]] % Prime
      BY <1>15
    <3>2. \A i \in 1..m : f[E[i]] % Prime \in Int
      BY <1>1, <1>6, ModType
    <3>3. DOMAIN s = 1..m /\ s = [i \in 1..m |-> s[i]]
      OBVIOUS
    <3> HIDE DEF s
    <3>4. \A i \in 1..m : s[i] \in Int
      BY <3>1, <3>2
    <3>. QED BY <3>1, <3>3, <3>4, <1>1
  <2> HIDE DEF s, t
  <2>4. \A i \in 1..Len(t) : Same(s[i], t[i])
    BY <2>2, <2>3, SameMod
  <2>5. SumOf(s) = SumOf(t)
    BY <2>2, <2>3, <2>4, SumSame
  <2>. QED BY <2>5 DEF s, t, Over
<1>17. FlattenSeq(seqs) \in Seq(EdgesOn(n))
  BY <1>9, FlattenIs
<1>18. ASSUME NEW i \in 1..m
       PROVE  \E j \in 1..Len(FlattenSeq(seqs)) : FlattenSeq(seqs)[j].layer = E[i].layer
  <2> DEFINE k == Place(E[i])
             e == one(k)
             d == first(k)
  <2>1. k \in 1..N /\ here(k) # {} /\ E[i] \in EdgesOn(n)
    BY <1>1, <1>3
  <2>2. d \in EdgesOn(n) /\ Place(d) = k /\ e.layer = d.layer
    BY <2>1, <1>8
  <2>3. d.layer = E[i].layer
    BY <2>1, <2>2, PlaceInjective
  <2>4. seqs[k] = <<e>>
    BY <2>1, <1>9
  <2> HIDE DEF e, d, k
  <2>5. Len(seqs[k]) = 1 /\ seqs[k][1] = e
    BY <2>4
  <2>6. seqs \in Seq(Seq(EdgesOn(n))) /\ k \in 1..Len(seqs) /\ 1 \in 1..Len(seqs[k])
    BY <2>1, <2>5, <1>9
  <2>7. \E j \in 1..Len(FlattenSeq(seqs)) : FlattenSeq(seqs)[j] = seqs[k][1]
    BY <2>6, FlattenHas
  <2>. QED BY <2>2, <2>3, <2>5, <2>7
<1>. QED BY <1>1, <1>5, <1>13, <1>14, <1>16, <1>17, <1>18 DEF f, m
-----------------------------------------------------------------------------
(* The secret factors of layers.                                            *)

\* The equation for the factor of a layer.
FactorOf(L, r, l) == IF L[l].rule = "base" THEN Factor[L[l].seed]
                     ELSE (r[L[l].pa] * r[L[l].pb]) % Prime

\* The factors of layers: r meets all the equations.
IsFactors(L, r) == /\ r \in [1..Len(L) -> Units]
                   /\ \A l \in 1..Len(L) : r[l] = FactorOf(L, r, l)

\* Layers in order, parents first.
InOrder(L) == /\ L \in Seq(Layers)
              /\ \A l \in DOMAIN L : L[l].rule = "prod" => L[l].pa < l /\ L[l].pb < l

\* The two kinds of layers, typed.
LEMMA LayerIs ==
  ASSUME NEW L, InOrder(L), NEW l \in 1..Len(L)
  PROVE  /\ L[l] \in Layers
         /\ \/ /\ L[l].rule = "base" /\ L[l] = Base(L[l].seed)
               /\ L[l].seed \in DOMAIN Factor /\ Factor[L[l].seed] \in Units
            \/ /\ L[l].rule = "prod" /\ L[l].rule # "base"
               /\ L[l].pa \in 1..Len(L) /\ L[l].pb \in 1..Len(L) /\ L[l].pa < l /\ L[l].pb < l
<1>1. L \in Seq(Layers) /\ L[l] \in Layers
  BY DEF InOrder
<1>2. CASE L[l] \in [rule : {"base"}, seed : DOMAIN Factor]
  BY <1>1, <1>2, CiphersAssumption DEF Units, Base
<1>3. CASE L[l] \in [rule : {"prod"}, pa : Nat \ {0}, pb : Nat \ {0}]
  <2>1. L[l].pa < l /\ L[l].pb < l
    BY <1>1, <1>3 DEF InOrder
  <2>. QED BY <1>1, <1>3, <2>1
<1>. QED BY <1>1, <1>2, <1>3 DEF Layers

\* A layer's factor depends on those before it.
LEMMA FactorDepends ==
  ASSUME NEW L, InOrder(L), NEW l \in 1..Len(L), NEW f, NEW g,
         \A k \in 1..l - 1 : f[k] = g[k] /\ f[k] \in Units
  PROVE  FactorOf(L, f, l) = FactorOf(L, g, l) /\ FactorOf(L, f, l) \in Units
<1>1. CASE L[l].rule = "base" /\ Factor[L[l].seed] \in Units
  BY <1>1 DEF FactorOf
<1>2. CASE L[l].rule # "base" /\ L[l].pa \in 1..l - 1 /\ L[l].pb \in 1..l - 1
  <2> DEFINE a == L[l].pa
             b == L[l].pb
  <2>1. f[a] = g[a] /\ f[b] = g[b] /\ f[a] \in Units /\ f[b] \in Units
    BY <1>2
  <2>2. (f[a] * f[b]) % Prime \in Units
    BY <2>1, UnitProduct
  <2>. QED BY <1>2, <2>1, <2>2 DEF FactorOf
<1>. QED BY <1>1, <1>2, LayerIs

\* The equations have one solution only.
LEMMA FactorsUnique ==
  ASSUME NEW L, InOrder(L), NEW f, IsFactors(L, f), NEW g, IsFactors(L, g)
  PROVE  f = g
<1> DEFINE N == Len(L)
           S == {n \in Nat : \A l \in 1..N : l <= n => f[l] = g[l]}
<1>1. N \in Nat
  BY DEF InOrder
<1>2. 0 \in S
  OBVIOUS
<1>3. ASSUME NEW n \in Nat, n \in S PROVE n + 1 \in S
  <2> SUFFICES ASSUME n + 1 \in 1..N PROVE f[n + 1] = g[n + 1]
    BY <1>3
  <2>1. \A k \in 1..(n + 1) - 1 : f[k] = g[k] /\ f[k] \in Units
    BY <1>1, <1>3 DEF IsFactors
  <2>2. FactorOf(L, f, n + 1) = FactorOf(L, g, n + 1)
    BY <2>1, FactorDepends
  <2>. QED BY <2>2 DEF IsFactors
<1>4. N \in S
  <2> HIDE DEF S
  <2>. QED BY <1>1, <1>2, <1>3, NatInduct
<1>5. \A l \in 1..N : f[l] = g[l]
  BY <1>1, <1>4
<1>6. f = [l \in 1..N |-> f[l]] /\ g = [l \in 1..N |-> g[l]]
  BY DEF IsFactors
<1>. QED BY <1>5, <1>6

\* They have one.
LEMMA FactorsExist ==
  ASSUME NEW L, InOrder(L)
  PROVE  \E r : IsFactors(L, r)
<1> DEFINE N == Len(L)
           Upto(n, r) == \A l \in 1..N : l <= n => r[l] = FactorOf(L, r, l)
           S == {n \in Nat : \E r \in [1..N -> Units] : Upto(n, r)}
<1>1. N \in Nat
  BY DEF InOrder
<1>2. 0 \in S
  <2>1. 1 \in Units
    BY CiphersAssumption DEF Units
  <2>2. [l \in 1..N |-> 1] \in [1..N -> Units] /\ Upto(0, [l \in 1..N |-> 1])
    BY <2>1
  <2>. QED BY <2>2
<1>3. ASSUME NEW n \in Nat, n \in S PROVE n + 1 \in S
  <2>1. PICK r \in [1..N -> Units] : Upto(n, r)
    BY <1>3
  <2>2. CASE n + 1 \notin 1..N
    <3>1. Upto(n + 1, r)
      BY <2>1, <2>2, <1>1
    <3>. QED BY <3>1
  <2>3. CASE n + 1 \in 1..N
    <3> DEFINE u == [r EXCEPT ![n + 1] = FactorOf(L, r, n + 1)]
    <3>1. FactorOf(L, r, n + 1) \in Units
      BY <2>1, <2>3, <1>1, FactorDepends
    <3>2. u \in [1..N -> Units] /\ u[n + 1] = FactorOf(L, r, n + 1)
          /\ \A l \in 1..N : l # n + 1 => u[l] = r[l]
      BY <2>3, <3>1
    <3> HIDE DEF u
    <3>3. ASSUME NEW l \in 1..N, l <= n + 1 PROVE u[l] = FactorOf(L, u, l)
      <4>1. \A k \in 1..l - 1 : r[k] = u[k] /\ r[k] \in Units
        BY <3>2, <3>3, <1>1
      <4>2. FactorOf(L, r, l) = FactorOf(L, u, l)
        BY <4>1, FactorDepends
      <4>3. u[l] = FactorOf(L, r, l)
        BY <2>1, <3>2, <3>3
      <4>. QED BY <4>2, <4>3
    <3>. QED BY <3>2, <3>3
  <2>. QED BY <2>2, <2>3
<1>4. N \in S
  <2> HIDE DEF S
  <2>. QED BY <1>1, <1>2, <1>3, NatInduct
<1>5. PICK r \in [1..N -> Units] : Upto(N, r)
  BY <1>4
<1>. QED BY <1>1, <1>5 DEF IsFactors

\* What it means to be a cipher, part by part.
LEMMA CipherOrder ==
  ASSUME NEW ct, IsCipher(ct)
  PROVE  /\ InOrder(ct.L) /\ Len(ct.L) \in Nat /\ DOMAIN ct.L = 1..Len(ct.L)
         /\ ct.E \in Seq(EdgesOn(Len(ct.L)))
         /\ ct.c0 \in Seq(Fld) /\ Len(ct.c0) \in {0, 1}
         /\ ct = Cipher(ct.L, ct.E, ct.c0)
<1> DEFINE n == Len(ct.L)
<1>1. ct \in [L : Seq(Layers), E : Seq(Edges), c0 : Seq(Fld)] /\ ShapeOk(ct)
  BY DEF IsCipher, CipherSet, Fld
<1>2. ct.L \in Seq(Layers) /\ ct.E \in Seq(Edges) /\ ct.c0 \in Seq(Fld)
      /\ ct = Cipher(ct.L, ct.E, ct.c0)
  BY <1>1 DEF Cipher
<1>3. DOMAIN ct.L = 1..n /\ n \in Nat
  BY <1>2
<1>4. InOrder(ct.L) /\ Len(ct.c0) \in {0, 1}
  BY <1>1, <1>2 DEF InOrder, ShapeOk
<1>5. \A i \in DOMAIN ct.E : ct.E[i].layer \in 1..n
  BY <1>1, <1>3 DEF ShapeOk
<1>6. ct.E \in Seq(EdgesOn(n))
  <2> DEFINE E == ct.E
             m == Len(E)
  <2>1. m \in Nat /\ DOMAIN E = 1..m /\ E = [i \in 1..m |-> E[i]] /\ \A i \in 1..m : E[i] \in Edges
    BY <1>2
  <2>2. \A i \in 1..m : E[i] \in EdgesOn(n)
    <3>1. \A i \in 1..m : E[i].layer \in 1..n
      BY <2>1, <1>5
    <3> HIDE DEF E, m, n
    <3>2. \A i \in 1..m : E[i] \in Edges
      BY <2>1
    <3>. QED BY <3>1, <3>2 DEF Edges, EdgesOn
  <2> HIDE DEF E, m
  <2>3. E \in Seq(EdgesOn(n))
    BY <2>1, <2>2
  <2>. QED BY <2>3 DEF E
<1>. QED BY <1>2, <1>3, <1>4, <1>6

\* LayerFactors, layer_R_cached of decrypt.hpp, solves the equations.
LEMMA FactorsAre ==
  ASSUME NEW ct, InOrder(ct.L)
  PROVE  IsFactors(ct.L, LayerFactors(ct))
<1> DEFINE L == ct.L
           Is(r) == r = [l \in DOMAIN L |-> IF L[l].rule = "base" THEN Factor[L[l].seed]
                                            ELSE (r[L[l].pa] * r[L[l].pb]) % Prime]
           c == CHOOSE r : Is(r)
<1>1. DOMAIN L = 1..Len(L)
  BY DEF InOrder
<1>2. PICK f : IsFactors(L, f)
  BY FactorsExist
<1>3. Is(f)
  <2>1. f = [l \in 1..Len(L) |-> f[l]]
    BY <1>2 DEF IsFactors
  <2>. QED BY <1>1, <1>2, <2>1 DEF IsFactors, FactorOf
<1>4. LayerFactors(ct) = c
  BY DEF LayerFactors
<1>5. Is(c)
  <2> HIDE DEF Is
  <2>. QED BY <1>3
<1> HIDE DEF c
<1> DEFINE N == Len(L)
           S == {n \in Nat : \A l \in 1..N : l <= n => c[l] = f[l]}
<1>6. \A l \in 1..N : c[l] = FactorOf(L, c, l)
  BY <1>1, <1>5 DEF FactorOf
<1>7. N \in Nat
  BY DEF InOrder
<1>8. 0 \in S
  OBVIOUS
<1>9. ASSUME NEW n \in Nat, n \in S PROVE n + 1 \in S
  <2> SUFFICES ASSUME n + 1 \in 1..N PROVE c[n + 1] = f[n + 1]
    BY <1>9
  <2>1. \A k \in 1..(n + 1) - 1 : f[k] = c[k] /\ f[k] \in Units
    BY <1>2, <1>7, <1>9 DEF IsFactors
  <2>2. FactorOf(L, f, n + 1) = FactorOf(L, c, n + 1)
    BY <2>1, FactorDepends
  <2>. QED BY <2>2, <1>2, <1>6 DEF IsFactors
<1>10. N \in S
  <2> HIDE DEF S
  <2>. QED BY <1>7, <1>8, <1>9, NatInduct
<1>11. \A l \in 1..N : c[l] = f[l]
  BY <1>7, <1>10
<1>12. c = f
  <2>1. c = [l \in 1..N |-> c[l]]
    BY <1>1, <1>5
  <2>2. f = [l \in 1..N |-> f[l]]
    BY <1>2 DEF IsFactors
  <2>. QED BY <1>11, <2>1, <2>2
<1>. QED BY <1>2, <1>4, <1>12

\* The constant of a cipher, 0 if it has none.
Const(c0) == IF c0 = <<>> THEN 0 ELSE c0[1]

\* A cipher is decrypted with any function that has the factors' equations.
LEMMA DecIs ==
  ASSUME NEW ct, IsCipher(ct), NEW r, IsFactors(ct.L, r)
  PROVE  /\ Dec(ct) = (Const(ct.c0) + Over(Term(Len(ct.L), r), ct.E)) % Prime
         /\ Const(ct.c0) \in Fld /\ Const(ct.c0) \in Int
         /\ Over(Term(Len(ct.L), r), ct.E) \in Int
<1> DEFINE n == Len(ct.L)
           E == ct.E
<1>1. /\ InOrder(ct.L) /\ n \in Nat /\ E \in Seq(EdgesOn(n))
      /\ ct.c0 \in Seq(Fld) /\ Len(ct.c0) \in {0, 1}
  BY CipherOrder
<1>2. LayerFactors(ct) = r
  BY <1>1, FactorsAre, FactorsUnique
<1>3. r \in [1..n -> Units]
  BY DEF IsFactors
<1>4. Const(ct.c0) \in Fld
  <2>1. 0 \in Fld
    BY CiphersAssumption DEF Fld
  <2>. QED BY <1>1, <2>1 DEF Const
<1>5. Over(Term(n, r), E)
        = SumOf([i \in DOMAIN E |-> (Weight(E[i]) % Prime) * Inverse1(r[E[i].layer])])
  <2>1. \A i \in DOMAIN E : E[i] \in EdgesOn(n)
    BY <1>1
  <2>2. \A i \in DOMAIN E : Term(n, r)[E[i]] = (Weight(E[i]) % Prime) * Inverse1(r[E[i].layer])
    BY <2>1, <1>1, <1>3, TermIs
  <2>. QED BY <2>2 DEF Over
<1>6. Over(Term(n, r), E) \in Int
  BY <1>1, <1>3, TermIs, OverIs
<1>7. Dec(ct) = (Const(ct.c0) + SumOf([i \in DOMAIN E |-> (Weight(E[i]) % Prime)
                                                        * Inverse1(r[E[i].layer])])) % Prime
  BY <1>2 DEF Dec, Total, Const
<1>. QED BY <1>4, <1>5, <1>6, <1>7, ModSmall

\* Layers in order, and edges on them, make a cipher.
LEMMA IsCipherIf ==
  ASSUME NEW L, InOrder(L), NEW E \in Seq(EdgesOn(Len(L))),
         NEW c0 \in Seq(Fld), Len(c0) \in {0, 1}
  PROVE  IsCipher(Cipher(L, E, c0))
<1> DEFINE ct == Cipher(L, E, c0)
<1>1. ct \in [L : Seq(Layers), E : Seq(Edges), c0 : Seq(0..Prime - 1)]
  <2>1. EdgesOn(Len(L)) \subseteq Edges
    <3>1. \A l \in 1..Len(L) : l \in Nat \ {0}
      OBVIOUS
    <3>. QED BY <3>1 DEF EdgesOn, Edges
  <2>2. E \in Seq(Edges)
    BY <2>1
  <2>3. L \in Seq(Layers)
    BY DEF InOrder
  <2>. QED BY <2>2, <2>3 DEF Cipher, Fld
<1>2. \A i \in DOMAIN E : E[i].layer \in DOMAIN L /\ E[i].ch \in {1, -1} /\ E[i].idx < B
  <2>1. DOMAIN L = 1..Len(L)
    BY DEF InOrder
  <2>2. \A i \in DOMAIN E : E[i] \in EdgesOn(Len(L))
    OBVIOUS
  <2>3. \A e \in EdgesOn(Len(L)) : e.layer \in 1..Len(L) /\ e.ch \in {1, -1} /\ e.idx \in 0..B - 1
    BY DEF EdgesOn
  <2>4. \A k \in 0..B - 1 : k < B
    BY CiphersAssumption
  <2>. QED BY <2>1, <2>2, <2>3, <2>4
<1>3. ShapeOk(ct)
  BY <1>2 DEF ShapeOk, Cipher, InOrder
<1>. QED BY <1>1, <1>3 DEF IsCipher, CipherSet

\* guard_budget keeps a cipher and its plaintext.
LEMMA WithinBudgetIs ==
  ASSUME NEW ct, IsCipher(ct)
  PROVE  IsCipher(WithinBudget(ct)) /\ Dec(WithinBudget(ct)) = Dec(ct)
<1> SUFFICES ASSUME Len(ct.E) > EdgeBudget
             PROVE  IsCipher([ct EXCEPT !.E = Merge(@)]) /\ Dec([ct EXCEPT !.E = Merge(@)]) = Dec(ct)
  BY DEF WithinBudget
<1> DEFINE L == ct.L
           E == ct.E
           n == Len(L)
           r == LayerFactors(ct)
           u == Cipher(L, Merge(E), ct.c0)
<1>1. /\ InOrder(L) /\ n \in Nat /\ E \in Seq(EdgesOn(n))
      /\ ct.c0 \in Seq(Fld) /\ Len(ct.c0) \in {0, 1} /\ ct = Cipher(L, E, ct.c0)
  BY CipherOrder
<1>2. u = [ct EXCEPT !.E = Merge(@)]
  BY <1>1 DEF Cipher
<1>3. IsFactors(L, r) /\ r \in [1..n -> Units]
  BY <1>1, FactorsAre DEF IsFactors
<1>4. Merge(E) \in Seq(EdgesOn(n)) /\ Over(Term(n, r), Merge(E)) = Over(Term(n, r), E)
  BY <1>1, <1>3, MergeIs
<1>5. IsCipher(u) /\ u.L = L /\ u.E = Merge(E) /\ u.c0 = ct.c0
  BY <1>1, <1>4, IsCipherIf DEF Cipher
<1>6. Dec(u) = (Const(ct.c0) + Over(Term(n, r), Merge(E))) % Prime
  <2> HIDE DEF u, r
  <2>. QED BY <1>3, <1>5, DecIs
<1>7. Dec(ct) = (Const(ct.c0) + Over(Term(n, r), E)) % Prime
  BY <1>3, DecIs
<1>. QED BY <1>2, <1>4, <1>5, <1>6, <1>7
-----------------------------------------------------------------------------
(* Ciphers after one another.                                               *)

\* u is r and then t.
Joins(u, r, n, t, m) == /\ \A l \in 1..n : u[l] = r[l]
                        /\ \A l \in 1..m : u[l + n] = t[l]

\* The factors of layers that stand after others are theirs.
LEMMA FactorsConcat ==
  ASSUME NEW L, InOrder(L), NEW M, InOrder(M), NEW r, IsFactors(L, r), NEW t, IsFactors(M, t)
  PROVE  /\ InOrder(L \o LayersAfter(M, Len(L)))
         /\ Len(L \o LayersAfter(M, Len(L))) = Len(L) + Len(M)
         /\ \E u : IsFactors(L \o LayersAfter(M, Len(L)), u) /\ Joins(u, r, Len(L), t, Len(M))
<1> DEFINE n == Len(L)
           m == Len(M)
           A == LayersAfter(M, n)
           N == L \o A
           u == [l \in 1..Len(N) |-> IF l <= n THEN r[l] ELSE t[l - n]]
<1>1. /\ L \in Seq(Layers) /\ M \in Seq(Layers) /\ n \in Nat /\ m \in Nat
      /\ r \in [1..n -> Units] /\ t \in [1..m -> Units]
      /\ \A l \in 1..n : r[l] = FactorOf(L, r, l)
      /\ \A l \in 1..m : t[l] = FactorOf(M, t, l)
  BY DEF InOrder, IsFactors
<1>2. ASSUME NEW l \in 1..m
      PROVE  /\ A[l] \in Layers
             /\ \/ /\ M[l].rule = "base" /\ A[l] = M[l] /\ M[l].seed \in DOMAIN Factor
                \/ /\ M[l].rule = "prod" /\ A[l].rule = "prod" /\ A[l].rule # "base"
                   /\ M[l].pa \in 1..m /\ M[l].pb \in 1..m /\ M[l].pa < l /\ M[l].pb < l
                   /\ \/ A[l].pa = M[l].pa + n /\ A[l].pb = M[l].pb + n
                      \/ A[l].pa = M[l].pb + n /\ A[l].pb = M[l].pa + n
  <2>1. A[l] = IF M[l].rule = "prod" THEN Prod(M[l].pa + n, M[l].pb + n) ELSE M[l]
    BY <1>1 DEF LayersAfter
  <2>2. CASE M[l].rule = "base" /\ M[l].seed \in DOMAIN Factor /\ M[l] \in Layers
    BY <2>1, <2>2
  <2>3. CASE /\ M[l].rule = "prod" /\ M[l].pa \in 1..m /\ M[l].pb \in 1..m
             /\ M[l].pa < l /\ M[l].pb < l
    <3> DEFINE x == M[l].pa
               y == M[l].pb
    <3>1. A[l] = Prod(x + n, y + n)
      BY <2>1, <2>3
    <3>2. x + n \in Nat \ {0} /\ y + n \in Nat \ {0}
      BY <1>1, <2>3
    <3> HIDE DEF x, y
    <3>3. A[l] \in Layers
      BY <3>1, <3>2 DEF Layers, Prod
    <3>4. /\ A[l].rule = "prod" /\ A[l].rule # "base"
          /\ \/ A[l].pa = x + n /\ A[l].pb = y + n
             \/ A[l].pa = y + n /\ A[l].pb = x + n
      BY <3>1, <3>2 DEF Prod
    <3>. QED BY <2>3, <3>3, <3>4 DEF x, y
  <2>. QED BY <2>2, <2>3, LayerIs
<1>3. A \in Seq(Layers) /\ Len(A) = m
  <2>1. DOMAIN M = 1..m /\ A = [l \in 1..m |-> A[l]]
    BY <1>1 DEF LayersAfter
  <2> HIDE DEF A
  <2>. QED BY <1>1, <1>2, <2>1
<1> HIDE DEF A
<1>4. /\ N \in Seq(Layers) /\ Len(N) = n + m
      /\ \A l \in 1..n : N[l] = L[l]
      /\ \A l \in 1..m : N[l + n] = A[l]
      /\ \A l \in 1..n + m : l \in 1..n \/ \E k \in 1..m : l = k + n
  <2>1. \A l \in 1..m : l + n \in 1..n + m /\ ~(l + n <= n) /\ (l + n) - n = l
    BY <1>1
  <2>2. ASSUME NEW l \in 1..n + m, l \notin 1..n PROVE \E k \in 1..m : l = k + n
    <3>1. l - n \in 1..m /\ l = (l - n) + n
      BY <1>1, <2>2
    <3>. QED BY <3>1
  <2>3. N \in Seq(Layers) /\ Len(N) = n + m /\ \A l \in 1..n : N[l] = L[l]
    <3>1. L \in Seq(Layers)
      BY <1>1
    <3>2. N \in Seq(Layers) /\ Len(N) = n + m
      BY <3>1, <1>3
    <3>3. \A l \in 1..n : N[l] = L[l]
      BY <3>1, <1>3
    <3>. QED BY <3>2, <3>3
  <2>4. ASSUME NEW l \in 1..m PROVE N[l + n] = A[l]
    BY <1>1, <1>3, <2>1
  <2>. QED BY <2>2, <2>3, <2>4
<1> HIDE DEF N
<1>5. /\ \A l \in 1..n : u[l] = r[l] /\ l \in 1..Len(N)
      /\ \A l \in 1..m : u[l + n] = t[l] /\ l + n \in 1..Len(N)
      /\ u \in [1..Len(N) -> Units]
  <2>1. \A l \in 1..n : u[l] = r[l] /\ l \in 1..Len(N)
    BY <1>1, <1>4
  <2>2. \A l \in 1..m : u[l + n] = t[l] /\ l + n \in 1..Len(N)
    BY <1>1, <1>4
  <2>3. ASSUME NEW l \in 1..Len(N) PROVE u[l] \in Units
    <3>1. CASE l \in 1..n
      BY <3>1, <2>1, <1>1
    <3>2. CASE \E k \in 1..m : l = k + n
      BY <3>2, <2>2, <1>1
    <3>. QED BY <3>1, <3>2, <1>4
  <2>. QED BY <2>1, <2>2, <2>3
<1> HIDE DEF u
<1>6. ASSUME NEW l \in 1..n
      PROVE  (N[l].rule = "prod" => N[l].pa < l /\ N[l].pb < l) /\ u[l] = FactorOf(N, u, l)
  <2>1. N[l] = L[l] /\ u[l] = r[l] /\ r[l] = FactorOf(L, r, l)
    BY <1>1, <1>4, <1>5
  <2>2. \/ L[l].rule = "base"
        \/ L[l].rule = "prod" /\ L[l].rule # "base" /\ L[l].pa \in 1..n /\ L[l].pb \in 1..n
           /\ L[l].pa < l /\ L[l].pb < l
    BY LayerIs
  <2>3. \A k \in 1..n : u[k] = r[k]
    BY <1>5
  <2>. QED BY <2>1, <2>2, <2>3 DEF FactorOf
<1>7. ASSUME NEW l \in 1..m
      PROVE  /\ N[l + n].rule = "prod" => N[l + n].pa < l + n /\ N[l + n].pb < l + n
             /\ u[l + n] = FactorOf(N, u, l + n)
  <2>1. N[l + n] = A[l] /\ u[l + n] = t[l] /\ t[l] = FactorOf(M, t, l)
    BY <1>1, <1>4, <1>5
  <2>2. \A k \in 1..m : u[k + n] = t[k] /\ t[k] \in Int
    BY <1>1, <1>5 DEF Units
  <2>3. CASE M[l].rule = "base" /\ A[l] = M[l]
    BY <2>1, <2>3 DEF FactorOf
  <2>4. CASE /\ M[l].rule = "prod" /\ A[l].rule = "prod" /\ A[l].rule # "base"
             /\ M[l].pa \in 1..m /\ M[l].pb \in 1..m /\ M[l].pa < l /\ M[l].pb < l
             /\ \/ A[l].pa = M[l].pa + n /\ A[l].pb = M[l].pb + n
                \/ A[l].pa = M[l].pb + n /\ A[l].pb = M[l].pa + n
    <3> DEFINE x == M[l].pa
               y == M[l].pb
    <3>1. A[l].pa < l + n /\ A[l].pb < l + n
      BY <1>1, <2>4
    <3>2. t[l] = (t[x] * t[y]) % Prime
      BY <2>1, <2>4 DEF FactorOf
    <3>3. FactorOf(N, u, l + n) = (u[A[l].pa] * u[A[l].pb]) % Prime
      BY <2>1, <2>4 DEF FactorOf
    <3>4. u[x + n] = t[x] /\ u[y + n] = t[y] /\ t[x] * t[y] = t[y] * t[x]
      BY <2>2, <2>4
    <3>5. u[A[l].pa] * u[A[l].pb] = t[x] * t[y]
      BY <2>4, <3>4
    <3>. QED BY <2>1, <3>1, <3>2, <3>3, <3>5
  <2>. QED BY <1>2, <2>3, <2>4
<1>8. \A l \in 1..Len(N) : /\ N[l].rule = "prod" => N[l].pa < l /\ N[l].pb < l
                           /\ u[l] = FactorOf(N, u, l)
  BY <1>4, <1>6, <1>7
<1>9. InOrder(N) /\ IsFactors(N, u)
  BY <1>4, <1>5, <1>8 DEF InOrder, IsFactors
<1>10. Joins(u, r, n, t, m)
  BY <1>5 DEF Joins
<1>. QED BY <1>4, <1>9, <1>10 DEF N, A

\* r gives factors to n layers.
Factoring(n, r) == n \in Nat /\ r \in [1..n -> Units]

\* Edges with other layers of the same factors add the same.
LEMMA Relabelled ==
  ASSUME NEW m \in Nat, NEW n \in Nat, NEW E \in Seq(EdgesOn(m)), NEW F \in Seq(EdgesOn(n)),
         NEW t \in [1..m -> Units], NEW r \in [1..n -> Units], Len(F) = Len(E),
         \A i \in 1..Len(E) : /\ F[i].idx = E[i].idx /\ F[i].ch = E[i].ch /\ F[i].w = E[i].w
                              /\ r[F[i].layer] = t[E[i].layer]
  PROVE  Over(Term(n, r), F) = Over(Term(m, t), E)
<1>1. Term(n, r) \in [EdgesOn(n) -> Int] /\ Term(m, t) \in [EdgesOn(m) -> Int]
  BY TermIs
<1>2. ASSUME NEW i \in 1..Len(F) PROVE Same(Term(n, r)[F[i]], Term(m, t)[E[i]])
  <2>1. F[i] \in EdgesOn(n) /\ E[i] \in EdgesOn(m)
    OBVIOUS
  <2>2. Weight(F[i]) = Weight(E[i])
    BY DEF Weight
  <2>3. /\ Term(n, r)[F[i]] = (Weight(F[i]) % Prime) * Inverse1(r[F[i].layer])
        /\ Term(m, t)[E[i]] = (Weight(E[i]) % Prime) * Inverse1(t[E[i].layer])
    BY <2>1, TermIs
  <2>. QED BY <2>2, <2>3 DEF Same
<1> DEFINE f == Term(n, r)
           g == Term(m, t)
           fs == [i \in DOMAIN F |-> f[F[i]]]
           gs == [i \in DOMAIN E |-> g[E[i]]]
<1>3. fs \in Seq(Int) /\ Len(fs) = Len(F) /\ \A i \in 1..Len(F) : fs[i] = f[F[i]]
  BY <1>1, OverIs
<1>4. gs \in Seq(Int) /\ Len(gs) = Len(E) /\ \A i \in 1..Len(E) : gs[i] = g[E[i]]
  BY <1>1, OverIs
<1>5. SumOf(fs) = SumOf(gs)
  <2>1. \A i \in 1..Len(gs) : Same(fs[i], gs[i])
    BY <1>2, <1>3, <1>4
  <2> HIDE DEF fs, gs
  <2>. QED BY <1>3, <1>4, <2>1, SumSame
<1>. QED BY <1>5 DEF Over

\* Edges moved behind off layers add the same.
LEMMA EdgesAfterIs ==
  ASSUME NEW m, NEW t, Factoring(m, t), NEW n, NEW r, Factoring(n, r),
         NEW off \in Nat, off + m <= n, NEW s, Joins(r, s, off, t, m), NEW E \in Seq(EdgesOn(m))
  PROVE  /\ EdgesAfter(E, off) \in Seq(EdgesOn(n)) /\ Len(EdgesAfter(E, off)) = Len(E)
         /\ Over(Term(n, r), EdgesAfter(E, off)) = Over(Term(m, t), E)
<1> DEFINE F == EdgesAfter(E, off)
<1>1. m \in Nat /\ n \in Nat /\ t \in [1..m -> Units] /\ r \in [1..n -> Units]
  BY DEF Factoring
<1>2. ASSUME NEW i \in 1..Len(E)
      PROVE  /\ F[i] \in EdgesOn(n) /\ F[i].idx = E[i].idx /\ F[i].ch = E[i].ch /\ F[i].w = E[i].w
             /\ r[F[i].layer] = t[E[i].layer]
  <2> DEFINE e == E[i]
             d == [e EXCEPT !.layer = e.layer + off]
  <2>1. e \in EdgesOn(m)
    OBVIOUS
  <2>2. i \in DOMAIN E
    OBVIOUS
  <2>3. F[i] = [E[i] EXCEPT !.layer = @ + off]
    BY <2>2, Zenon DEF EdgesAfter
  <2>4. e \in EdgesOn(m) /\ F[i] = d
    BY <2>1, <2>3
  <2> HIDE DEF e
  <2>5. e.layer \in 1..m /\ e.layer + off \in 1..n
    BY SMTT(20), <2>4, <1>1, EdgeIs
  <2>6. d \in EdgesOn(n) /\ d.idx = e.idx /\ d.ch = e.ch /\ d.w = e.w /\ d.layer = e.layer + off
    <3>1. d.idx = e.idx /\ d.ch = e.ch /\ d.w = e.w /\ d.layer = e.layer + off
      BY <2>4 DEF EdgesOn
    <3>2. d \in EdgesOn(n)
      BY <2>4, <2>5 DEF EdgesOn
    <3>. QED BY <3>1, <3>2
  <2> HIDE DEF d
  <2>7. r[e.layer + off] = t[e.layer]
    BY <2>5 DEF Joins
  <2>. QED BY <2>4, <2>5, <2>6, <2>7 DEF e
<1>3. F \in Seq(EdgesOn(n)) /\ Len(F) = Len(E)
  <2>1. F = [i \in 1..Len(E) |-> F[i]] /\ Len(E) \in Nat
    BY DEF EdgesAfter
  <2> HIDE DEF F
  <2>. QED BY <1>2, <2>1
<1>4. Over(Term(n, r), F) = Over(Term(m, t), E)
  <2> HIDE DEF F
  <2>. QED BY <1>1, <1>2, <1>3, Relabelled
<1>. QED BY <1>3, <1>4

\* Edges on the first layers of more are edges of those.
LEMMA EdgesBefore ==
  ASSUME NEW m \in Nat, NEW n \in Nat, m <= n, NEW E \in Seq(EdgesOn(m)),
         NEW t \in [1..m -> Units], NEW r \in [1..n -> Units],
         \A l \in 1..m : r[l] = t[l]
  PROVE  /\ E \in Seq(EdgesOn(n))
         /\ Over(Term(n, r), E) = Over(Term(m, t), E)
<1>1. EdgesOn(m) \subseteq EdgesOn(n)
  <2>1. 1..m \subseteq 1..n
    OBVIOUS
  <2>. QED BY <2>1 DEF EdgesOn
<1>2. E \in Seq(EdgesOn(n))
  BY <1>1
<1>3. \A i \in 1..Len(E) : r[E[i].layer] = t[E[i].layer]
  <2>1. \A i \in 1..Len(E) : E[i].layer \in 1..m
    BY EdgeIs
  <2>. QED BY <2>1
<1>. QED BY <1>2, <1>3, Relabelled

\* Two ciphers one after the other give the sum.
LEMMA ConcatIs ==
  ASSUME NEW a, IsCipher(a), NEW b, IsCipher(b),
         NEW c0 \in Seq(Fld), Len(c0) \in {0, 1}, Same(Const(c0), Const(a.c0) + Const(b.c0))
  PROVE  LET u == Cipher(a.L \o LayersAfter(b.L, Len(a.L)), a.E \o EdgesAfter(b.E, Len(a.L)), c0)
         IN IsCipher(u) /\ Dec(u) = (Dec(a) + Dec(b)) % Prime
<1> DEFINE m == Len(a.L)
           k == Len(b.L)
           N == a.L \o LayersAfter(b.L, m)
           F == a.E \o EdgesAfter(b.E, m)
           u == Cipher(N, F, c0)
           ra == LayerFactors(a)
           rb == LayerFactors(b)
<1>1. /\ InOrder(a.L) /\ InOrder(b.L) /\ m \in Nat /\ k \in Nat
      /\ a.E \in Seq(EdgesOn(m)) /\ b.E \in Seq(EdgesOn(k))
  BY CipherOrder
<1>2. /\ IsFactors(a.L, ra) /\ ra \in [1..m -> Units]
      /\ IsFactors(b.L, rb) /\ rb \in [1..k -> Units]
  BY <1>1, FactorsAre DEF IsFactors
<1> HIDE DEF ra, rb
<1>3. InOrder(N) /\ Len(N) = m + k
  BY <1>1, <1>2, FactorsConcat
<1>4. PICK r : IsFactors(N, r) /\ Joins(r, ra, m, rb, k)
  BY <1>1, <1>2, FactorsConcat
<1> HIDE DEF N
<1>5. Len(N) \in Nat /\ r \in [1..Len(N) -> Units] /\ m <= Len(N) /\ m + k <= Len(N)
  <2>1. IsFactors(N, r)
    BY <1>4
  <2>2. r \in [1..Len(N) -> Units]
    BY <2>1 DEF IsFactors
  <2>3. Len(N) = m + k
    BY <1>3
  <2> HIDE DEF m, k
  <2>. QED BY <1>1, <2>2, <2>3
<1> DEFINE n == Len(N)
           f == Term(n, r)
           A == EdgesAfter(b.E, m)
<1>6. a.E \in Seq(EdgesOn(n)) /\ Over(f, a.E) = Over(Term(m, ra), a.E)
  BY <1>1, <1>2, <1>4, <1>5, EdgesBefore DEF Joins
<1>7. A \in Seq(EdgesOn(n)) /\ Over(f, A) = Over(Term(k, rb), b.E)
  <2>1. Factoring(n, r) /\ m + k <= n
    BY <1>5 DEF Factoring
  <2>2. b.E \in Seq(EdgesOn(k)) /\ Factoring(k, rb) /\ m \in Nat
    BY <1>1, <1>2 DEF Factoring
  <2>3. Joins(r, ra, m, rb, k)
    BY <1>4
  <2> HIDE DEF m, k, n
  <2>. QED BY <2>1, <2>2, <2>3, EdgesAfterIs
<1>8. f \in [EdgesOn(n) -> Int]
  BY <1>5, TermIs
<1> DEFINE x == Over(Term(m, ra), a.E)
           y == Over(Term(k, rb), b.E)
           z == Over(f, F)
<1>9. F \in Seq(EdgesOn(n)) /\ z = (x + y) % Prime
  <2> HIDE DEF f, n, A
  <2>1. F = a.E \o A
    BY DEF A
  <2>. QED BY SMTT(20), <1>6, <1>7, <1>8, <2>1, OverConcat
<1>10. IsCipher(u) /\ u.L = N /\ u.E = F /\ u.c0 = c0
  BY <1>3, <1>9, IsCipherIf DEF Cipher
<1> DEFINE cu == Const(c0)
           ca == Const(a.c0)
           cb == Const(b.c0)
<1>11. Dec(u) = (cu + z) % Prime /\ cu \in Int /\ z \in Int
  <2> HIDE DEF u
  <2>. QED BY <1>4, <1>10, DecIs
<1>12. Dec(a) = (ca + x) % Prime /\ ca \in Int /\ x \in Int
  BY <1>2, DecIs
<1>13. Dec(b) = (cb + y) % Prime /\ cb \in Int /\ y \in Int
  BY <1>2, DecIs
<1>14. Same(cu, ca + cb)
  OBVIOUS
<1> HIDE DEF cu, ca, cb, x, y, z
<1>15. Same((ca + x) + (cb + y), Dec(a) + Dec(b))
  BY <1>12, <1>13, SamePlus, SameMod, ModType, Ints DEF Same
<1>16. Same(cu + z, (ca + cb) + (x + y))
  <2>1. x + y \in Int /\ ca + cb \in Int
    BY <1>12, <1>13
  <2>2. Same(z, x + y)
    BY <2>1, <1>9, SameMod DEF z
  <2>. QED BY <2>1, <2>2, <1>11, <1>14, SamePlus
<1>17. (ca + cb) + (x + y) = (ca + x) + (cb + y)
  BY <1>12, <1>13
<1>18. Dec(u) = (Dec(a) + Dec(b)) % Prime
  BY <1>11, <1>15, <1>16, <1>17 DEF Same
<1>. QED BY <1>10, <1>18 DEF u, N, F

\* ct_scale: the plaintext is scaled.
LEMMA ScaleIs ==
  ASSUME NEW ct, IsCipher(ct), NEW s \in Int
  PROVE  IsCipher(Scale(ct, s)) /\ Dec(Scale(ct, s)) = (s * Dec(ct)) % Prime
<1> DEFINE L == ct.L
           E == ct.E
           n == Len(L)
           r == LayerFactors(ct)
           f == Term(n, r)
           F == [i \in DOMAIN E |-> [E[i] EXCEPT !.w = (E[i].w * s) % Prime]]
           c0 == [j \in DOMAIN ct.c0 |-> (ct.c0[j] * s) % Prime]
           u == Cipher(L, F, c0)
<1>1. /\ InOrder(L) /\ n \in Nat /\ E \in Seq(EdgesOn(n))
      /\ ct.c0 \in Seq(Fld) /\ Len(ct.c0) \in {0, 1} /\ ct = Cipher(L, E, ct.c0)
  BY CipherOrder
<1>2. u = Scale(ct, s)
  <2>1. Scale(ct, s) = [ct EXCEPT !.E = F, !.c0 = c0]
    BY Zenon DEF Scale
  <2> HIDE DEF F, c0
  <2>. QED BY <1>1, <2>1 DEF Cipher
<1>3. IsFactors(L, r) /\ r \in [1..n -> Units]
  BY <1>1, FactorsAre DEF IsFactors
<1> HIDE DEF r
<1>4. f \in [EdgesOn(n) -> Int]
  BY <1>1, <1>3, TermIs
<1>5. ASSUME NEW i \in 1..Len(E)
      PROVE  F[i] \in EdgesOn(n) /\ Same(f[F[i]], s * f[E[i]]) /\ f[E[i]] \in Int
  <2> DEFINE e == E[i]
             w == e.w
             v == (w * s) % Prime
             d == [e EXCEPT !.w = v]
  <2>1. e \in EdgesOn(n) /\ F[i] = d
    BY <1>1
  <2> HIDE DEF e
  <2>2. w \in Int /\ w * s \in Int
    BY <2>1, <1>1, EdgeIs, Ints
  <2>3. v \in 0..Prime - 1 /\ v \in Int /\ Same(v, w * s)
    BY <2>2, ModType, SameMod DEF Fld
  <2> HIDE DEF v
  <2>4. /\ d \in EdgesOn(n) /\ d.idx = e.idx /\ d.ch = e.ch /\ d.layer = e.layer /\ d.w = v
    BY <2>1, <2>3 DEF EdgesOn
  <2> HIDE DEF d
  <2> DEFINE c == PerUnit(e, r)
             g == f[e]
             h == f[d]
  <2>5. PerUnit(d, r) = c
    BY <2>4 DEF PerUnit
  <2>6. c \in Int /\ Same(g, c * w) /\ Same(h, c * v) /\ g \in Int /\ h \in Int
    BY <2>1, <2>4, <2>5, <1>1, <1>3, <1>4, TermIs
  <2> HIDE DEF c, g, h, w
  <2>7. Same(c * v, c * (w * s))
    <3>1. Same(c, c)
      BY DEF Same
    <3>. QED BY <3>1, <2>2, <2>3, <2>6, SameTimes
  <2>8. Same(s * g, s * (c * w))
    <3>1. Same(s, s) /\ c * w \in Int
      BY <2>2, <2>6, Ints DEF Same
    <3>. QED BY <3>1, <2>6, SameTimes
  <2>9. s * (c * w) = c * (w * s)
    <3>1. s * (c * w) = (c * w) * s /\ (c * w) * s = c * (w * s)
      BY <2>2, <2>6
    <3>. QED BY <3>1
  <2>10. Same(h, s * g)
    BY <2>6, <2>7, <2>8, <2>9 DEF Same
  <2>. QED BY <2>1, <2>4, <2>6, <2>10 DEF e, g, h
<1>6. F \in Seq(EdgesOn(n)) /\ Len(F) = Len(E)
  <2>1. DOMAIN E = 1..Len(E) /\ Len(E) \in Nat
    BY <1>1
  <2>2. F = [i \in 1..Len(E) |-> F[i]]
    BY <2>1
  <2>3. \A i \in 1..Len(E) : F[i] \in EdgesOn(n)
    BY <1>5
  <2> HIDE DEF F, E, n
  <2>. QED BY <2>1, <2>2, <2>3
<1> DEFINE x == Over(f, E)
           y == Over(f, F)
           p == Const(ct.c0)
           q == Const(c0)
<1>7. y = (s * x) % Prime /\ x \in Int
  <2> DEFINE fe == [i \in DOMAIN E |-> f[E[i]]]
             ff == [i \in DOMAIN F |-> f[F[i]]]
  <2> HIDE DEF f, F
  <2>1. fe \in Seq(Int) /\ Len(fe) = Len(E) /\ x = SumOf(fe) /\ x \in Int
        /\ \A i \in 1..Len(E) : fe[i] = f[E[i]]
    BY SMTT(20), <1>1, <1>4, OverIs DEF Over
  <2>2. ff \in Seq(Int) /\ Len(ff) = Len(E) /\ y = SumOf(ff)
        /\ \A i \in 1..Len(E) : ff[i] = f[F[i]]
    BY <1>6, <1>4, OverIs DEF Over
  <2>3. \A i \in 1..Len(E) : Same(ff[i], s * fe[i])
    BY <1>5, <2>1, <2>2
  <2> HIDE DEF fe, ff
  <2>. QED BY <2>1, <2>2, <2>3, SumScaled
<1>8. /\ c0 \in Seq(Fld) /\ Len(c0) \in {0, 1}
      /\ Same(q, s * p) /\ p \in Int
  <2>1. \A j \in DOMAIN ct.c0 : /\ ct.c0[j] \in Int /\ ct.c0[j] * s \in Int
                               /\ (ct.c0[j] * s) % Prime \in Fld
    <3>1. \A j \in DOMAIN ct.c0 : ct.c0[j] \in Int
      BY <1>1, ModSmall
    <3>. QED BY <3>1, ModType, Ints
  <2>2. c0 \in Seq(Fld) /\ Len(c0) = Len(ct.c0)
    <3>1. DOMAIN ct.c0 = 1..Len(ct.c0) /\ Len(ct.c0) \in Nat
      BY <1>1
    <3>. QED BY <2>1, <3>1
  <2>3. CASE ct.c0 = <<>>
    <3>1. c0 = <<>> /\ s * 0 = 0
      BY <2>3
    <3>. QED BY <1>1, <2>2, <2>3, <3>1 DEF Const, Same
  <2>4. CASE ct.c0 # <<>>
    <3>1. Len(ct.c0) = 1 /\ 1 \in DOMAIN ct.c0 /\ c0 # <<>>
      BY <1>1, <2>2, <2>4
    <3>2. p = ct.c0[1] /\ q = (ct.c0[1] * s) % Prime
      BY <3>1, <2>4 DEF Const
    <3>3. Same(q, ct.c0[1] * s) /\ ct.c0[1] * s = s * ct.c0[1]
      BY <2>1, <3>1, <3>2, SameMod
    <3>. QED BY <1>1, <2>1, <2>2, <3>1, <3>2, <3>3
  <2>. QED BY <2>3, <2>4
<1>9. IsCipher(u) /\ u.L = L /\ u.E = F /\ u.c0 = c0
  <2> HIDE DEF F, c0
  <2>. QED BY <1>1, <1>6, <1>8, IsCipherIf DEF Cipher
<1>10. Dec(ct) = (p + x) % Prime
  BY <1>3, DecIs
<1>11. Dec(u) = (q + y) % Prime /\ q \in Int /\ y \in Int
  <2> HIDE DEF u
  <2>. QED BY <1>3, <1>9, DecIs
<1> HIDE DEF u, p, q, x, y, F, f
<1>12. Same(q + y, s * p + s * x)
  <2>1. Same(y, s * x) /\ s * x \in Int /\ s * p \in Int
    BY <1>7, <1>8, SameMod, Ints
  <2>. QED BY <2>1, <1>8, <1>11, SamePlus
<1>13. Same(s * Dec(ct), s * (p + x))
  <2>1. p + x \in Int /\ Same(s, s)
    BY <1>7, <1>8, Ints DEF Same
  <2>. QED BY <2>1, <1>10, SameMod, ModType, SameTimes
<1>14. s * (p + x) = s * p + s * x
  BY <1>7, <1>8
<1>. QED BY <1>2, <1>9, <1>11, <1>12, <1>13, <1>14 DEF Same
-----------------------------------------------------------------------------
(* compact_layers                                                           *)

\* The parents of the products in S.
Parents(L, S) == UNION {{L[l].pa, L[l].pb} : l \in {k \in S : L[k].rule = "prod"}}

\* They are layers, and each comes before a product of S.
LEMMA ParentsAre ==
  ASSUME NEW L, InOrder(L), NEW S \in SUBSET (1..Len(L))
  PROVE  /\ Parents(L, S) \in SUBSET (1..Len(L))
         /\ \A l \in S : L[l].rule = "prod" =>
              L[l].pa \in Parents(L, S) /\ L[l].pb \in Parents(L, S)
         /\ \A k \in Parents(L, S) : \E l \in S :
              L[l].rule = "prod" /\ k < l /\ k \in {L[l].pa, L[l].pb}
<1>1. \A k : k \in Parents(L, S) <=> \E l \in S : L[l].rule = "prod" /\ k \in {L[l].pa, L[l].pb}
  BY Zenon DEF Parents
<1>2. ASSUME NEW l \in S, L[l].rule = "prod"
      PROVE  L[l].pa \in 1..Len(L) /\ L[l].pb \in 1..Len(L) /\ L[l].pa < l /\ L[l].pb < l
  BY <1>2, LayerIs
<1> HIDE DEF Parents
<1>. QED BY <1>1, <1>2

\* No pass is missing: the layers that pass k finds are at most n - k.
LEMMA LiveAre ==
  ASSUME NEW ct, IsCipher(ct)
  PROVE  /\ LiveLayers(ct) \in SUBSET (1..Len(ct.L))
         /\ \A i \in DOMAIN ct.E : ct.E[i].layer \in LiveLayers(ct)
         /\ \A l \in LiveLayers(ct) : ct.L[l].rule = "prod" =>
              ct.L[l].pa \in LiveLayers(ct) /\ ct.L[l].pb \in LiveLayers(ct)
<1> DEFINE L == ct.L
           E == ct.E
           n == Len(L)
           D == SUBSET (1..n)
           used == {E[i].layer : i \in DOMAIN E}
           step == [k \in 1..n |-> [S \in D |-> S \cup Parents(L, S)]]
           Is(f) == f = [k \in 0..n |-> IF k = 0 THEN used ELSE f[k - 1] \cup
                           UNION {{L[l].pa, L[l].pb} : l \in {j \in f[k - 1] : L[j].rule = "prod"}}]
           live == CHOOSE f : Is(f)
<1>1. InOrder(L) /\ n \in Nat /\ E \in Seq(EdgesOn(n))
  BY CipherOrder
<1>2. used \in D
  <2>1. \A i \in DOMAIN E : E[i].layer \in 1..n
    BY <1>1, EdgeIs
  <2>. QED BY <2>1
<1>3. step \in [1..n -> [D -> D]] /\ \A k \in 1..n, S \in D : step[k][S] = S \cup Parents(L, S)
  <2>1. \A S \in D : S \cup Parents(L, S) \in D
    BY <1>1, ParentsAre
  <2>. QED BY <2>1
<1>4. PICK g \in [0..n -> D] : Iterates(g, used, n, step)
  <2> HIDE DEF D, used, step, n
  <2>. QED BY <1>1, <1>2, <1>3, Iteration
<1> HIDE DEF used, step
<1>5. g[0] = used /\ \A k \in 1..n : g[k] = g[k - 1] \cup Parents(L, g[k - 1]) /\ g[k - 1] \in D
  <2>1. \A k \in 1..n : g[k] = step[k][g[k - 1]]
    BY <1>4 DEF Iterates
  <2>2. \A k \in 1..n : k - 1 \in 0..n
    BY <1>1
  <2>3. \A k \in 1..n : g[k - 1] \in D
    BY <2>2, <1>4
  <2> HIDE DEF D, n
  <2>. QED BY <2>1, <2>3, <1>3, <1>4 DEF Iterates
<1>6. Is(g)
  <2>1. ASSUME NEW k \in 0..n
        PROVE  g[k] = IF k = 0 THEN used ELSE g[k - 1] \cup Parents(L, g[k - 1])
    <3>1. k = 0 \/ k \in 1..n
      BY <1>1
    <3>2. CASE k = 0
      BY <3>2, <1>5
    <3>3. CASE k \in 1..n /\ k # 0
      BY <3>3, <1>5
    <3>. QED BY <3>1, <3>2, <3>3
  <2>. QED BY <2>1, <1>4 DEF Parents
<1>7. Is(live)
  BY <1>6
<1>8. LiveLayers(ct) = live[n]
  BY DEF LiveLayers, used
<1> HIDE DEF live
<1>9. \A k \in 0..n : live[k] = IF k = 0 THEN used ELSE live[k - 1] \cup Parents(L, live[k - 1])
  BY <1>7 DEF Parents
<1> DEFINE T == {k \in Nat : k <= n => live[k] = g[k]}
<1>10. 0 \in T
  <2>1. 0 \in 0..n
    BY <1>1
  <2>2. live[0] = used
    BY <2>1, <1>9
  <2>. QED BY <2>2, <1>5
<1>11. ASSUME NEW k \in Nat, k \in T PROVE k + 1 \in T
  <2> SUFFICES ASSUME k + 1 <= n PROVE live[k + 1] = g[k + 1]
    OBVIOUS
  <2>1. live[k] = g[k] /\ (k + 1) - 1 = k /\ k + 1 \in 1..n /\ k + 1 \in 0..n /\ k + 1 # 0
    BY <1>1, <1>11
  <2>2. live[k + 1] = live[k] \cup Parents(L, live[k])
    BY <2>1, <1>9
  <2>3. g[k + 1] = g[k] \cup Parents(L, g[k])
    BY <2>1, <1>5
  <2>. QED BY <2>1, <2>2, <2>3
<1>12. LiveLayers(ct) = g[n]
  <2>1. n \in T
    <3> HIDE DEF T
    <3>. QED BY <1>1, <1>10, <1>11, NatInduct
  <2>. QED BY <2>1, <1>1, <1>8
\* What is there at pass k and was not before it.
<1> DEFINE U == {k \in Nat : k <= n => /\ used \subseteq g[k]
                                       /\ \A l \in g[k] : k = 0 \/ l \notin g[k - 1] => l <= n - k}
<1>13. 0 \in U
  <2>1. \A l \in used : l <= n - 0
    BY <1>1, <1>2
  <2>. QED BY <2>1, <1>5
<1>14. ASSUME NEW k \in Nat, k \in U PROVE k + 1 \in U
  <2> SUFFICES ASSUME k + 1 <= n
               PROVE  /\ used \subseteq g[k + 1]
                      /\ \A l \in g[k + 1] : l \notin g[k] => l <= n - (k + 1)
    OBVIOUS
  <2>1. /\ g[k + 1] = g[k] \cup Parents(L, g[k]) /\ g[k] \in D /\ used \subseteq g[k]
        /\ \A l \in g[k] : k = 0 \/ l \notin g[k - 1] => l <= n - k
    <3>1. k + 1 \in 1..n /\ (k + 1) - 1 = k
      BY <1>1
    <3>2. g[k + 1] = g[k] \cup Parents(L, g[k]) /\ g[k] \in D
      BY <3>1, <1>5
    <3>. QED BY <1>14, <3>2
  <2>2. ASSUME NEW l \in g[k + 1], l \notin g[k] PROVE l <= n - (k + 1)
    <3>1. PICK m \in g[k] : L[m].rule = "prod" /\ l < m /\ l \in {L[m].pa, L[m].pb}
      BY <2>1, <2>2, <1>1, ParentsAre
    <3>2. k = 0 \/ m \notin g[k - 1]
      <4> SUFFICES ASSUME k # 0, m \in g[k - 1] PROVE FALSE
        OBVIOUS
      <4>1. k \in 1..n
        BY <1>1
      <4>2. g[k] = g[k - 1] \cup Parents(L, g[k - 1]) /\ g[k - 1] \in D
        BY <4>1, <1>5
      <4>3. l \in Parents(L, g[k - 1])
        BY <3>1, <4>2, <1>1, ParentsAre
      <4>. QED BY <4>2, <4>3, <2>2
    <3>3. m <= n - k /\ m \in Int
      BY <2>1, <3>1, <3>2
    <3>4. l \in Int
      BY <3>1, <2>1, <1>1, LayerIs
    <3>. QED BY <3>1, <3>3, <3>4, <1>1
  <2>. QED BY <2>1, <2>2
<1>15. /\ used \subseteq g[n] /\ g[n] \in D
       /\ \A l \in g[n] : n = 0 \/ l \notin g[n - 1] => l <= 0
  <2>1. n \in U
    <3> HIDE DEF U
    <3>. QED BY <1>1, <1>13, <1>14, NatInduct
  <2>2. n - n = 0 /\ n \in 0..n
    BY <1>1
  <2>. QED BY <2>1, <2>2, <1>1, <1>4
<1>16. ASSUME NEW l \in g[n], L[l].rule = "prod" PROVE L[l].pa \in g[n] /\ L[l].pb \in g[n]
  <2>1. l \in 1..n /\ n \in 1..n
    BY <1>15, <1>1
  <2>2. l \in g[n - 1]
    BY <2>1, <1>15
  <2>3. g[n] = g[n - 1] \cup Parents(L, g[n - 1]) /\ g[n - 1] \in D
    BY <2>1, <1>5
  <2>4. L[l].pa \in Parents(L, g[n - 1]) /\ L[l].pb \in Parents(L, g[n - 1])
    BY <2>2, <2>3, <1>1, <1>16, ParentsAre
  <2>. QED BY <2>3, <2>4
<1>17. \A i \in DOMAIN E : E[i].layer \in used
  BY DEF used
<1>. QED BY <1>12, <1>15, <1>16, <1>17

\* compact_layers keeps a cipher and its plaintext.
THEOREM CompactLayersIs ==
  ASSUME NEW ct, IsCipher(ct)
  PROVE  IsCipher(CompactLayers(ct)) /\ Dec(CompactLayers(ct)) = Dec(ct)
<1> DEFINE L == ct.L
           E == ct.E
           n == Len(L)
           live == LiveLayers(ct)
           m == Cardinality(live)
           new(l) == Cardinality({k \in live : k <= l})
           old(i) == CHOOSE l \in live : new(l) = i
           kept(layer) == IF layer.rule = "prod" THEN Prod(new(layer.pa), new(layer.pb)) ELSE layer
           M == [i \in 1..m |-> kept(L[old(i)])]
           F == [i \in DOMAIN E |-> [E[i] EXCEPT !.layer = new(E[i].layer)]]
           u == Cipher(M, F, ct.c0)
           r == LayerFactors(ct)
           t == [i \in 1..m |-> r[old(i)]]
<1>1. /\ InOrder(L) /\ n \in Nat /\ E \in Seq(EdgesOn(n))
      /\ ct.c0 \in Seq(Fld) /\ Len(ct.c0) \in {0, 1} /\ ct = Cipher(L, E, ct.c0)
  BY CipherOrder
<1>2. CompactLayers(ct) = IF m = n THEN ct ELSE [ct EXCEPT !.L = M, !.E = F]
  BY Zenon DEF CompactLayers
<1>3. [ct EXCEPT !.L = M, !.E = F] = u
  <2> DEFINE d == [ct EXCEPT !.L = M, !.E = F]
  <2>1. ct = [L |-> L, E |-> E, c0 |-> ct.c0]
    BY <1>1 DEF Cipher
  <2>2. d = [ct EXCEPT !.L = M, !.E = F]
    OBVIOUS
  <2> HIDE DEF d, M, F, L, E
  <2>3. d = [L |-> M, E |-> F, c0 |-> ct.c0]
    BY <2>1, <2>2
  <2>. QED BY <2>3 DEF Cipher, d
<1>4. IsFactors(L, r) /\ r \in [1..n -> Units]
  BY <1>1, FactorsAre DEF IsFactors
<1>5. /\ live \in SUBSET (1..n)
      /\ \A i \in DOMAIN E : E[i].layer \in live
      /\ \A l \in live : L[l].rule = "prod" => L[l].pa \in live /\ L[l].pb \in live
  BY LiveAre
<1> HIDE DEF live, r
<1>6. /\ m \in Nat
      /\ \A l \in live : new(l) \in 1..m /\ new(l) \in Nat \ {0}
      /\ \A k, l \in live : k < l => new(k) < new(l)
      /\ \A i \in 1..m : \E l \in live : new(l) = i
  <2>1. /\ m \in Nat
        /\ \A l \in live : Rank(live, l) \in 1..m
        /\ \A k, l \in live : k < l => Rank(live, k) < Rank(live, l)
        /\ \A i \in 1..m : \E l \in live : Rank(live, l) = i
    <3>1. n \in Nat /\ live \in SUBSET (1..n)
      BY <1>1, <1>5
    <3> HIDE DEF n
    <3>2. m \in Nat /\ \A l \in live : Rank(live, l) \in 1..m
      BY <3>1, Ranks
    <3>3. \A k, l \in live : k < l => Rank(live, k) < Rank(live, l)
      BY <3>1, Ranks
    <3>4. ASSUME NEW i \in 1..m PROVE \E l \in live : Rank(live, l) = i
      BY <3>1, <3>4, Ranks
    <3>. QED BY <3>2, <3>3, <3>4
  <2>2. \A l : new(l) = Rank(live, l)
    BY Zenon DEF Rank
  <2>3. \A i \in 1..m : i \in Nat \ {0}
    BY <2>1
  <2> HIDE DEF new, m
  <2>. QED BY <2>1, <2>2, <2>3
<1> HIDE DEF new
<1>7. \A i \in 1..m : old(i) \in live /\ new(old(i)) = i
  BY <1>6
<1>8. \A l \in live : old(new(l)) = l
  <2> SUFFICES ASSUME NEW l \in live PROVE old(new(l)) = l
    OBVIOUS
  <2>1. old(new(l)) \in live /\ new(old(new(l))) = new(l) /\ new(l) \in Nat
    BY <1>6, <1>7
  <2> DEFINE k == old(new(l))
  <2>2. k \in Int /\ l \in Int
    <3>1. k \in 1..n /\ l \in 1..n
      BY <2>1, <1>5
    <3>. QED BY <3>1
  <2> HIDE DEF k
  <2>3. ~(k < l) /\ ~(l < k)
    BY <2>1, <1>6 DEF k
  <2>. QED BY <2>2, <2>3 DEF k
<1> HIDE DEF old, m
<1>9. \A l \in live : new(l) \in 1..m /\ t[new(l)] = r[l] /\ r[l] \in Units
  BY <1>4, <1>5, <1>6, <1>8
<1>10. ASSUME NEW i \in 1..m
       PROVE  /\ M[i] \in Layers /\ t[i] = FactorOf(M, t, i) /\ t[i] \in Units
              /\ M[i].rule = "prod" => M[i].pa < i /\ M[i].pb < i
  <2> DEFINE l == old(i)
  <2>1. l \in live /\ l \in 1..n /\ new(l) = i
    BY <1>5, <1>7
  <2>2. t[i] = r[l] /\ r[l] = FactorOf(L, r, l) /\ r[l] \in Units /\ M[i] = kept(L[l])
    BY <2>1, <1>4 DEF IsFactors
  <2> HIDE DEF l
  <2>3. CASE L[l].rule = "base" /\ L[l] \in Layers
    <3>1. M[i] = L[l]
      BY <2>2, <2>3
    <3>. QED BY <2>2, <2>3, <3>1 DEF FactorOf
  <2>4. CASE L[l].rule = "prod" /\ L[l].rule # "base" /\ L[l].pa < l /\ L[l].pb < l
    <3> DEFINE a == L[l].pa
               b == L[l].pb
               x == new(a)
               y == new(b)
    <3>1. a \in live /\ b \in live
      BY <2>1, <2>4, <1>5
    <3>2. x \in 1..m /\ y \in 1..m /\ x \in Nat \ {0} /\ y \in Nat \ {0} /\ x < i /\ y < i
      BY <2>1, <2>4, <3>1, <1>6
    <3>3. t[x] = r[a] /\ t[y] = r[b] /\ t[x] \in Int /\ t[y] \in Int
      <4>1. t[x] = r[a] /\ t[y] = r[b] /\ r[a] \in Units /\ r[b] \in Units
        BY <3>1, <1>9
      <4>2. \A z \in Units : z \in Int
        BY DEF Units
      <4>. QED BY <4>1, <4>2
    <3>4. M[i] = Prod(x, y)
      BY <2>2, <2>4
    <3>5. r[l] = (r[a] * r[b]) % Prime
      BY <2>2, <2>4 DEF FactorOf
    <3> HIDE DEF a, b, x, y, t, M
    <3>6. /\ Prod(x, y) \in Layers /\ Prod(x, y).rule # "base"
          /\ \/ Prod(x, y).pa = x /\ Prod(x, y).pb = y
             \/ Prod(x, y).pa = y /\ Prod(x, y).pb = x
      BY <3>2 DEF Prod, Layers
    <3>7. FactorOf(M, t, i) = (t[Prod(x, y).pa] * t[Prod(x, y).pb]) % Prime
      BY <3>4, <3>6 DEF FactorOf
    <3>8. t[Prod(x, y).pa] * t[Prod(x, y).pb] = t[x] * t[y]
      BY <3>3, <3>6
    <3>. QED BY <2>2, <3>2, <3>3, <3>4, <3>5, <3>6, <3>7, <3>8
  <2>. QED BY <2>1, <2>3, <2>4, <1>1, LayerIs
<1>11. InOrder(M) /\ Len(M) = m
  <2>1. M = [i \in 1..m |-> M[i]]
    OBVIOUS
  <2> HIDE DEF M
  <2>2. M \in Seq(Layers) /\ Len(M) = m
    <3>1. \A i \in 1..m : M[i] \in Layers
      BY <1>10
    <3>. QED BY <1>6, <2>1, <3>1
  <2>. QED BY <2>1, <2>2, <1>10 DEF InOrder
<1>12. IsFactors(M, t) /\ t \in [1..m -> Units]
  <2>1. t = [i \in 1..m |-> t[i]]
    OBVIOUS
  <2> HIDE DEF M, t
  <2>. QED BY <2>1, <1>10, <1>11 DEF IsFactors
<1>13. ASSUME NEW i \in 1..Len(E)
       PROVE  /\ F[i] \in EdgesOn(m) /\ F[i].idx = E[i].idx /\ F[i].ch = E[i].ch /\ F[i].w = E[i].w
              /\ t[F[i].layer] = r[E[i].layer]
  <2> DEFINE e == E[i]
             x == new(e.layer)
             d == [e EXCEPT !.layer = x]
  <2>1. e \in EdgesOn(n) /\ F[i] = d /\ e.layer \in live
    BY <1>1, <1>5
  <2>2. x \in 1..m /\ t[x] = r[e.layer]
    BY <2>1, <1>9
  <2> HIDE DEF e, x
  <2>3. d \in EdgesOn(m) /\ d.idx = e.idx /\ d.ch = e.ch /\ d.w = e.w /\ d.layer = x
    BY <2>1, <2>2 DEF EdgesOn
  <2> HIDE DEF d
  <2>. QED BY <2>1, <2>2, <2>3 DEF e
<1>14. F \in Seq(EdgesOn(m)) /\ Len(F) = Len(E)
  <2>1. F = [i \in 1..Len(E) |-> F[i]] /\ Len(E) \in Nat
    BY <1>1
  <2>2. \A i \in 1..Len(E) : F[i] \in EdgesOn(m)
    BY <1>13
  <2> HIDE DEF F, E
  <2>. QED BY <2>1, <2>2
<1> HIDE DEF M, F, t
<1>15. Over(Term(m, t), F) = Over(Term(n, r), E)
  <2>1. n \in Nat /\ E \in Seq(EdgesOn(n)) /\ r \in [1..n -> Units]
    BY <1>1, <1>4
  <2>2. m \in Nat /\ F \in Seq(EdgesOn(m)) /\ t \in [1..m -> Units] /\ Len(F) = Len(E)
    BY <1>6, <1>12, <1>14
  <2>3. \A i \in 1..Len(E) : /\ F[i].idx = E[i].idx /\ F[i].ch = E[i].ch /\ F[i].w = E[i].w
                              /\ t[F[i].layer] = r[E[i].layer]
    BY <1>13
  <2> HIDE DEF n, E
  <2>. QED BY <2>1, <2>2, <2>3, Relabelled
<1>16. IsCipher(u) /\ u.L = M /\ u.E = F /\ u.c0 = ct.c0
  BY <1>1, <1>11, <1>14, IsCipherIf DEF Cipher
<1>17. Dec(u) = (Const(ct.c0) + Over(Term(m, t), F)) % Prime
  <2> HIDE DEF u
  <2>. QED BY <1>11, <1>12, <1>16, DecIs
<1>18. Dec(ct) = (Const(ct.c0) + Over(Term(n, r), E)) % Prime
  BY <1>4, DecIs
<1>. QED BY <1>2, <1>3, <1>15, <1>16, <1>17, <1>18
-----------------------------------------------------------------------------
(* Sums and differences.                                                    *)

\* A plaintext is an element of the field.
LEMMA DecType == ASSUME NEW ct, IsCipher(ct) PROVE Dec(ct) \in Fld /\ Dec(ct) \in Int
<1>1. InOrder(ct.L)
  BY CipherOrder
<1>2. IsFactors(ct.L, LayerFactors(ct))
  BY <1>1, FactorsAre
<1> DEFINE x == Const(ct.c0)
           y == Over(Term(Len(ct.L), LayerFactors(ct)), ct.E)
<1>3. Dec(ct) = (x + y) % Prime /\ x \in Int /\ y \in Int
  BY <1>2, DecIs
<1> HIDE DEF x, y
<1>. QED BY <1>3, ModType

\* ct_add: the plaintext is the sum.
THEOREM AddIs ==
  ASSUME NEW a, IsCipher(a), NEW b, IsCipher(b)
  PROVE  IsCipher(Add(a, b)) /\ Dec(Add(a, b)) = (Dec(a) + Dec(b)) % Prime
<1> DEFINE c0 == IF a.c0 = <<>> THEN b.c0 ELSE IF b.c0 = <<>> THEN a.c0
                 ELSE <<(a.c0[1] + b.c0[1]) % Prime>>
           u == Cipher(a.L \o LayersAfter(b.L, Len(a.L)), a.E \o EdgesAfter(b.E, Len(a.L)), c0)
<1>1. /\ a.c0 \in Seq(Fld) /\ Len(a.c0) \in {0, 1}
      /\ b.c0 \in Seq(Fld) /\ Len(b.c0) \in {0, 1}
  BY CipherOrder
<1>2. /\ a.c0 = <<>> \/ a.c0[1] \in Fld
      /\ b.c0 = <<>> \/ b.c0[1] \in Fld
  BY <1>1
<1>3. c0 \in Seq(Fld) /\ Len(c0) \in {0, 1} /\ Same(Const(c0), Const(a.c0) + Const(b.c0))
  <2>1. CASE a.c0 = <<>>
    <3>1. Const(b.c0) \in Int
      BY <1>2, ModSmall DEF Const
    <3>2. 0 + Const(b.c0) = Const(b.c0) /\ Const(a.c0) = 0
      BY <2>1, <3>1 DEF Const
    <3>. QED BY <1>1, <2>1, <3>2 DEF Same
  <2>2. CASE a.c0 # <<>> /\ b.c0 = <<>>
    <3>1. Const(a.c0) \in Int
      BY <1>2, <2>2, ModSmall DEF Const
    <3>2. Const(a.c0) + 0 = Const(a.c0) /\ Const(b.c0) = 0
      BY <2>2, <3>1 DEF Const
    <3>. QED BY <1>1, <2>2, <3>2 DEF Same
  <2>3. CASE a.c0 # <<>> /\ b.c0 # <<>>
    <3> DEFINE x == a.c0[1]
               y == b.c0[1]
               z == (x + y) % Prime
    <3>1. x \in Int /\ y \in Int /\ x + y \in Int
      BY <1>2, <2>3, ModSmall
    <3>2. z \in Fld /\ Same(z, x + y)
      BY <3>1, ModType, SameMod
    <3>3. c0 = <<z>> /\ Const(a.c0) = x /\ Const(b.c0) = y
      BY <2>3 DEF Const
    <3> HIDE DEF x, y, z, c0
    <3>4. <<z>> \in Seq(Fld) /\ Len(<<z>>) = 1 /\ Const(<<z>>) = z
      BY <3>2 DEF Const
    <3>. QED BY <3>2, <3>3, <3>4
  <2>. QED BY <2>1, <2>2, <2>3
<1>4. IsCipher(u) /\ Dec(u) = (Dec(a) + Dec(b)) % Prime
  <2> HIDE DEF c0
  <2>. QED BY <1>3, ConcatIs
<1>5. Add(a, b) = CompactLayers(WithinBudget(u))
  BY DEF Add
<1> HIDE DEF u
<1>. QED BY <1>4, <1>5, WithinBudgetIs, CompactLayersIs

\* ct_neg: the plaintext is negated.
LEMMA NegIs ==
  ASSUME NEW ct, IsCipher(ct)
  PROVE  IsCipher(Neg(ct)) /\ Same(Dec(Neg(ct)), -Dec(ct)) /\ Dec(Neg(ct)) \in Int
<1> DEFINE x == Dec(ct)
<1>1. x \in Int /\ Prime \in Int /\ Prime - 1 \in Int /\ -x \in Int
  BY DecType, CiphersAssumption
<1>2. IsCipher(Neg(ct)) /\ Dec(Neg(ct)) = ((Prime - 1) * x) % Prime
  BY <1>1, ScaleIs DEF Neg
<1> HIDE DEF x
<1>3. (Prime - 1) * x = -x + x * Prime /\ (Prime - 1) * x \in Int
  BY <1>1, Ints
<1>4. Same(-x + x * Prime, -x)
  BY <1>1, SameShift
<1>5. Same(((Prime - 1) * x) % Prime, (Prime - 1) * x)
  BY <1>3, SameMod
<1>. QED BY <1>2, <1>3, <1>4, <1>5, ModType DEF Same, x

\* ct_sub: the plaintext is the difference.
THEOREM SubIs ==
  ASSUME NEW a, IsCipher(a), NEW b, IsCipher(b)
  PROVE  IsCipher(Sub(a, b)) /\ Dec(Sub(a, b)) = (Dec(a) - Dec(b)) % Prime
<1> DEFINE x == Dec(a)
           y == Dec(b)
           n == Neg(b)
           z == Dec(n)
<1>1. IsCipher(n) /\ Same(z, -y) /\ z \in Int /\ x \in Int /\ y \in Int
  BY NegIs, DecType
<1>2. IsCipher(Sub(a, b)) /\ Dec(Sub(a, b)) = (x + z) % Prime
  BY <1>1, AddIs DEF Sub
<1> HIDE DEF x, y, z
<1>3. Same(x + z, x + (-y)) /\ x + (-y) = x - y
  <2>1. Same(x, x) /\ -y \in Int
    BY <1>1 DEF Same
  <2>. QED BY <2>1, <1>1, SamePlus
<1>. QED BY <1>2, <1>3 DEF Same, x, y

\* ct_add_const: if the cipher has a constant, it is added to the plaintext.
LEMMA AddConstIs ==
  ASSUME NEW ct, IsCipher(ct), NEW k \in Int
  PROVE  /\ IsCipher(AddConst(ct, k)) /\ AddConst(ct, k).L = ct.L /\ AddConst(ct, k).E = ct.E
         /\ ct.c0 # <<>> => Dec(AddConst(ct, k)) = (Dec(ct) + k) % Prime
<1> DEFINE L == ct.L
           E == ct.E
           d == ct.c0
           c0 == [j \in DOMAIN d |-> (d[j] + k) % Prime]
           u == Cipher(L, E, c0)
           r == LayerFactors(ct)
           w == AddConst(ct, k)
<1>1. /\ InOrder(L) /\ Len(L) \in Nat /\ E \in Seq(EdgesOn(Len(L)))
      /\ d \in Seq(Fld) /\ Len(d) \in {0, 1} /\ ct = [L |-> L, E |-> E, c0 |-> d]
  BY CipherOrder DEF Cipher
<1>2. IsFactors(L, r)
  BY <1>1, FactorsAre
<1>3. w = u
  <2>1. w = [ct EXCEPT !.c0 = c0]
    BY Zenon DEF AddConst
  <2> HIDE DEF w, c0, L, E, d
  <2>2. w = [L |-> L, E |-> E, c0 |-> c0]
    BY <1>1, <2>1
  <2>. QED BY <2>2 DEF Cipher
<1>4. c0 \in Seq(Fld) /\ Len(c0) = Len(d)
  <2>1. \A j \in DOMAIN d : (d[j] + k) % Prime \in Fld
    <3>1. \A j \in DOMAIN d : d[j] \in Int
      BY <1>1, ModSmall
    <3>2. \A j \in DOMAIN d : d[j] + k \in Int
      BY <3>1
    <3>. QED BY <3>2, ModType
  <2>2. DOMAIN d = 1..Len(d) /\ Len(d) \in Nat
    BY <1>1
  <2>. QED BY <2>1, <2>2
<1> HIDE DEF w
<1>5. IsCipher(w) /\ w.L = L /\ w.E = E /\ w.c0 = c0
  <2> HIDE DEF c0
  <2>. QED BY <1>1, <1>3, <1>4, IsCipherIf DEF Cipher
<1>6. ASSUME d # <<>> PROVE Dec(w) = (Dec(ct) + k) % Prime
  <2> DEFINE x == d[1]
             y == Over(Term(Len(L), r), E)
  <2>1. x \in Int /\ 1 \in DOMAIN d /\ c0 # <<>>
    BY <1>1, <1>4, <1>6, ModSmall
  <2>2. Const(d) = x /\ Const(c0) = (x + k) % Prime
    BY <1>6, <2>1 DEF Const
  <2>3. Dec(ct) = (x + y) % Prime /\ y \in Int
    BY <1>2, <2>2, DecIs
  <2>4. Dec(w) = (((x + k) % Prime) + y) % Prime
    <3>1. IsFactors(w.L, r)
      BY <1>2, <1>5
    <3>. QED BY <1>5, <2>2, <3>1, DecIs
  <2> HIDE DEF x, y
  <2>5. Same(((x + k) % Prime) + y, (x + k) + y)
    <3>1. x + k \in Int /\ (x + k) % Prime \in Int /\ Same(y, y)
      BY <2>1, ModType DEF Same
    <3>. QED BY <3>1, <2>3, SameMod, SamePlus
  <2>6. Same(((x + y) % Prime) + k, (x + y) + k)
    <3>1. x + y \in Int /\ (x + y) % Prime \in Int /\ Same(k, k)
      BY <2>1, <2>3, ModType DEF Same
    <3>. QED BY <3>1, SameMod, SamePlus
  <2>7. (x + k) + y = (x + y) + k
    BY <2>1, <2>3
  <2>. QED BY <2>3, <2>4, <2>5, <2>6, <2>7 DEF Same
<1>. QED BY <1>5, <1>6 DEF w
-----------------------------------------------------------------------------
(* Encryption.                                                              *)

\* Edges with or without a layer, and what they give.
Given == Nodes \cup EdgesOn(1)
Weights == [e \in Given |-> Weight(e)]

\* The parts of such an edge, typed.
LEMMA GivenIs ==
  ASSUME NEW e \in Given
  PROVE  /\ e.idx \in 0..B - 1 /\ e.idx \in Int /\ e.ch \in {1, -1} /\ e.ch \in Int
         /\ e.w \in Fld /\ e.w \in Int
         /\ Gen(e.idx) \in Units /\ Gen(e.idx) \in Int /\ Weight(e) \in Int
         /\ Weights[e] = Weight(e)
<1>1. e.idx \in 0..B - 1 /\ e.ch \in {1, -1} /\ e.w \in Fld
  BY DEF Given, Nodes, EdgesOn, Fld
<1>2. /\ e.idx \in Int /\ e.ch \in Int /\ e.w \in Int
      /\ Gen(e.idx) \in Units /\ Gen(e.idx) \in Int
  <2>1. \A i \in 0..B - 1 : i \in Int
    BY CiphersAssumption
  <2>2. 1 \in Int /\ -1 \in Int
    OBVIOUS
  <2>. QED BY <1>1, <2>1, <2>2, ModSmall, GenUnit
<1>. QED BY <1>1, <1>2, Ints DEF Weight, Weights

\* Weights is a function to the integers.
LEMMA WeightsType == Weights \in [Given -> Int]
  BY GivenIs DEF Weights

\* Total of weights is Over of them.
LEMMA TotalIs ==
  ASSUME NEW s \in Seq(Given)
  PROVE  Total(Weight, s) = Over(Weights, s) /\ Over(Weights, s) \in Int
<1>1. \A i \in DOMAIN s : Weights[s[i]] = Weight(s[i])
  <2>1. \A i \in DOMAIN s : s[i] \in Given
    OBVIOUS
  <2>. QED BY <2>1, GivenIs
<1>2. [i \in DOMAIN s |-> Weight(s[i])] = [i \in DOMAIN s |-> Weights[s[i]]]
  BY <1>1
<1>. QED BY <1>2, WeightsType, OverIs DEF Total, Over

\* An edge that is put on layer l.
LEMMA EdgeOn ==
  ASSUME NEW n \in Nat, NEW l \in 1..n, NEW i \in 0..B - 1, NEW c \in {1, -1}, NEW w \in Int,
         NEW e, e = Edge(l, i, c, w)
  PROVE  e \in EdgesOn(n) /\ e.layer = l /\ Weight(e) \in Int /\ Same(Weight(e), (c * w) * Gen(i))
<1> DEFINE v == w % Prime
           g == Gen(i)
<1>1. v \in 0..Prime - 1 /\ v \in Int /\ Same(v, w)
  BY ModType, SameMod DEF Fld
<1>2. e = [layer |-> l, idx |-> i, ch |-> c, w |-> v]
  BY DEF Edge
<1> HIDE DEF v
<1>3. e \in EdgesOn(n) /\ e.layer = l
  BY <1>2, <1>1 DEF EdgesOn
<1>4. Weight(e) = c * v * g
  BY <1>2 DEF Weight
<1>5. g \in Int /\ c \in Int /\ c * v \in Int /\ c * w \in Int
  BY <1>1, GenUnit, Ints
<1> HIDE DEF g
<1>6. Same(c * v, c * w)
  <2>1. Same(c, c)
    BY DEF Same
  <2>. QED BY <2>1, <1>1, <1>5, SameTimes
<1>7. Same((c * v) * g, (c * w) * g) /\ (c * v) * g \in Int
  <2>1. Same(g, g)
    BY DEF Same
  <2>. QED BY <2>1, <1>5, <1>6, Ints, SameTimes
<1>. QED BY <1>3, <1>4, <1>7 DEF v, g

\* The edges that the builders make for layer 1.
LEMMA EdgeGiven ==
  ASSUME NEW i \in 0..B - 1, NEW c \in {1, -1}, NEW w \in Int
  PROVE  LET e == Edge(1, i, c, w)
         IN e \in EdgesOn(1) /\ e \in Given /\ Same(Weights[e], (c * w) * Gen(i))
<1> DEFINE e == Edge(1, i, c, w)
<1>1. 1 \in Nat /\ 1 \in 1..1
  OBVIOUS
<1>2. e \in EdgesOn(1) /\ Same(Weight(e), (c * w) * Gen(i))
  BY <1>1, EdgeOn
<1> HIDE DEF e
<1>3. e \in Given /\ Weights[e] = Weight(e)
  BY <1>2, GivenIs DEF Given
<1>. QED BY <1>2, <1>3 DEF e

\* Signs are their own inverses.
LEMMA Signs == \A c \in {1, -1} : \A x \in Int : c \in Int /\ c * x \in Int /\ c * (c * x) = x
  OBVIOUS

\* What an inverse takes away.
LEMMA CancelWith ==
  ASSUME NEW g \in Int, NEW i \in Int, Same(g * i, 1), NEW x \in Int
  PROVE  Same((x * i) * g, x) /\ x * i \in Int
<1>1. x * i \in Int /\ g * i \in Int
  BY Ints
<1>2. (x * i) * g = x * (g * i) /\ x * 1 = x
  OBVIOUS
<1>3. Same(x * (g * i), x * 1)
  <2>1. Same(x, x)
    BY DEF Same
  <2>. QED BY <2>1, <1>1, SameTimes
<1>. QED BY <1>1, <1>2, <1>3

\* The same for Inverse1.
LEMMA Cancel ==
  ASSUME NEW g \in Units, NEW x \in Int
  PROVE  Same((x * Inverse1(g)) * g, x) /\ x * Inverse1(g) \in Int
<1>1. g \in Int /\ Inverse1(g) \in Int /\ Same(g * Inverse1(g), 1)
  BY InverseIs DEF Units
<1>. QED BY <1>1, CancelWith

\* The last of some nodes completes a target, whatever undoes its power of g.
LEMMA Completed ==
  ASSUME NEW target \in Int, NEW nodes \in Seq(Nodes), Len(nodes) > 0,
         NEW inv \in Int, Same(Gen(Last(nodes).idx) * inv, 1)
  PROVE  LET rest == target - Total(Weight, Front(nodes))
             all == [nodes EXCEPT ![Len(nodes)].w = (Last(nodes).ch * rest * inv) % Prime]
         IN /\ all \in Seq(Given) /\ Over(Weights, all) = target % Prime
            /\ rest \in Int /\ Last(nodes).ch * rest * inv \in Int
<1> DEFINE n == Len(nodes)
           front == Front(nodes)
           last == Last(nodes)
           rest == target - Total(Weight, front)
           g == Gen(last.idx)
           c == last.ch
           w == (c * rest * inv) % Prime
           d == [last EXCEPT !.w = w]
           all == [nodes EXCEPT ![n].w = w]
<1>1. /\ n \in Nat /\ n \in 1..n /\ front \in Seq(Given) /\ last \in Nodes /\ last \in Given
      /\ Len(front) = n - 1 /\ \A i \in 1..n - 1 : front[i] = nodes[i]
      /\ \A i \in 1..n : nodes[i] \in Nodes /\ last = nodes[n]
  <2>1. n \in Nat /\ n \in 1..n /\ \A i \in 1..n : nodes[i] \in Nodes
    OBVIOUS
  <2>2. front = [i \in 1..n - 1 |-> nodes[i]]
    BY DEF Front
  <2>3. last = nodes[n]
    BY DEF Last
  <2>4. front \in Seq(Nodes) /\ Len(front) = n - 1 /\ \A i \in 1..n - 1 : front[i] = nodes[i]
    <3> HIDE DEF n, front
    <3>. QED BY <2>1, <2>2
  <2>5. Nodes \subseteq Given
    BY DEF Given
  <2> HIDE DEF n, front, last
  <2>. QED BY <2>1, <2>3, <2>4, <2>5
<1> HIDE DEF n, front, last
<1>2. rest = target - Over(Weights, front) /\ rest \in Int /\ Over(Weights, front) \in Int
  <2>1. Total(Weight, front) = Over(Weights, front) /\ Over(Weights, front) \in Int
    BY <1>1, TotalIs
  <2>. QED BY <2>1
<1>3. /\ c \in {1, -1} /\ c \in Int /\ g \in Int /\ last.idx \in 0..B - 1
      /\ Same(g * inv, 1)
  BY <1>1, GivenIs DEF last
<1> HIDE DEF rest, g, c
<1>4. c * rest \in Int /\ c * rest * inv \in Int
      /\ Same(((c * rest) * inv) * g, c * rest)
  BY <1>2, <1>3, Ints, CancelWith
<1>5. w \in 0..Prime - 1 /\ w \in Int /\ Same(w, c * rest * inv)
  BY <1>4, ModType, SameMod DEF Fld
<1> HIDE DEF w
<1>6. d \in Nodes /\ d.idx = last.idx /\ d.ch = last.ch /\ d.w = w /\ d \in Given
  BY <1>1, <1>5 DEF Nodes, Given
<1> HIDE DEF d
<1>7. Weights[d] = (c * w) * g
  <2>1. Weights[d] = d.ch * d.w * Gen(d.idx)
    BY <1>6, GivenIs DEF Weight
  <2>. QED BY <2>1, <1>6 DEF c, g
<1>8. Same((c * w) * g, rest)
  <2>1. (c * w) * g = c * (w * g) /\ c * w \in Int /\ w * g \in Int
    BY <1>3, <1>5
  <2>2. Same(w * g, (c * rest * inv) * g)
    <3>1. Same(g, g)
      BY DEF Same
    <3>. QED BY <3>1, <1>3, <1>4, <1>5, SameTimes
  <2>3. Same(w * g, c * rest)
    BY <2>2, <1>4 DEF Same
  <2>4. Same(c * (w * g), c * (c * rest))
    <3>1. Same(c, c)
      BY DEF Same
    <3>. QED BY <3>1, <2>1, <2>3, <1>3, <1>4, SameTimes
  <2>5. c * (c * rest) = rest
    BY <1>2, <1>3, Signs
  <2>. QED BY <2>1, <2>4, <2>5
<1>9. all = front \o <<d>>
  <2>1. all = [nodes EXCEPT ![n] = d]
    BY <1>1 DEF d
  <2>2. DOMAIN nodes = 1..n
    BY <1>1 DEF n
  <2> DEFINE s == [nodes EXCEPT ![n] = d]
             t == front \o <<d>>
  <2>3. s = [i \in 1..n |-> IF i = n THEN d ELSE nodes[i]]
    BY <2>2
  <2>4. Len(front) + 1 = n
    BY <1>1
  <2>5. <<d>> \in Seq(Given) /\ Len(<<d>>) = 1 /\ <<d>>[1] = d
    BY <1>6
  <2>6. /\ t \in Seq(Given) /\ Len(t) = n
        /\ \A i \in 1..n : t[i] = IF i <= n - 1 THEN front[i] ELSE <<d>>[i - (n - 1)]
    <3> DEFINE one == <<d>>
    <3>1. one \in Seq(Given) /\ Len(one) = 1
      BY <2>5
    <3> HIDE DEF one
    <3>2. /\ front \o one \in Seq(Given) /\ Len(front \o one) = n
          /\ \A i \in 1..n : (front \o one)[i] = IF i <= n - 1 THEN front[i] ELSE one[i - (n - 1)]
      <4>1. front \in Seq(Given) /\ Len(front) = n - 1 /\ Len(front) + Len(one) = n
        BY <3>1, <2>4, <1>1
      <4>2. /\ front \o one \in Seq(Given) /\ Len(front \o one) = Len(front) + Len(one)
            /\ \A i \in 1..Len(front) + Len(one) :
                 (front \o one)[i] = IF i <= Len(front) THEN front[i] ELSE one[i - Len(front)]
        BY <3>1, <4>1, ConcatProperties
      <4> DEFINE p == front \o one
      <4> HIDE DEF p
      <4>. QED BY <4>1, <4>2 DEF p
    <3>. QED BY <3>2 DEF one
  <2> HIDE DEF t
  <2>7. s \in Seq(Given) /\ Len(s) = n
    <3>1. \A i \in 1..n : (IF i = n THEN d ELSE nodes[i]) \in Given
      <4>1. \A i \in 1..n : nodes[i] \in Given
        BY <1>1 DEF Given
      <4>. QED BY <4>1, <1>6
    <3> HIDE DEF s
    <3>. QED BY <3>1, <2>3, <1>1
  <2>8. ASSUME NEW i \in 1..n PROVE s[i] = t[i]
    <3>1. CASE i = n
      <4>1. ~(i <= n - 1) /\ i - (n - 1) = 1
        BY <3>1, <1>1
      <4>. QED BY <3>1, <4>1, <2>3, <2>5, <2>6
    <3>2. CASE i # n
      <4>1. i <= n - 1 /\ i \in 1..n - 1
        BY <3>2, <1>1
      <4>. QED BY <3>2, <4>1, <2>3, <2>6, <1>1
    <3>. QED BY <3>1, <3>2
  <2>9. s = t
    <3> HIDE DEF s
    <3>. QED BY <2>6, <2>7, <2>8, SeqEqual
  <2>. QED BY <2>1, <2>9 DEF t
<1>10. /\ front \o <<d>> \in Seq(Given)
       /\ Over(Weights, front \o <<d>>) = (Over(Weights, front) + (Weights[d] % Prime)) % Prime
  <2>1. <<d>> \in Seq(Given)
    BY <1>6
  <2>2. Over(Weights, <<d>>) = Weights[d] % Prime
    BY <1>6, WeightsType, OverOne
  <2>3. /\ front \o <<d>> \in Seq(Given)
        /\ Over(Weights, front \o <<d>>) = (Over(Weights, front) + Over(Weights, <<d>>)) % Prime
    BY <2>1, <1>1, WeightsType, OverConcat
  <2>. QED BY <2>2, <2>3
<1>11. Same(Over(Weights, front) + (Weights[d] % Prime), target)
  <2> DEFINE x == Over(Weights, front)
             y == Weights[d]
             z == y % Prime
  <2>1. x \in Int /\ y \in Int /\ rest = target - x /\ Same(y, rest)
    BY <1>2, <1>6, <1>7, <1>8, GivenIs
  <2>2. z \in Int /\ Same(z, y)
    BY <2>1, ModType, SameMod
  <2> HIDE DEF x, y, z
  <2>3. Same(z, rest) /\ Same(x, x)
    BY <2>1, <2>2 DEF Same
  <2>4. Same(x + z, x + rest) /\ x + rest = target
    BY <2>1, <2>2, <2>3, <1>2, SamePlus
  <2>. QED BY <2>4 DEF x, y, z
<1>. QED BY <1>2, <1>4, <1>9, <1>10, <1>11 DEF Same, c, rest, last, front, n, w

\* SigEdge::build: the nodes give the target.
LEMMA SigNodesIs ==
  ASSUME NEW target \in Int, NEW nodes \in Seq(Nodes), Len(nodes) > 0
  PROVE  /\ SigNodes(target, nodes) \in Seq(Given)
         /\ Over(Weights, SigNodes(target, nodes)) = target % Prime
<1> DEFINE g == Gen(Last(nodes).idx)
           inv == Inverse1(g)
<1>1. g \in Units
  <2>1. Last(nodes) \in Nodes
    BY DEF Last
  <2>. QED BY <2>1, GivenIs DEF Given
<1>2. inv \in Int /\ Same(g * inv, 1)
  BY <1>1, InverseIs
<1>. QED BY <1>2, Completed DEF SigNodes

\* The randomness of N2Edge and of N3Edge.
Couples == [a : 0..B - 1, b : 0..B - 1, sa : {1, -1}, ra : 0..Prime - 1]
Trios == [a : 0..B - 1, b : 0..B - 1, c : 0..B - 1, sa : {1, -1},
          sb : {1, -1}, sc : {1, -1}, ra : 0..Prime - 1, rb : 0..Prime - 1]

\* What two edges give.
LEMMA TwoGiven ==
  ASSUME NEW x \in Given, NEW y \in Given
  PROVE  /\ <<x, y>> \in Seq(Given)
         /\ Over(Weights, <<x, y>>) = (Weights[x] + Weights[y]) % Prime
<1>1. /\ <<x>> \in Seq(Given) /\ <<y>> \in Seq(Given) /\ <<x, y>> \in Seq(Given)
      /\ <<x, y>> = <<x>> \o <<y>>
  <2>1. <<x>> \in Seq(Given) /\ <<y>> \in Seq(Given) /\ <<x, y>> \in Seq(Given)
    OBVIOUS
  <2>2. Append(<<x>>, y) = <<x, y>>
    <3> DEFINE s == Append(<<x>>, y)
               t == <<x, y>>
    <3>1. s \in Seq(Given) /\ Len(s) = 2 /\ s[1] = x /\ s[2] = y
      BY <2>1
    <3>2. t \in Seq(Given) /\ Len(t) = 2 /\ t[1] = x /\ t[2] = y
      BY <2>1
    <3> HIDE DEF s, t
    <3>3. \A i \in 1..2 : s[i] = t[i]
      BY <3>1, <3>2
    <3>4. s = t
      BY <3>1, <3>2, <3>3, SeqEqual
    <3>. QED BY <3>4 DEF s, t
  <2>3. Append(<<x>>, y) = <<x>> \o <<y>>
    BY <2>1, AppendIsConcat
  <2>. QED BY <2>1, <2>2, <2>3
<1>2. Over(Weights, <<x>>) = Weights[x] % Prime /\ Over(Weights, <<y>>) = Weights[y] % Prime
  BY WeightsType, OverOne
<1>3. Over(Weights, <<x, y>>) = (Over(Weights, <<x>>) + Over(Weights, <<y>>)) % Prime
  <2> DEFINE s == <<x>>
             t == <<y>>
  <2>1. s \in Seq(Given) /\ t \in Seq(Given) /\ <<x, y>> = s \o t
    BY <1>1
  <2> HIDE DEF s, t
  <2>2. Over(Weights, s \o t) = (Over(Weights, s) + Over(Weights, t)) % Prime
    BY <2>1, WeightsType, OverConcat
  <2>. QED BY <2>1, <2>2 DEF s, t
<1> DEFINE a == Weights[x]
           b == Weights[y]
<1>4. a \in Int /\ b \in Int
  BY GivenIs
<1> HIDE DEF a, b
<1>5. Same((a % Prime) + (b % Prime), a + b)
  BY <1>4, SameMod, ModType, SamePlus
<1>. QED BY <1>1, <1>2, <1>3, <1>5 DEF Same, a, b

\* N2Edge::build: the two edges give d.
LEMMA PairIs ==
  ASSUME NEW d \in Int, NEW n \in Couples
  PROVE  Pair(d, n) \in Seq(Given) /\ Over(Weights, Pair(d, n)) = d % Prime
<1> DEFINE s == n.sa
           x == n.ra
           g == Gen(n.a)
           h == Gen(n.b)
           y == (x * g - s * d) * Inverse1(h)
           e1 == Edge(1, n.a, s, x)
           e2 == Edge(1, n.b, -s, y)
<1>1. /\ n.a \in 0..B - 1 /\ n.b \in 0..B - 1 /\ s \in {1, -1} /\ -s \in {1, -1} /\ x \in Int
      /\ s \in Int /\ -s \in Int
  <2>1. n.a \in 0..B - 1 /\ n.b \in 0..B - 1 /\ s \in {1, -1} /\ x \in Fld
    BY DEF Couples, Fld
  <2>2. \A c \in {1, -1} : -c \in {1, -1} /\ c \in Int /\ -c \in Int
    OBVIOUS
  <2> HIDE DEF s, x
  <2>. QED BY <2>1, <2>2, ModSmall
<1>2. g \in Int /\ h \in Units /\ h \in Int
  BY <1>1, GenUnit
<1>3. Pair(d, n) = <<e1, e2>>
  BY DEF Pair
<1> HIDE DEF s, x, g, h
<1>4. x * g - s * d \in Int
  BY <1>1, <1>2, Ints
<1>5. y \in Int /\ Same(y * h, x * g - s * d)
  BY <1>2, <1>4, Cancel
<1> HIDE DEF y
<1>6. e1 \in Given /\ Same(Weights[e1], (s * x) * g)
  BY <1>1, EdgeGiven DEF g
<1>7. e2 \in Given /\ Same(Weights[e2], ((-s) * y) * h)
  BY <1>1, <1>5, EdgeGiven DEF h
<1> HIDE DEF e1, e2
<1>8. Same(Weights[e1] + Weights[e2], d)
  <2>1. Weights[e1] \in Int /\ Weights[e2] \in Int
    BY <1>6, <1>7, GivenIs
  <2>2. (s * x) * g \in Int /\ ((-s) * y) * h \in Int /\ y * h \in Int /\ (-s) * (y * h) \in Int
        /\ ((-s) * y) * h = (-s) * (y * h) /\ (-s) * (x * g - s * d) \in Int
    BY <1>1, <1>2, <1>4, <1>5, Ints
  <2>3. Same((-s) * (y * h), (-s) * (x * g - s * d))
    <3>1. Same(-s, -s)
      BY DEF Same
    <3>. QED BY <3>1, <2>2, <1>1, <1>4, <1>5, SameTimes
  <2>4. Same(Weights[e1] + Weights[e2], (s * x) * g + (-s) * (x * g - s * d))
    <3>1. Same(Weights[e2], (-s) * (x * g - s * d))
      BY <1>7, <2>2, <2>3 DEF Same
    <3>. QED BY <3>1, <1>6, <2>1, <2>2, SamePlus
  <2>5. (s * x) * g + (-s) * (x * g - s * d) = s * (s * d)
    BY <1>1, <1>2
  <2>6. s * (s * d) = d
    BY <1>1, Signs
  <2>. QED BY <2>4, <2>5, <2>6
<1>. QED BY <1>3, <1>6, <1>7, <1>8, TwoGiven DEF Same

\* N3Edge::build: the three edges give d.
LEMMA TripleIs ==
  ASSUME NEW d \in Int, NEW n \in Trios
  PROVE  Triple(d, n) \in Seq(Given) /\ Over(Weights, Triple(d, n)) = d % Prime
<1> DEFINE c == n.sc
           g == Gen(n.c)
           u == (c * g) % Prime
           e1 == Edge(1, n.a, n.sa, n.ra)
           e2 == Edge(1, n.b, n.sb, n.rb)
           two == <<e1, e2>>
           t == Over(Weights, two)
           y == (d - t) * Inverse1(u)
           e3 == Edge(1, n.c, c, y)
<1>1. /\ n.a \in 0..B - 1 /\ n.b \in 0..B - 1 /\ n.c \in 0..B - 1
      /\ n.sa \in {1, -1} /\ n.sb \in {1, -1} /\ c \in {1, -1} /\ n.ra \in Int /\ n.rb \in Int
      /\ c \in Int
  <2>1. /\ n.a \in 0..B - 1 /\ n.b \in 0..B - 1 /\ n.c \in 0..B - 1
        /\ n.sa \in {1, -1} /\ n.sb \in {1, -1} /\ c \in {1, -1} /\ n.ra \in Fld /\ n.rb \in Fld
    BY DEF Trios, Fld
  <2>2. \A x \in {1, -1} : x \in Int
    OBVIOUS
  <2>. QED BY <2>1, <2>2, ModSmall
<1>2. e1 \in Given /\ e2 \in Given
  BY <1>1, EdgeGiven
<1> HIDE DEF e1, e2
<1>3. two \in Seq(Given) /\ Total(Weight, two) = t /\ t \in Int
  BY <1>2, TwoGiven, TotalIs
<1>4. Triple(d, n) = Append(two, e3)
  BY <1>3 DEF Triple, e1, e2
<1> HIDE DEF two, t
<1>5. g \in Units /\ g \in Int
  BY <1>1, GenUnit
<1>6. u \in Units /\ u \in Int /\ Same(u, c * g) /\ c * g \in Int
  <2>1. c * g \in Int
    BY <1>1, <1>5, Ints
  <2>2. c % Prime \in Units
    <3>1. 1 % Prime \in 1..Prime - 1 /\ (-1) % Prime \in 1..Prime - 1
      BY CiphersAssumption
    <3>. QED BY <3>1, <1>1 DEF Units
  <2>3. ((c % Prime) * g) % Prime \in Units
    BY <2>2, <1>5, UnitProduct
  <2>4. Same((c % Prime) * g, c * g)
    <3>1. Same(g, g) /\ c % Prime \in Int
      BY <1>1, ModType DEF Same
    <3>. QED BY <3>1, <1>1, <1>5, SameMod, SameTimes
  <2>5. u \in Units
    BY <2>3, <2>4 DEF Same
  <2>6. u \in Int /\ Same(u, c * g)
    BY <2>1, ModType, SameMod
  <2>. QED BY <2>1, <2>5, <2>6
<1> HIDE DEF c, g, u
<1>7. d - t \in Int
  BY <1>3
<1>8. y \in Int /\ Same(y * u, d - t)
  BY <1>6, <1>7, Cancel
<1> HIDE DEF y
<1>9. e3 \in Given /\ Same(Weights[e3], (c * y) * g)
  BY <1>1, <1>8, EdgeGiven DEF g
<1> HIDE DEF e3
<1>10. Same(Weights[e3], d - t)
  <2>1. (c * y) * g = y * (c * g) /\ y * (c * g) \in Int /\ y * u \in Int
    BY <1>1, <1>5, <1>6, <1>8
  <2>2. Same(y * u, y * (c * g))
    <3>1. Same(y, y)
      BY DEF Same
    <3>. QED BY <3>1, <1>6, <1>8, SameTimes
  <2>. QED BY <2>1, <2>2, <1>8, <1>9 DEF Same
<1>11. /\ Append(two, e3) = two \o <<e3>> /\ <<e3>> \in Seq(Given)
       /\ Append(two, e3) \in Seq(Given)
  BY <1>3, <1>9
<1>12. Over(Weights, Append(two, e3)) = (t + (Weights[e3] % Prime)) % Prime
  <2>1. Over(Weights, <<e3>>) = Weights[e3] % Prime
    BY <1>9, WeightsType, OverOne
  <2>2. Over(Weights, two \o <<e3>>) = (Over(Weights, two) + Over(Weights, <<e3>>)) % Prime
    BY <1>3, <1>11, WeightsType, OverConcat
  <2>. QED BY <2>1, <2>2, <1>11 DEF t
<1>13. Same(t + (Weights[e3] % Prime), d)
  <2> DEFINE z == Weights[e3]
             w == z % Prime
  <2>1. z \in Int /\ Same(z, d - t)
    BY <1>9, <1>10, GivenIs
  <2>2. w \in Int /\ Same(w, z)
    BY <2>1, ModType, SameMod
  <2> HIDE DEF z, w
  <2>3. Same(w, d - t) /\ Same(t, t)
    BY <2>1, <2>2 DEF Same
  <2>4. Same(t + w, t + (d - t)) /\ t + (d - t) = d
    BY <2>2, <2>3, <1>3, <1>7, SamePlus
  <2>. QED BY <2>4 DEF z, w
<1>. QED BY <1>4, <1>11, <1>12, <1>13 DEF Same

\* One base layer and its factor.
LEMMA FactorBase ==
  ASSUME NEW seed \in DOMAIN Factor
  PROVE  /\ InOrder(<<Base(seed)>>) /\ Len(<<Base(seed)>>) = 1
         /\ IsFactors(<<Base(seed)>>, [l \in 1..1 |-> Factor[seed]])
         /\ [l \in 1..1 |-> Factor[seed]] \in [1..1 -> Units]
         /\ Factor[seed] \in Units /\ Factor[seed] \in Int
<1> DEFINE L == <<Base(seed)>>
           R == Factor[seed]
           r == [l \in 1..1 |-> R]
<1>1. R \in Units /\ R \in Int
  BY CiphersAssumption DEF Units
<1>2. L \in Seq(Layers) /\ Len(L) = 1 /\ L[1] = Base(seed) /\ DOMAIN L = 1..1
  <2>1. Base(seed) \in Layers
    BY DEF Base, Layers
  <2>. QED BY <2>1
<1>3. L[1].rule = "base" /\ L[1].rule # "prod" /\ L[1].seed = seed
  BY <1>2 DEF Base
<1>4. \A l \in 1..1 : l = 1
  OBVIOUS
<1>5. InOrder(L)
  BY <1>2, <1>3, <1>4 DEF InOrder
<1>6. r \in [1..1 -> Units]
  BY <1>1
<1>7. \A l \in 1..1 : r[l] = FactorOf(L, r, l)
  BY <1>3, <1>4 DEF FactorOf
<1> HIDE DEF L, r
<1>8. IsFactors(L, r)
  BY <1>2, <1>6, <1>7 DEF IsFactors
<1>. QED BY <1>1, <1>2, <1>5, <1>6, <1>8 DEF L, r

\* Edges put on layer l, all times c.
Placed(l, c, s) == [i \in DOMAIN s |-> Edge(l, s[i].idx, s[i].ch, s[i].w * c)]

\* They are edges of that layer, of c times the weight.
LEMMA PlacedAre ==
  ASSUME NEW n \in Nat, NEW l \in 1..n, NEW c \in Int, NEW s \in Seq(Given)
  PROVE  /\ Placed(l, c, s) \in Seq(EdgesOn(n)) /\ Len(Placed(l, c, s)) = Len(s)
         /\ \A i \in 1..Len(s) :
              LET d == Placed(l, c, s)[i]
              IN d \in EdgesOn(n) /\ d.layer = l /\ Same(Weight(d), c * Weights[s[i]])
<1> DEFINE F == Placed(l, c, s)
<1>1. DOMAIN s = 1..Len(s) /\ Len(s) \in Nat
  OBVIOUS
<1>2. ASSUME NEW i \in 1..Len(s)
      PROVE  F[i] \in EdgesOn(n) /\ F[i].layer = l /\ Same(Weight(F[i]), c * Weights[s[i]])
  <2> DEFINE x == s[i].idx
             h == s[i].ch
             w == s[i].w
             g == Gen(x)
             v == w * c
             d == Edge(l, x, h, v)
  <2>1. /\ x \in 0..B - 1 /\ h \in {1, -1} /\ h \in Int /\ w \in Int /\ g \in Int
        /\ Weights[s[i]] = h * w * g
    <3>1. s[i] \in Given
      OBVIOUS
    <3>. QED BY <3>1, GivenIs DEF Weight
  <2>2. F[i] = d
    BY <1>1 DEF Placed
  <2>3. v \in Int /\ (h * v) * g = c * (h * w * g)
    <3> HIDE DEF x, h, w, g
    <3>1. w * c \in Int
      BY <2>1, Ints
    <3>2. (h * (w * c)) * g = c * (h * w * g)
      BY <2>1
    <3>. QED BY <3>1, <3>2
  <2>4. d.layer = l
    BY DEF Edge
  <2> HIDE DEF x, h, w, v
  <2>5. d \in EdgesOn(n)
    BY <2>1, <2>3, EdgeOn
  <2>6. Same(Weight(d), (h * v) * g)
    BY <2>1, <2>3, EdgeOn
  <2>. QED BY <2>1, <2>2, <2>3, <2>4, <2>5, <2>6
<1>3. F = [i \in 1..Len(s) |-> F[i]]
  BY <1>1 DEF Placed
<1> HIDE DEF F
<1>4. F \in Seq(EdgesOn(n)) /\ Len(F) = Len(s)
  <2>1. \A i \in 1..Len(s) : F[i] \in EdgesOn(n)
    BY <1>2
  <2>. QED BY <1>1, <1>3, <2>1
<1>. QED BY <1>2, <1>4 DEF F

\* Together they add c times what was given, divided by the factor.
LEMMA PlacedGive ==
  ASSUME NEW n \in Nat, NEW r \in [1..n -> Units], NEW l \in 1..n, NEW c \in Int,
         NEW s \in Seq(Given)
  PROVE  Over(Term(n, r), Placed(l, c, s)) = ((c * Inverse1(r[l])) * Over(Weights, s)) % Prime
<1> DEFINE f == Term(n, r)
           F == Placed(l, c, s)
           I == Inverse1(r[l])
           k == c * I
<1>1. f \in [EdgesOn(n) -> Int] /\ I \in Int /\ k \in Int
  <2>1. I \in Int
    BY InverseIs
  <2>2. f \in [EdgesOn(n) -> Int]
    BY TermIs
  <2> HIDE DEF f, I
  <2>. QED BY <2>1, <2>2, Ints
<1>2. /\ F \in Seq(EdgesOn(n)) /\ Len(F) = Len(s)
      /\ \A i \in 1..Len(s) : /\ F[i] \in EdgesOn(n) /\ F[i].layer = l
                              /\ Same(Weight(F[i]), c * Weights[s[i]])
  BY PlacedAre
<1> HIDE DEF F, I, k
<1>3. ASSUME NEW i \in 1..Len(s) PROVE Same(f[F[i]], k * Weights[s[i]])
  <2> DEFINE d == F[i]
             x == Weight(d)
             y == x % Prime
             z == Weights[s[i]]
  <2>1. d \in EdgesOn(n) /\ d.layer = l /\ x \in Int /\ Same(x, c * z) /\ z \in Int
    <3>1. s[i] \in Given
      OBVIOUS
    <3>. QED BY <3>1, <1>2, EdgeIs, WeightsType
  <2>2. f[d] = y * I
    BY <2>1, TermIs DEF I
  <2> HIDE DEF d, x, z, f
  <2>3. y \in Int /\ Same(y, x) /\ c * z \in Int
    BY <2>1, ModType, SameMod, Ints
  <2> HIDE DEF y
  <2>4. Same(y * I, (c * z) * I)
    <3>1. Same(y, c * z) /\ Same(I, I)
      BY <2>1, <2>3 DEF Same
    <3>. QED BY <3>1, <2>3, <1>1, SameTimes
  <2>5. (c * z) * I = k * z
    BY <2>1, <1>1 DEF k
  <2>. QED BY <2>2, <2>4, <2>5 DEF d, z
<1> DEFINE fs == [i \in DOMAIN F |-> f[F[i]]]
           ws == [i \in DOMAIN s |-> Weights[s[i]]]
<1>4. SumOf(fs) = (k * SumOf(ws)) % Prime
  <2> HIDE DEF f
  <2>1. fs \in Seq(Int) /\ Len(fs) = Len(s) /\ \A i \in 1..Len(s) : fs[i] = f[F[i]]
    BY <1>1, <1>2, OverIs
  <2>2. ws \in Seq(Int) /\ Len(ws) = Len(s) /\ \A i \in 1..Len(s) : ws[i] = Weights[s[i]]
    BY WeightsType, OverIs
  <2>3. \A i \in 1..Len(ws) : Same(fs[i], k * ws[i])
    BY <1>3, <2>1, <2>2
  <2> HIDE DEF fs, ws
  <2>. QED BY <2>1, <2>2, <2>3, <1>1, SumScaled
<1>. QED BY <1>4 DEF Over, F, k, I

\* Times the factor of the only layer.
LEMMA TimesFactor ==
  ASSUME NEW s \in Seq(Given), NEW R \in Units
  PROVE  /\ Placed(1, R, s) \in Seq(EdgesOn(1))
         /\ Over(Term(1, [l \in 1..1 |-> R]), Placed(1, R, s)) = Over(Weights, s)
<1> DEFINE r == [l \in 1..1 |-> R]
           F == Placed(1, R, s)
           k == R * Inverse1(R)
           x == Over(Weights, s)
<1>1. 1 \in Nat /\ r \in [1..1 -> Units] /\ 1 \in 1..1 /\ r[1] = R /\ R \in Int
  BY DEF Units
<1>2. k \in Int /\ Same(k, 1) /\ x \in Fld /\ x \in Int
  BY <1>1, InverseIs, Ints, WeightsType, OverIs
<1> HIDE DEF r
<1>3. F \in Seq(EdgesOn(1))
  BY <1>1, PlacedAre
<1>4. Over(Term(1, r), F) = (k * x) % Prime
  <2>1. Over(Term(1, r), F) = ((R * Inverse1(r[1])) * Over(Weights, s)) % Prime
    BY <1>1, PlacedGive
  <2>. QED BY <2>1, <1>1
<1> HIDE DEF F, k, x
<1>5. Same(k * x, 1 * x) /\ 1 * x = x /\ x % Prime = x
  <2>1. Same(x, x)
    BY DEF Same
  <2>. QED BY <2>1, <1>2, SameTimes, ModSmall
<1>. QED BY <1>3, <1>4, <1>5 DEF Same, F, r, x

\* The parts of a half of the noise, typed.
LEMMA HalfIs ==
  ASSUME NEW h \in Halves
  PROVE  /\ h.seed \in DOMAIN Factor /\ h.nodes \in Seq(Nodes) /\ Len(h.nodes) > 0
         /\ h.pairs \in Seq(Couples) /\ h.triples \in Seq(Trios)
         /\ Len(h.pairs) \in Nat /\ Len(h.triples) \in Nat
         /\ Delta[h.seed] \in Seq(Int)
         /\ Len(Delta[h.seed]) = Len(h.pairs) + Len(h.triples)
<1>1. h \in [seed : DOMAIN Factor, nodes : Seq(Nodes),
             pairs : Seq(Couples), triples : Seq(Trios)]
  BY Zenon DEF Halves, Couples, Trios
<1>2. Len(h.nodes) > 0 /\ Len(h.pairs) + Len(h.triples) = Len(Delta[h.seed])
  BY Zenon DEF Halves
<1>3. /\ h.seed \in DOMAIN Factor /\ h.nodes \in Seq(Nodes)
      /\ h.pairs \in Seq(Couples) /\ h.triples \in Seq(Trios)
  BY <1>1
<1>4. Delta[h.seed] \in Seq(Int)
  BY <1>3, CiphersAssumption
<1>5. Len(h.pairs) \in Nat /\ Len(h.triples) \in Nat
  BY <1>3
<1>. QED BY <1>2, <1>3, <1>4, <1>5

\* Sequences that give a term each give the sum of the terms.
LEMMA GivenTerms ==
  ASSUME NEW n \in Nat, NEW d \in Seq(Int), Len(d) = n, NEW seqs, seqs \in Seq(Seq(Given)),
         Len(seqs) = n, \A i \in 1..n : Over(Weights, seqs[i]) = d[i] % Prime
  PROVE  FlattenSeq(seqs) \in Seq(Given) /\ Over(Weights, FlattenSeq(seqs)) = SumOf(d)
<1> DEFINE s == [k \in 1..Len(seqs) |-> Over(Weights, seqs[k])]
<1>1. s \in Seq(Int) /\ Over(Weights, FlattenSeq(seqs)) = SumOf(s)
  BY WeightsType, OverFlatten
<1>2. FlattenSeq(seqs) \in Seq(Given)
  BY FlattenIs
<1>3. Len(s) = n /\ \A k \in 1..n : s[k] = d[k] % Prime
  OBVIOUS
<1> HIDE DEF s
<1>4. \A k \in 1..Len(d) : Same(s[k], d[k])
  <2>1. \A k \in 1..Len(d) : d[k] \in Int
    OBVIOUS
  <2>. QED BY <1>3, <2>1, SameMod
<1>5. SumOf(s) = SumOf(d)
  BY <1>1, <1>3, <1>4, SumSame
<1>. QED BY <1>1, <1>2, <1>5

\* synth: the value comes out, whatever is random.
LEMMA SynthIs ==
  ASSUME NEW v \in Int, NEW h \in Halves
  PROVE  /\ IsCipher(Synth(v, h)) /\ Dec(Synth(v, h)) = v % Prime
         /\ Synth(v, h).c0 = <<0>> /\ Len(Synth(v, h).L) = 1
<1> DEFINE d == Delta[h.seed]
           n2 == Len(h.pairs)
           n3 == Len(h.triples)
           R == Factor[h.seed]
           d2 == [i \in 1..n2 |-> d[i]]
           d3 == [i \in 1..n3 |-> d[n2 + i]]
           S == SigNodes(v - Total(LAMBDA x : x, d), h.nodes)
           p2 == [i \in 1..n2 |-> Pair(d[i], h.pairs[i])]
           p3 == [i \in 1..n3 |-> Triple(d[n2 + i], h.triples[i])]
           P2 == FlattenSeq(p2)
           P3 == FlattenSeq(p3)
           edges == S \o P2 \o P3
           F == Placed(1, R, edges)
           L == <<Base(h.seed)>>
           r == [l \in 1..1 |-> R]
           u == Cipher(L, Merge(F), <<0>>)
<1>1. /\ h.seed \in DOMAIN Factor /\ h.nodes \in Seq(Nodes) /\ Len(h.nodes) > 0
      /\ h.pairs \in Seq(Couples) /\ h.triples \in Seq(Trios) /\ n2 \in Nat /\ n3 \in Nat
      /\ d \in Seq(Int) /\ Len(d) = n2 + n3
  BY HalfIs
<1>2. Synth(v, h) = u
  BY Zenon DEF Synth, Placed
<1> HIDE DEF d
<1>3. Total(LAMBDA x : x, d) = SumOf(d) /\ SumOf(d) \in Int
  <2>1. [i \in DOMAIN d |-> d[i]] = d
    BY <1>1
  <2>. QED BY <2>1, <1>1, SumsGrow DEF Total
<1>4. S \in Seq(Given) /\ Over(Weights, S) = (v - SumOf(d)) % Prime /\ v - SumOf(d) \in Int
  <2>1. v - SumOf(d) \in Int
    BY <1>3
  <2> DEFINE x == v - SumOf(d)
  <2>2. S = SigNodes(x, h.nodes)
    BY <1>3
  <2> HIDE DEF x, S
  <2>3. S \in Seq(Given) /\ Over(Weights, S) = x % Prime
    BY <2>1, <2>2, <1>1, SigNodesIs DEF x
  <2>. QED BY <2>1, <2>3 DEF x
<1> HIDE DEF n2, n3
<1>5. /\ d2 \in Seq(Int) /\ Len(d2) = n2 /\ \A i \in 1..n2 : d2[i] = d[i] /\ d[i] \in Int
      /\ d3 \in Seq(Int) /\ Len(d3) = n3 /\ \A i \in 1..n3 : d3[i] = d[n2 + i] /\ d[n2 + i] \in Int
      /\ d = d2 \o d3
  <2>1. \A i \in 1..n2 : d[i] \in Int
    BY <1>1
  <2>2. \A i \in 1..n3 : d[n2 + i] \in Int
    BY <1>1
  <2>3. d2 \in Seq(Int) /\ Len(d2) = n2 /\ \A i \in 1..n2 : d2[i] = d[i]
    BY <2>1, <1>1
  <2>4. d3 \in Seq(Int) /\ Len(d3) = n3 /\ \A i \in 1..n3 : d3[i] = d[n2 + i]
    BY <2>2, <1>1
  <2> HIDE DEF d2, d3
  <2>5. /\ d2 \o d3 \in Seq(Int) /\ Len(d2 \o d3) = n2 + n3
        /\ \A i \in 1..n2 + n3 : (d2 \o d3)[i] = IF i <= n2 THEN d2[i] ELSE d3[i - n2]
    BY <2>3, <2>4, ConcatProperties
  <2>6. ASSUME NEW i \in 1..n2 + n3 PROVE d[i] = (d2 \o d3)[i]
    <3>1. CASE i <= n2
      BY <3>1, <2>3, <2>5, <1>1
    <3>2. CASE ~(i <= n2)
      <4>1. i - n2 \in 1..n3 /\ n2 + (i - n2) = i
        BY <3>2, <1>1
      <4>2. d3[i - n2] = d[n2 + (i - n2)]
        BY <4>1, <2>4
      <4>. QED BY <4>1, <4>2, <3>2, <2>5
    <3>. QED BY <3>1, <3>2
  <2>7. d = d2 \o d3
    <3> DEFINE e == d2 \o d3
    <3>1. e \in Seq(Int) /\ Len(d) = Len(e) /\ \A i \in 1..Len(d) : d[i] = e[i]
      BY <1>1, <2>5, <2>6
    <3> HIDE DEF e
    <3>2. d = e
      BY <3>1, <1>1, SeqEqual
    <3>. QED BY <3>2 DEF e
  <2>. QED BY <2>1, <2>2, <2>3, <2>4, <2>7
<1> HIDE DEF d2, d3
<1>6. P2 \in Seq(Given) /\ Over(Weights, P2) = SumOf(d2)
  <2>1. \A i \in 1..n2 : h.pairs[i] \in Couples
    BY <1>1 DEF n2
  <2>2. \A i \in 1..n2 : p2[i] \in Seq(Given) /\ Over(Weights, p2[i]) = d2[i] % Prime
    BY <2>1, <1>5, PairIs
  <2>3. p2 = [i \in 1..n2 |-> p2[i]]
    OBVIOUS
  <2> HIDE DEF p2
  <2>4. p2 \in Seq(Seq(Given)) /\ Len(p2) = n2
    <3> DEFINE T == Seq(Given)
    <3>1. \A i \in 1..n2 : p2[i] \in T
      BY <2>2
    <3> HIDE DEF T
    <3>2. n2 \in Nat
      BY <1>1
    <3>3. p2 \in Seq(T) /\ Len(p2) = n2
      BY <2>3, <3>1, <3>2
    <3>. QED BY <3>3 DEF T
  <2>. QED BY <2>2, <2>4, <1>1, <1>5, GivenTerms
<1>7. P3 \in Seq(Given) /\ Over(Weights, P3) = SumOf(d3)
  <2>1. \A i \in 1..n3 : h.triples[i] \in Trios
    BY <1>1 DEF n3
  <2>2. \A i \in 1..n3 : p3[i] \in Seq(Given) /\ Over(Weights, p3[i]) = d3[i] % Prime
    BY <2>1, <1>5, TripleIs
  <2>3. p3 = [i \in 1..n3 |-> p3[i]]
    OBVIOUS
  <2> HIDE DEF p3
  <2>4. p3 \in Seq(Seq(Given)) /\ Len(p3) = n3
    <3> DEFINE T == Seq(Given)
    <3>1. \A i \in 1..n3 : p3[i] \in T
      BY <2>2
    <3> HIDE DEF T
    <3>2. n3 \in Nat
      BY <1>1
    <3>3. p3 \in Seq(T) /\ Len(p3) = n3
      BY <2>3, <3>1, <3>2
    <3>. QED BY <3>3 DEF T
  <2>. QED BY <2>2, <2>4, <1>1, <1>5, GivenTerms
<1> HIDE DEF S, P2, P3
<1>8. edges \in Seq(Given) /\ Over(Weights, edges) = v % Prime
  <2> DEFINE x == Over(Weights, S)
             y == SumOf(d2)
             z == SumOf(d3)
             w == SumOf(d)
  <2>1. /\ S \o P2 \in Seq(Given) /\ Over(Weights, S \o P2) = (x + y) % Prime
        /\ edges \in Seq(Given)
        /\ Over(Weights, edges) = (Over(Weights, S \o P2) + z) % Prime
    <3>1. /\ S \o P2 \in Seq(Given)
          /\ Over(Weights, S \o P2) = (Over(Weights, S) + Over(Weights, P2)) % Prime
      BY <1>4, <1>6, WeightsType, OverConcat
    <3>2. /\ (S \o P2) \o P3 \in Seq(Given)
          /\ Over(Weights, (S \o P2) \o P3) = (Over(Weights, S \o P2) + Over(Weights, P3)) % Prime
      BY <3>1, <1>7, WeightsType, OverConcat
    <3>. QED BY <3>1, <3>2, <1>6, <1>7
  <2>2. w = (y + z) % Prime
    BY <1>5, SumConcat
  <2>3. x \in Int /\ y \in Int /\ z \in Int /\ w \in Int
    BY <1>1, <1>3, <1>4, <1>5, SumsGrow, WeightsType, OverIs
  <2>4. x = (v - w) % Prime
    BY <1>4
  <2> HIDE DEF x, y, z, w
  <2>5. x + y \in Int /\ y + z \in Int /\ v - w \in Int
    BY <2>3
  <2>6. Same(((x + y) % Prime) + z, (x + y) + z)
    <3>1. Same((x + y) % Prime, x + y) /\ (x + y) % Prime \in Int /\ Same(z, z)
      BY <2>5, SameMod, ModType DEF Same
    <3>. QED BY <3>1, <2>3, <2>5, SamePlus
  <2>7. Same(x + (y + z), (v - w) + w)
    <3>1. Same(x, v - w) /\ Same(y + z, w)
      BY <2>2, <2>4, <2>5, SameMod DEF Same
    <3>. QED BY <3>1, <2>3, <2>5, SamePlus
  <2>8. (x + y) + z = x + (y + z) /\ (v - w) + w = v
    BY <2>3
  <2>9. Same(((x + y) % Prime) + z, v)
    BY <2>6, <2>7, <2>8 DEF Same
  <2>. QED BY <2>1, <2>9 DEF Same
<1> HIDE DEF edges
<1>9. /\ InOrder(L) /\ Len(L) = 1 /\ IsFactors(L, r) /\ r \in [1..1 -> Units] /\ R \in Units
  BY <1>1, FactorBase
<1>10. F \in Seq(EdgesOn(1)) /\ Over(Term(1, r), F) = v % Prime
  BY <1>8, <1>9, TimesFactor
<1> HIDE DEF F, r, L
<1>11. Merge(F) \in Seq(EdgesOn(1)) /\ Over(Term(1, r), Merge(F)) = v % Prime
  BY <1>9, <1>10, MergeIs
<1>12. IsCipher(u) /\ u.L = L /\ u.E = Merge(F) /\ u.c0 = <<0>>
  <2>1. <<0>> \in Seq(Fld) /\ Len(<<0>>) = 1
    BY CiphersAssumption DEF Fld
  <2>. QED BY <2>1, <1>9, <1>11, IsCipherIf DEF Cipher
<1>13. Dec(u) = (0 + (v % Prime)) % Prime
  <2>1. Const(u.c0) = 0
    BY <1>12 DEF Const
  <2> HIDE DEF u
  <2>. QED BY <2>1, <1>9, <1>11, <1>12, DecIs
<1>14. (0 + (v % Prime)) % Prime = v % Prime
  BY ModType, ModSmall
<1>. QED BY <1>2, <1>9, <1>12, <1>13, <1>14

\* fuse: a cipher of the sum.
LEMMA FuseIs ==
  ASSUME NEW a, IsCipher(a), a.c0 = << 0 >>, NEW b, IsCipher(b), b.c0 = << 0 >>
  PROVE  /\ IsCipher(Fuse(a, b)) /\ Dec(Fuse(a, b)) = (Dec(a) + Dec(b)) % Prime
         /\ Fuse(a, b).c0 = <<0>> /\ Len(Fuse(a, b).L) = Len(a.L) + Len(b.L)
<1> DEFINE L == a.L \o LayersAfter(b.L, Len(a.L))
           E == a.E \o EdgesAfter(b.E, Len(a.L))
           u == Cipher(L, E, <<0>>)
<1>1. 0 % Prime = 0 /\ 0 \in Fld
  BY CiphersAssumption DEF Fld
<1>2. <<0>> \in Seq(Fld) /\ Len(<<0>>) \in {0, 1} /\ Same(Const(<<0>>), Const(a.c0) + Const(b.c0))
  BY <1>1 DEF Const, Same
<1>3. IsCipher(u) /\ Dec(u) = (Dec(a) + Dec(b)) % Prime
  BY <1>2, ConcatIs
<1>4. Fuse(a, b) = WithinBudget(u) /\ Fuse(a, b).c0 = <<0>> /\ Fuse(a, b).L = L
  <2>1. (a.c0[1] + b.c0[1]) % Prime = 0
    BY <1>1
  <2>2. Fuse(a, b) = Cipher(L, IF Len(E) > EdgeBudget THEN Merge(E) ELSE E, <<0>>)
    BY <2>1 DEF Fuse
  <2> HIDE DEF L, E
  <2>3. u.E = E /\ u = [L |-> L, E |-> E, c0 |-> <<0>>]
    BY DEF Cipher
  <2> DEFINE m == Merge(E)
             w == [u EXCEPT !.E = m]
  <2>4. WithinBudget(u) = IF Len(E) > EdgeBudget THEN w ELSE u
    BY <2>3 DEF WithinBudget
  <2>5. w = Cipher(L, m, <<0>>)
    <3> HIDE DEF u, m
    <3>1. w = [u EXCEPT !.E = m]
      OBVIOUS
    <3> HIDE DEF w
    <3>2. w = [L |-> L, E |-> m, c0 |-> <<0>>]
      BY <3>1, <2>3
    <3>. QED BY <3>2 DEF Cipher
  <2> HIDE DEF w, m, u
  <2>6. \A e : Cipher(L, e, <<0>>).c0 = <<0>> /\ Cipher(L, e, <<0>>).L = L
    BY DEF Cipher
  <2>. QED BY <2>2, <2>4, <2>5, <2>6 DEF m, u
<1>5. Len(L) = Len(a.L) + Len(b.L)
  <2>1. InOrder(a.L) /\ InOrder(b.L)
    BY CipherOrder
  <2>2. (\E r : IsFactors(a.L, r)) /\ (\E t : IsFactors(b.L, t))
    BY <2>1, FactorsExist
  <2>. QED BY <2>1, <2>2, FactorsConcat
<1> HIDE DEF u, L
<1>. QED BY <1>3, <1>4, <1>5, WithinBudgetIs

\* enc_value: decryption finds what was encrypted.
THEOREM EncValueIs ==
  ASSUME NEW v \in Int, NEW n, IsNoise(n)
  PROVE  /\ IsCipher(EncValue(v, n)) /\ Dec(EncValue(v, n)) = v % Prime
         /\ EncValue(v, n).c0 = <<0>> /\ Len(EncValue(v, n).L) = 2
<1> DEFINE m == n.m
           a == Synth(v + m, n.first)
           b == Synth(-m, n.second)
<1>1. m \in Int /\ n.first \in Halves /\ n.second \in Halves
  <2>1. m \in Fld
    BY DEF IsNoise, Fld
  <2>. QED BY <2>1, ModSmall DEF IsNoise
<1>2. v + m \in Int /\ -m \in Int
  BY <1>1
<1> HIDE DEF m
<1>3. /\ IsCipher(a) /\ a.c0 = <<0>> /\ Dec(a) = (v + m) % Prime
      /\ IsCipher(b) /\ b.c0 = <<0>> /\ Dec(b) = (-m) % Prime
      /\ Len(a.L) + Len(b.L) = 2
  <2>1. \A x, y : x = 1 /\ y = 1 => x + y = 2
    OBVIOUS
  <2>. QED BY <2>1, <1>1, <1>2, SynthIs
<1>4. EncValue(v, n) = Fuse(a, b)
  BY DEF EncValue, m
<1> HIDE DEF a, b
<1>5. IsCipher(EncValue(v, n)) /\ Dec(EncValue(v, n)) = (Dec(a) + Dec(b)) % Prime
      /\ EncValue(v, n).c0 = <<0>> /\ Len(EncValue(v, n).L) = 2
  BY <1>3, <1>4, FuseIs
<1>6. Same(Dec(a) + Dec(b), (v + m) + (-m)) /\ (v + m) + (-m) = v
  <2> DEFINE x == Dec(a)
             y == Dec(b)
  <2>1. x = (v + m) % Prime /\ y = (-m) % Prime
    BY <1>3
  <2> HIDE DEF x, y
  <2>2. Same(x, v + m) /\ Same(y, -m) /\ x \in Int /\ y \in Int
    BY <2>1, <1>2, SameMod, ModType
  <2>3. Same(x + y, (v + m) + (-m))
    BY <2>2, <1>2, SamePlus
  <2>4. (v + m) + (-m) = v
    BY <1>1
  <2>. QED BY <2>3, <2>4 DEF x, y
<1>. QED BY <1>5, <1>6 DEF Same
-----------------------------------------------------------------------------
(* Multiplication.                                                          *)

\* emit_repack_edges: edges of a layer that complete a target.
LEMMA RepackPlaced ==
  ASSUME NEW l, NEW target \in Int, NEW nodes \in Seq(Nodes), Len(nodes) > 0
  PROVE  \E all \in Seq(Given) : /\ Len(all) = Len(nodes)
                                 /\ Over(Weights, all) = target % Prime
                                 /\ Repack(l, target, nodes) = Placed(l, 1, all)
<1> DEFINE n == Len(nodes)
           last == Last(nodes)
           inv == Gen((B - last.idx) % B)
           rest == target - Total(Weight, Front(nodes))
           v == last.ch * rest * inv
           all == [nodes EXCEPT ![n].w = v % Prime]
           R == Repack(l, target, nodes)
           P == Placed(l, 1, all)
<1>1. n \in Nat /\ n \in 1..n /\ DOMAIN nodes = 1..n /\ last = nodes[n]
      /\ \A i \in 1..n : nodes[i] \in Nodes
  BY DEF Last
<1>2. inv \in Int /\ Same(Gen(last.idx) * inv, 1)
  <2>1. last.idx \in 0..B - 1
    BY <1>1 DEF Nodes
  <2>. QED BY <2>1, GenInverse, GenUnit
<1>3. all \in Seq(Given) /\ Over(Weights, all) = target % Prime /\ v \in Int
  <2> HIDE DEF inv
  <2>. QED BY <1>2, Completed
<1>4. /\ DOMAIN all = 1..n
      /\ \A i \in 1..n : all[i] = IF i = n THEN [nodes[i] EXCEPT !.w = v % Prime] ELSE nodes[i]
  BY <1>1
<1>5. R = [i \in 1..n |-> Edge(l, nodes[i].idx, nodes[i].ch, IF i < n THEN nodes[i].w ELSE v)]
  BY <1>1 DEF Repack
<1>6. P = [i \in 1..n |-> Edge(l, all[i].idx, all[i].ch, all[i].w * 1)]
  BY <1>4 DEF Placed
<1>7. ASSUME NEW i \in 1..n
      PROVE  Edge(l, nodes[i].idx, nodes[i].ch, IF i < n THEN nodes[i].w ELSE v)
               = Edge(l, all[i].idx, all[i].ch, all[i].w * 1)
  <2>1. nodes[i] \in Nodes /\ nodes[i].w \in Fld
    BY <1>1 DEF Nodes, Fld
  <2>2. CASE i # n
    <3>1. i < n /\ all[i] = nodes[i]
      BY <2>2, <1>1, <1>4
    <3>2. nodes[i].w * 1 = nodes[i].w
      BY <2>1, ModSmall
    <3>. QED BY <3>1, <3>2
  <2>3. CASE i = n
    <3> DEFINE w == v % Prime
    <3>1. ~(i < n) /\ all[i] = [nodes[i] EXCEPT !.w = w]
      BY <2>3, <1>1, <1>4
    <3>2. w \in Fld /\ w * 1 = w /\ w % Prime = w
      <4>1. w \in Fld
        BY <1>3, ModType
      <4> HIDE DEF w
      <4>. QED BY <4>1, ModSmall
    <3>3. all[i].idx = nodes[i].idx /\ all[i].ch = nodes[i].ch /\ all[i].w = w
      <4> HIDE DEF w, all
      <4>. QED BY <3>1, <2>1 DEF Nodes
    <3>4. Edge(l, nodes[i].idx, nodes[i].ch, w * 1) = Edge(l, nodes[i].idx, nodes[i].ch, v)
      <4>1. (w * 1) % Prime = v % Prime
        BY <3>2
      <4> HIDE DEF w, v
      <4>. QED BY <4>1 DEF Edge
    <3> HIDE DEF all, v, w
    <3>. QED BY <3>1, <3>3, <3>4
  <2>. QED BY <2>2, <2>3
<1>8. R = P
  <2> HIDE DEF all, R, P, v
  <2>. QED BY <1>5, <1>6, <1>7
<1>9. Len(all) = n
  <2> HIDE DEF all
  <2>. QED BY <1>1, <1>3, <1>4
<1>. QED BY <1>3, <1>8, <1>9

\* They are edges of that layer, and add the target divided by its factor.
LEMMA RepackIs ==
  ASSUME NEW n \in Nat, NEW r \in [1..n -> Units], NEW l \in 1..n, NEW target \in Int,
         NEW nodes \in Seq(Nodes), Len(nodes) > 0
  PROVE  /\ Repack(l, target, nodes) \in Seq(EdgesOn(n))
         /\ Len(Repack(l, target, nodes)) = Len(nodes)
         /\ Repack(l, target, nodes)[1].layer = l
         /\ Over(Term(n, r), Repack(l, target, nodes)) = (Inverse1(r[l]) * target) % Prime
<1>1. PICK all \in Seq(Given) : /\ Len(all) = Len(nodes)
                               /\ Over(Weights, all) = target % Prime
                               /\ Repack(l, target, nodes) = Placed(l, 1, all)
  BY RepackPlaced
<1> DEFINE P == Placed(l, 1, all)
           I == Inverse1(r[l])
           t == target % Prime
<1>2. 1 \in Int /\ P \in Seq(EdgesOn(n)) /\ Len(P) = Len(all)
  BY PlacedAre
<1>3. P[1].layer = l
  <2>1. 1 \in DOMAIN all
    BY <1>1
  <2>. QED BY <2>1 DEF Placed, Edge
<1>4. Over(Term(n, r), P) = ((1 * I) * Over(Weights, all)) % Prime
  BY <1>2, PlacedGive
<1>5. I \in Int /\ t \in Int /\ Same(t, target)
  BY InverseIs, ModType, SameMod
<1> HIDE DEF P, I, t
<1>6. Same((1 * I) * t, I * target)
  <2>1. 1 * I = I /\ Same(I, I)
    BY <1>5 DEF Same
  <2>. QED BY <2>1, <1>5, SameTimes
<1>. QED BY <1>1, <1>2, <1>3, <1>4, <1>6 DEF Same, P, I, t

\* What the layers of a cipher give, divided by their factors.
Shares(ct, r) == [l \in 1..Len(ct.L) |-> LayerCoeffs(ct)[l] * Inverse1(r[l])]

\* Together they are what the edges add.
LEMMA SharesAre ==
  ASSUME NEW ct, IsCipher(ct), NEW r, IsFactors(ct.L, r)
  PROVE  /\ \A l \in 1..Len(ct.L) : LayerCoeffs(ct)[l] \in Int /\ Inverse1(r[l]) \in Int
         /\ Shares(ct, r) \in Seq(Int) /\ Len(Shares(ct, r)) = Len(ct.L)
         /\ SumOf(Shares(ct, r)) = Over(Term(Len(ct.L), r), ct.E)
<1> DEFINE n == Len(ct.L)
           E == ct.E
           m == Len(E)
           f == Term(n, r)
           I(l) == Inverse1(r[l])
           on(l) == [i \in 1..m |-> IF E[i].layer = l THEN Weight(E[i]) ELSE 0]
           C == LayerCoeffs(ct)
           a == [l \in 1..n |-> [i \in 1..m |-> on(l)[i] * I(l)]]
           rows == [l \in 1..n |-> SumOf(a[l])]
           col(i) == [l \in 1..n |-> a[l][i]]
           cols == [i \in 1..m |-> SumOf(col(i))]
           fs == [i \in DOMAIN E |-> f[E[i]]]
           sh == Shares(ct, r)
<1>1. /\ n \in Nat /\ DOMAIN ct.L = 1..n /\ E \in Seq(EdgesOn(n)) /\ r \in [1..n -> Units]
      /\ m \in Nat /\ DOMAIN E = 1..m
  BY CipherOrder DEF IsFactors
<1>2. \A i \in 1..m : E[i] \in EdgesOn(n) /\ Weight(E[i]) \in Int /\ E[i].layer \in 1..n
  <2>1. \A i \in 1..m : E[i] \in EdgesOn(n)
    BY <1>1
  <2> HIDE DEF m, E, n
  <2>. QED BY <2>1, <1>1, EdgeIs
<1>3. \A l \in 1..n : I(l) \in Int
  BY <1>1, InverseIs
<1>4. \A l \in 1..n : C[l] = SumOf(on(l))
  BY <1>1 DEF LayerCoeffs
<1>5. f \in [EdgesOn(n) -> Int]
      /\ \A e \in EdgesOn(n) : f[e] = (Weight(e) % Prime) * Inverse1(r[e.layer])
  BY <1>1, TermIs
<1>6. sh = [l \in 1..n |-> C[l] * I(l)]
  BY DEF Shares
<1> HIDE DEF n, E, m, f, I, C, sh
<1>7. ASSUME NEW l \in 1..n PROVE on(l) \in Seq(Int) /\ Len(on(l)) = m
  BY <1>1, <1>2
<1>8. \A l \in 1..n : C[l] \in Int
  <2> HIDE DEF on
  <2>. QED BY <1>4, <1>7, SumsGrow
<1>9. sh \in Seq(Int) /\ Len(sh) = n
  <2>1. \A l \in 1..n : C[l] * I(l) \in Int
    BY <1>3, <1>8, Ints
  <2>. QED BY <2>1, <1>1, <1>6
<1>10. /\ a \in [1..n -> Seq(Int)] /\ \A l \in 1..n : Len(a[l]) = m
       /\ \A l \in 1..n, i \in 1..m : a[l][i] = (IF E[i].layer = l THEN Weight(E[i]) ELSE 0) * I(l)
  <2>1. \A l \in 1..n, i \in 1..m : on(l)[i] * I(l) \in Int
    <3>1. \A l \in 1..n, i \in 1..m : on(l)[i] \in Int
      BY <1>1, <1>2
    <3> HIDE DEF on
    <3>. QED BY <3>1, <1>3, Ints
  <2>. QED BY <2>1, <1>1
<1>11. \A l \in 1..n : rows[l] = (I(l) * SumOf(on(l))) % Prime
  <2> TAKE l \in 1..n
  <2> DEFINE s == on(l)
             u == a[l]
             k == I(l)
  <2>1. s \in Seq(Int) /\ Len(s) = m /\ k \in Int /\ u \in Seq(Int) /\ Len(u) = m
    BY <1>3, <1>7, <1>10
  <2>2. \A i \in 1..m : u[i] = s[i] * k
    BY <1>1
  <2> HIDE DEF s, u, k
  <2>3. \A i \in 1..Len(s) : Same(u[i], k * s[i])
    <3>1. \A i \in 1..m : s[i] * k = k * s[i]
      BY <2>1, Products
    <3>. QED BY <3>1, <2>1, <2>2 DEF Same
  <2>4. SumOf(u) = (k * SumOf(s)) % Prime
    BY <2>1, <2>3, SumScaled
  <2>. QED BY <2>4 DEF s, u, k
<1>12. rows \in Seq(Int) /\ Len(rows) = n
  <2>1. \A l \in 1..n : a[l] \in Seq(Int)
    BY <1>10
  <2> HIDE DEF a
  <2>. QED BY <2>1, <1>1, SumsGrow
<1>13. SumOf(rows) = SumOf(sh)
  <2>1. \A l \in 1..n : Same(rows[l], sh[l])
    <3> TAKE l \in 1..n
    <3> DEFINE x == C[l]
               k == I(l)
    <3>1. x \in Int /\ k \in Int /\ sh[l] = x * k /\ rows[l] = (k * x) % Prime
      BY <1>3, <1>4, <1>6, <1>8, <1>11
    <3> HIDE DEF x, k, rows
    <3>2. k * x = x * k /\ k * x \in Int
      BY <3>1, Products
    <3>. QED BY <3>1, <3>2, SameMod
  <2> HIDE DEF rows
  <2>. QED BY <2>1, <1>9, <1>12, SumSame
<1>14. SumOf(rows) = SumOf(cols)
  <2> HIDE DEF a
  <2>. QED BY <1>1, <1>10, SumExchange
<1>15. ASSUME NEW i \in 1..m PROVE SumOf(col(i)) = (Weight(E[i]) * I(E[i].layer)) % Prime
  <2> DEFINE c == col(i)
             j == E[i].layer
             w == Weight(E[i])
  <2>1. j \in 1..n /\ w \in Int
    BY <1>2
  <2>2. \A l \in 1..n : c[l] = (IF j = l THEN w ELSE 0) * I(l)
    BY <1>10
  <2>3. c \in Seq(Int) /\ Len(c) = n
    BY <1>1, <1>10
  <2> HIDE DEF c, j, w
  <2>4. \A l \in 1..Len(c) : l # j => Same(c[l], 0)
    <3>1. \A l \in 1..n : 0 * I(l) = 0
      BY <1>3
    <3>. QED BY <3>1, <2>2, <2>3 DEF Same
  <2>5. SumOf(c) = c[j] % Prime
    BY <2>1, <2>3, <2>4, SumPoint
  <2>. QED BY <2>1, <2>2, <2>5 DEF c, w, j
<1>16. SumOf(cols) = Over(f, E)
  <2>1. fs \in Seq(Int) /\ Len(fs) = m /\ \A i \in 1..m : fs[i] = f[E[i]]
    BY <1>1, <1>5, OverIs DEF m
  <2>2. cols \in Seq(Int) /\ Len(cols) = m /\ \A i \in 1..m : cols[i] = SumOf(col(i))
    <3>1. \A i \in 1..m : col(i) \in Seq(Int)
      BY <1>1, <1>10
    <3> HIDE DEF col
    <3>. QED BY <3>1, <1>1, SumsGrow
  <2> HIDE DEF fs, cols, col
  <2>3. ASSUME NEW i \in 1..m PROVE Same(cols[i], fs[i])
    <3> DEFINE w == Weight(E[i])
               v == w % Prime
               k == I(E[i].layer)
    <3>1. w \in Int /\ k \in Int /\ cols[i] = (w * k) % Prime /\ fs[i] = v * k
      BY <1>2, <1>3, <1>5, <1>15, <2>1, <2>2 DEF I
    <3>2. v \in Int /\ Same(v, w)
      BY <3>1, ModType, SameMod
    <3> HIDE DEF w, v, k
    <3>3. Same(v * k, w * k) /\ w * k \in Int
      <4>1. Same(k, k)
        BY DEF Same
      <4>. QED BY <4>1, <3>1, <3>2, SameTimes, Ints
    <3>4. Same(cols[i], w * k)
      BY <3>1, <3>3, SameMod
    <3>. QED BY <3>1, <3>3, <3>4 DEF Same
  <2>4. SumOf(cols) = SumOf(fs)
    BY <2>1, <2>2, <2>3, SumSame
  <2>. QED BY <2>4 DEF fs, Over
<1>. QED BY <1>3, <1>8, <1>9, <1>13, <1>14, <1>16 DEF n, E, f, I, C, sh

\* Products of layers that stand after n of them, and factors of the lot.
AreProducts(P, n) ==
  \A k \in 1..Len(P) : P[k].rule = "prod" /\ P[k].pa \in 1..n /\ P[k].pb \in 1..n

\* w is u, then products of u.
FactorsWith(w, u, n, P) ==
  /\ \A l \in 1..n : w[l] = u[l]
  /\ \A k \in 1..Len(P) : w[n + k] = (u[P[k].pa] * u[P[k].pb]) % Prime

\* Products may stand after layers; their factors are products.
LEMMA ProductLayers ==
  ASSUME NEW L, InOrder(L), NEW u, IsFactors(L, u), NEW P \in Seq(Layers), AreProducts(P, Len(L))
  PROVE  /\ InOrder(L \o P) /\ Len(L \o P) = Len(L) + Len(P)
         /\ \A k \in 1..Len(P) : (L \o P)[Len(L) + k] = P[k]
         /\ \E w : IsFactors(L \o P, w) /\ FactorsWith(w, u, Len(L), P)
<1> DEFINE n == Len(L)
           m == Len(P)
           M == L \o P
           v(k) == (u[P[k].pa] * u[P[k].pb]) % Prime
           w == [l \in 1..n + m |-> IF l \in 1..n THEN u[l] ELSE v(l - n)]
<1>1. /\ n \in Nat /\ m \in Nat /\ L \in Seq(Layers) /\ DOMAIN L = 1..n
      /\ u \in [1..n -> Units] /\ \A l \in 1..n : u[l] = FactorOf(L, u, l)
  BY DEF InOrder, IsFactors
<1>2. M \in Seq(Layers) /\ Len(M) = n + m
  BY <1>1
<1>3. \A l \in 1..n : M[l] = L[l]
  BY <1>1
<1>4. \A k \in 1..m : n + k \in 1..n + m /\ n + k \notin 1..n /\ (n + k) - n = k
  BY <1>1
<1>5. ASSUME NEW k \in 1..m PROVE M[n + k] = P[k]
  BY <1>1, <1>4
<1>6. ASSUME NEW l \in 1..n + m, l \notin 1..n PROVE \E k \in 1..m : l = n + k
  <2>1. l - n \in 1..m /\ l = n + (l - n)
    BY <1>1, <1>6
  <2>. QED BY <2>1
<1>7. (\A l \in 1..n : w[l] = u[l]) /\ (\A k \in 1..m : w[n + k] = v(k))
  BY <1>1, <1>4
<1>8. ASSUME NEW k \in 1..m PROVE v(k) \in Units
  <2>1. P[k].pa \in 1..n /\ P[k].pb \in 1..n
    BY DEF AreProducts
  <2>2. u[P[k].pa] \in Units /\ u[P[k].pb] \in Units
    BY <2>1, <1>1
  <2>. QED BY <2>2, UnitProduct
<1> HIDE DEF n, m, M
<1>9. w \in [1..n + m -> Units]
  <2>1. ASSUME NEW l \in 1..n + m PROVE w[l] \in Units
    <3>1. CASE l \in 1..n
      BY <3>1, <1>1, <1>7
    <3>2. CASE l \notin 1..n
      <4>1. PICK k \in 1..m : l = n + k
        BY <3>2, <1>6
      <4> HIDE DEF v, w
      <4>. QED BY <4>1, <1>7, <1>8
    <3>. QED BY <3>1, <3>2
  <2>2. w = [l \in 1..n + m |-> w[l]]
    OBVIOUS
  <2> HIDE DEF w
  <2>. QED BY <2>1, <2>2
<1>10. ASSUME NEW l \in 1..n
       PROVE  (M[l].rule = "prod" => M[l].pa < l /\ M[l].pb < l) /\ w[l] = FactorOf(M, w, l)
  <2>1. M[l] = L[l] /\ w[l] = FactorOf(L, u, l)
    BY <1>1, <1>3, <1>7
  <2>2. \/ L[l].rule = "base"
        \/ L[l].rule = "prod" /\ L[l].pa \in 1..n /\ L[l].pb \in 1..n
           /\ L[l].pa < l /\ L[l].pb < l
    BY LayerIs DEF n
  <2>3. L[l].rule = "prod" => L[l].pa < l /\ L[l].pb < l
    BY <1>1 DEF InOrder
  <2> HIDE DEF w
  <2>. QED BY <2>1, <2>2, <2>3, <1>7 DEF FactorOf
<1>11. ASSUME NEW k \in 1..m
       PROVE  /\ M[n + k].pa < n + k /\ M[n + k].pb < n + k
              /\ w[n + k] = FactorOf(M, w, n + k)
  <2>1. M[n + k] = P[k] /\ w[n + k] = v(k)
    BY <1>5, <1>7
  <2>2. P[k].rule = "prod" /\ P[k].rule # "base" /\ P[k].pa \in 1..n /\ P[k].pb \in 1..n
    BY DEF n, m, AreProducts
  <2>3. P[k].pa < n + k /\ P[k].pb < n + k
    BY <2>2, <1>1
  <2>4. w[P[k].pa] = u[P[k].pa] /\ w[P[k].pb] = u[P[k].pb]
    BY <2>2, <1>7
  <2> HIDE DEF w
  <2>. QED BY <2>1, <2>2, <2>3, <2>4 DEF FactorOf
<1>12. \A l \in 1..n + m : /\ M[l].rule = "prod" => M[l].pa < l /\ M[l].pb < l
                          /\ w[l] = FactorOf(M, w, l)
  <2> TAKE l \in 1..n + m
  <2> HIDE DEF w
  <2>1. CASE l \in 1..n
    BY <2>1, <1>10
  <2>2. CASE l \notin 1..n
    <3>1. PICK k \in 1..m : l = n + k
      BY <2>2, <1>6
    <3>. QED BY <3>1, <1>11
  <2>. QED BY <2>1, <2>2
<1> HIDE DEF w
<1>13. InOrder(M) /\ IsFactors(M, w)
  <2>1. DOMAIN M = 1..n + m
    BY <1>2
  <2>. QED BY <2>1, <1>2, <1>9, <1>12 DEF InOrder, IsFactors
<1>14. FactorsWith(w, u, n, P)
  BY <1>7 DEF FactorsWith, m
<1>. QED BY <1>2, <1>5, <1>13, <1>14 DEF n, m, M

\* append_scaled_edges: a multiple of what the edges gave.
LEMMA ScaledEdgesAre ==
  ASSUME NEW m, NEW t, Factoring(m, t), NEW n, NEW r, Factoring(n, r),
         NEW off \in Nat, off + m <= n, NEW s, Joins(r, s, off, t, m),
         NEW E \in Seq(EdgesOn(m)), NEW c \in Int
  PROVE  /\ ScaledEdges(E, c, off) \in Seq(EdgesOn(n))
         /\ Over(Term(n, r), ScaledEdges(E, c, off)) = (c * Over(Term(m, t), E)) % Prime
<1> DEFINE f == Term(m, t)
           g == Term(n, r)
           D == [i \in DOMAIN E |-> [E[i] EXCEPT !.w = (@ * c) % Prime]]
           x == Over(f, E)
<1>1. /\ m \in Nat /\ n \in Nat /\ t \in [1..m -> Units] /\ r \in [1..n -> Units]
      /\ f \in [EdgesOn(m) -> Int] /\ g \in [EdgesOn(n) -> Int] /\ x \in Int
  BY TermIs, OverIs DEF Factoring
<1>2. DOMAIN E = 1..Len(E) /\ Len(E) \in Nat
  OBVIOUS
<1>3. ASSUME NEW i \in 1..Len(E)
      PROVE  D[i] \in EdgesOn(m) /\ Same(f[D[i]], c * f[E[i]])
  <2> DEFINE e == E[i]
             w == e.w
             v == (w * c) % Prime
             d == [e EXCEPT !.w = v]
  <2>1. e \in EdgesOn(m) /\ w \in Int
    <3>1. e \in EdgesOn(m)
      BY <1>2
    <3>. QED BY <3>1, <1>1, EdgeIs
  <2>2. v \in 0..Prime - 1 /\ v \in Int /\ Same(v, w * c) /\ w * c \in Int
    BY <2>1, Ints, ModType, SameMod DEF Fld
  <2>3. D[i] = d
    BY <1>2
  <2> HIDE DEF e, v
  <2>4. d \in EdgesOn(m) /\ d.w = v /\ d.layer = e.layer /\ d.idx = e.idx /\ d.ch = e.ch
    BY <2>1, <2>2 DEF EdgesOn
  <2> HIDE DEF d
  <2> DEFINE k == PerUnit(e, t)
  <2>5. k \in Int /\ Same(f[e], k * w) /\ Same(f[d], k * v) /\ f[e] \in Int /\ f[d] \in Int
    <3>1. PerUnit(d, t) = k
      BY <2>4 DEF PerUnit
    <3>. QED BY <3>1, <2>1, <2>4, <1>1, TermIs
  <2> HIDE DEF k, w, f
  <2>6. Same(k * v, k * (w * c))
    <3>1. Same(k, k)
      BY DEF Same
    <3>. QED BY <3>1, <2>2, <2>5, SameTimes
  <2>7. Same(c * f[e], c * (k * w))
    <3>1. Same(c, c) /\ k * w \in Int
      BY <2>1, <2>5, Ints DEF Same
    <3>. QED BY <3>1, <2>5, SameTimes
  <2>8. c * (k * w) = k * (w * c)
    <3>1. c * (k * w) = (k * w) * c /\ (k * w) * c = k * (w * c)
      BY <2>1, <2>5, Products, Ints
    <3>. QED BY <3>1
  <2>9. Same(f[d], c * f[e])
    BY <2>5, <2>6, <2>7, <2>8 DEF Same
  <2>. QED BY <2>3, <2>4, <2>9 DEF e
<1>4. D \in Seq(EdgesOn(m)) /\ Len(D) = Len(E)
  <2>1. D = [i \in 1..Len(E) |-> D[i]]
    BY <1>2
  <2> HIDE DEF D
  <2>. QED BY <2>1, <1>2, <1>3
<1>5. Over(f, D) = (c * x) % Prime
  <2> DEFINE fe == [i \in DOMAIN E |-> f[E[i]]]
             fd == [i \in DOMAIN D |-> f[D[i]]]
  <2> HIDE DEF f, D
  <2>1. fe \in Seq(Int) /\ Len(fe) = Len(E) /\ x = SumOf(fe)
        /\ \A i \in 1..Len(E) : fe[i] = f[E[i]]
    BY <1>1, OverIs DEF Over
  <2>2. fd \in Seq(Int) /\ Len(fd) = Len(E) /\ Over(f, D) = SumOf(fd)
        /\ \A i \in 1..Len(E) : fd[i] = f[D[i]]
    BY <1>1, <1>4, OverIs DEF Over
  <2>3. \A i \in 1..Len(E) : Same(fd[i], c * fe[i])
    BY <1>3, <2>1, <2>2
  <2> HIDE DEF fe, fd
  <2>. QED BY <2>1, <2>2, <2>3, SumScaled
<1>6. CASE c % Prime # 0
  <2>1. ScaledEdges(E, c, off) = EdgesAfter(D, off)
    <3> DEFINE F == ScaledEdges(E, c, off)
               G == EdgesAfter(D, off)
    <3>1. F = [i \in 1..Len(E) |-> [E[i] EXCEPT !.layer = @ + off, !.w = (@ * c) % Prime]]
      BY <1>2, <1>6 DEF ScaledEdges
    <3>2. G = [i \in 1..Len(E) |-> [D[i] EXCEPT !.layer = @ + off]]
      BY <1>2 DEF EdgesAfter
    <3>3. ASSUME NEW i \in 1..Len(E)
          PROVE  [E[i] EXCEPT !.layer = @ + off, !.w = (@ * c) % Prime]
                   = [D[i] EXCEPT !.layer = @ + off]
      <4>1. E[i] \in EdgesOn(m) /\ D[i] = [E[i] EXCEPT !.w = (E[i].w * c) % Prime]
        BY <1>2
      <4> HIDE DEF D
      <4>. QED BY <4>1 DEF EdgesOn
    <3> HIDE DEF F, G, D
    <3>. QED BY <3>1, <3>2, <3>3 DEF F, G
  <2> HIDE DEF D, f, g
  <2>. QED BY <2>1, <1>4, <1>5, EdgesAfterIs DEF f, g
<1>7. CASE c % Prime = 0
  <2>1. ScaledEdges(E, c, off) = <<>> /\ <<>> \in Seq(EdgesOn(n))
    BY <1>7 DEF ScaledEdges
  <2>2. Same(c * x, 0 * x) /\ 0 * x = 0 /\ 0 % Prime = 0
    <3>1. Same(c, 0) /\ Same(x, x) /\ 0 % Prime = 0
      BY <1>7, PrimeType DEF Same
    <3> HIDE DEF x
    <3>2. 0 * x = 0
      BY <1>1
    <3>. QED BY <3>1, <3>2, <1>1, SameTimes
  <2>. QED BY <2>1, <2>2, OverEmpty DEF Same
<1>. QED BY <1>6, <1>7

\* A cipher all of whose layers are needed stays as it is.
LEMMA NothingToCompact ==
  ASSUME NEW ct, IsCipher(ct), NEW S \in SUBSET (1..Len(ct.L)),
         \A l \in S : \E i \in DOMAIN ct.E : ct.E[i].layer = l,
         \A l \in 1..Len(ct.L) :
           l \in S \/ \E k \in S : ct.L[k].rule = "prod" /\ l \in {ct.L[k].pa, ct.L[k].pb}
  PROVE  CompactLayers(ct) = ct
<1> DEFINE n == Len(ct.L)
           live == LiveLayers(ct)
<1>1. /\ live \in SUBSET (1..n)
      /\ \A i \in DOMAIN ct.E : ct.E[i].layer \in live
      /\ \A l \in live : ct.L[l].rule = "prod" => ct.L[l].pa \in live /\ ct.L[l].pb \in live
  BY LiveAre
<1>2. n \in Nat
  BY CipherOrder
<1> HIDE DEF live
<1>3. S \subseteq live
  BY <1>1
<1>4. live = 1..n
  <2>1. ASSUME NEW l \in 1..n PROVE l \in live
    <3>1. CASE l \in S
      BY <3>1, <1>3
    <3>2. CASE \E k \in S : ct.L[k].rule = "prod" /\ l \in {ct.L[k].pa, ct.L[k].pb}
      BY <3>2, <1>1, <1>3
    <3>. QED BY <3>1, <3>2
  <2>. QED BY <2>1, <1>1
<1>5. Cardinality(live) = n
  <2>1. Cardinality(1..n) = n
    BY <1>2, FS_Interval
  <2>. QED BY <2>1, <1>4
<1>. QED BY <1>5 DEF CompactLayers, live

\* The product layers of Mul.
Crossed(a, b) ==
  [k \in 1..Len(a.L) * Len(b.L) |->
     Prod(Former(k, Len(b.L)), Len(a.L) + Latter(k, Len(b.L)))]

\* What the edges of the k-th product give.
Target(a, b, k) ==
  (LayerCoeffs(a)[Former(k, Len(b.L))] * LayerCoeffs(b)[Latter(k, Len(b.L))]) % Prime

\* Those edges.
Repacked(a, b, nodes) ==
  [k \in 1..Len(a.L) * Len(b.L) |->
     Repack(Len(a.L) + Len(b.L) + k, Target(a, b, k), nodes)]

\* The cipher of the products alone.
Crossing(a, b, nodes) ==
  Cipher((a.L \o LayersAfter(b.L, Len(a.L))) \o Crossed(a, b),
         FlattenSeq(Repacked(a, b, nodes)), <<0>>)

\* Mul is made of these.
LEMMA MulParts ==
  ASSUME NEW a, NEW b, NEW nodes
  PROVE  LET products == CompactLayers(WithinBudget(Crossing(a, b, nodes)))
         IN Mul(a, b, nodes) =
              CompactLayers(WithinBudget(Cipher(products.L,
                products.E \o ScaledEdges(b.E, a.c0[1], Len(a.L)) \o ScaledEdges(a.E, b.c0[1], 0),
                <<(a.c0[1] * b.c0[1]) % Prime>>)))
<1> DEFINE la == Len(a.L)
           lb == Len(b.L)
           L == a.L \o LayersAfter(b.L, la)
           pairs == [n \in 1..la * lb |-> <<(n - 1) \div lb + 1, ((n - 1) % lb) + 1>>]
           target(n) == (LayerCoeffs(a)[pairs[n][1]] * LayerCoeffs(b)[pairs[n][2]]) % Prime
<1>1. DOMAIN pairs = 1..la * lb
  OBVIOUS
<1>2. \A n \in 1..la * lb : pairs[n][1] = Former(n, lb) /\ pairs[n][2] = Latter(n, lb)
  BY DEF Former, Latter
<1> HIDE DEF pairs
<1>3. [n \in DOMAIN pairs |-> Prod(pairs[n][1], la + pairs[n][2])] = Crossed(a, b)
  BY <1>1, <1>2 DEF Crossed
<1>4. [n \in DOMAIN pairs |-> Repack(la + lb + n, target(n), nodes)] = Repacked(a, b, nodes)
  <2>1. \A n \in 1..la * lb : target(n) = Target(a, b, n)
    BY <1>2 DEF Target
  <2> HIDE DEF target
  <2>. QED BY <1>1, <2>1 DEF Repacked
<1>. QED BY <1>3, <1>4, Zenon DEF Mul, Crossing, pairs

\* The factors w of m layers that stand after n others are products of ra's and rb's.
Multiply(w, n, m, ra, rb, lb) ==
  \A k \in 1..m : w[n + k] = (ra[Former(k, lb)] * rb[Latter(k, lb)]) % Prime

\* n layers of a and b, m products of them.
Sizes(a, b, n, m) == n = Len(a.L) + Len(b.L) /\ m = Len(a.L) * Len(b.L)

\* The last m layers of M are products of a layer of a and one of b each.
Crosses(M, a, b, n, m) ==
  \A k \in 1..m : /\ M[n + k].rule = "prod" /\ M[n + k].pa = Former(k, Len(b.L))
                  /\ M[n + k].pb = Len(a.L) + Latter(k, Len(b.L))

\* The layers of the products are in order, their factors are products.
LEMMA CrossedAre ==
  ASSUME NEW a, IsCipher(a), NEW b, IsCipher(b), Len(a.L) > 0, Len(b.L) > 0,
         NEW ra, IsFactors(a.L, ra), NEW rb, IsFactors(b.L, rb),
         NEW n \in Nat, NEW m \in Nat, Sizes(a, b, n, m),
         NEW M, M = (a.L \o LayersAfter(b.L, Len(a.L))) \o Crossed(a, b)
  PROVE  /\ InOrder(M) /\ Len(M) = n + m /\ Crosses(M, a, b, n, m)
         /\ \E w : /\ IsFactors(M, w) /\ Joins(w, ra, Len(a.L), rb, Len(b.L))
                   /\ Multiply(w, n, m, ra, rb, Len(b.L))
<1> DEFINE la == Len(a.L)
           lb == Len(b.L)
           L == a.L \o LayersAfter(b.L, la)
           P == Crossed(a, b)
           p(k) == Former(k, lb)
           q(k) == Latter(k, lb)
<1>1. n = la + lb /\ m = la * lb
  BY DEF Sizes
<1>2. InOrder(a.L) /\ InOrder(b.L) /\ la \in Nat \ {0} /\ lb \in Nat \ {0}
  BY CipherOrder
<1>3. InOrder(L) /\ Len(L) = n
      /\ \E u : IsFactors(L, u) /\ Joins(u, ra, la, rb, lb)
  BY <1>1, <1>2, FactorsConcat
<1>4. PICK u : IsFactors(L, u) /\ Joins(u, ra, la, rb, lb)
  BY <1>3
<1>5. \A k \in 1..m : p(k) \in 1..la /\ q(k) \in 1..lb
  <2> HIDE DEF la, lb
  <2>. QED BY <1>1, <1>2, PairPlaces
<1>6. P = [k \in 1..m |-> Prod(p(k), la + q(k))]
  BY <1>1 DEF Crossed
<1>7. M = L \o P
  OBVIOUS
<1> HIDE DEF la, lb, L, P, p, q
<1>8. ASSUME NEW k \in 1..m
      PROVE  /\ P[k] \in Layers /\ P[k].rule = "prod" /\ P[k].pa = p(k) /\ P[k].pb = la + q(k)
             /\ P[k].pa \in 1..n /\ P[k].pb \in 1..n
  <2> DEFINE x == p(k)
             y == la + q(k)
  <2>1. x < y /\ x \in 1..n /\ y \in 1..n
    BY <1>1, <1>2, <1>5
  <2>2. P[k] = Prod(x, y)
    BY <1>6
  <2> HIDE DEF x, y
  <2>3. P[k] = [rule |-> "prod", pa |-> x, pb |-> y]
    BY <2>1, <2>2 DEF Prod
  <2>4. x \in Nat \ {0} /\ y \in Nat \ {0}
    BY <2>1
  <2>5. P[k] \in Layers
    BY <2>3, <2>4 DEF Layers
  <2>6. P[k].rule = "prod" /\ P[k].pa = x /\ P[k].pb = y
    BY <2>3
  <2>. QED BY <2>1, <2>5, <2>6 DEF x, y
<1>9. P \in Seq(Layers) /\ Len(P) = m
  BY <1>5, <1>6, <1>8
<1>10. /\ InOrder(M) /\ Len(M) = n + m /\ \A k \in 1..m : M[n + k] = P[k]
      /\ \E w : IsFactors(M, w) /\ FactorsWith(w, u, n, P)
  <2>1. Len(L) = n /\ InOrder(L) /\ IsFactors(L, u) /\ P \in Seq(Layers)
    BY <1>3, <1>4, <1>9
  <2>2. AreProducts(P, Len(L))
    BY <2>1, <1>8, <1>9 DEF AreProducts
  <2>3. InOrder(L \o P) /\ Len(L \o P) = Len(L) + Len(P)
    BY <2>1, <2>2, ProductLayers
  <2>4. \A k \in 1..Len(P) : (L \o P)[Len(L) + k] = P[k]
    BY <2>1, <2>2, ProductLayers
  <2>5. \E w : IsFactors(L \o P, w) /\ FactorsWith(w, u, Len(L), P)
    BY <2>1, <2>2, ProductLayers
  <2>. QED BY <2>1, <2>3, <2>4, <2>5, <1>7, <1>9
<1>11. PICK w : IsFactors(M, w) /\ FactorsWith(w, u, n, P)
  BY <1>10
<1>12. /\ \A l \in 1..n : w[l] = u[l]
       /\ \A k \in 1..m : w[n + k] = (u[P[k].pa] * u[P[k].pb]) % Prime
  BY <1>9, <1>11 DEF FactorsWith
<1>13. ASSUME NEW k \in 1..m PROVE w[n + k] = (ra[p(k)] * rb[q(k)]) % Prime
  <2>1. u[p(k)] = ra[p(k)] /\ u[q(k) + la] = rb[q(k)]
    BY <1>4, <1>5 DEF Joins
  <2>2. la + q(k) = q(k) + la
    BY <1>2, <1>5
  <2>. QED BY <2>1, <2>2, <1>8, <1>12
<1>14. Joins(w, ra, la, rb, lb)
  <2>1. \A l \in 1..la : l \in 1..n
    BY <1>1, <1>2
  <2>2. \A l \in 1..lb : l + la \in 1..n
    BY <1>1, <1>2
  <2>. QED BY <2>1, <2>2, <1>4, <1>12 DEF Joins
<1>15. Crosses(M, a, b, n, m)
  BY <1>8, <1>10 DEF Crosses, p, q, la, lb
<1>16. Multiply(w, n, m, ra, rb, lb)
  BY <1>13 DEF Multiply, p, q
<1>. QED BY <1>10, <1>11, <1>14, <1>15, <1>16 DEF la, lb

\* Each of the layers n + 1..n + m has an edge.
Occupied(E, n, m) == \A k \in 1..m : \E i \in 1..Len(E) : E[i].layer = n + k

\* RepackIs, as one fact.
Repacks(n, r, l, target, nodes) ==
  /\ Repack(l, target, nodes) \in Seq(EdgesOn(n))
  /\ Len(Repack(l, target, nodes)) = Len(nodes)
  /\ Repack(l, target, nodes)[1].layer = l
  /\ Over(Term(n, r), Repack(l, target, nodes)) = (Inverse1(r[l]) * target) % Prime

\* RepackIs, as one fact.
LEMMA RepackDoes ==
  ASSUME NEW n \in Nat, NEW r \in [1..n -> Units], NEW l \in 1..n, NEW target \in Int,
         NEW nodes \in Seq(Nodes), Len(nodes) > 0
  PROVE  Repacks(n, r, l, target, nodes)
BY RepackIs DEF Repacks

\* The edges of all products give the product of what a and b give.
LEMMA RepackedGive ==
  ASSUME NEW a, IsCipher(a), NEW b, IsCipher(b), Len(a.L) > 0, Len(b.L) > 0,
         NEW ra, IsFactors(a.L, ra), NEW rb, IsFactors(b.L, rb),
         NEW nodes \in Seq(Nodes), Len(nodes) > 0,
         NEW n \in Nat, NEW m \in Nat, Sizes(a, b, n, m),
         NEW w \in [1..n + m -> Units], Multiply(w, n, m, ra, rb, Len(b.L))
  PROVE  /\ FlattenSeq(Repacked(a, b, nodes)) \in Seq(EdgesOn(n + m))
         /\ Over(Term(n + m, w), FlattenSeq(Repacked(a, b, nodes)))
              = (Over(Term(Len(a.L), ra), a.E) * Over(Term(Len(b.L), rb), b.E)) % Prime
         /\ Occupied(FlattenSeq(Repacked(a, b, nodes)), n, m)
<1> DEFINE la == Len(a.L)
           lb == Len(b.L)
           N == n + m
           T == EdgesOn(N)
           f == Term(N, w)
           R == Repacked(a, b, nodes)
           p(k) == Former(k, lb)
           q(k) == Latter(k, lb)
           ca(l) == LayerCoeffs(a)[l]
           cb(l) == LayerCoeffs(b)[l]
           ia(l) == Inverse1(ra[l])
           ib(l) == Inverse1(rb[l])
           t(k) == Target(a, b, k)
           x == Shares(a, ra)
           y == Shares(b, rb)
<1>1. /\ la \in Nat \ {0} /\ lb \in Nat \ {0} /\ n = la + lb /\ m = la * lb
      /\ ra \in [1..la -> Units] /\ rb \in [1..lb -> Units]
  <2>1. la \in Nat /\ lb \in Nat
    BY CipherOrder
  <2>2. ra \in [1..la -> Units] /\ rb \in [1..lb -> Units]
    BY DEF IsFactors
  <2>3. n = la + lb /\ m = la * lb
    BY DEF Sizes
  <2> HIDE DEF la, lb
  <2>4. la > 0 /\ lb > 0
    BY DEF la, lb
  <2>. QED BY <2>1, <2>2, <2>3, <2>4
<1>2. \A k \in 1..m : p(k) \in 1..la /\ q(k) \in 1..lb
  <2> HIDE DEF la, lb
  <2>. QED BY <1>1, PairPlaces
<1>3. /\ x \in Seq(Int) /\ Len(x) = la /\ SumOf(x) = Over(Term(la, ra), a.E)
      /\ \A l \in 1..la : ca(l) \in Int /\ ia(l) \in Int /\ x[l] = ca(l) * ia(l)
  BY SharesAre DEF Shares
<1>4. /\ y \in Seq(Int) /\ Len(y) = lb /\ SumOf(y) = Over(Term(lb, rb), b.E)
      /\ \A l \in 1..lb : cb(l) \in Int /\ ib(l) \in Int /\ y[l] = cb(l) * ib(l)
  BY SharesAre DEF Shares
<1>5. \A k \in 1..m : t(k) = (ca(p(k)) * cb(q(k))) % Prime
  BY DEF Target
<1>6. R = [k \in 1..m |-> Repack(n + k, t(k), nodes)]
  BY <1>1 DEF Repacked
<1>7. \A k \in 1..m : w[n + k] = (ra[p(k)] * rb[q(k)]) % Prime
  BY DEF Multiply
<1>8. f \in [T -> Int] /\ N \in Nat
  <2>1. N \in Nat
    OBVIOUS
  <2> HIDE DEF N
  <2>2. w \in [1..N -> Units]
    BY DEF N
  <2>. QED BY <2>1, <2>2, TermIs
<1> HIDE DEF la, lb, R, p, q, ca, cb, ia, ib, t, x, y, f, T
<1>9. ASSUME NEW k \in 1..m
      PROVE  /\ R[k] \in Seq(T) /\ Len(R[k]) = Len(nodes) /\ R[k][1].layer = n + k
             /\ Same(Over(f, R[k]), x[p(k)] * y[q(k)])
  <2> DEFINE l == n + k
             c == t(k)
             c1 == ca(p(k))
             c2 == cb(q(k))
             i1 == ia(p(k))
             i2 == ib(q(k))
             I == Inverse1(w[l])
  <2>1. /\ p(k) \in 1..la /\ q(k) \in 1..lb /\ c1 \in Int /\ c2 \in Int /\ i1 \in Int /\ i2 \in Int
        /\ x[p(k)] = c1 * i1 /\ y[q(k)] = c2 * i2
    BY <1>2, <1>3, <1>4
  <2>2. c = (c1 * c2) % Prime
    BY <1>5
  <2>3. l \in 1..N
    OBVIOUS
  <2>4. I \in Int /\ Same(I, i1 * i2)
    <3>1. w[l] \in Units /\ ra[p(k)] \in Units /\ rb[q(k)] \in Units
      BY <2>1, <2>3, <1>1
    <3>2. w[l] = (ra[p(k)] * rb[q(k)]) % Prime
      BY <1>7
    <3>. QED BY <3>1, <3>2, InverseIs, InverseProduct DEF ia, ib
  <2>5. R[k] = Repack(l, c, nodes)
    BY <1>6
  <2> HIDE DEF l, c, c1, c2, i1, i2, I
  <2>6. c1 * c2 \in Int /\ c \in Int /\ Same(c, c1 * c2) /\ i1 * i2 \in Int
    BY <2>1, <2>2, Ints, ModType, SameMod
  <2>7. /\ R[k] \in Seq(T) /\ Len(R[k]) = Len(nodes) /\ R[k][1].layer = l
        /\ Over(f, R[k]) = (I * c) % Prime
    <3> HIDE DEF N
    <3>1. w \in [1..N -> Units]
      BY DEF N
    <3>2. /\ Repack(l, c, nodes) \in Seq(EdgesOn(N)) /\ Len(Repack(l, c, nodes)) = Len(nodes)
          /\ Repack(l, c, nodes)[1].layer = l
          /\ Over(Term(N, w), Repack(l, c, nodes)) = (Inverse1(w[l]) * c) % Prime
      <4>1. N \in Nat
        BY <1>8
      <4>2. c \in Int
        BY <2>6
      <4>3. Repacks(N, w, l, c, nodes)
        BY <3>1, <2>3, <4>1, <4>2, RepackDoes
      <4>. QED BY <4>3 DEF Repacks
    <3>. QED BY <3>2, <2>5 DEF T, f, I
  <2>8. Same(I * c, (i1 * i2) * (c1 * c2)) /\ I * c \in Int
    BY <2>4, <2>6, SameTimes, Ints
  <2>9. (i1 * i2) * (c1 * c2) = (c1 * i1) * (c2 * i2)
    BY <2>1
  <2>10. Same(Over(f, R[k]), x[p(k)] * y[q(k)])
    <3>1. Same((I * c) % Prime, I * c)
      BY <2>8, SameMod
    <3>. QED BY <3>1, <2>1, <2>7, <2>8, <2>9 DEF Same
  <2>. QED BY <2>7, <2>10 DEF l
<1>10. R \in Seq(Seq(T)) /\ Len(R) = m
  <2>1. \A k \in 1..m : R[k] \in Seq(T)
    BY <1>9
  <2>2. DOMAIN R = 1..m /\ R = [k \in 1..m |-> R[k]]
    BY <1>6
  <2> DEFINE S == Seq(T)
  <2>3. \A k \in 1..m : R[k] \in S
    BY <2>1
  <2> HIDE DEF S
  <2>4. R \in Seq(S) /\ Len(R) = m
    BY <2>2, <2>3
  <2>. QED BY <2>4 DEF S
<1> DEFINE s == [k \in 1..m |-> Over(f, R[k])]
<1>11. Over(f, FlattenSeq(R)) = SumOf(s) /\ s \in Seq(Int) /\ Len(s) = m
  <2>1. /\ [k \in 1..Len(R) |-> Over(f, R[k])] \in Seq(Int)
        /\ Over(f, FlattenSeq(R)) = SumOf([k \in 1..Len(R) |-> Over(f, R[k])])
    BY <1>8, <1>10, OverFlatten
  <2>. QED BY <2>1, <1>2, <1>10
<1>12. SumOf(s) = (SumOf(x) * SumOf(y)) % Prime
  <2>1. \A k \in 1..m : Same(s[k], x[(k - 1) \div lb + 1] * y[((k - 1) % lb) + 1])
    <3>1. \A k \in 1..m : s[k] = Over(f, R[k])
      OBVIOUS
    <3> HIDE DEF s
    <3>. QED BY <3>1, <1>9 DEF p, q, Former, Latter
  <2>2. m = la * lb
    BY <1>1
  <2> HIDE DEF s
  <2>3. /\ la \in Nat /\ lb \in Nat \ {0}
        /\ x \in Seq(Int) /\ Len(x) = la /\ y \in Seq(Int) /\ Len(y) = lb
        /\ s \in Seq(Int) /\ Len(s) = la * lb
    BY <1>1, <1>3, <1>4, <1>11, <2>2
  <2>4. ByPairs(s, x, la, y, lb)
    BY <2>1, <2>2, <2>3 DEF ByPairs
  <2>. QED BY <2>3, <2>4, PairsSum
<1>13. FlattenSeq(R) \in Seq(T)
  BY <1>10, FlattenIs
<1>14. ASSUME NEW k \in 1..m PROVE \E i \in 1..Len(FlattenSeq(R)) : FlattenSeq(R)[i].layer = n + k
  <2>1. k \in 1..Len(R) /\ 1 \in 1..Len(R[k])
    BY <1>9, <1>10
  <2>2. \E i \in 1..Len(FlattenSeq(R)) : FlattenSeq(R)[i] = R[k][1]
    BY ZenonT(30), <2>1, <1>10, FlattenHas
  <2>. QED BY <2>2, <1>9
<1>. QED BY <1>3, <1>4, <1>11, <1>12, <1>13, <1>14 DEF R, f, T, la, lb, Occupied

\* The product layers of a and b, all of them needed.
LEMMA CrossingIs ==
  ASSUME NEW a, IsCipher(a), NEW b, IsCipher(b), Len(a.L) > 0, Len(b.L) > 0,
         NEW ra, IsFactors(a.L, ra), NEW rb, IsFactors(b.L, rb),
         NEW nodes \in Seq(Nodes), Len(nodes) > 0
  PROVE  \E L, E, w :
           /\ CompactLayers(WithinBudget(Crossing(a, b, nodes))) = Cipher(L, E, <<0>>)
           /\ InOrder(L) /\ Len(a.L) + Len(b.L) <= Len(L) /\ E \in Seq(EdgesOn(Len(L)))
           /\ IsFactors(L, w) /\ Joins(w, ra, Len(a.L), rb, Len(b.L))
           /\ Over(Term(Len(L), w), E)
                = (Over(Term(Len(a.L), ra), a.E) * Over(Term(Len(b.L), rb), b.E)) % Prime
<1> DEFINE la == Len(a.L)
           lb == Len(b.L)
           n == la + lb
           m == la * lb
           L == (a.L \o LayersAfter(b.L, la)) \o Crossed(a, b)
           F == FlattenSeq(Repacked(a, b, nodes))
           C == Cipher(L, F, <<0>>)
           x == (Over(Term(la, ra), a.E) * Over(Term(lb, rb), b.E)) % Prime
<1>1. la \in Nat \ {0} /\ lb \in Nat \ {0}
  BY CipherOrder
<1>2. n \in Nat /\ m \in Nat /\ Sizes(a, b, n, m)
  <2>1. Sizes(a, b, n, m)
    BY DEF Sizes
  <2> HIDE DEF la, lb
  <2>2. n \in Nat /\ m \in Nat
    BY <1>1, PairPlaces
  <2>. QED BY <2>1, <2>2
<1> HIDE DEF n, m
<1>3. /\ InOrder(L) /\ Len(L) = n + m /\ Crosses(L, a, b, n, m)
      /\ \E w : /\ IsFactors(L, w) /\ Joins(w, ra, la, rb, lb)
                /\ Multiply(w, n, m, ra, rb, lb)
  BY <1>2, CrossedAre
<1>4. PICK w : /\ IsFactors(L, w) /\ Joins(w, ra, la, rb, lb)
               /\ Multiply(w, n, m, ra, rb, lb)
  BY <1>3
<1>5. Crossing(a, b, nodes) = C
  BY DEF Crossing
<1> HIDE DEF L
<1>6. w \in [1..n + m -> Units]
  BY <1>3, <1>4 DEF IsFactors
<1>7. /\ F \in Seq(EdgesOn(n + m)) /\ Over(Term(n + m, w), F) = x
      /\ \A k \in 1..m : \E i \in 1..Len(F) : F[i].layer = n + k
  <2>1. Multiply(w, n, m, ra, rb, Len(b.L))
    BY <1>4
  <2>2. /\ FlattenSeq(Repacked(a, b, nodes)) \in Seq(EdgesOn(n + m))
        /\ Over(Term(n + m, w), FlattenSeq(Repacked(a, b, nodes)))
             = (Over(Term(Len(a.L), ra), a.E) * Over(Term(Len(b.L), rb), b.E)) % Prime
        /\ Occupied(FlattenSeq(Repacked(a, b, nodes)), n, m)
    <3> HIDE DEF F, x, la, lb, L, C
    <3>. QED BY <2>1, <1>2, <1>6, RepackedGive
  <2>. QED BY <2>2 DEF Occupied
<1>8. \A k \in 1..m : /\ L[n + k].rule = "prod" /\ L[n + k].pa = Former(k, lb)
                      /\ L[n + k].pb = la + Latter(k, lb)
  BY <1>3 DEF Crosses
<1> HIDE DEF x, la, lb, F
<1>9. IsCipher(C)
  <2>1. <<0>> \in Seq(Fld) /\ Len(<<0>>) \in {0, 1}
    BY PrimeType DEF Fld
  <2>. QED BY <2>1, <1>3, <1>7, IsCipherIf
<1> DEFINE E == IF Len(F) > EdgeBudget THEN Merge(F) ELSE F
           D == Cipher(L, E, <<0>>)
<1>10. WithinBudget(C) = D
  <2>1. C.E = F /\ C = [L |-> L, E |-> F, c0 |-> <<0>>]
    BY DEF Cipher
  <2> DEFINE M == Merge(F)
             X == [C EXCEPT !.E = M]
  <2>2. WithinBudget(C) = IF Len(F) > EdgeBudget THEN X ELSE C
    BY <2>1 DEF WithinBudget
  <2>3. X = Cipher(L, M, <<0>>)
    <3> HIDE DEF C, M
    <3>1. X = [C EXCEPT !.E = M]
      OBVIOUS
    <3> HIDE DEF X
    <3>2. X = [L |-> L, E |-> M, c0 |-> <<0>>]
      BY <3>1, <2>1
    <3>. QED BY <3>2 DEF Cipher
  <2> HIDE DEF X, M
  <2>. QED BY <2>2, <2>3 DEF M
<1>11. /\ E \in Seq(EdgesOn(n + m)) /\ Over(Term(n + m, w), E) = x
       /\ \A k \in 1..m : \E i \in 1..Len(E) : E[i].layer = n + k
  <2>1. n + m \in Nat
    BY <1>2
  <2>2. /\ Merge(F) \in Seq(EdgesOn(n + m)) /\ Over(Term(n + m, w), Merge(F)) = x
        /\ \A i \in 1..Len(F) : \E j \in 1..Len(Merge(F)) : Merge(F)[j].layer = F[i].layer
    <3> DEFINE N == n + m
    <3> HIDE DEF N
    <3>1. /\ Merge(F) \in Seq(EdgesOn(N)) /\ Over(Term(N, w), Merge(F)) = Over(Term(N, w), F)
          /\ \A i \in 1..Len(F) : \E j \in 1..Len(Merge(F)) : Merge(F)[j].layer = F[i].layer
      BY <2>1, <1>6, <1>7, MergeIs DEF N
    <3>. QED BY <3>1, <1>7 DEF N
  <2>. QED BY <2>2, <1>7
<1> HIDE DEF E
<1>12. IsCipher(D)
  <2>1. IsCipher(WithinBudget(C))
    BY <1>9, WithinBudgetIs
  <2>. QED BY <2>1, <1>10
<1>13. CompactLayers(D) = D
  <2> DEFINE S == {n + k : k \in 1..m}
  <2>1. D.L = L /\ D.E = E /\ DOMAIN E = 1..Len(E)
    BY <1>11 DEF Cipher
  <2>2. S \in SUBSET (1..Len(L))
    BY <1>2, <1>3
  <2>3. \A l \in S : \E i \in DOMAIN E : E[i].layer = l
    BY <1>11, <2>1
  <2>4. ASSUME NEW l \in 1..Len(L), l \notin S
        PROVE  \E j \in S : L[j].rule = "prod" /\ l \in {L[j].pa, L[j].pb}
    <3>1. l \in 1..n
      <4>1. l > n => l - n \in 1..m /\ l = n + (l - n)
        BY <1>2, <1>3
      <4>2. ~(l > n)
        BY <4>1, <2>4
      <4>. QED BY <4>2, <1>2
    <3>2. CASE l <= la
      <4>1. l \in 1..la
        BY <3>1, <3>2
      <4>2. PICK k \in 1..la * lb : Former(k, lb) = l
        <5>1. \A i \in 1..la : \E k \in 1..la * lb : Former(k, lb) = i
          BY <1>1, PairPlaces
        <5>. QED BY <4>1, <5>1
      <4>3. k \in 1..m
        BY DEF m
      <4>. QED BY <4>2, <4>3, <1>8
    <3>3. CASE ~(l <= la)
      <4>1. l - la \in 1..lb /\ la + (l - la) = l
        BY <3>1, <3>3, <1>1 DEF n
      <4>2. PICK k \in 1..la * lb : Latter(k, lb) = l - la
        <5>1. \A j \in 1..lb : \E k \in 1..la * lb : Latter(k, lb) = j
          BY <1>1, PairPlaces
        <5>. QED BY <4>1, <5>1
      <4>3. k \in 1..m
        BY DEF m
      <4>. QED BY <4>1, <4>2, <4>3, <1>8
    <3>. QED BY <3>2, <3>3
  <2> HIDE DEF D, S
  <2>5. S \in SUBSET (1..Len(D.L)) /\ \A l \in S : \E i \in DOMAIN D.E : D.E[i].layer = l
    BY <2>1, <2>2, <2>3
  <2>6. \A l \in 1..Len(D.L) :
          l \in S \/ \E j \in S : D.L[j].rule = "prod" /\ l \in {D.L[j].pa, D.L[j].pb}
    BY <2>1, <2>4
  <2>. QED BY <2>5, <2>6, <1>12, NothingToCompact
<1>14. Len(a.L) + Len(b.L) <= Len(L)
  <2>1. n = Len(a.L) + Len(b.L)
    BY DEF n, la, lb
  <2>2. Len(L) = n + m
    BY <1>3
  <2>3. n <= n + m
    BY <1>2
  <2>. QED BY <2>1, <2>2, <2>3
<1>15. E \in Seq(EdgesOn(Len(L))) /\ Over(Term(Len(L), w), E) = x
  BY <1>3, <1>11
<1>. QED BY <1>3, <1>4, <1>5, <1>10, <1>13, <1>14, <1>15 DEF x, la, lb

\* ct_mul: the product of two ciphers is a cipher of the product.
THEOREM MulIs ==
  ASSUME NEW a, IsCipher(a), a.c0 # <<>>, Len(a.L) > 0,
         NEW b, IsCipher(b), b.c0 # <<>>, Len(b.L) > 0,
         NEW nodes \in Seq(Nodes), Len(nodes) > 0
  PROVE  IsCipher(Mul(a, b, nodes)) /\ Dec(Mul(a, b, nodes)) = (Dec(a) * Dec(b)) % Prime
<1> DEFINE la == Len(a.L)
           lb == Len(b.L)
           p == a.c0[1]
           q == b.c0[1]
<1>1. /\ InOrder(a.L) /\ InOrder(b.L) /\ la \in Nat /\ lb \in Nat
      /\ a.E \in Seq(EdgesOn(la)) /\ b.E \in Seq(EdgesOn(lb))
      /\ Const(a.c0) = p /\ Const(b.c0) = q
  BY CipherOrder DEF Const
<1>2. PICK ra : IsFactors(a.L, ra)
  BY <1>1, FactorsExist
<1>3. PICK rb : IsFactors(b.L, rb)
  BY <1>1, FactorsExist
<1> DEFINE x == Over(Term(la, ra), a.E)
           y == Over(Term(lb, rb), b.E)
<1>4. Dec(a) = (p + x) % Prime /\ p \in Int /\ x \in Int
  BY <1>1, <1>2, DecIs
<1>5. Dec(b) = (q + y) % Prime /\ q \in Int /\ y \in Int
  BY <1>1, <1>3, DecIs
<1>6. PICK L, E, w :
        /\ CompactLayers(WithinBudget(Crossing(a, b, nodes))) = Cipher(L, E, <<0>>)
        /\ InOrder(L) /\ la + lb <= Len(L) /\ E \in Seq(EdgesOn(Len(L)))
        /\ IsFactors(L, w) /\ Joins(w, ra, la, rb, lb)
        /\ Over(Term(Len(L), w), E) = (x * y) % Prime
  BY ZenonT(30), <1>2, <1>3, CrossingIs
<1> DEFINE n == Len(L)
           f == Term(n, w)
           F == ScaledEdges(b.E, p, la)
           G == ScaledEdges(a.E, q, 0)
           c0 == <<(p * q) % Prime>>
           all == (E \o F) \o G
           D == Cipher(L, all, c0)
<1>7. Mul(a, b, nodes) = CompactLayers(WithinBudget(D))
  <2>1. Cipher(L, E, <<0>>).L = L /\ Cipher(L, E, <<0>>).E = E
    BY DEF Cipher
  <2>. QED BY <2>1, <1>6, MulParts
<1>8. n \in Nat /\ w \in [1..n -> Units] /\ f \in [EdgesOn(n) -> Int] /\ Factoring(n, w)
  <2>1. n \in Nat /\ w \in [1..n -> Units]
    BY <1>6 DEF IsFactors, InOrder
  <2>. QED BY <2>1, TermIs DEF Factoring
<1>9. Factoring(la, ra) /\ Factoring(lb, rb)
  BY <1>1, <1>2, <1>3 DEF Factoring, IsFactors
<1>10. la + lb <= n /\ 0 + la <= n /\ 0 \in Nat
  <2>1. la \in Nat /\ lb \in Nat
    BY <1>1
  <2>2. la + lb <= n /\ n \in Nat
    BY <1>6, <1>8
  <2> HIDE DEF la, lb, n
  <2>. QED BY <2>1, <2>2
<1>11. Joins(w, ra, la, rb, lb) /\ Joins(w, ra, 0, ra, la)
  <2>1. \A l \in 1..la : l + 0 = l /\ w[l] = ra[l]
    BY <1>1, <1>6 DEF Joins
  <2>2. \A l \in 1..0 : FALSE
    OBVIOUS
  <2>. QED BY <2>1, <2>2, <1>6 DEF Joins
<1>12. F \in Seq(EdgesOn(n)) /\ Over(f, F) = (p * y) % Prime
  <2> HIDE DEF n, p, la, lb
  <2>1. p \in Int /\ b.E \in Seq(EdgesOn(lb)) /\ la \in Nat
    BY <1>1, <1>4
  <2>2. /\ ScaledEdges(b.E, p, la) \in Seq(EdgesOn(n))
        /\ Over(Term(n, w), ScaledEdges(b.E, p, la)) = (p * Over(Term(lb, rb), b.E)) % Prime
    <3> HIDE DEF x, y, f, F, G
    <3>. QED BY <2>1, <1>8, <1>9, <1>10, <1>11, ScaledEdgesAre
  <2>. QED BY <2>2
<1>13. G \in Seq(EdgesOn(n)) /\ Over(f, G) = (q * x) % Prime
  <2> HIDE DEF n, q, la, lb
  <2>1. q \in Int /\ a.E \in Seq(EdgesOn(la))
    BY <1>1, <1>5
  <2>2. /\ ScaledEdges(a.E, q, 0) \in Seq(EdgesOn(n))
        /\ Over(Term(n, w), ScaledEdges(a.E, q, 0)) = (q * Over(Term(la, ra), a.E)) % Prime
    <3> HIDE DEF x, y, f, F, G
    <3>. QED BY <2>1, <1>8, <1>9, <1>10, <1>11, ScaledEdgesAre
  <2>. QED BY <2>2
<1>14. E \in Seq(EdgesOn(n)) /\ Over(f, E) = (x * y) % Prime
  BY <1>6
<1> HIDE DEF n, f, F, G, p, q, x, y, la, lb
<1>15. all \in Seq(EdgesOn(n)) /\ Same(Over(f, all), (x * y + p * y) + q * x) /\ Over(f, all) \in Int
  <2> DEFINE s == (x * y) % Prime
             t == (p * y) % Prime
             u == (q * x) % Prime
             v == (s + t) % Prime
  <2> DEFINE T == EdgesOn(n)
             H == E \o F
  <2>1. /\ f \in [T -> Int] /\ E \in Seq(T) /\ F \in Seq(T) /\ G \in Seq(T)
        /\ Over(f, E) = s /\ Over(f, F) = t /\ Over(f, G) = u
    BY <1>8, <1>12, <1>13, <1>14
  <2> HIDE DEF T
  <2>2. H \in Seq(T) /\ Over(f, H) = v
    <3>1. E \o F \in Seq(T) /\ Over(f, E \o F) = (Over(f, E) + Over(f, F)) % Prime
      BY <2>1, OverConcat
    <3>. QED BY <3>1, <2>1
  <2>3. all \in Seq(EdgesOn(n)) /\ Over(f, all) = (v + u) % Prime
    <3> HIDE DEF H
    <3>1. H \o G \in Seq(T) /\ Over(f, H \o G) = (Over(f, H) + Over(f, G)) % Prime
      BY <2>1, <2>2, OverConcat
    <3>. QED BY <3>1, <2>1, <2>2 DEF H, T
  <2>4. x * y \in Int /\ p * y \in Int /\ q * x \in Int
    BY <1>4, <1>5, Ints
  <2>5. /\ Same(s, x * y) /\ s \in Int /\ Same(t, p * y) /\ t \in Int
        /\ Same(u, q * x) /\ u \in Int
    BY <2>4, SameMod, ModType
  <2> HIDE DEF s, t, u
  <2>6. Same(v, x * y + p * y) /\ v \in Int
    <3>1. s + t \in Int /\ Same(s + t, x * y + p * y)
      BY <2>4, <2>5, Ints, SamePlus
    <3>. QED BY <3>1, SameMod, ModType DEF Same
  <2> HIDE DEF v
  <2>7. v + u \in Int /\ Same(v + u, (x * y + p * y) + q * x)
    <3>1. x * y + p * y \in Int
      BY <2>4, Ints
    <3>. QED BY <3>1, <2>4, <2>5, <2>6, Ints, SamePlus
  <2>8. Same((v + u) % Prime, v + u) /\ (v + u) % Prime \in Int
    BY <2>7, SameMod, ModType
  <2>. QED BY <2>3, <2>7, <2>8 DEF Same
<1> HIDE DEF all
<1> DEFINE k == (p * q) % Prime
<1>16. c0 \in Seq(Fld) /\ Len(c0) \in {0, 1} /\ Const(c0) = k /\ Same(k, p * q) /\ k \in Int
  <2>1. k \in Fld /\ k \in Int /\ Same(k, p * q)
    BY <1>4, <1>5, Ints, ModType, SameMod
  <2> HIDE DEF k
  <2>2. <<k>> \in Seq(Fld) /\ Len(<<k>>) \in {0, 1} /\ Const(<<k>>) = k
    BY <2>1 DEF Const
  <2>. QED BY <2>1, <2>2 DEF k
<1> HIDE DEF c0
<1>17. IsCipher(D)
  BY <1>6, <1>15, <1>16, IsCipherIf DEF n
<1>18. Dec(D) = (k + Over(f, all)) % Prime
  <2>1. D.L = L /\ D.E = all /\ D.c0 = c0
    BY DEF Cipher
  <2> HIDE DEF D, k
  <2>. QED BY <2>1, <1>6, <1>16, <1>17, DecIs DEF n, f
<1> HIDE DEF D, k
<1>19. IsCipher(Mul(a, b, nodes)) /\ Dec(Mul(a, b, nodes)) = Dec(D)
  BY <1>7, <1>17, WithinBudgetIs, CompactLayersIs
<1>20. Same(k + Over(f, all), (p + x) * (q + y))
  <2>1. x * y \in Int /\ p * y \in Int /\ q * x \in Int /\ p * q \in Int
    BY <1>4, <1>5, Ints
  <2>2. (x * y + p * y) + q * x \in Int
    BY <2>1, Ints
  <2>3. Same(k + Over(f, all), p * q + ((x * y + p * y) + q * x))
    BY <2>1, <2>2, <1>15, <1>16, SamePlus
  <2>4. p * q + ((x * y + p * y) + q * x) = (p + x) * (q + y)
    BY <1>4, <1>5
  <2>. QED BY <2>3, <2>4
<1>21. Same(Dec(a) * Dec(b), (p + x) * (q + y))
  <2>1. p + x \in Int /\ q + y \in Int
    BY <1>4, <1>5, Ints
  <2>2. Same(Dec(a), p + x) /\ Same(Dec(b), q + y) /\ Dec(a) \in Int /\ Dec(b) \in Int
    BY <2>1, <1>4, <1>5, SameMod, ModType
  <2>. QED BY <2>1, <2>2, SameTimes
<1>. QED BY <1>18, <1>19, <1>20, <1>21 DEF Same
-----------------------------------------------------------------------------
(* Range proofs.                                                            *)

\* A cipher with a constant keeps one.
LEMMA AddConstConst ==
  ASSUME NEW ct, IsCipher(ct), ct.c0 = << 0 >>, NEW k \in Int
  PROVE  AddConst(ct, k).c0 # <<>>
<1>1. ct = [L |-> ct.L, E |-> ct.E, c0 |-> ct.c0]
  BY CipherOrder DEF Cipher
<1> DEFINE c == [j \in DOMAIN ct.c0 |-> (ct.c0[j] + k) % Prime]
           d == [ct EXCEPT !.c0 = c]
<1>2. AddConst(ct, k) = d
  BY DEF AddConst
<1>3. c # <<>>
  <2>1. 1 \in DOMAIN c
    OBVIOUS
  <2>. QED BY <2>1
<1> HIDE DEF c
<1>4. d.c0 = c
  BY <1>1
<1>. QED BY <1>2, <1>3, <1>4

\* b * (b - 1) is zero for a bit b.
LEMMA CheckIs ==
  ASSUME NEW b \in {0, 1}, NEW n, IsNoise(n)
  PROVE  LET e == EncValue(b, n)
             z == Mul(e, AddConst(e, Prime - 1), n.repack)
         IN IsCipher(e) /\ Dec(e) = b /\ IsCipher(z) /\ Dec(z) = 0
<1> DEFINE e == EncValue(b, n)
           d == AddConst(e, Prime - 1)
           z == Mul(e, d, n.repack)
<1>1. b \in Int /\ b \in Fld /\ Prime - 1 \in Int /\ 1 % Prime = 1 /\ 0 % Prime = 0
  BY CiphersAssumption DEF Fld
<1>2. IsCipher(e) /\ Dec(e) = b /\ e.c0 = <<0>> /\ Len(e.L) > 0
  <2>1. IsCipher(e) /\ Dec(e) = b % Prime /\ e.c0 = <<0>> /\ Len(e.L) = 2
    BY <1>1, EncValueIs
  <2> HIDE DEF e
  <2>. QED BY <2>1, <1>1, ModSmall
<1> HIDE DEF e
<1>3. e.c0 # <<>>
  BY <1>2
<1>4. IsCipher(d) /\ d.L = e.L /\ Dec(d) = (b + (Prime - 1)) % Prime
  BY <1>1, <1>2, <1>3, AddConstIs
<1>5. d.c0 # <<>>
  BY <1>1, <1>2, AddConstConst
<1>6. n.repack \in Seq(Nodes) /\ Len(n.repack) > 0
  BY DEF IsNoise
<1> HIDE DEF d
<1>7. IsCipher(z) /\ Dec(z) = (b * Dec(d)) % Prime
  BY <1>2, <1>3, <1>4, <1>5, <1>6, MulIs
<1>8. (b * Dec(d)) % Prime = 0
  <2>1. Dec(d) \in Int
    BY <1>4, DecType
  <2>2. CASE b = 0
    BY <2>1, <2>2, <1>1
  <2>3. CASE b = 1
    <3>1. b + (Prime - 1) = Prime
      BY <2>3, PrimeType
    <3>2. Prime % Prime = 0
      BY PrimeType
    <3>3. Dec(d) = 0
      BY <3>1, <3>2, <1>4
    <3>. QED BY <3>3, <2>3, <1>1
  <2>. QED BY <2>2, <2>3
<1>. QED BY <1>2, <1>7, <1>8 DEF e, d

\* The ciphers of a value's bits, and their sums.
BitCiphers(value, noise) == [i \in 1..WordBits |-> EncValue((value \div TwoTo(i - 1)) % 2, noise)]

\* The function behind the sum in ZerosOfRange.
BitSums(bit) == CHOOSE sum : sum =
  [n \in 1..WordBits |->
     IF n = 1 THEN bit[1] ELSE Add(sum[n - 1], Scale(bit[n], TwoTo(n - 1) % Prime))]

\* ZerosOfRange in these terms.
LEMMA ZerosAre ==
  ASSUME NEW ct, NEW value, NEW noise
  PROVE  ZerosOfRange(ct, value, noise) =
           {Mul(BitCiphers(value, noise)[i], AddConst(BitCiphers(value, noise)[i], Prime - 1),
                noise.repack) : i \in 1..WordBits}
             \cup {Sub(BitSums(BitCiphers(value, noise))[WordBits], ct)}
BY Zenon DEF ZerosOfRange, BitCiphers, BitSums

\* The sums of the first bits' ciphers are ciphers.
LEMMA BitSumsAre ==
  ASSUME NEW bit \in [1..WordBits -> CipherSet]
  PROVE  /\ BitSums(bit) \in [1..WordBits -> CipherSet]
         /\ BitSums(bit)[1] = bit[1]
         /\ \A n \in 1..WordBits : n # 1 =>
              BitSums(bit)[n] = Add(BitSums(bit)[n - 1], Scale(bit[n], TwoTo(n - 1) % Prime))
<1> DEFINE N == WordBits
           D == CipherSet
           next(n, x) == IF n = 1 THEN bit[1] ELSE Add(x, Scale(bit[n], TwoTo(n - 1) % Prime))
           step == [n \in 1..N |-> [x \in D |-> next(n, x)]]
           Is(f) == f = [n \in 1..N |-> IF n = 1 THEN bit[1]
                                        ELSE Add(f[n - 1], Scale(bit[n], TwoTo(n - 1) % Prime))]
<1>1. N \in Nat /\ 1 \in 1..N /\ bit[1] \in D
  <2>1. N \in Nat /\ 1 \in 1..N
    BY CiphersAssumption
  <2>. QED BY <2>1
<1>2. ASSUME NEW n \in 1..N, NEW x \in D PROVE next(n, x) \in D
  <2> DEFINE t == TwoTo(n - 1) % Prime
  <2>1. t \in Int
    <3>1. n - 1 \in 0..WordBits
      BY <1>1
    <3>2. TwoTo(n - 1) \in Int
      BY <3>1, TwoToIs
    <3>. QED BY <3>2, ModType
  <2>2. bit[n] \in D
    OBVIOUS
  <2> HIDE DEF t
  <2>3. IsCipher(Add(x, Scale(bit[n], t)))
    BY <2>1, <2>2, ScaleIs, AddIs DEF IsCipher
  <2>. QED BY <2>3, <1>1 DEF IsCipher, t
<1> HIDE DEF D
<1>3. step \in [1..N -> [D -> D]]
  <2> HIDE DEF next
  <2>. QED BY <1>2
<1>4. \A n \in 1..N, x \in D : step[n][x] = next(n, x)
  OBVIOUS
<1> HIDE DEF step, N
<1>5. PICK g \in [0..N -> D] : Iterates(g, bit[1], N, step)
  BY <1>1, <1>3, Iteration
<1>6. \A n \in 1..N : g[n] = next(n, g[n - 1]) /\ g[n] \in D
  <2>1. \A n \in 1..N : g[n - 1] \in D /\ g[n] \in D
    BY <1>1
  <2>2. \A n \in 1..N : g[n] = step[n][g[n - 1]]
    BY <1>5 DEF Iterates
  <2> HIDE DEF next
  <2>. QED BY <2>1, <2>2, <1>4
<1> DEFINE h == [n \in 1..N |-> g[n]]
<1>7. Is(h)
  <2>1. ASSUME NEW n \in 1..N
        PROVE  g[n] = IF n = 1 THEN bit[1] ELSE Add(h[n - 1], Scale(bit[n], TwoTo(n - 1) % Prime))
    <3>1. CASE n = 1
      BY <3>1, <1>6
    <3>2. CASE n # 1
      <4>1. n - 1 \in 1..N
        BY <3>2, <1>1
      <4>2. h[n - 1] = g[n - 1]
        BY <4>1
      <4> HIDE DEF h
      <4>. QED BY <3>2, <4>2, <1>6
    <3>. QED BY <3>1, <3>2
  <2>. QED BY <2>1
<1> DEFINE p == BitSums(bit)
           S == {n \in Nat : 1 <= n /\ n <= N => p[n] \in D}
<1>8. Is(p)
  <2> HIDE DEF h
  <2>. QED BY <1>7 DEF BitSums, N
<1> HIDE DEF p
<1>9. /\ p[1] = bit[1] /\ p = [n \in 1..N |-> p[n]]
      /\ \A n \in 1..N : p[n] = next(n, p[n - 1])
  BY <1>1, <1>8
<1>10. 0 \in S
  OBVIOUS
<1>11. ASSUME NEW n \in Nat, n \in S PROVE n + 1 \in S
  <2> SUFFICES ASSUME n + 1 <= N PROVE p[n + 1] \in D
    OBVIOUS
  <2>1. CASE n = 0
    BY <2>1, <1>1, <1>9
  <2>2. CASE n # 0
    <3>1. p[n] \in D /\ n + 1 \in 1..N /\ (n + 1) - 1 = n
      BY <2>2, <1>1, <1>11
    <3> HIDE DEF next
    <3>2. p[n + 1] = next(n + 1, p[n])
      <4>1. p[n + 1] = next(n + 1, p[(n + 1) - 1])
        BY <3>1, <1>9
      <4>. QED BY <4>1, <3>1
    <3>. QED BY <3>1, <3>2, <1>2
  <2>. QED BY <2>1, <2>2
<1>12. \A n \in 1..N : p[n] \in D
  <2>1. Nat \subseteq S
    <3> HIDE DEF S
    <3>. QED BY <1>10, <1>11, NatInduct
  <2>. QED BY <2>1, <1>1
<1>13. p \in [1..N -> D]
  BY <1>9, <1>12
<1>. QED BY <1>9, <1>13 DEF p, N, D

\* The bits make the value.
LEMMA BitsSum ==
  ASSUME NEW v \in 0..TwoTo(WordBits) - 1, TwoTo(WordBits) <= Prime, NEW n, IsNoise(n)
  PROVE  /\ \A i \in 1..WordBits : \E b \in {0, 1} : BitCiphers(v, n)[i] = EncValue(b, n)
         /\ IsCipher(BitSums(BitCiphers(v, n))[WordBits])
         /\ Dec(BitSums(BitCiphers(v, n))[WordBits]) = v
<1> DEFINE W == WordBits
           bit == BitCiphers(v, n)
           b(i) == (v \div TwoTo(i - 1)) % 2
           sum == BitSums(bit)
<1>1. W \in Nat /\ W \in 0..W /\ 1 \in 1..W /\ W \in 1..W
  BY CiphersAssumption
<1>2. \A i \in 0..W : TwoTo(i) \in Nat \ {0} /\ TwoTo(i) \in Int
  BY TwoToIs
<1>3. v \in Nat /\ v < TwoTo(W) /\ v \in Fld
  <2>1. TwoTo(W) \in Nat
    BY <1>1, <1>2
  <2>. QED BY <2>1, PrimeType DEF Fld
<1>4. ASSUME NEW i \in 1..W
      PROVE  /\ i - 1 \in 0..W /\ b(i) \in {0, 1} /\ TwoTo(i) = 2 * TwoTo(i - 1)
             /\ v % TwoTo(i) = (v % TwoTo(i - 1)) + b(i) * TwoTo(i - 1)
  <2>1. i - 1 \in 0..W
    BY <1>1
  <2>2. TwoTo(i) = 2 * TwoTo(i - 1)
    BY TwoToIs
  <2> DEFINE t == TwoTo(i - 1)
  <2>3. t \in Nat \ {0}
    BY <2>1, <1>2
  <2> HIDE DEF t
  <2>4. /\ (v \div t) % 2 \in {0, 1}
        /\ v % (2 * t) = (v % t) + ((v \div t) % 2) * t
    BY <2>3, <1>3, NextBit
  <2>. QED BY <2>1, <2>2, <2>4 DEF t
<1>5. \A i \in 1..W : bit[i] = EncValue(b(i), n)
  BY DEF BitCiphers
<1>6. DOMAIN bit = 1..W /\ bit = [i \in 1..W |-> bit[i]]
  BY DEF BitCiphers
<1> HIDE DEF W, bit, b
<1>7. ASSUME NEW i \in 1..W PROVE IsCipher(bit[i]) /\ Dec(bit[i]) = b(i)
  BY <1>4, <1>5, CheckIs
<1>8. bit \in [1..W -> CipherSet]
  BY <1>6, <1>7 DEF IsCipher
<1>9. /\ sum \in [1..W -> CipherSet] /\ sum[1] = bit[1]
      /\ \A i \in 1..W : i # 1 => sum[i] = Add(sum[i - 1], Scale(bit[i], TwoTo(i - 1) % Prime))
  BY <1>8, BitSumsAre DEF W
<1> HIDE DEF sum
<1> DEFINE S == {i \in Nat : 1 <= i /\ i <= W => Same(Dec(sum[i]), v % TwoTo(i))}
<1>10. 0 \in S
  OBVIOUS
<1>11. ASSUME NEW i \in Nat, i \in S PROVE i + 1 \in S
  <2> SUFFICES ASSUME i + 1 <= W PROVE Same(Dec(sum[i + 1]), v % TwoTo(i + 1))
    OBVIOUS
  <2> DEFINE j == i + 1
             t == TwoTo(i)
             c == b(j)
  <2>1. j \in 1..W /\ j - 1 = i /\ i \in 0..W /\ t \in Nat \ {0} /\ t \in Int
    <3>1. j \in 1..W /\ j - 1 = i /\ i \in 0..W
      BY <1>1
    <3>. QED BY <3>1, <1>2
  <2>2. c \in {0, 1} /\ c \in Int /\ v % TwoTo(j) = (v % t) + c * t
    <3>1. c \in {0, 1} /\ v % TwoTo(j) = (v % TwoTo(j - 1)) + c * TwoTo(j - 1)
      BY <2>1, <1>4
    <3>2. 0 \in Int /\ 1 \in Int
      OBVIOUS
    <3> HIDE DEF c, j
    <3>3. c \in Int
      BY <3>1, <3>2
    <3>. QED BY <3>1, <3>3, <2>1
  <2>3. CASE i = 0
    <3>1. j = 1 /\ t = 1
      BY <2>3, TwoToIs
    <3>2. v % 1 = 0
      BY <1>3
    <3>3. Dec(sum[j]) = c
      BY <3>1, <2>1, <1>7, <1>9
    <3>4. 0 + c * 1 = c
      BY <2>2
    <3> HIDE DEF j, t, c
    <3>5. v % TwoTo(j) = c
      BY <3>1, <3>2, <3>4, <2>2
    <3>. QED BY <3>3, <3>5 DEF Same, j
  <2>4. CASE i # 0
    <3> DEFINE x == sum[i]
               y == bit[j]
               k == t % Prime
               z == Scale(y, k)
    <3>1. i \in 1..W /\ j # 1
      BY <2>1, <2>4
    <3>2. Same(Dec(x), v % t)
      BY <3>1, <1>11
    <3>3. IsCipher(x)
      BY <3>1, <1>9 DEF IsCipher
    <3>4. IsCipher(y) /\ Dec(y) = c
      BY <2>1, <1>7
    <3>5. sum[j] = Add(x, z)
      <4>1. sum[j] = Add(sum[j - 1], Scale(bit[j], TwoTo(j - 1) % Prime))
        BY <2>1, <3>1, <1>9
      <4>. QED BY <4>1, <2>1
    <3> HIDE DEF j, c, t, x, y
    <3>6. k \in Int /\ Same(k, t)
      BY <2>1, ModType, SameMod
    <3> HIDE DEF k
    <3>7. IsCipher(z) /\ Dec(z) = (k * c) % Prime
      BY <3>4, <3>6, ScaleIs
    <3> HIDE DEF z
    <3>8. Dec(sum[j]) = (Dec(x) + Dec(z)) % Prime /\ Dec(x) \in Int /\ Dec(z) \in Int
      BY <3>3, <3>5, <3>7, AddIs, DecType
    <3>9. k * c \in Int /\ c * t \in Int /\ v % t \in Int /\ Dec(x) + Dec(z) \in Int
      BY <2>1, <2>2, <3>6, <3>8, <1>3, Ints, DivMod
    <3>10. Same(Dec(z), c * t)
      <4>1. Same(k * c, t * c) /\ t * c = c * t
        <5>1. Same(c, c)
          BY DEF Same
        <5>. QED BY <5>1, <2>1, <2>2, <3>6, SameTimes, Products
      <4>. QED BY <4>1, <3>7, <3>9, SameMod DEF Same
    <3>11. Same(Dec(x) + Dec(z), (v % t) + c * t)
      BY <3>2, <3>8, <3>9, <3>10, SamePlus
    <3>12. Same(Dec(sum[j]), Dec(x) + Dec(z))
      BY <3>8, <3>9, SameMod
    <3>. QED BY <2>2, <3>11, <3>12 DEF Same, j
  <2>. QED BY <2>3, <2>4
<1>12. Same(Dec(sum[W]), v % TwoTo(W))
  <2>1. W \in S
    <3> HIDE DEF S
    <3>. QED BY <1>1, <1>10, <1>11, NatInduct
  <2>. QED BY <2>1, <1>1
<1>13. v % TwoTo(W) = v
  <2>1. TwoTo(W) \in Nat \ {0}
    BY <1>1, <1>2
  <2>. QED BY <2>1, <1>3
<1>14. IsCipher(sum[W])
  BY <1>1, <1>9 DEF IsCipher
<1>15. Dec(sum[W]) \in Fld
  BY <1>14, DecType
<1>16. Dec(sum[W]) = v
  BY <1>3, <1>12, <1>13, <1>15, ModSmall DEF Same
<1>17. \A i \in 1..W : \E c \in {0, 1} : bit[i] = EncValue(c, n)
  BY <1>4, <1>5
<1>. QED BY <1>14, <1>16, <1>17 DEF W, bit, sum

\* A range proof rests on zeros only, exactly if its value is the plaintext.
THEOREM RangeIs ==
  ASSUME NEW ct, IsCipher(ct), NEW v \in 0..TwoTo(WordBits) - 1, TwoTo(WordBits) <= Prime,
         NEW n, IsNoise(n)
  PROVE  (\A z \in ZerosOfRange(ct, v, n) : Dec(z) = 0) <=> Dec(ct) = v
<1> DEFINE bit == BitCiphers(v, n)
           s == BitSums(bit)[WordBits]
           check(i) == Mul(bit[i], AddConst(bit[i], Prime - 1), n.repack)
           d == Sub(s, ct)
<1>1. /\ \A i \in 1..WordBits : \E b \in {0, 1} : bit[i] = EncValue(b, n)
      /\ IsCipher(s) /\ Dec(s) = v
  BY BitsSum
<1>2. ZerosOfRange(ct, v, n) = {check(i) : i \in 1..WordBits} \cup {d}
  BY ZerosAre
<1> HIDE DEF bit, s
<1>3. ASSUME NEW i \in 1..WordBits PROVE Dec(check(i)) = 0
  <2>1. PICK b \in {0, 1} : bit[i] = EncValue(b, n)
    BY <1>1
  <2>. QED BY <2>1, CheckIs
<1>4. Dec(d) = (v - Dec(ct)) % Prime
  BY <1>1, SubIs
<1>5. v \in Fld /\ Dec(ct) \in Fld
  <2>1. Dec(s) \in Fld /\ Dec(ct) \in Fld
    BY <1>1, DecType
  <2>. QED BY <2>1, <1>1
<1>6. Dec(d) = 0 <=> v = Dec(ct)
  BY <1>4, <1>5, ZeroDifference
<1> HIDE DEF check, d
<1>. QED BY <1>2, <1>3, <1>6
=============================================================================
