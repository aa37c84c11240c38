--------------------------- MODULE LibraryProofs ----------------------------
(***************************************************************************)
(* For every number of threads, bits, ciphers and amounts: the tables are   *)
(* right when they are used, each bit is proved once, and a client's        *)
(* ciphers are the amounts that it takes them for.  And for all inputs:     *)
(* what the field's limbs compute, powers and inverses too, what is         *)
(* answered of a recorder's output, and that a key is read from its packed  *)
(* bytes, in base64, as it was.                                             *)
(***************************************************************************)
EXTENDS Balances, LazyTables, RangeWorkers, StreamProofs

-----------------------------------------------------------------------------
(* The ledger: its ciphers are ciphers.                                     *)

\* The client's ciphers are ciphers, whatever it did with them.
LedgerInv == /\ cts \in Seq(CipherSet) /\ Len(cts) <= MaxCts
             /\ Cardinality(told) <= 2

\* Cardinalities of small sets.
LEMMA SmallTold ==
  /\ Cardinality({}) = 0
  /\ \A x : Cardinality({x}) = 1
  /\ \A x, y : Cardinality({x, y}) <= 2
<1>1. Cardinality({}) = 0 /\ \A x : Cardinality({x}) = 1
  BY FS_EmptySet, FS_Singleton
<1>2. ASSUME NEW x, NEW y PROVE Cardinality({x, y}) <= 2
  <2>1. IsFiniteSet({x}) /\ Cardinality({x}) = 1
    BY FS_Singleton
  <2>2. Cardinality({x} \cup {y}) <= 2
    BY <2>1, FS_AddElement
  <2>3. {x} \cup {y} = {x, y}
    OBVIOUS
  <2>. QED BY <2>2, <2>3
<1>. QED BY <1>1, <1>2

\* Room for one more cipher.
LEMMA Appended ==
  ASSUME NEW s \in Seq(CipherSet), Len(s) < MaxCts, NEW x \in CipherSet
  PROVE  Append(s, x) \in Seq(CipherSet) /\ Len(Append(s, x)) <= MaxCts
<1>1. Append(s, x) \in Seq(CipherSet) /\ Len(Append(s, x)) = Len(s) + 1 /\ Len(s) \in Nat
  OBVIOUS
<1>. QED BY <1>1, BalancesAssumption

\* What the handlers encrypt is a cipher of the amount.
LEMMA Encrypted ==
  ASSUME NEW v \in Values, NEW n \in Noises
  PROVE  EncValue(v, n) \in CipherSet /\ Dec(EncValue(v, n)) = v
<1>1. v \in Int /\ v \in Fld
  <2>1. v \in 0..TwoTo(WordBits) - 1
    BY BalancesAssumption
  <2>2. WordBits \in 0..WordBits
    BY CiphersAssumption
  <2>3. TwoTo(WordBits) \in Nat
    BY <2>2, TwoToIs
  <2>. QED BY <2>1, <2>3, BalancesAssumption, CiphersAssumption DEF Fld
<1>2. IsNoise(n)
  BY BalancesAssumption
<1>. QED BY <1>1, <1>2, EncValueIs, ModSmall DEF IsCipher

\* At the start there is at most one cipher from elsewhere.
LEMMA LedgerInvInit == LedgerInit => LedgerInv
<1> SUFFICES ASSUME LedgerInit PROVE LedgerInv
  OBVIOUS
<1>1. CASE cts = <<>>
  BY <1>1, SmallTold, BalancesAssumption DEF LedgerInit, LedgerInv
<1>2. CASE \E ct \in Foreign : cts = <<ct>>
  <2>1. PICK ct \in Foreign : cts = <<ct>>
    BY <1>2
  <2>2. ct \in CipherSet
    BY BalancesAssumption
  <2>3. cts \in Seq(CipherSet) /\ Len(cts) = 1
    BY <2>1, <2>2
  <2>. QED BY <2>3, SmallTold, BalancesAssumption DEF LedgerInit, LedgerInv
<1>. QED BY <1>1, <1>2 DEF LedgerInit

\* Every handler hands out a cipher.
LEMMA LedgerInvStep == LedgerInv /\ [LedgerNext]_ledger => LedgerInv'
<1> SUFFICES ASSUME LedgerInv, [LedgerNext]_ledger PROVE LedgerInv'
  OBVIOUS
<1>1. \A i \in DOMAIN cts : cts[i] \in CipherSet
  BY DEF LedgerInv
<1>2. ASSUME NEW x \in CipherSet, cts' = Append(cts, x), Len(cts) < MaxCts, Cardinality(told') <= 2
      PROVE  LedgerInv'
  <2>1. cts \in Seq(CipherSet)
    BY DEF LedgerInv
  <2>2. cts' \in Seq(CipherSet) /\ Len(cts') <= MaxCts
    BY <1>2, <2>1, Appended
  <2>. QED BY <1>2, <2>2 DEF LedgerInv
<1>3. ASSUME NEW v \in Values, NEW n \in Noises, Encrypt(v, n) PROVE LedgerInv'
  <2>1. cts' = Append(cts, EncValue(v, n)) /\ Len(cts) < MaxCts /\ told' = {}
    BY <1>3 DEF Encrypt
  <2>2. EncValue(v, n) \in CipherSet /\ Cardinality(told') <= 2
    BY <2>1, Encrypted, SmallTold
  <2>. QED BY <1>2, <2>1, <2>2
<1>4. ASSUME NEW v \in Values, NEW n \in Noises, Claim(v, n) PROVE LedgerInv'
  <2>1. PICK p : told' = {p}
    BY <1>4 DEF Claim
  <2>2. cts' = Append(cts, EncValue(v, n)) /\ Len(cts) < MaxCts
    BY <1>4 DEF Claim
  <2>3. EncValue(v, n) \in CipherSet /\ Cardinality(told') <= 2
    BY <2>1, Encrypted, SmallTold
  <2>. QED BY <1>2, <2>2, <2>3
<1>5. ASSUME NEW i \in DOMAIN cts, NEW j \in DOMAIN cts, Subtract(i, j) PROVE LedgerInv'
  <2>1. Sub(cts[i], cts[j]) \in CipherSet
    BY <1>1, SubIs DEF IsCipher
  <2>2. cts' = Append(cts, Sub(cts[i], cts[j])) /\ Len(cts) < MaxCts /\ told' = {}
    BY <1>5 DEF Subtract
  <2>3. Cardinality(told') <= 2
    BY <2>2, SmallTold
  <2>. QED BY <1>2, <2>1, <2>2, <2>3
<1>6. ASSUME NEW i \in DOMAIN cts, NEW v \in Values, NEW n \in Noises, Stealth(i, v, n)
      PROVE  LedgerInv'
  <2>1. PICK p, q : told' = {p, q}
    BY <1>6 DEF Stealth
  <2>2. cts' = Append(cts, EncValue(v, n)) /\ Len(cts) < MaxCts
    BY <1>6 DEF Stealth
  <2>3. EncValue(v, n) \in CipherSet /\ Cardinality(told') <= 2
    BY <2>1, Encrypted, SmallTold
  <2>. QED BY <1>2, <2>2, <2>3
<1>7. ASSUME NEW i \in DOMAIN cts, NEW v \in Words, ProveRange(i, v) PROVE LedgerInv'
  <2>1. PICK p : told' = {p}
    BY <1>7 DEF ProveRange
  <2>2. cts' = cts
    BY <1>7 DEF ProveRange
  <2>3. Cardinality(told') <= 2
    BY <2>1, SmallTold
  <2>4. cts' \in Seq(CipherSet) /\ Len(cts') <= MaxCts
    BY <2>2 DEF LedgerInv
  <2>. QED BY <2>3, <2>4 DEF LedgerInv
<1>8. CASE UNCHANGED ledger
  BY <1>8 DEF LedgerInv, ledger
<1>9. ASSUME LedgerNext PROVE LedgerInv'
  <2>1. \/ \E v \in Values, n \in Noises : Encrypt(v, n)
        \/ \E v \in Values, n \in Noises : Claim(v, n)
        \/ \E i, j \in DOMAIN cts : Subtract(i, j)
        \/ \E i \in DOMAIN cts : \E v \in Values, n \in Noises : Stealth(i, v, n)
        \/ \E i \in DOMAIN cts : \E v \in Words : ProveRange(i, v)
    BY <1>9 DEF LedgerNext
  <2>. QED BY <2>1, <1>3, <1>4, <1>5, <1>6, <1>7
<1>. QED BY <1>8, <1>9

\* The client's ciphers are ciphers in every behaviour of Balances.
THEOREM LedgerIsSound == LedgerSpec => []LedgerInv
BY LedgerInvInit, LedgerInvStep, PTL DEF LedgerSpec

\* So the server takes back every cipher that it hands out.
THEOREM LedgerTyped == LedgerSpec => []LedgerTypeOK
<1>1. LedgerInv => LedgerTypeOK
  <2> SUFFICES ASSUME LedgerInv PROVE LedgerTypeOK
    OBVIOUS
  <2>1. \A i \in DOMAIN cts : cts[i] \in CipherSet
    BY DEF LedgerInv
  <2>2. \A ct \in CipherSet : ShapeOk(ct)
    BY DEF CipherSet
  <2>. QED BY <2>1, <2>2 DEF LedgerInv, LedgerTypeOK
<1>. QED BY <1>1, LedgerIsSound, PTL
-----------------------------------------------------------------------------
(* They are amounts.                                                        *)

\* What the ciphers stand for.
Plaintexts == [i \in DOMAIN cts |-> Dec(cts[i])]

\* One more cipher, one more amount.
LEMMA AmountsAppended ==
  ASSUME NEW s \in Seq(CipherSet), NEW x \in CipherSet
  PROVE  [i \in DOMAIN Append(s, x) |-> Dec(Append(s, x)[i])]
           = Append([i \in DOMAIN s |-> Dec(s[i])], Dec(x))
<1> DEFINE t == Append(s, x)
           a == [i \in DOMAIN s |-> Dec(s[i])]
           b == [i \in DOMAIN t |-> Dec(t[i])]
           c == Append(a, Dec(x))
           n == Len(s)
<1>1. /\ n \in Nat /\ DOMAIN s = 1..n /\ DOMAIN t = 1..n + 1 /\ t[n + 1] = x
      /\ \A i \in 1..n : t[i] = s[i]
  OBVIOUS
<1> DEFINE D == {Dec(ct) : ct \in CipherSet}
<1>2. a \in Seq(D) /\ Len(a) = n
  <2>1. \A i \in 1..n : Dec(s[i]) \in D
    BY <1>1
  <2>2. a = [i \in 1..n |-> Dec(s[i])]
    BY <1>1
  <2> HIDE DEF D, a
  <2>. QED BY <1>1, <2>1, <2>2
<1>3. Dec(x) \in D
  OBVIOUS
<1>4. \A i \in 1..n : a[i] = Dec(s[i])
  BY <1>1
<1> HIDE DEF a, D
<1>5. /\ c \in Seq(D) /\ Len(c) = n + 1 /\ c[n + 1] = Dec(x)
      /\ \A i \in 1..n : c[i] = a[i]
  BY <1>2, <1>3
<1> HIDE DEF c
<1>6. ASSUME NEW i \in 1..n + 1 PROVE c[i] = Dec(t[i])
  <2>1. CASE i \in 1..n
    BY <2>1, <1>1, <1>4, <1>5
  <2>2. CASE i = n + 1
    BY <2>2, <1>1, <1>5
  <2>. QED BY <2>1, <2>2, <1>1
<1>7. c = [i \in 1..n + 1 |-> c[i]]
  BY <1>5, <1>1
<1>. QED BY <1>1, <1>6, <1>7 DEF c, a

\* The client's ciphers, decrypted, are amounts that are given and subtracted in the
\* field: Balances implements Amounts.
THEOREM LedgerIsAmounts == LedgerSpec => LedgerImplements
<1>1. LedgerInit /\ LedgerInv => ImplementsAmounts!Init
  <2> SUFFICES ASSUME LedgerInit, LedgerInv PROVE ImplementsAmounts!Init
    OBVIOUS
  <2>1. CASE cts = <<>>
    <3>1. [i \in DOMAIN cts |-> Dec(cts[i])] = <<>>
      BY <2>1
    <3>. QED BY <3>1 DEF ImplementsAmounts!Init
  <2>2. CASE \E ct \in Foreign : cts = <<ct>>
    <3>1. PICK ct \in Foreign : cts = <<ct>>
      BY <2>2
    <3>2. Dec(ct) \in 0..Prime - 1
      BY BalancesAssumption, DecType DEF IsCipher, Fld
    <3>3. [i \in DOMAIN cts |-> Dec(cts[i])] = <<Dec(ct)>>
      BY <3>1
    <3>. QED BY <3>2, <3>3 DEF ImplementsAmounts!Init
  <2>. QED BY <2>1, <2>2 DEF LedgerInit
<1>2. LedgerInv /\ LedgerInv' /\ [LedgerNext]_ledger
        => [ImplementsAmounts!Next]_[i \in DOMAIN cts |-> Dec(cts[i])]
  <2> SUFFICES ASSUME LedgerInv, [LedgerNext]_ledger
               PROVE  ImplementsAmounts!Next \/ Plaintexts' = Plaintexts
    BY DEF Plaintexts
  <2>1. cts \in Seq(CipherSet) /\ \A i \in DOMAIN cts : cts[i] \in CipherSet
    BY DEF LedgerInv
  <2>2. ASSUME NEW v \in Values, NEW n \in Noises, cts' = Append(cts, EncValue(v, n))
        PROVE  ImplementsAmounts!Next
    <3>1. Plaintexts' = Append(Plaintexts, v)
      BY <2>1, <2>2, Encrypted, AmountsAppended DEF Plaintexts
    <3>. QED BY <3>1 DEF ImplementsAmounts!Next, ImplementsAmounts!Give, Plaintexts
  <2>3. ASSUME NEW i \in DOMAIN cts, NEW j \in DOMAIN cts, Subtract(i, j)
        PROVE  ImplementsAmounts!Next
    <3>1. /\ Sub(cts[i], cts[j]) \in CipherSet
          /\ Dec(Sub(cts[i], cts[j])) = (Dec(cts[i]) - Dec(cts[j])) % Prime
      BY <2>1, SubIs DEF IsCipher
    <3>2. cts' = Append(cts, Sub(cts[i], cts[j]))
      BY <2>3 DEF Subtract
    <3>3. Plaintexts' = Append(Plaintexts, (Plaintexts[i] - Plaintexts[j]) % Prime)
      BY <2>1, <3>1, <3>2, AmountsAppended DEF Plaintexts
    <3>4. i \in DOMAIN Plaintexts /\ j \in DOMAIN Plaintexts
      BY DEF Plaintexts
    <3>. QED BY <3>3, <3>4 DEF ImplementsAmounts!Next, ImplementsAmounts!Take, Plaintexts
  <2>4. CASE UNCHANGED cts
    BY <2>4 DEF Plaintexts
  <2>5. ASSUME NEW v \in Values, NEW n \in Noises, Encrypt(v, n) \/ Claim(v, n)
        PROVE  ImplementsAmounts!Next
    BY <2>2, <2>5 DEF Encrypt, Claim
  <2>6. ASSUME NEW i \in DOMAIN cts, NEW v \in Values, NEW n \in Noises, Stealth(i, v, n)
        PROVE  ImplementsAmounts!Next
    BY <2>2, <2>6 DEF Stealth
  <2>7. ASSUME NEW i \in DOMAIN cts, NEW v \in Words, ProveRange(i, v) PROVE UNCHANGED cts
    BY <2>7 DEF ProveRange
  <2>. QED BY <2>3, <2>4, <2>5, <2>6, <2>7 DEF LedgerNext, ledger
<1>. QED BY <1>1, <1>2, LedgerIsSound, PTL DEF LedgerSpec, LedgerImplements, ImplementsAmounts!Spec
-----------------------------------------------------------------------------
(* Range proofs rest on true statements, if they are true.                  *)

\* What a claim for the rest says: its value is the low word of the balance less an
\* amount, its cipher is the balance less the amount.
Remains(p) == /\ p.from # <<>> /\ p.from[1] \in CipherSet
              /\ \E a \in 0..Low(Dec(p.from[1])) :
                   /\ p.value = Low(Dec(p.from[1])) - a
                   /\ Dec(p.ct) = (Dec(p.from[1]) - a) % Prime

\* What is known of a claim: a cipher, a word, and where it came from.
ClaimKnown(p) == p.ct \in CipherSet /\ p.value \in Words /\ (p.from = <<>> \/ Remains(p))

\* The invariant for claims.
ClaimInv == LedgerInv /\ \A p \in told : ClaimKnown(p)

\* Words are elements of the field, and Low keeps those only.
LEMMA WordsAre ==
  /\ TwoTo(WordBits) \in Nat \ {0}
  /\ Values \subseteq Words /\ Words \subseteq Fld
  /\ \A x \in Fld : Low(x) \in Words /\ Low(x) <= x /\ (Low(x) = x <=> x \in Words)
<1> DEFINE T == TwoTo(WordBits)
<1>1. T \in Nat \ {0} /\ T <= Prime /\ Prime \in Nat /\ Prime > 2
  <2>1. WordBits \in 0..WordBits
    BY CiphersAssumption
  <2>. QED BY <2>1, TwoToIs, BalancesAssumption, CiphersAssumption
<1>2. Values \subseteq 0..T - 1
  BY BalancesAssumption
<1>3. Words = 0..T - 1
  BY DEF Words
<1>4. \A x : Low(x) = x % T
  BY DEF Low
<1> HIDE DEF T
<1>5. Words \subseteq Fld
  BY <1>1, <1>3 DEF Fld
<1>6. ASSUME NEW x \in Fld PROVE Low(x) \in Words /\ Low(x) <= x /\ (Low(x) = x <=> x \in Words)
  <2>1. x \in Nat
    BY CiphersAssumption DEF Fld
  <2>2. x % T \in 0..T - 1 /\ x % T <= x
    BY <2>1, <1>1
  <2>3. x \in 0..T - 1 => x % T = x
    BY <2>1, <1>1
  <2>. QED BY <2>2, <2>3, <1>3, <1>4
<1>. QED BY <1>1, <1>2, <1>3, <1>5, <1>6 DEF T

\* Nothing is claimed at the start.
LEMMA ClaimInvInit == LedgerInit => ClaimInv
BY LedgerInvInit DEF LedgerInit, ClaimInv

\* A claim that rests on no balance.
LEMMA FreshClaim ==
  ASSUME NEW ct \in CipherSet, NEW v \in Words
  PROVE  ClaimKnown(RangeProof(ct, v, <<>>))
BY DEF ClaimKnown, RangeProof

\* The second proof of stealth: the rest of a balance.
LEMMA RestClaim ==
  ASSUME NEW ct \in CipherSet, NEW a \in Values, NEW n \in Noises, Low(Dec(ct)) >= a
  PROVE  ClaimKnown(RangeProof(Sub(ct, EncValue(a, n)), Low(Dec(ct)) - a, <<ct>>))
<1> DEFINE delta == EncValue(a, n)
           rest == Sub(ct, delta)
           low == Low(Dec(ct))
           p == RangeProof(rest, low - a, <<ct>>)
<1>1. delta \in CipherSet /\ Dec(delta) = a
  BY Encrypted
<1>2. rest \in CipherSet /\ Dec(rest) = (Dec(ct) - a) % Prime
  BY <1>1, SubIs DEF IsCipher
<1>3. Dec(ct) \in Fld
  BY DecType DEF IsCipher
<1>4. low \in Words /\ a \in Words
  BY <1>3, WordsAre
<1>5. p.ct = rest /\ p.value = low - a /\ p.from # <<>> /\ p.from[1] = ct
  BY DEF RangeProof
<1> HIDE DEF p, rest, delta
<1>6. low - a \in Words /\ a \in 0..low
  <2>1. low \in Int /\ a \in Int /\ 0 <= a /\ low <= TwoTo(WordBits) - 1
    BY <1>4, WordsAre DEF Words
  <2> HIDE DEF low
  <2>. QED BY <2>1, <1>4, WordsAre DEF Words, low
<1>7. Remains(p)
  BY <1>2, <1>5, <1>6 DEF Remains
<1>. QED BY <1>2, <1>5, <1>6, <1>7 DEF ClaimKnown, p, rest, delta

\* Every handler claims what is known.
LEMMA ClaimInvStep == ClaimInv /\ [LedgerNext]_ledger => ClaimInv'
<1> SUFFICES ASSUME ClaimInv, [LedgerNext]_ledger PROVE ClaimInv'
  OBVIOUS
<1>1. LedgerInv' 
  BY LedgerInvStep DEF ClaimInv
<1>2. \A i \in DOMAIN cts : cts[i] \in CipherSet
  BY DEF ClaimInv, LedgerInv
<1>3. ASSUME NEW v \in Values, NEW n \in Noises, Encrypt(v, n) \/ Claim(v, n)
      PROVE  \A p \in told' : ClaimKnown(p)
  <2>1. told' = {} \/ told' = {RangeProof(EncValue(v, n), v, <<>>)}
    BY <1>3 DEF Encrypt, Claim
  <2>2. EncValue(v, n) \in CipherSet /\ v \in Words
    BY Encrypted, WordsAre
  <2>3. ClaimKnown(RangeProof(EncValue(v, n), v, <<>>))
    BY <2>2, FreshClaim
  <2>. QED BY <2>1, <2>3
<1>4. ASSUME NEW i \in DOMAIN cts, NEW v \in Values, NEW n \in Noises, Stealth(i, v, n)
      PROVE  \A p \in told' : ClaimKnown(p)
  <2> DEFINE delta == EncValue(v, n)
             p == RangeProof(delta, v, <<>>)
             q == RangeProof(Sub(cts[i], delta), Low(Dec(cts[i])) - v, <<cts[i]>>)
  <2>1. told' = {p, q} /\ Low(Dec(cts[i])) >= v
    BY <1>4 DEF Stealth
  <2>2. delta \in CipherSet /\ v \in Words /\ cts[i] \in CipherSet
    BY <1>2, Encrypted, WordsAre
  <2>3. ClaimKnown(p)
    BY <2>2, FreshClaim
  <2>4. ClaimKnown(q)
    BY <2>1, <2>2, RestClaim
  <2> HIDE DEF p, q
  <2>. QED BY <2>1, <2>3, <2>4
<1>5. ASSUME NEW i \in DOMAIN cts, NEW v \in Words, ProveRange(i, v)
      PROVE  \A p \in told' : ClaimKnown(p)
  <2>1. told' = {RangeProof(cts[i], v, <<>>)}
    BY <1>5 DEF ProveRange
  <2>2. ClaimKnown(RangeProof(cts[i], v, <<>>))
    BY <1>2, FreshClaim
  <2>. QED BY <2>1, <2>2
<1>6. ASSUME NEW i \in DOMAIN cts, NEW j \in DOMAIN cts, Subtract(i, j)
      PROVE  \A p \in told' : ClaimKnown(p)
  BY <1>6 DEF Subtract
<1>7. ASSUME UNCHANGED ledger PROVE \A p \in told' : ClaimKnown(p)
  BY <1>7 DEF ledger, ClaimInv
<1>8. \/ \E v \in Values, n \in Noises : Encrypt(v, n) \/ Claim(v, n)
      \/ \E i \in DOMAIN cts, j \in DOMAIN cts : Subtract(i, j)
      \/ \E i \in DOMAIN cts : \E v \in Values, n \in Noises : Stealth(i, v, n)
      \/ \E i \in DOMAIN cts : \E v \in Words : ProveRange(i, v)
      \/ UNCHANGED ledger
  BY DEF LedgerNext
<1>9. \A p \in told' : ClaimKnown(p)
  BY <1>3, <1>4, <1>5, <1>6, <1>7, <1>8
<1>10. (\A p \in told : ClaimKnown(p))'
  BY <1>9
<1>. QED BY <1>1, <1>10 DEF ClaimInv

\* From what is known of a claim, what it rests on.
LEMMA ClaimInvRight == ClaimInv => ClaimsRight
<1> SUFFICES ASSUME ClaimInv, NEW p \in told
    PROVE /\ (\A z \in Zeros(p) : Dec(z) = 0) <=> Dec(p.ct) = p.value
          /\ p.from # <<>> => ((\A z \in Zeros(p) : Dec(z) = 0) <=> Dec(p.from[1]) \in Words)
  BY DEF ClaimsRight
<1>1. ClaimKnown(p)
  BY DEF ClaimInv
<1>2. SomeNoise \in Noises /\ IsNoise(SomeNoise)
  BY BalancesAssumption DEF SomeNoise
<1>3. (\A z \in Zeros(p) : Dec(z) = 0) <=> Dec(p.ct) = p.value
  <2>1. IsCipher(p.ct) /\ p.value \in 0..TwoTo(WordBits) - 1 /\ TwoTo(WordBits) <= Prime
    BY <1>1, BalancesAssumption DEF ClaimKnown, IsCipher, Words
  <2>. QED BY <1>2, <2>1, RangeIs DEF Zeros
<1>4. ASSUME p.from # <<>> PROVE Dec(p.ct) = p.value <=> Dec(p.from[1]) \in Words
  <2>1. Remains(p)
    BY <1>1, <1>4 DEF ClaimKnown
  <2> DEFINE D == Dec(p.from[1])
  <2>2. PICK a \in 0..Low(D) : p.value = Low(D) - a /\ Dec(p.ct) = (D - a) % Prime
    BY <2>1 DEF Remains
  <2>3. D \in Fld
    BY <2>1, DecType DEF Remains, IsCipher
  <2>4. Low(D) \in Words /\ Low(D) <= D /\ (Low(D) = D <=> D \in Words)
    BY <2>3, WordsAre
  <2>5. Low(D) \in Nat
    BY <2>4 DEF Words
  <2> HIDE DEF D
  <2>6. D - a \in Fld /\ D \in Int /\ a \in Int
    BY <2>3, <2>4, <2>5, <2>2, CiphersAssumption DEF Fld
  <2>7. (D - a) % Prime = D - a
    BY <2>6, ModSmall
  <2>8. D - a = Low(D) - a <=> Low(D) = D
    BY <2>5, <2>6
  <2>. QED BY <2>2, <2>4, <2>7, <2>8 DEF D
<1>. QED BY <1>3, <1>4

\* Every range proof of an answer rests on true statements exactly if its value is the
\* plaintext; for the rest of a balance exactly if the balance is a word.
THEOREM ClaimsAreRight == LedgerSpec => []ClaimsRight
BY ClaimInvInit, ClaimInvStep, ClaimInvRight, PTL DEF LedgerSpec

-----------------------------------------------------------------------------
(* Tables that are filled by the first who needs them.                      *)

\* A job is inside prover_mutex exactly when it is not idle; only jobs decode.
Inside == /\ \A t \in Jobs : phase[t] # "idle" <=> lock = t
          /\ \A t \in Keygens : phase[t] \in {"idle", "rates", "rate", "code"}

\* A thread that fills a table has stored what it has not left to store.
TablesStored == \A t \in Users : /\ phase[t] = "fill" => Cells \ left[t] \subseteq dec
                                 /\ phase[t] = "rate" => Cells \ left[t] \subseteq rate

\* The flag is right unless someone is still filling.
TablesFlags == /\ Ready \in dec => Cells \subseteq dec \/ \E u \in Users : phase[u] = "fill"
               /\ Ready \in rate => Entries \subseteq rate \/ \E u \in Users : phase[u] = "rate"

\* So is the table of a thread that uses it.
Uses == \A t \in Users :
          /\ phase[t] = "decode" => Cells \subseteq dec
          /\ phase[t] = "code" => Entries \subseteq rate \/ \E u \in Users : phase[u] = "rate"

TablesInv == TablesTypeOK /\ Inside /\ TablesStored /\ TablesFlags /\ Uses

\* No table is stored or flagged at the start.
LEMMA TablesInvInit == TablesInit => TablesInv
BY TablesAssumption DEF TablesInit, TablesInv, TablesTypeOK, Inside, TablesStored, TablesFlags, Uses,
                        Cells, Users

\* Each step of a thread keeps the invariant.
LEMMA TablesInvStep == TablesInv /\ [TablesNext]_tables => TablesInv'
<1> SUFFICES ASSUME TablesInv, [TablesNext]_tables PROVE TablesInv'
  OBVIOUS
<1> USE TablesAssumption DEF TablesInv, Users
<1>1. ASSUME NEW t \in Users, Lock(t) PROVE TablesInv'
  BY <1>1 DEF Lock, Becomes, TablesTypeOK, Inside, TablesStored, TablesFlags, Uses
<1>2. ASSUME NEW t \in Users, Lookup(t) PROVE TablesInv'
  <2>1. t \in Jobs /\ lock = t
    BY <1>2 DEF Lookup, Inside
  <2>2. CASE Ready \in dec
    <3>1. dec' = dec /\ left' = left /\ rate' = rate /\ lock' = lock
          /\ phase' = [phase EXCEPT ![t] = "decode"]
      BY <1>2, <2>2 DEF Lookup, Becomes
    <3>2. ~\E u \in Users : phase[u] = "fill"
      BY <1>2, <2>1 DEF Inside, Lookup
    <3> QED BY <2>1, <2>2, <3>1, <3>2, <1>2
            DEF Lookup, TablesTypeOK, Inside, TablesStored, TablesFlags, Uses
  <2>3. CASE Ready \notin dec
    <3>1. dec' = dec \ Entries /\ left' = [left EXCEPT ![t] = Cells] /\ rate' = rate
          /\ lock' = lock /\ phase' = [phase EXCEPT ![t] = "fill"]
      BY <1>2, <2>3 DEF Lookup, Becomes, Leaves
    <3>2. \A u \in Users : u # t => phase[u] \notin {"fill", "decode"}
      BY <2>1 DEF Inside
    <3>3. (TablesTypeOK /\ Inside)'
      BY <2>1, <3>1, <1>2 DEF Lookup, TablesTypeOK, Inside
    <3>4. TablesStored'
      BY <3>1, <3>2 DEF TablesTypeOK, TablesStored
    <3>5. (TablesFlags /\ Uses)'
      BY <2>3, <3>1, <3>2, <1>2 DEF Lookup, TablesTypeOK, TablesFlags, Uses
    <3> QED BY <3>3, <3>4, <3>5
  <2> QED BY <2>2, <2>3
<1>3. ASSUME NEW t \in Users, Fill(t) PROVE TablesInv'
  <2>1. PICK c \in left[t] : dec' = dec \cup {c} /\ left' = [left EXCEPT ![t] = left[t] \ {c}]
    BY <1>3 DEF Fill, Leaves
  <2>2. phase' = phase /\ lock' = lock /\ rate' = rate /\ phase[t] = "fill"
    BY <1>3 DEF Fill
  <2>3. (TablesTypeOK /\ Inside)'
    BY <2>1, <2>2 DEF TablesTypeOK, Inside
  <2>4. TablesStored'
    BY <2>1, <2>2 DEF TablesTypeOK, TablesStored
  <2>5. (TablesFlags /\ Uses)'
    BY <2>1, <2>2 DEF TablesTypeOK, TablesFlags, Uses
  <2> QED BY <2>3, <2>4, <2>5
<1>4. ASSUME NEW t \in Users, Filled(t) PROVE TablesInv'
  <2>1. Cells \subseteq dec
    BY <1>4 DEF Filled, TablesStored
  <2> QED BY <1>4, <2>1 DEF Filled, Becomes, TablesTypeOK, Inside, TablesStored, TablesFlags, Uses
<1>5. ASSUME NEW t \in Users, Construct(t) PROVE TablesInv'
  BY <1>5 DEF Construct, Becomes, TablesTypeOK, Inside, TablesStored, TablesFlags, Uses
<1>6. ASSUME NEW t \in Users, Rates(t) PROVE TablesInv'
  <2>1. CASE Ready \in rate
    BY <1>6, <2>1 DEF Rates, Becomes, TablesTypeOK, Inside, TablesStored, TablesFlags, Uses
  <2>2. CASE Ready \notin rate
    BY <1>6, <2>2 DEF Rates, Becomes, Leaves, TablesTypeOK, Inside, TablesStored, TablesFlags, Uses
  <2> QED BY <2>1, <2>2
<1>7. ASSUME NEW t \in Users, Rate(t) PROVE TablesInv'
  <2>1. PICK c \in left[t] : rate' = rate \cup {c} /\ left' = [left EXCEPT ![t] = left[t] \ {c}]
    BY <1>7 DEF Rate, Leaves
  <2>2. phase' = phase /\ lock' = lock /\ dec' = dec /\ phase[t] = "rate"
    BY <1>7 DEF Rate
  <2>3. (TablesTypeOK /\ Inside)'
    BY <2>1, <2>2 DEF TablesTypeOK, Inside
  <2>4. TablesStored'
    BY <2>1, <2>2 DEF TablesTypeOK, TablesStored
  <2>5. (TablesFlags /\ Uses)'
    BY <2>1, <2>2 DEF TablesTypeOK, TablesFlags, Uses
  <2> QED BY <2>3, <2>4, <2>5
<1>8. ASSUME NEW t \in Users, Rated(t) PROVE TablesInv'
  <2>1. Entries \subseteq rate
    BY <1>8 DEF Rated, TablesStored, Cells
  <2> QED BY <1>8, <2>1 DEF Rated, Becomes, TablesTypeOK, Inside, TablesStored, TablesFlags, Uses
<1>9. ASSUME NEW t \in Users, Coded(t) PROVE TablesInv'
  <2>1. t \in Jobs => lock = t
    BY <1>9 DEF Coded, Inside
  <2> QED BY <1>9, <2>1 DEF Coded, Becomes, TablesTypeOK, Inside, TablesStored, TablesFlags, Uses
<1>10. CASE UNCHANGED tables
  BY <1>10 DEF tables, TablesTypeOK, Inside, TablesStored, TablesFlags, Uses
<1> QED BY <1>1, <1>2, <1>3, <1>4, <1>5, <1>6, <1>7, <1>8, <1>9, <1>10 DEF TablesNext

\* Typing, the mutex, and what a thread has stored when it goes on hold in every
\* behaviour of LazyTables.
THEOREM TablesInvariance == TablesSpec => []TablesInv
BY TablesInvInit, TablesInvStep, PTL DEF TablesSpec

\* base64_decode never reads a table that is not all there.
THEOREM DecodesSafely == TablesSpec => []DecodesRight
<1>1. TablesInv => DecodesRight
  BY DEF TablesInv, Uses, DecodesRight
<1> QED BY TablesInvariance, <1>1, PTL

\* Rates are wrong only when /test/keygen has to do with it.
THEOREM RatesSafely == TablesSpec => []RatesRight
<1>1. TablesInv => RatesRight
  BY TablesAssumption DEF TablesInv, Uses, RatesRight, Inside, Users
<1> QED BY TablesInvariance, <1>1, PTL

\* Without it, never.
THEOREM RatesSafelyUnderMutex ==
  ASSUME Keygens = {}
  PROVE  TablesSpec => [](\A t \in Users : phase[t] = "code" => Entries \subseteq rate)
<1>1. RatesRight => \A t \in Users : phase[t] = "code" => Entries \subseteq rate
  BY DEF RatesRight
<1> QED BY RatesSafely, <1>1, PTL

-----------------------------------------------------------------------------
(* The chunks.                                                              *)

\* Rounding up: as many chunks of that size as there are threads are enough.
LEMMA Division ==
  ASSUME NEW a \in Nat, NEW n \in Nat \ {0}
  PROVE  /\ a \div n \in Nat
         /\ n * (a \div n) <= a
         /\ a < n * (a \div n) + n
  BY Z3

\* There is a thread, and none without a bit of its own.
LEMMA ThreadsType == Threads \in Nat \ {0} /\ Threads <= Bits
  BY WorkersAssumption DEF Threads

\* The chunks cover the bits.
LEMMA ChunkType == Chunk \in Nat \ {0} /\ Bits <= Threads * Chunk
<1>1. Bits + Threads - 1 \in Nat
  BY ThreadsType, WorkersAssumption
<1> DEFINE a == Bits + Threads - 1
<1>2. /\ Chunk \in Nat
      /\ a < Threads * Chunk + Threads
  <2>1. a \in Nat
    BY <1>1
  <2>2. a \div Threads \in Nat /\ a < Threads * (a \div Threads) + Threads
    BY <2>1, ThreadsType, Division
  <2> QED
    BY <2>2 DEF Chunk
<1>3. Threads * Chunk \in Nat
  BY <1>2, ThreadsType
<1>4. Bits <= Threads * Chunk
  BY <1>2, <1>3, ThreadsType, WorkersAssumption
<1>5. Chunk # 0
  <2>1. Chunk = 0 => Threads * Chunk = 0
    BY ThreadsType
  <2> QED
    BY <2>1, <1>4, WorkersAssumption
<1> QED
  BY <1>2, <1>4, <1>5

\* A thread's chunk, in numbers.
LEMMA PartType ==
  ASSUME NEW t \in Workers
  PROVE  /\ t \in Nat /\ From(t) \in Nat /\ To(t) \in Nat
         /\ To(t) <= Bits /\ To(t) <= From(t) + Chunk
<1>1. t \in Nat
  BY ThreadsType DEF Workers
<1>2. From(t) \in Nat
  BY <1>1, ChunkType DEF From
<1> QED
  BY <1>1, <1>2, ChunkType, WorkersAssumption DEF To

\* Chunks lie one after the other.
LEMMA Multiples ==
  ASSUME NEW s \in Nat, NEW t \in Nat, NEW c \in Nat, s < t
  PROVE  s * c + c <= t * c
<1>1. t - s - 1 \in Nat
  OBVIOUS
<1>2. (t - s - 1) * c \in Nat
  BY <1>1
<1>3. (t - s - 1) * c = t * c - s * c - c
  OBVIOUS
<1>4. s * c \in Nat /\ t * c \in Nat
  OBVIOUS
<1> QED
  BY <1>2, <1>3, <1>4

\* No bit is in two chunks.
LEMMA PartsApart ==
  ASSUME NEW s \in Workers, NEW t \in Workers, NEW b \in BitSet,
         From(s) <= b, b < To(s), From(t) <= b, b < To(t)
  PROVE  s = t
<1>1. b \in Nat
  BY WorkersAssumption DEF BitSet
<1>2. ASSUME NEW x \in Workers, NEW y \in Workers, x < y, b < To(x), From(y) <= b
      PROVE  FALSE
  <2>1. From(x) + Chunk <= From(y)
    BY <1>2, PartType, ChunkType, Multiples DEF From
  <2> QED
    BY <1>1, <1>2, <2>1, PartType, ChunkType
<1>3. s \in Nat /\ t \in Nat
  BY PartType
<1>4. ~(s < t) /\ ~(t < s)
  BY <1>2
<1> QED
  BY <1>3, <1>4

\* Every bit is in a chunk.
LEMMA PartsCover ==
  ASSUME NEW b \in BitSet
  PROVE  \E t \in Workers : From(t) <= b /\ b < To(t)
<1>1. b \in Nat /\ b < Bits
  BY WorkersAssumption DEF BitSet
<1> DEFINE t == b \div Chunk
<1>2. t \in Nat /\ Chunk * t <= b /\ b < Chunk * t + Chunk
  BY <1>1, ChunkType, Division
<1>3. t < Threads
  <2> SUFFICES ASSUME Threads <= t PROVE FALSE
    BY <1>2, ThreadsType
  <2> HIDE DEF t
  <2>1. Threads * Chunk <= t * Chunk
    <3>1. CASE Threads = t
      BY <3>1, ChunkType, <1>2
    <3>2. CASE Threads < t
      <4>1. Threads * Chunk + Chunk <= t * Chunk
        BY <3>2, <1>2, ThreadsType, ChunkType, Multiples
      <4>2. Threads * Chunk \in Nat /\ t * Chunk \in Nat
        BY <1>2, ThreadsType, ChunkType
      <4> QED
        BY <4>1, <4>2, ChunkType
    <3> QED
      BY <3>1, <3>2, <1>2, ThreadsType
  <2>2. t * Chunk = Chunk * t
    BY <1>2, ChunkType
  <2>3. Threads * Chunk \in Nat /\ t * Chunk \in Nat
    BY <1>2, ThreadsType, ChunkType
  <2> QED
    BY <2>1, <2>2, <2>3, <1>1, <1>2, ChunkType, WorkersAssumption
<1> HIDE DEF t
<1>4. t \in Workers
  BY <1>2, <1>3, ThreadsType DEF Workers
<1>5. From(t) = Chunk * t
  BY <1>2, ChunkType DEF From
<1>6. b < To(t)
  BY <1>1, <1>2, <1>5, ChunkType, WorkersAssumption DEF To
<1> QED
  BY <1>2, <1>4, <1>5, <1>6

-----------------------------------------------------------------------------
(* The invariant.                                                           *)

WorkersTypeOK == /\ main \in {"idle", "spawn", "sum"}
                 /\ spawned \in 0..Threads
                 /\ step \in [Workers -> {"none", "encrypt", "points", "done"}]
                 /\ at \in [Workers -> Nat]
                 /\ ref \in [Workers -> Nat]
                 /\ proofs \in [BitSet -> Nat]
                 /\ table \in Nat

Busy(t) == step[t] \in {"encrypt", "points"}

\* Where a worker is in its chunk.
Positions == \A t \in Workers :
  /\ step[t] = "none" <=> spawned <= t
  /\ Busy(t) => From(t) <= at[t] /\ at[t] < To(t)
  /\ step[t] = "done" => IF From(t) < To(t) THEN at[t] = To(t) ELSE at[t] = From(t)

\* t has passed bit b.
Passed(t, b) == step[t] # "none" /\ From(t) <= b /\ b < at[t]

\* The bits that are stored are those that a worker has passed.
BitsStored == \A b \in BitSet : /\ proofs[b] \in {0, 1}
                                /\ proofs[b] = 1 <=> \E t \in Workers : Passed(t, b)

Joined == /\ main = "sum" => \A t \in Workers : step[t] = "done"
          /\ main = "idle" => \A t \in Workers : ~Busy(t)

References == \A t \in Workers :
  /\ step[t] = "points" => BitGens <= table
  /\ ref[t] # 0 => step[t] = "points" /\ ref[t] = table

WorkersInv == WorkersTypeOK /\ Positions /\ BitsStored /\ Joined /\ References

-----------------------------------------------------------------------------
\* Before make_range_proof is called the invariant holds.
THEOREM WorkersInvInit == WorkersInit => WorkersInv
<1> SUFFICES ASSUME WorkersInit PROVE WorkersInv
  OBVIOUS
<1> USE DEF WorkersInit
<1>1. WorkersTypeOK
  BY ThreadsType DEF WorkersTypeOK
<1>2. Positions
  BY PartType DEF Positions, Busy
<1>3. BitsStored
  BY DEF BitsStored, Passed
<1>4. Joined /\ References
  BY DEF Joined, References, Busy
<1> QED
  BY <1>1, <1>2, <1>3, <1>4 DEF WorkersInv

\* A table never shrinks.
LEMMA GrownType ==
  ASSUME table \in Nat, NEW n \in Nat
  PROVE  Grown(n) \in Nat /\ n <= Grown(n) /\ table <= Grown(n)
                          /\ (n <= table => Grown(n) = table)
  BY DEF Grown

\* A proof begins with no worker started.
LEMMA BeginOK == WorkersInv /\ Begin => WorkersInv'
<1> SUFFICES ASSUME WorkersInv, Begin PROVE WorkersInv'
  OBVIOUS
<1> USE DEF Begin, WorkersInv
<1>1. WorkersTypeOK'
  BY ThreadsType DEF WorkersTypeOK
<1>2. Positions'
  BY PartType DEF Positions, Busy
<1>3. BitsStored'
  BY DEF BitsStored, Passed
<1>4. Joined' /\ References'
  BY DEF Joined, References, Busy, WorkersTypeOK
<1> QED
  BY <1>1, <1>2, <1>3, <1>4

\* A worker starts at the first bit of its chunk.
LEMMA SpawnOK == WorkersInv /\ Spawn => WorkersInv'
<1> SUFFICES ASSUME WorkersInv, Spawn PROVE WorkersInv'
  OBVIOUS
<1> DEFINE t == spawned
<1>1. t \in Workers /\ t \in Nat
  BY ThreadsType DEF WorkersInv, WorkersTypeOK, Spawn, Workers
<1>2. /\ main = "spawn" /\ main' = main
      /\ spawned' = t + 1
      /\ at' = [at EXCEPT ![t] = From(t)]
      /\ step' = [step EXCEPT ![t] = IF From(t) < To(t) THEN "encrypt" ELSE "done"]
      /\ ref' = ref /\ proofs' = proofs /\ table' = table
      /\ t < Threads
  BY DEF Spawn
<1>3. step[t] = "none"
  BY <1>1 DEF WorkersInv, Positions
<1>4. WorkersTypeOK'
  BY <1>1, <1>2, PartType, ThreadsType DEF WorkersInv, WorkersTypeOK
<1>5. Positions'
  <2> SUFFICES ASSUME NEW u \in Workers
               PROVE  /\ step'[u] = "none" <=> t + 1 <= u
                      /\ step'[u] \in {"encrypt", "points"} => From(u) <= at'[u] /\ at'[u] < To(u)
                      /\ step'[u] = "done"
                           => IF From(u) < To(u) THEN at'[u] = To(u) ELSE at'[u] = From(u)
    BY <1>2 DEF Positions, Busy
  <2>1. u \in Nat /\ From(u) \in Nat /\ To(u) \in Nat
    BY PartType
  <2>2. CASE u = t
    BY <1>1, <1>2, <2>1, <2>2 DEF WorkersInv, WorkersTypeOK
  <2>3. CASE u # t
    BY <1>1, <1>2, <2>1, <2>3 DEF WorkersInv, WorkersTypeOK, Positions, Busy
  <2> QED
    BY <2>2, <2>3
<1>6. BitsStored'
  <2>1. ASSUME NEW u \in Workers, NEW b \in BitSet PROVE Passed(u, b)' <=> Passed(u, b)
    <3>1. b \in Nat /\ From(u) \in Nat
      BY PartType, WorkersAssumption DEF BitSet
    <3>2. CASE u = t
      BY <1>1, <1>2, <1>3, <3>1, <3>2 DEF WorkersInv, WorkersTypeOK, Passed
    <3>3. CASE u # t
      BY <1>1, <1>2, <3>3 DEF WorkersInv, WorkersTypeOK, Passed
    <3> QED
      BY <3>2, <3>3
  <2> QED
    BY <1>2, <2>1 DEF WorkersInv, BitsStored
<1>7. Joined' /\ References'
  BY <1>1, <1>2, <1>3 DEF WorkersInv, WorkersTypeOK, Joined, References
<1> QED
  BY <1>4, <1>5, <1>6, <1>7 DEF WorkersInv

\* A worker makes the table large enough for the proof of a bit.
LEMMA PrecomputeOK ==
  ASSUME NEW t \in Workers
  PROVE  WorkersInv /\ Precompute(t) => WorkersInv'
<1> SUFFICES ASSUME WorkersInv, Precompute(t) PROVE WorkersInv'
  OBVIOUS
<1>1. /\ step[t] = "encrypt" /\ table' = Grown(BitGens)
      /\ step' = [step EXCEPT ![t] = "points"]
      /\ main' = main /\ spawned' = spawned /\ at' = at /\ ref' = ref /\ proofs' = proofs
  BY DEF Precompute
<1>2. table' \in Nat /\ BitGens <= table' /\ (BitGens <= table => table' = table)
  BY <1>1, GrownType, WorkersAssumption DEF WorkersInv, WorkersTypeOK
<1>3. WorkersTypeOK'
  BY <1>1, <1>2 DEF WorkersInv, WorkersTypeOK
<1>4. Positions'
  BY <1>1 DEF WorkersInv, WorkersTypeOK, Positions, Busy
<1>5. BitsStored'
  BY <1>1 DEF WorkersInv, WorkersTypeOK, BitsStored, Passed
<1>6. Joined'
  BY <1>1 DEF WorkersInv, WorkersTypeOK, Joined, Busy
<1>7. References'
  BY <1>1, <1>2 DEF WorkersInv, WorkersTypeOK, References
<1> QED
  BY <1>3, <1>4, <1>5, <1>6, <1>7 DEF WorkersInv

\* A worker's reference is into the table as it is.
LEMMA ReferOK ==
  ASSUME NEW t \in Workers
  PROVE  WorkersInv /\ Refer(t) => WorkersInv'
<1> SUFFICES ASSUME WorkersInv, Refer(t) PROVE WorkersInv'
  OBVIOUS
<1>1. PICK i \in 1..BitGens : /\ table' = Grown(i)
                              /\ ref' = [ref EXCEPT ![t] = Grown(i)]
  BY DEF Refer
<1>2. /\ step[t] = "points" /\ step' = step
      /\ main' = main /\ spawned' = spawned /\ at' = at /\ proofs' = proofs
  BY DEF Refer
<1>3. table' = table /\ ref' = [ref EXCEPT ![t] = table]
  <2>1. i \in Nat /\ i <= BitGens /\ BitGens \in Nat
    BY WorkersAssumption
  <2>2. BitGens <= table /\ table \in Nat
    BY <1>2 DEF WorkersInv, WorkersTypeOK, References
  <2>3. Grown(i) = table
    BY <2>1, <2>2, GrownType
  <2> QED
    BY <1>1, <2>3
<1>4. WorkersTypeOK'
  BY <1>2, <1>3 DEF WorkersInv, WorkersTypeOK
<1>5. Positions' /\ Joined'
  BY <1>2 DEF WorkersInv, Positions, Joined, Busy
<1>6. BitsStored'
  BY <1>2 DEF WorkersInv, BitsStored, Passed
<1>7. References'
  BY <1>2, <1>3 DEF WorkersInv, WorkersTypeOK, References
<1> QED
  BY <1>4, <1>5, <1>6, <1>7 DEF WorkersInv

\* A worker reads a generator through its reference.
LEMMA CopyOK ==
  ASSUME NEW t \in Workers
  PROVE  WorkersInv /\ Copy(t) => WorkersInv'
<1> SUFFICES ASSUME WorkersInv, Copy(t) PROVE WorkersInv'
  OBVIOUS
<1>1. WorkersTypeOK' /\ References'
  BY DEF Copy, WorkersInv, WorkersTypeOK, References
<1>2. Positions' /\ Joined'
  BY DEF Copy, WorkersInv, Positions, Joined, Busy
<1>3. BitsStored'
  BY DEF Copy, WorkersInv, BitsStored, Passed
<1> QED
  BY <1>1, <1>2, <1>3 DEF WorkersInv

\* A bit's proof is stored where no other worker stores.
LEMMA StoreOK ==
  ASSUME NEW t \in Workers
  PROVE  WorkersInv /\ Store(t) => WorkersInv'
<1> SUFFICES ASSUME WorkersInv, Store(t) PROVE WorkersInv'
  OBVIOUS
<1>0. PICK c \in Nat : c = at[t]
  BY DEF WorkersInv, WorkersTypeOK
<1>1. /\ step[t] = "points" /\ ref[t] = 0
      /\ proofs' = [proofs EXCEPT ![c] = @ + 1]
      /\ at' = [at EXCEPT ![t] = c + 1]
      /\ step' = [step EXCEPT ![t] = IF c + 1 < To(t) THEN "encrypt" ELSE "done"]
      /\ main' = main /\ spawned' = spawned /\ ref' = ref /\ table' = table
  BY <1>0 DEF Store
<1>2. From(t) <= c /\ c < To(t) /\ c \in Nat
  BY <1>0, <1>1 DEF WorkersInv, WorkersTypeOK, Positions, Busy
<1>3. From(t) \in Nat /\ To(t) \in Nat /\ To(t) <= Bits
  BY PartType
<1>4. c \in BitSet
  BY <1>2, <1>3, WorkersAssumption DEF BitSet
<1>5. WorkersTypeOK'
  BY <1>1, <1>2, <1>4 DEF WorkersInv, WorkersTypeOK
<1>6. Positions'
  <2> SUFFICES ASSUME NEW u \in Workers
               PROVE  /\ step'[u] = "none" <=> spawned <= u
                      /\ step'[u] \in {"encrypt", "points"} => From(u) <= at'[u] /\ at'[u] < To(u)
                      /\ step'[u] = "done"
                           => IF From(u) < To(u) THEN at'[u] = To(u) ELSE at'[u] = From(u)
    BY <1>1 DEF Positions, Busy
  <2>1. CASE u = t
    <3>1. at'[u] = c + 1 /\ step'[u] = IF c + 1 < To(t) THEN "encrypt" ELSE "done"
      BY <1>1, <2>1 DEF WorkersInv, WorkersTypeOK
    <3>2. ~(spawned <= u)
      BY <1>1, <2>1 DEF WorkersInv, Positions
    <3> QED
      BY <1>2, <1>3, <2>1, <3>1, <3>2
  <2>2. CASE u # t
    BY <1>1, <2>2 DEF WorkersInv, WorkersTypeOK, Positions, Busy
  <2> QED
    BY <2>1, <2>2
<1>7. BitsStored'
  <2>1. ~\E u \in Workers : Passed(u, c)
    <3> SUFFICES ASSUME NEW u \in Workers, Passed(u, c) PROVE FALSE
      OBVIOUS
    <3>1. step[u] # "none" /\ From(u) <= c /\ c < at[u]
      BY DEF Passed
    <3>2. From(u) \in Nat /\ To(u) \in Nat
      BY PartType
    <3>3. c < To(u)
      <4>1. CASE Busy(u)
        BY <1>2, <3>1, <3>2, <4>1 DEF WorkersInv, WorkersTypeOK, Positions
      <4>2. CASE step[u] = "done"
        BY <1>2, <3>1, <3>2, <4>2 DEF WorkersInv, WorkersTypeOK, Positions
      <4> QED
        BY <3>1, <4>1, <4>2 DEF WorkersInv, WorkersTypeOK, Busy
    <3>4. u = t
      BY <1>2, <1>4, <3>1, <3>3, PartsApart
    <3> QED
      BY <1>0, <1>2, <3>1, <3>4
  <2>2. ASSUME NEW b \in BitSet, b # c
        PROVE  proofs'[b] = proofs[b] /\ \A u \in Workers : Passed(u, b)' <=> Passed(u, b)
    <3>1. proofs'[b] = proofs[b]
      BY <1>1, <1>4, <2>2 DEF WorkersInv, WorkersTypeOK
    <3>2. ASSUME NEW u \in Workers PROVE Passed(u, b)' <=> Passed(u, b)
      <4>1. b \in Nat
        BY WorkersAssumption DEF BitSet
      <4>2. CASE u = t
        <5>1. at'[u] = c + 1 /\ at[u] = c
          BY <1>0, <1>1, <4>2 DEF WorkersInv, WorkersTypeOK
        <5>2. step[u] # "none" /\ step'[u] # "none"
          BY <1>1, <4>2 DEF WorkersInv, WorkersTypeOK
        <5> QED
          BY <1>2, <2>2, <4>1, <5>1, <5>2 DEF Passed
      <4>3. CASE u # t
        BY <1>1, <4>3 DEF WorkersInv, WorkersTypeOK, Passed
      <4> QED
        BY <4>2, <4>3
    <3> QED
      BY <3>1, <3>2
  <2>3. proofs'[c] = 1
    BY <1>1, <1>4, <2>1 DEF WorkersInv, WorkersTypeOK, BitsStored
  <2>4. Passed(t, c)'
    BY <1>1, <1>2, <1>3 DEF WorkersInv, WorkersTypeOK, Passed
  <2>5. ASSUME NEW b \in BitSet
        PROVE  proofs'[b] \in {0, 1} /\ (proofs'[b] = 1 <=> \E u \in Workers : Passed(u, b)')
    <3>1. CASE b = c
      BY <2>3, <2>4, <3>1
    <3>2. CASE b # c
      BY <2>2, <3>2 DEF WorkersInv, BitsStored
    <3> QED
      BY <3>1, <3>2
  <2> QED
    BY <2>5 DEF BitsStored
<1>8. Joined'
  BY <1>1 DEF WorkersInv, WorkersTypeOK, Joined, Busy
<1>9. References'
  BY <1>1 DEF WorkersInv, WorkersTypeOK, References
<1> QED
  BY <1>5, <1>6, <1>7, <1>8, <1>9 DEF WorkersInv

\* The workers are joined when each has stored its bits.
LEMMA JoinOK == WorkersInv /\ Join => WorkersInv'
<1> SUFFICES ASSUME WorkersInv, Join PROVE WorkersInv'
  OBVIOUS
<1> QED
  BY DEF Join, WorkersInv, WorkersTypeOK, Positions, BitsStored, Passed, Joined, References, Busy

\* The proof of the sum, with more generators, finds no worker.
LEMMA SumProofOK == WorkersInv /\ SumProof => WorkersInv'
<1> SUFFICES ASSUME WorkersInv, SumProof PROVE WorkersInv'
  OBVIOUS
<1>1. table' \in Nat
  BY GrownType, WorkersAssumption DEF SumProof, WorkersInv, WorkersTypeOK
<1>2. WorkersTypeOK'
  BY <1>1 DEF SumProof, WorkersInv, WorkersTypeOK
<1>3. Positions'
  BY DEF SumProof, WorkersInv, Positions, Busy
<1>4. BitsStored'
  BY DEF SumProof, WorkersInv, BitsStored, Passed
<1>5. Joined' /\ References'
  BY DEF SumProof, WorkersInv, Joined, References, Busy
<1> QED
  BY <1>2, <1>3, <1>4, <1>5 DEF WorkersInv

\* The invariant holds in every state.
THEOREM WorkersInvariance == WorkersSpec => []WorkersInv
<1>1. WorkersInv /\ [WorkersNext]_workers => WorkersInv'
  <2> SUFFICES ASSUME WorkersInv, [WorkersNext]_workers PROVE WorkersInv'
    OBVIOUS
  <2>1. CASE Begin
    BY <2>1, BeginOK
  <2>2. CASE Spawn
    BY <2>2, SpawnOK
  <2>3. CASE Join
    BY <2>3, JoinOK
  <2>4. CASE SumProof
    BY <2>4, SumProofOK
  <2>5. CASE \E t \in Workers : Work(t)
    BY <2>5, PrecomputeOK, ReferOK, CopyOK, StoreOK DEF Work
  <2>6. CASE UNCHANGED workers
    BY <2>6 DEF workers, WorkersInv, WorkersTypeOK, Positions, BitsStored, Passed, Joined,
                References, Busy
  <2> QED
    BY <2>1, <2>2, <2>3, <2>4, <2>5, <2>6 DEF WorkersNext
<1> QED
  BY WorkersInvInit, <1>1, PTL DEF WorkersSpec

(* Whatever the number of cores, no bit of a range proof is stored twice and *)
(* none is missing when the ciphers are summed up (make_range_proof).        *)
THEOREM BitsOnce == WorkersSpec => []EachBitOnce
<1>1. WorkersInv => EachBitOnce
  <2> SUFFICES ASSUME WorkersInv, NEW b \in BitSet
               PROVE  proofs[b] <= 1 /\ (main = "sum" => proofs[b] = 1)
    BY DEF EachBitOnce
  <2>1. proofs[b] <= 1
    BY DEF WorkersInv, BitsStored
  <2>2. ASSUME main = "sum" PROVE proofs[b] = 1
    <3>1. PICK t \in Workers : From(t) <= b /\ b < To(t)
      BY PartsCover
    <3>2. step[t] = "done"
      BY <2>2 DEF WorkersInv, Joined
    <3>3. at[t] = To(t)
      <4>1. b \in Nat /\ From(t) \in Nat /\ To(t) \in Nat
        BY PartType, WorkersAssumption DEF BitSet
      <4> QED
        BY <3>1, <3>2, <4>1 DEF WorkersInv, Positions
    <3>4. Passed(t, b)
      BY <3>1, <3>2, <3>3 DEF Passed
    <3> QED
      BY <3>4 DEF WorkersInv, BitsStored
  <2> QED
    BY <2>1, <2>2
<1> QED
  BY WorkersInvariance, <1>1, PTL

(* Whatever the sizes of the circuits, as long as all bits' are the same: a  *)
(* worker's reference is into the vector that the table has (GeneratorTable). *)
THEOREM NoFreedGenerators == WorkersSpec => []GeneratorsAlive
<1>1. WorkersInv => GeneratorsAlive
  BY DEF WorkersInv, References, GeneratorsAlive
<1> QED
  BY WorkersInvariance, <1>1, PTL

-----------------------------------------------------------------------------
(* The field on two limbs, of any width: its operations are those of the    *)
(* numbers modulo p = 2^(2w-1) - 1, whatever carries they meet.             *)

\* The function behind Field!TwoTo.
Doubles == CHOOSE power : power = [k \in 0..2 * LimbBits |-> IF k = 0 THEN 1 ELSE 2 * power[k - 1]]

\* The powers of two.
LEMMA DoublesAre ==
  /\ LimbBits \in Nat /\ LimbBits > 1
  /\ Field!TwoTo(0) = 1
  /\ \A n \in 0..2 * LimbBits : Field!TwoTo(n) \in Nat \ {0}
  /\ \A n \in 1..2 * LimbBits : Field!TwoTo(n) = 2 * Field!TwoTo(n - 1)
<1> DEFINE N == 2 * LimbBits
           D == Nat \ {0}
           next == [n \in 1..N |-> [x \in D |-> 2 * x]]
<1>1. N \in Nat /\ 1 \in D /\ LimbBits \in Nat /\ LimbBits > 1
  BY LibraryAssumption DEF FieldSizes
<1>2. next \in [1..N -> [D -> D]]
  OBVIOUS
<1>3. \A n \in 1..N, x \in D : next[n][x] = 2 * x
  OBVIOUS
<1> HIDE DEF next, N
<1>4. PICK g \in [0..N -> D] : Iterates(g, 1, N, next)
  <2> HIDE DEF D
  <2>. QED BY <1>1, <1>2, Iteration
<1> DEFINE Is(f) == f = [k \in 0..N |-> IF k = 0 THEN 1 ELSE 2 * f[k - 1]]
<1>5. Is(g)
  <2>1. \A k \in 1..N : g[k - 1] \in D
    BY <1>1
  <2>2. \A k \in 1..N : g[k] = next[k][g[k - 1]]
    BY <1>4 DEF Iterates
  <2>3. \A k \in 1..N : g[k] = 2 * g[k - 1]
    BY <2>1, <2>2, <1>3
  <2>. QED BY <2>3, <1>4, <1>1 DEF Iterates
<1> DEFINE p == Doubles
           S == {n \in Nat : n <= N => p[n] \in D}
<1>6. Is(p)
  BY <1>5 DEF Doubles, N
<1> HIDE DEF p
<1>7. p[0] = 1 /\ \A k \in 1..N : p[k] = 2 * p[k - 1]
  BY <1>6, <1>1
<1>8. 0 \in S
  BY <1>7, <1>1
<1>9. ASSUME NEW n \in Nat, n \in S PROVE n + 1 \in S
  <2> SUFFICES ASSUME n + 1 <= N PROVE p[n + 1] \in D
    OBVIOUS
  <2>1. p[n] \in D
    BY <1>9, <1>1
  <2>2. p[n + 1] = 2 * p[n]
    BY <1>7, <1>1
  <2>. QED BY <2>1, <2>2
<1>10. \A n \in 0..N : p[n] \in D
  <2>1. Nat \subseteq S
    <3> HIDE DEF S
    <3>. QED BY <1>8, <1>9, NatInduct
  <2>. QED BY <2>1, <1>1
<1>11. \A n : Field!TwoTo(n) = Doubles[n]
  BY DEF Field!TwoTo, Doubles
<1>. QED BY <1>1, <1>7, <1>10, <1>11 DEF p, N

\* The number of values of a limb, half of it, and p.
Size == Field!Limb
HalfSize == Size \div 2
LimbP == Field!Modulus

\* A limb has two halves.
LEMMA SizeIs ==
  /\ Size \in Nat /\ HalfSize \in Nat /\ Size = 2 * HalfSize /\ HalfSize >= 2
  /\ Field!Mask = HalfSize - 1 /\ Field!Limb = Size
<1>1. Size = Field!TwoTo(LimbBits)
  BY DEF Size, Field!Limb
<1>2. LimbBits \in 1..2 * LimbBits /\ LimbBits - 1 \in 1..2 * LimbBits
      /\ LimbBits - 1 \in 0..2 * LimbBits /\ (LimbBits - 1) - 1 \in 0..2 * LimbBits
  BY DoublesAre
<1> DEFINE x == Field!TwoTo(LimbBits - 1)
           y == Field!TwoTo((LimbBits - 1) - 1)
<1>3. Field!TwoTo(LimbBits) = 2 * x /\ x = 2 * y /\ x \in Nat \ {0} /\ y \in Nat \ {0}
  BY <1>2, DoublesAre
<1> HIDE DEF x, y
<1>4. (2 * x) \div 2 = x /\ x >= 2
  BY <1>3
<1>. QED BY <1>1, <1>3, <1>4 DEF HalfSize, Field!Mask, Size

\* The elements below p: each number has one of these forms.
Canonical(a) == a \in Field!Elements /\ Field!Number(a) < LimbP

\* p, and what an element is.
LEMMA CanonicalIs ==
  /\ LimbP = HalfSize * Size - 1 /\ LimbP \in Nat \ {0} /\ LimbP + 1 \in Int
  /\ HalfSize * Size \in Int /\ HalfSize * Size >= 8
  /\ \A a : a \in Field!Elements <=>
              /\ a = [lo |-> a.lo, hi |-> a.hi]
              /\ a.lo \in 0..Size - 1 /\ a.hi \in 0..HalfSize - 1
<1>1. /\ Size \in Nat /\ HalfSize \in Nat /\ Size = 2 * HalfSize /\ HalfSize >= 2
      /\ Field!Mask = HalfSize - 1 /\ Field!Limb = Size
  BY SizeIs
<1> DEFINE N == HalfSize * Size
<1>2. N \in Int /\ N >= 8
  <2>1. 2 * Size <= HalfSize * Size /\ HalfSize * Size \in Int
    <3>1. Size * 2 <= Size * HalfSize
      BY <1>1, Monotone
    <3>. QED BY <3>1, <1>1, Ints, Products
  <2>. QED BY <1>1, <2>1
<1>3. LimbP = HalfSize * Size - 1
  <2>1. LimbP = Size * HalfSize - 1
    BY <1>1 DEF LimbP, Field!Modulus, HalfSize
  <2>. QED BY <2>1, <1>1, Products
<1>4. \A a : a \in Field!Elements <=>
               /\ a = [lo |-> a.lo, hi |-> a.hi]
               /\ a.lo \in 0..Size - 1 /\ a.hi \in 0..HalfSize - 1
  BY <1>1 DEF Field!Elements
<1> HIDE DEF N
<1>5. N - 1 \in Nat \ {0} /\ (N - 1) + 1 \in Int
  BY <1>2
<1>. QED BY <1>2, <1>3, <1>4, <1>5 DEF N

\* a is the form of x: it is canonical, and differs from x by a multiple of p.
Represents(a, x) == Canonical(a) /\ \E k \in Int : x = Field!Number(a) + k * LimbP

\* What a stands for is known modulo p.
LEMMA RepresentsIs ==
  ASSUME NEW a, NEW x \in Int, Represents(a, x)
  PROVE  Canonical(a) /\ Field!Number(a) = x % LimbP /\ Field!Number(a) \in 0..LimbP - 1
<1>1. LimbP \in Nat \ {0}
  BY CanonicalIs
<1>2. Canonical(a) /\ a.lo \in 0..Size - 1 /\ a.hi \in 0..HalfSize - 1
  BY CanonicalIs DEF Represents, Canonical
<1>3. Field!Number(a) \in Nat /\ Field!Number(a) < LimbP
  <2>1. a.hi * Size \in Nat /\ Size \in Nat
    <3>1. /\ Size \in Nat /\ HalfSize \in Nat
      BY SizeIs
    <3>. QED BY <3>1, <1>2, Ints, Monotone
  <2>2. Field!Number(a) = a.hi * Size + a.lo
    BY DEF Field!Number, Size
  <2> DEFINE y == a.hi * Size
  <2>3. y \in Nat /\ a.lo \in Nat
    BY <2>1, <1>2
  <2> HIDE DEF y
  <2>4. y + a.lo \in Nat
    BY <2>3
  <2>. QED BY <2>2, <2>4, <1>2 DEF Canonical, y
<1> DEFINE r == Field!Number(a)
<1>4. PICK k \in Int : x = r + k * LimbP
  BY DEF Represents
<1> HIDE DEF r
<1>5. r \in 0..LimbP - 1
  BY <1>1, <1>3 DEF r
<1>6. (k * LimbP + r) % LimbP = r
  BY <1>1, <1>5, DivModUnique
<1>7. k * LimbP \in Int
  BY <1>1, Ints
<1>8. k * LimbP + r = r + k * LimbP
  <2> DEFINE y == k * LimbP
  <2>1. y \in Int /\ r \in Int
    BY <1>5, <1>7
  <2> HIDE DEF y
  <2>2. y + r = r + y
    BY <2>1
  <2>. QED BY <2>2 DEF y
<1>. QED BY <1>2, <1>4, <1>5, <1>6, <1>8 DEF r

\* Two limbs below p.
LEMMA Fits ==
  ASSUME NEW lo \in 0..Size - 1, NEW hi \in 0..HalfSize - 1,
         ~(hi = HalfSize - 1 /\ lo = Size - 1)
  PROVE  /\ Canonical(Field!Fp(lo, hi))
         /\ Field!Number(Field!Fp(lo, hi)) = hi * Size + lo
<1> DEFINE a == Field!Fp(lo, hi)
<1>1. a = [lo |-> lo, hi |-> hi]
  BY DEF Field!Fp
<1>2. a \in Field!Elements /\ a.lo = lo /\ a.hi = hi
  BY <1>1, CanonicalIs
<1> HIDE DEF a
<1>3. Field!Number(a) = hi * Size + lo
  BY <1>2 DEF Field!Number, Size
<1>4. /\ Size \in Nat /\ HalfSize \in Nat /\ Size = 2 * HalfSize /\ HalfSize >= 2
  BY SizeIs
<1>5. LimbP = HalfSize * Size - 1
  BY CanonicalIs
<1>6. hi * Size + lo < HalfSize * Size - 1
  <2> DEFINE x == hi * Size
             y == HalfSize * Size
  <2>1. x \in Int /\ y \in Int
    BY <1>4, Ints
  <2>2. CASE hi = HalfSize - 1
    <3>1. (HalfSize - 1) * Size = HalfSize * Size - Size
      BY <1>4
    <3>2. x = y - Size
      BY <3>1, <2>2
    <3> HIDE DEF x, y
    <3>3. x + lo < y - 1
      BY <3>2, <2>1, <2>2, <1>4
    <3>. QED BY <3>3 DEF x, y
  <2>3. CASE hi <= HalfSize - 2
    <3>1. Size * hi <= Size * (HalfSize - 2)
      BY <1>4, <2>3, Monotone
    <3>2. Size * (HalfSize - 2) = HalfSize * Size - 2 * Size /\ Size * hi = hi * Size
      BY <1>4
    <3>3. x <= y - 2 * Size
      BY <3>1, <3>2
    <3> HIDE DEF x, y
    <3>4. x + lo < y - 1
      BY <3>3, <2>1, <1>4
    <3>. QED BY <3>4 DEF x, y
  <2>. QED BY <2>2, <2>3, <1>4
<1>. QED BY <1>2, <1>3, <1>5, <1>6 DEF Canonical, a

\* fp_from_words keeps the number of two words, modulo p.
LEMMA FromWordsRepresents ==
  ASSUME NEW lo \in 0..Size - 1, NEW hi \in 0..Size - 1
  PROVE  Represents(Field!FromWords(lo, hi), hi * Size + lo)
<1> DEFINE L == Size
           M == HalfSize
           P == LimbP
           N == M * L
           top == hi \div M
           h0 == hi % M
           t == lo + top
           c == t \div L
           l == t % L
           h == h0 + c
<1>1. /\ L \in Nat /\ M \in Nat /\ L = 2 * M /\ M >= 2
      /\ Field!Mask = M - 1 /\ Field!Limb = L
  BY SizeIs
<1>2. P = N - 1 /\ N \in Int /\ P \in Int
  BY CanonicalIs
<1>3. Field!FromWords(lo, hi) =
        IF h > M - 1 \/ (h = M - 1 /\ l = L - 1)
        THEN Field!Fp((l - (L - 1)) % L, (h - (M - 1) - (IF l < L - 1 THEN 1 ELSE 0)) % L)
        ELSE Field!Fp(l, h)
  <2>1. (M - 1) + 1 = M
    BY <1>1
  <2>. QED BY <2>1, <1>1 DEF Field!FromWords
<1> HIDE DEF L, M, P
<1>4. top \in {0, 1} /\ h0 \in 0..M - 1 /\ hi = top * M + h0
  <2>1. hi \in Int /\ 0 <= hi /\ hi < 2 * M /\ M \in Nat \ {0}
    BY <1>1 DEF L
  <2>2. CASE hi < M
    <3>1. (0 * M + hi) \div M = 0 /\ (0 * M + hi) % M = hi
      BY <2>1, <2>2, DivModUnique
    <3>2. 0 * M + hi = hi
      BY <2>1
    <3>. QED BY <3>1, <3>2, <2>1, <2>2
  <2>3. CASE hi >= M
    <3>1. (1 * M + (hi - M)) \div M = 1 /\ (1 * M + (hi - M)) % M = hi - M
      BY <2>1, <2>3, DivModUnique
    <3>2. 1 * M + (hi - M) = hi
      BY <2>1
    <3>. QED BY <3>1, <3>2, <2>1, <2>3
  <2>. QED BY <2>1, <2>2, <2>3
<1>5. hi * L = top * N + h0 * L
  <2>1. (top * M + h0) * L = (top * M) * L + h0 * L /\ (top * M) * L = top * (M * L)
    <3>1. top \in Int /\ h0 \in Int /\ M \in Int /\ L \in Int /\ top * M \in Int
      BY <1>1, <1>4
    <3>. QED BY <3>1, Products
  <2>. QED BY <2>1, <1>4
<1> HIDE DEF top, h0
<1>6. /\ c \in {0, 1} /\ l \in 0..L - 1 /\ t = c * L + l /\ t \in Int /\ h \in Int
      /\ c = 1 => l = 0 /\ top = 1
  <2>1. t \in Int /\ 0 <= t /\ t <= L /\ L \in Nat \ {0} /\ (t = L => top = 1)
    BY <1>1, <1>4 DEF L
  <2> HIDE DEF t
  <2>2. CASE t < L
    <3>1. (0 * L + t) \div L = 0 /\ (0 * L + t) % L = t
      BY <2>1, <2>2, DivModUnique
    <3>2. 0 * L + t = t
      BY <2>1
    <3>. QED BY <3>1, <3>2, <2>1, <2>2, <1>4
  <2>3. CASE t = L
    <3>1. (1 * L + 0) \div L = 1 /\ (1 * L + 0) % L = 0
      BY <2>1, DivModUnique
    <3>2. 1 * L + 0 = t
      BY <2>1, <2>3
    <3>. QED BY <3>1, <3>2, <2>1, <2>3, <1>4
  <2>. QED BY <2>1, <2>2, <2>3
<1>7. hi * L + lo = (h * L + l) + top * P
  <2> DEFINE x == h0 * L
  <2>1. h * L = x + c * L
    BY <1>1, <1>4, <1>6
  <2>2. top * P = top * N - top
    BY <1>2, <1>4
  <2>3. x \in Int /\ c * L \in Int /\ top * N \in Int
    BY <1>1, <1>2, <1>4, <1>6, Ints
  <2> DEFINE y == c * L
             z == top * N
  <2>4. lo + top = y + l
    BY <1>6
  <2>5. hi * L = z + x /\ h * L = x + y /\ top * P = z - top
    BY <1>5, <2>1, <2>2
  <2>6. x \in Int /\ y \in Int /\ z \in Int /\ top \in Int /\ l \in Int /\ lo \in Int
    BY <2>3, <1>4, <1>6, <1>1
  <2> HIDE DEF x, y, z, l, h, t, c
  <2>7. (z + x) + lo = ((x + y) + l) + (z - top)
    BY <2>4, <2>6
  <2>. QED BY <2>5, <2>7
<1> HIDE DEF t, c, l
<1>8. CASE h > M - 1
  <2>1. h = M /\ l = 0 /\ c = 1
    BY <1>8, <1>6, <1>4, <1>1
  <2>2. (l - (L - 1)) % L = 1 /\ (h - (M - 1) - (IF l < L - 1 THEN 1 ELSE 0)) % L = 0
    <3>1. ((-1) * L + 1) % L = 1 /\ (0 * L + 0) % L = 0
      BY <1>1, DivModUnique
    <3>2. l - (L - 1) = (-1) * L + 1 /\ h - (M - 1) - (IF l < L - 1 THEN 1 ELSE 0) = 0 * L + 0
      BY <2>1, <1>1
    <3>. QED BY <3>1, <3>2
  <2>3. Field!FromWords(lo, hi) = Field!Fp(1, 0)
    BY <1>3, <1>8, <2>2
  <2>4. Canonical(Field!Fp(1, 0)) /\ Field!Number(Field!Fp(1, 0)) = 0 * L + 1
    BY <1>1, Fits DEF L, M
  <2>5. hi * L + lo = 1 + (top + 1) * P
    <3>1. h * L + l = N
      BY <2>1, <1>1, <1>2
    <3>2. (top + 1) * P = top * P + P /\ top * P \in Int
      BY <1>2, <1>4
    <3>3. hi * L + lo = N + top * P
      BY <3>1, <1>7
    <3> DEFINE y == top * P
    <3>4. y \in Int /\ (top + 1) * P = y + P /\ hi * L + lo = N + y
      BY <3>2, <3>3
    <3> HIDE DEF y, N
    <3>5. N + y = 1 + (y + P)
      BY <3>4, <1>2
    <3>. QED BY <3>4, <3>5
  <2>6. 0 * L + 1 = 1 /\ top + 1 \in Int
    BY <1>1, <1>4
  <2>. QED BY <2>3, <2>4, <2>5, <2>6 DEF Represents, P, L
<1>9. CASE h = M - 1 /\ l = L - 1
  <2>2. (l - (L - 1)) % L = 0 /\ (h - (M - 1) - (IF l < L - 1 THEN 1 ELSE 0)) % L = 0
    <3>1. (0 * L + 0) % L = 0
      BY <1>1, DivModUnique
    <3>2. l - (L - 1) = 0 * L + 0 /\ h - (M - 1) - (IF l < L - 1 THEN 1 ELSE 0) = 0 * L + 0
      BY <1>9, <1>1
    <3>. QED BY <3>1, <3>2
  <2>3. Field!FromWords(lo, hi) = Field!Fp(0, 0)
    BY <1>3, <1>9, <2>2
  <2>4. Canonical(Field!Fp(0, 0)) /\ Field!Number(Field!Fp(0, 0)) = 0 * L + 0
    BY <1>1, Fits DEF L, M
  <2>5. hi * L + lo = 0 + (top + 1) * P
    <3>1. h * L + l = P
      <4>1. (M - 1) * L = N - L
        BY <1>1
      <4>2. h * L = N - L
        BY <4>1, <1>9
      <4>. QED BY <4>2, <1>9, <1>1, <1>2
    <3>2. (top + 1) * P = top * P + P /\ top * P \in Int
      BY <1>2, <1>4
    <3>3. hi * L + lo = P + top * P
      BY <3>1, <1>7
    <3> DEFINE y == top * P
    <3>4. y \in Int /\ (top + 1) * P = y + P /\ hi * L + lo = P + y
      BY <3>2, <3>3
    <3> HIDE DEF y, N
    <3>5. P + y = 0 + (y + P)
      BY <3>4, <1>2
    <3>. QED BY <3>4, <3>5
  <2>6. 0 * L + 0 = 0 /\ top + 1 \in Int
    BY <1>1, <1>4
  <2>. QED BY <2>3, <2>4, <2>5, <2>6 DEF Represents, P, L
<1>10. CASE ~(h > M - 1) /\ ~(h = M - 1 /\ l = L - 1)
  <2>1. h \in 0..M - 1 /\ l \in 0..L - 1
    BY <1>10, <1>4, <1>6, <1>1
  <2>2. Field!FromWords(lo, hi) = Field!Fp(l, h)
    BY <1>3, <1>10
  <2> HIDE DEF h
  <2>3. Canonical(Field!Fp(l, h)) /\ Field!Number(Field!Fp(l, h)) = h * L + l
    BY <2>1, <1>10, Fits DEF L, M
  <2>4. top \in Int
    BY <1>4
  <2>. QED BY <2>2, <2>3, <2>4, <1>7 DEF Represents, P, L
<1>. QED BY <1>8, <1>9, <1>10

\* What x is the form of is also that of x plus a multiple of p.
LEMMA RepresentsShift ==
  ASSUME NEW a, NEW x \in Int, NEW k \in Int, Represents(a, x)
  PROVE  k * LimbP \in Int /\ Represents(a, x + k * LimbP)
<1>1. LimbP \in Int /\ Canonical(a)
  BY CanonicalIs DEF Represents
<1>2. PICK j \in Int : x = Field!Number(a) + j * LimbP
  BY DEF Represents
<1>3. Field!Number(a) \in Int
  <2>1. Field!Number(a) \in 0..LimbP - 1
    BY RepresentsIs
  <2>. QED BY <2>1, <1>1
<1> DEFINE r == Field!Number(a)
           P == LimbP
           u == j * P
           v == k * P
<1>4. (j + k) * P = u + v /\ j + k \in Int /\ u \in Int /\ v \in Int
  BY <1>1, Products, Ints
<1>5. x = r + u /\ r \in Int
  BY <1>2, <1>3
<1> HIDE DEF r, u, v
<1>6. x + v = r + (u + v)
  BY <1>4, <1>5
<1> HIDE DEF P
<1>7. x + v = r + (j + k) * P
  BY <1>4, <1>6
<1>. QED BY <1>1, <1>4, <1>7 DEF Represents, r, u, v, P

\* The number of an element.
LEMMA NumberIs ==
  ASSUME NEW a \in Field!Elements
  PROVE  /\ a.lo \in 0..Size - 1 /\ a.hi \in 0..HalfSize - 1
         /\ a.lo \in Int /\ a.hi \in Int /\ a.hi * Size \in Int
         /\ Field!Number(a) = a.hi * Size + a.lo /\ Field!Number(a) \in Int
<1>1. a.lo \in 0..Size - 1 /\ a.hi \in 0..HalfSize - 1 /\ Size \in Int /\ HalfSize \in Int
  BY CanonicalIs, SizeIs
<1>2. a.lo \in Int /\ a.hi \in Int
  BY <1>1
<1>3. a.hi * Size \in Int
  BY <1>1, <1>2, Ints
<1>4. Field!Number(a) = a.hi * Size + a.lo
  BY DEF Field!Number, Size
<1>5. Field!Number(a) \in Int
  BY <1>2, <1>3, <1>4, Ints
<1>. QED BY <1>1, <1>2, <1>3, <1>4, <1>5

\* The carry of two limbs.
LEMMA CarryIs ==
  ASSUME NEW m \in Nat \ {0}, NEW x \in Int, NEW k \in Int, 0 <= x, x < m * (k + 1)
  PROVE  x \div m \in 0..k /\ x \div m \in Int /\ x % m \in 0..m - 1 /\ x % m \in Int
         /\ m * (x \div m) \in Int /\ x = m * (x \div m) + (x % m)
<1> DEFINE q == x \div m
           r == x % m
           y == m * q
<1>1. x = q * m + r /\ q \in Int /\ r \in 0..m - 1
  BY DivMod
<1>2. q * m = y /\ y \in Int
  BY <1>1, Products
<1> HIDE DEF q, r
<1>3. q >= 0
  <2>1. CASE q <= -1
    <3>1. m * q <= m * (-1)
      BY <1>1, <2>1, Monotone
    <3>2. m * (-1) = -m
      OBVIOUS
    <3>3. y <= -m
      BY <3>1, <3>2
    <3> HIDE DEF y
    <3>. QED BY <1>1, <1>2, <3>3
  <2>. QED BY <2>1, <1>1
<1>4. q <= k
  <2>1. CASE q >= k + 1
    <3>1. m * (k + 1) <= m * q /\ m * (k + 1) \in Int
      BY <1>1, <2>1, Monotone, Products
    <3> DEFINE z == m * (k + 1)
    <3>2. z <= y /\ z \in Int /\ x < z
      BY <3>1
    <3> HIDE DEF y, z
    <3>. QED BY <1>1, <1>2, <3>2
  <2>. QED BY <2>1, <1>1
<1>5. q \in 0..k /\ r \in Int
  BY <1>1, <1>3, <1>4
<1>6. x = y + r
  BY <1>1, <1>2
<1>. QED BY <1>1, <1>2, <1>5, <1>6 DEF q, r, y

\* A number below m is its own remainder.
LEMMA NoCarry ==
  ASSUME NEW m \in Nat \ {0}, NEW x \in 0..m - 1
  PROVE  x % m = x /\ x \div m = 0
<1>1. (0 * m + x) \div m = 0 /\ (0 * m + x) % m = x
  BY DivModUnique
<1>2. 0 * m + x = x
  OBVIOUS
<1>. QED BY <1>1, <1>2

\* fp_add loses no carry.
LEMMA AddRepresents ==
  ASSUME NEW a \in Field!Elements, NEW b \in Field!Elements
  PROVE  Represents(Field!Add(a, b), Field!Number(a) + Field!Number(b))
<1> DEFINE L == Size
           t == a.lo + b.lo
           c == t \div L
           l == t % L
           h == a.hi + b.hi + c
<1>1. L \in Nat \ {0} /\ HalfSize \in Nat /\ L = 2 * HalfSize /\ L \in Int
  BY SizeIs
<1>2. /\ a.lo \in 0..L - 1 /\ a.hi \in 0..HalfSize - 1
      /\ a.lo \in Int /\ a.hi \in Int /\ a.hi * L \in Int
      /\ Field!Number(a) = a.hi * L + a.lo
      /\ b.lo \in 0..L - 1 /\ b.hi \in 0..HalfSize - 1
      /\ b.lo \in Int /\ b.hi \in Int /\ b.hi * L \in Int
      /\ Field!Number(b) = b.hi * L + b.lo
  BY NumberIs
<1>3. Field!Add(a, b) = Field!FromWords(l, h % L)
  BY DEF Field!Add, Size
<1> HIDE DEF L
<1>4. t \in Int /\ 0 <= t /\ t < L * (1 + 1)
  BY <1>1, <1>2
<1> HIDE DEF t
<1>5. c \in 0..1 /\ l \in 0..L - 1 /\ l \in Int /\ L * c \in Int /\ t = L * c + l
  BY <1>1, <1>4, CarryIs
<1> HIDE DEF c, l
<1>6. h \in 0..L - 1 /\ h \in Int
  BY <1>1, <1>2, <1>5
<1>7. h % L = h
  BY <1>1, <1>6, NoCarry
<1>8. h * L = a.hi * L + b.hi * L + L * c
  <2>1. c \in Int
    BY <1>5
  <2>2. a.hi + b.hi \in Int
    BY <1>2, Ints
  <2>3. h * L = (a.hi + b.hi) * L + c * L
    BY <2>1, <2>2, <1>1, Products
  <2>4. (a.hi + b.hi) * L = a.hi * L + b.hi * L /\ c * L = L * c
    BY <2>1, <1>1, <1>2, Products
  <2>. QED BY <2>3, <2>4
<1>9. h * L + l = Field!Number(a) + Field!Number(b)
  <2> DEFINE x == a.hi * L
             y == b.hi * L
             z == L * c
             w == h * L
  <2>1. /\ w = x + y + z /\ t = z + l /\ t = a.lo + b.lo
        /\ Field!Number(a) = x + a.lo /\ Field!Number(b) = y + b.lo
    BY <1>2, <1>5, <1>8 DEF t
  <2>2. x \in Int /\ y \in Int /\ z \in Int /\ l \in Int /\ a.lo \in Int /\ b.lo \in Int
    BY <1>2, <1>5
  <2> HIDE DEF x, y, z, w, h
  <2>3. w + l = (x + a.lo) + (y + b.lo)
    BY <2>1, <2>2
  <2>. QED BY <2>1, <2>3 DEF w
<1> HIDE DEF h
<1>10. Represents(Field!FromWords(l, h), h * L + l)
  BY <1>5, <1>6, FromWordsRepresents DEF L
<1>. QED BY <1>3, <1>7, <1>9, <1>10

\* fp_neg takes from p, limb by limb, without a borrow.
LEMMA NegRepresents ==
  ASSUME NEW a \in Field!Elements
  PROVE  Represents(Field!Neg(a), LimbP - Field!Number(a))
<1> DEFINE L == Size
           M == HalfSize
           lo == L - 1 - a.lo
           hi == (M - 1) - a.hi
<1>1. /\ L \in Nat \ {0} /\ M \in Nat /\ L = 2 * M /\ L \in Int /\ M \in Int
      /\ Field!Mask = M - 1 /\ Field!Limb = L
  BY SizeIs
<1>2. /\ a.lo \in 0..L - 1 /\ a.hi \in 0..M - 1
      /\ a.lo \in Int /\ a.hi \in Int /\ a.hi * L \in Int
      /\ Field!Number(a) = a.hi * L + a.lo
  BY NumberIs
<1>3. Field!Neg(a) = Field!FromWords(lo, hi)
  BY <1>1 DEF Field!Neg
<1>4. LimbP = M * L - 1 /\ M * L \in Int
  BY CanonicalIs
<1> HIDE DEF L, M
<1>5. lo \in 0..L - 1 /\ hi \in 0..L - 1
  BY <1>1, <1>2
<1>6. hi * L = M * L - L - a.hi * L
  <2> DEFINE v == M * L
             w == a.hi * L
  <2>1. M - 1 \in Int /\ -a.hi \in Int /\ hi = (M - 1) + (-a.hi) /\ -1 \in Int
    BY <1>1, <1>2
  <2>2. hi * L = (M - 1) * L + (-a.hi) * L
    BY <2>1, <1>1, Products
  <2>3. M - 1 = M + (-1) /\ (M - 1) * L = v + (-1) * L /\ (-1) * L = -L
    BY <2>1, <1>1, Products
  <2>4. (-a.hi) * L = -w
    BY <1>1, <1>2
  <2>5. v \in Int /\ w \in Int
    BY <1>2, <1>4
  <2> HIDE DEF v, w, hi
  <2>6. hi * L = v - L - w
    BY <2>2, <2>3, <2>4, <2>5, <1>1
  <2>. QED BY <2>6 DEF v, w
<1>7. hi * L + lo = LimbP - Field!Number(a)
  <2> DEFINE x == a.hi * L
             y == M * L
             z == hi * L
  <2>1. z = y - L - x /\ LimbP = y - 1 /\ Field!Number(a) = x + a.lo
    BY <1>2, <1>4, <1>6
  <2>2. x \in Int /\ y \in Int
    BY <1>2, <1>4
  <2> HIDE DEF x, y, z, hi
  <2>3. z + lo = (y - 1) - (x + a.lo)
    BY <2>1, <2>2, <1>1, <1>2
  <2>. QED BY <2>1, <2>3 DEF z
<1> HIDE DEF lo, hi
<1>8. Represents(Field!FromWords(lo, hi), hi * L + lo)
  BY <1>5, FromWordsRepresents DEF L
<1>. QED BY <1>3, <1>7, <1>8

\* fp_sub adds the negative.
LEMMA SubRepresents ==
  ASSUME NEW a \in Field!Elements, NEW b \in Field!Elements
  PROVE  Represents(Field!Sub(a, b), Field!Number(a) - Field!Number(b))
<1> DEFINE P == LimbP
           x == Field!Number(a)
           y == Field!Number(b)
           n == Field!Neg(b)
           m == Field!Number(n)
<1>1. P \in Int /\ x \in Int /\ y \in Int
  BY CanonicalIs, NumberIs
<1>2. Represents(n, P - y)
  BY NegRepresents
<1>3. n \in Field!Elements
  BY <1>2 DEF Represents, Canonical
<1>4. m \in Int
  BY <1>3, NumberIs
<1>5. PICK k \in Int : P - y = m + k * P
  BY <1>2 DEF Represents
<1>6. Represents(Field!Sub(a, b), x + m)
  BY <1>3, AddRepresents DEF Field!Sub
<1>7. Represents(Field!Sub(a, b), (x + m) + (k - 1) * P)
  <2>1. k - 1 \in Int /\ x + m \in Int
    BY <1>1, <1>4
  <2> HIDE DEF x, m, P
  <2>. QED BY <2>1, <1>6, RepresentsShift DEF P
<1>8. (x + m) + (k - 1) * P = x - y
  <2> DEFINE z == k * P
  <2>1. (k - 1) * P = z - P /\ z \in Int
    BY <1>1, Products, Ints
  <2>2. P - y = m + z
    BY <1>5
  <2> HIDE DEF P, x, y, m, z
  <2>3. (x + m) + (z - P) = x - y
    BY <1>1, <1>4, <2>1, <2>2
  <2>. QED BY <2>1, <2>3
<1>. QED BY <1>7, <1>8

\* The number of four limbs, least first.
Value(z1, z2, z3, z4) == z1 + Size * (z2 + Size * (z3 + Size * z4))

\* mul128x128 loses no carry: its four limbs are the product of the numbers.
LEMMA ProductIs ==
  ASSUME NEW a \in Field!Elements, NEW b \in Field!Elements
  PROVE  \E z1, z2, z3 \in 0..Size - 1, z4 \in 0..HalfSize - 1 :
           /\ Field!Product(a, b) = <<z1, z2, z3, z4>>
           /\ Value(z1, z2, z3, z4) = Field!Number(a) * Field!Number(b)
<1> DEFINE L == Size
           M == HalfSize
           c0 == a.lo * b.lo
           c1 == a.lo * b.hi
           c2 == a.hi * b.lo
           c3 == a.hi * b.hi
           q0 == c0 \div L
           r0 == c0 % L
           q1 == c1 \div L
           r1 == c1 % L
           q2 == c2 \div L
           r2 == c2 % L
           q3 == c3 \div L
           r3 == c3 % L
           t == q0 + r1 + r2
           qt == t \div L
           rt == t % L
           u == q1 + q2 + r3 + qt
           qu == u \div L
           ru == u % L
           v == q3 + qu
<1>1. /\ L \in Nat \ {0} /\ M \in Nat /\ L = 2 * M /\ L \in Int /\ M \in Int /\ M >= 2
  BY SizeIs
<1>2. /\ a.lo \in 0..L - 1 /\ a.hi \in 0..M - 1 /\ a.lo \in Int /\ a.hi \in Int
      /\ Field!Number(a) = a.hi * L + a.lo
      /\ b.lo \in 0..L - 1 /\ b.hi \in 0..M - 1 /\ b.lo \in Int /\ b.hi \in Int
      /\ Field!Number(b) = b.hi * L + b.lo
  BY NumberIs
<1>3. Field!Product(a, b) = <<r0, rt, ru, v % L>>
  BY DEF Field!Product, Size
<1> HIDE DEF L, M
<1>4. /\ c0 \in Int /\ 0 <= c0 /\ c0 < L * ((L - 1) + 1)
      /\ c1 \in Int /\ 0 <= c1 /\ c1 < L * ((M - 1) + 1)
      /\ c2 \in Int /\ 0 <= c2 /\ c2 < L * ((M - 1) + 1)
      /\ c3 \in Int /\ 0 <= c3 /\ c3 < L * ((M - 2) + 1)
  <2>1. \A x \in 0..L - 1, y \in Int, n \in Int :
          0 <= y /\ y < n => x * y \in Int /\ 0 <= x * y /\ x * y < L * n
    <3> SUFFICES ASSUME NEW x \in 0..L - 1, NEW y \in Int, NEW n \in Int, 0 <= y, y < n
                 PROVE  x * y \in Int /\ 0 <= x * y /\ x * y < L * n
      OBVIOUS
    <3>1. x \in Int /\ x * y \in Int /\ L * n \in Int /\ n * x \in Int
      BY <1>1, Ints
    <3>2. x * 0 <= x * y /\ x * y <= x * n /\ n * x <= n * (L - 1)
      BY <1>1, <3>1, Monotone
    <3>3. x * 0 = 0 /\ x * n = n * x /\ n * (L - 1) = L * n - n
      BY <1>1, <3>1
    <3> DEFINE e == x * y
               f == x * n
               g == L * n
    <3>4. e \in Int /\ 0 <= e /\ e <= f /\ f <= g - n /\ g \in Int /\ f \in Int
      BY <3>1, <3>2, <3>3
    <3> HIDE DEF e, f, g
    <3>5. e < g
      BY <3>4
    <3>. QED BY <3>4, <3>5 DEF e, g
  <2>2. c0 \in Int /\ 0 <= c0 /\ c0 < L * ((L - 1) + 1)
    <3>1. (L - 1) + 1 \in Int /\ 0 <= b.lo /\ b.lo < (L - 1) + 1
      BY <1>1, <1>2
    <3>. QED BY <1>2, <2>1, <3>1
  <2>3. c1 \in Int /\ 0 <= c1 /\ c1 < L * ((M - 1) + 1)
    <3>1. (M - 1) + 1 \in Int /\ 0 <= b.hi /\ b.hi < (M - 1) + 1
      BY <1>1, <1>2
    <3>. QED BY <1>2, <2>1, <3>1
  <2>4. c2 \in Int /\ 0 <= c2 /\ c2 < L * ((M - 1) + 1)
    <3>1. (M - 1) + 1 \in Int /\ 0 <= a.hi /\ a.hi < (M - 1) + 1
      BY <1>1, <1>2
    <3>2. b.lo * a.hi \in Int /\ 0 <= b.lo * a.hi /\ b.lo * a.hi < L * ((M - 1) + 1)
      BY <1>2, <2>1, <3>1
    <3>3. c2 = b.lo * a.hi
      BY <1>2, Products
    <3>. QED BY <3>2, <3>3
  <2>5. c3 \in Int /\ 0 <= c3 /\ c3 < L * ((M - 2) + 1)
    <3>0. /\ M - 1 \in Int /\ 0 <= M - 1 /\ 0 <= a.hi /\ a.hi <= M - 1
          /\ 0 <= b.hi /\ b.hi <= M - 1
      BY <1>1, <1>2
    <3>1. a.hi * 0 <= a.hi * b.hi /\ a.hi * b.hi <= a.hi * (M - 1)
          /\ (M - 1) * a.hi <= (M - 1) * (M - 1)
      <4> DEFINE n == M - 1
      <4>1. n \in Int /\ 0 <= n /\ a.hi <= n /\ b.hi <= n
        BY <3>0
      <4> HIDE DEF n
      <4>2. a.hi * 0 <= a.hi * b.hi /\ a.hi * b.hi <= a.hi * n /\ n * a.hi <= n * n
        BY <4>1, <3>0, <1>2, Monotone
      <4>. QED BY <4>2 DEF n
    <3>2. a.hi * 0 = 0 /\ a.hi * (M - 1) = (M - 1) * a.hi /\ c3 \in Int
      BY <1>1, <1>2
    <3>3. (M - 1) * (M - 1) < (M - 1) * L
      <4> DEFINE n == M - 1
      <4>1. n * L = n * n + n * (M + 1) /\ n * n \in Int
        BY <1>1
      <4>2. n * 3 <= n * (M + 1)
        BY <1>1, Monotone
      <4>3. n * 3 > 0
        BY <1>1
      <4> DEFINE d == n * n
                 e == n * (M + 1)
                 f == n * L
      <4>4. f = d + e /\ e > 0 /\ e \in Int /\ d \in Int
        BY <4>1, <4>2, <4>3, <1>1
      <4> HIDE DEF d, e, f, n
      <4>5. d < f
        BY <4>4
      <4>. QED BY <4>5 DEF d, f, n
    <3>4. (M - 1) * L = L * ((M - 2) + 1)
      BY <1>1
    <3> DEFINE e == a.hi * (M - 1)
               f == (M - 1) * a.hi
               g == (M - 1) * (M - 1)
               h == (M - 1) * L
    <3>5. 0 <= c3 /\ c3 <= e /\ e = f /\ f <= g /\ g < h
          /\ c3 \in Int /\ e \in Int /\ g \in Int /\ h \in Int
      BY <1>1, <1>2, <3>1, <3>2, <3>3
    <3> HIDE DEF c3, e, f, g, h
    <3>6. c3 < h
      BY <3>5
    <3>. QED BY <3>5, <3>6, <3>4 DEF h
  <2>. QED BY <2>2, <2>3, <2>4, <2>5
<1> DEFINE y0 == L * q0
           y1 == L * q1
           y2 == L * q2
           y3 == L * q3
<1> HIDE DEF c0, c1, c2, c3
<1>5. /\ q0 \in 0..L - 1 /\ r0 \in 0..L - 1 /\ y0 \in Int /\ c0 = y0 + r0
      /\ q1 \in 0..M - 1 /\ r1 \in 0..L - 1 /\ y1 \in Int /\ c1 = y1 + r1
      /\ q2 \in 0..M - 1 /\ r2 \in 0..L - 1 /\ y2 \in Int /\ c2 = y2 + r2
      /\ q3 \in 0..M - 2 /\ r3 \in 0..L - 1 /\ y3 \in Int /\ c3 = y3 + r3
  <2>1. L - 1 \in Int /\ M - 1 \in Int /\ M - 2 \in Int
    BY <1>1
  <2>2. q0 \in 0..L - 1 /\ r0 \in 0..L - 1 /\ y0 \in Int /\ c0 = y0 + r0
    BY <1>1, <1>4, <2>1, CarryIs
  <2>3. q1 \in 0..M - 1 /\ r1 \in 0..L - 1 /\ y1 \in Int /\ c1 = y1 + r1
    BY <1>1, <1>4, <2>1, CarryIs
  <2>4. q2 \in 0..M - 1 /\ r2 \in 0..L - 1 /\ y2 \in Int /\ c2 = y2 + r2
    BY <1>1, <1>4, <2>1, CarryIs
  <2>5. q3 \in 0..M - 2 /\ r3 \in 0..L - 1 /\ y3 \in Int /\ c3 = y3 + r3
    BY <1>1, <1>4, <2>1, CarryIs
  <2>. QED BY <2>2, <2>3, <2>4, <2>5
<1> DEFINE yt == L * qt
           yu == L * qu
<1> HIDE DEF q0, r0, q1, r1, q2, r2, q3, r3
<1>6. qt \in 0..2 /\ rt \in 0..L - 1 /\ yt \in Int /\ t = yt + rt
  <2>1. t \in Int /\ 0 <= t /\ t < L * (2 + 1)
    BY <1>1, <1>5
  <2> HIDE DEF t
  <2>. QED BY <1>1, <2>1, CarryIs
<1> HIDE DEF qt, rt
<1>7. qu \in 0..1 /\ ru \in 0..L - 1 /\ yu \in Int /\ u = yu + ru
  <2>1. u \in Int /\ 0 <= u /\ u < L * (1 + 1)
    BY <1>1, <1>5, <1>6
  <2> HIDE DEF u
  <2>. QED BY <1>1, <2>1, CarryIs
<1> HIDE DEF qu, ru
<1>8. v \in 0..M - 1 /\ v \in 0..L - 1
  BY <1>1, <1>5, <1>7
<1>9. v % L = v
  BY <1>1, <1>8, NoCarry
<1>10. Value(r0, rt, ru, v) = c0 + L * ((c1 + c2) + L * c3)
  <2>0. /\ q0 \in Int /\ q1 \in Int /\ q2 \in Int /\ q3 \in Int /\ qt \in Int /\ qu \in Int
        /\ r0 \in Int /\ r1 \in Int /\ r2 \in Int /\ r3 \in Int /\ rt \in Int /\ ru \in Int
    BY <1>1, <1>5, <1>6, <1>7
  <2>1. ru + L * v = q1 + q2 + qt + c3
    <3>1. L * v = y3 + yu
      BY <1>1, <2>0, Products
    <3>2. u = q1 + q2 + r3 + qt
      OBVIOUS
    <3>3. /\ u = yu + ru /\ c3 = y3 + r3 /\ y3 \in Int /\ yu \in Int
      BY <1>5, <1>7
    <3> DEFINE w == L * v
    <3>4. w = y3 + yu
      BY <3>1
    <3> HIDE DEF w, v, u, y3, yu
    <3>5. ru + w = q1 + q2 + qt + c3
      BY <3>2, <3>3, <3>4, <2>0
    <3>. QED BY <3>5 DEF w
  <2>2. rt + L * (q1 + q2 + qt + c3) = q0 + c1 + c2 + L * c3
    <3>1. L * (q1 + q2 + qt + c3) = y1 + y2 + yt + L * c3
      <4>1. q1 + q2 \in Int /\ q1 + q2 + qt \in Int
        BY <2>0
      <4>2. L * ((q1 + q2 + qt) + c3) = L * (q1 + q2 + qt) + L * c3
        BY <4>1, <1>1, <1>4, Products
      <4>3. L * ((q1 + q2) + qt) = L * (q1 + q2) + yt
        BY <4>1, <1>1, <2>0, Products
      <4>4. L * (q1 + q2) = y1 + y2
        BY <1>1, <2>0, Products
      <4>. QED BY <4>2, <4>3, <4>4
    <3>2. L * c3 \in Int
      BY <1>1, <1>4, Ints
    <3> DEFINE w == L * c3
    <3>3. t = q0 + r1 + r2 /\ w \in Int
      BY <3>2
    <3> HIDE DEF w, t, y1, y2, yt
    <3>4. rt + (y1 + y2 + yt + w) = q0 + c1 + c2 + w
      BY <3>3, <2>0, <1>5, <1>6
    <3>. QED BY <3>1, <3>4 DEF w
  <2>3. r0 + L * (q0 + c1 + c2 + L * c3) = c0 + L * ((c1 + c2) + L * c3)
    <3>1. L * c3 \in Int /\ c1 + c2 \in Int
      BY <1>1, <1>4, Ints
    <3> DEFINE w == L * c3
               s == (c1 + c2) + w
    <3>2. s \in Int
      BY <3>1
    <3>3. q0 + c1 + c2 + w = q0 + s
      BY <3>1, <2>0, <1>4
    <3> HIDE DEF w, s
    <3>4. L * (q0 + s) = y0 + L * s /\ L * s \in Int
      BY <3>2, <2>0, <1>1, Products
    <3> DEFINE x == L * s
    <3>5. L * (q0 + s) = y0 + x /\ x \in Int
      BY <3>4
    <3> HIDE DEF x, y0
    <3>6. r0 + (y0 + x) = c0 + x
      BY <3>5, <1>5, <2>0
    <3>. QED BY <3>3, <3>5, <3>6 DEF x, s, w
  <2>4. Value(r0, rt, ru, v) = r0 + L * (rt + L * (ru + L * v))
    BY DEF Value, L
  <2>. QED BY <2>1, <2>2, <2>3, <2>4
<1>11. Field!Number(a) * Field!Number(b) = c0 + L * ((c1 + c2) + L * c3)
  <2> DEFINE w == L * a.hi
             x == L * b.hi
  <2>1. /\ Field!Number(a) = a.lo + w /\ Field!Number(b) = b.lo + x /\ w \in Int /\ x \in Int
        /\ a.lo + w \in Int
    BY <1>1, <1>2, Products
  <2>2. (a.lo + w) * (b.lo + x) = (a.lo + w) * b.lo + (a.lo + w) * x
    BY <2>1, <1>2, Products
  <2>3. (a.lo + w) * b.lo = c0 + w * b.lo /\ (a.lo + w) * x = a.lo * x + w * x
    BY <2>1, <1>2, Products DEF c0
  <2>4. w * b.lo = L * c2
    BY <1>1, <1>2, Products DEF c2
  <2>5. a.lo * x = L * c1
    <3>1. a.lo * x = x * a.lo /\ x * a.lo = L * (b.hi * a.lo) /\ b.hi * a.lo = c1
      BY <1>1, <1>2, <2>1, Products DEF c1
    <3>. QED BY <3>1
  <2>6. w * x = L * (L * c3)
    <3>1. w * x = L * (a.hi * x)
      BY <1>1, <1>2, <2>1, Products
    <3>2. a.hi * x = x * a.hi /\ x * a.hi = L * (b.hi * a.hi) /\ b.hi * a.hi = c3
      BY <1>1, <1>2, <2>1, Products DEF c3
    <3>. QED BY <3>1, <3>2
  <2> DEFINE d == L * c1
             e == L * c2
             f == L * c3
             g == L * f
  <2>7. d \in Int /\ e \in Int /\ f \in Int /\ g \in Int /\ c1 + c2 \in Int
    BY <1>1, <1>4, Ints
  <2>8. L * ((c1 + c2) + f) = L * (c1 + c2) + g /\ L * (c1 + c2) = d + e
    BY <1>1, <1>4, <2>7, Products
  <2> HIDE DEF d, e, g, w, x
  <2>9. (c0 + e) + (d + g) = c0 + ((d + e) + g)
    BY <2>7, <1>4
  <2>10. Field!Number(a) * Field!Number(b) = (c0 + e) + (d + g)
    BY <2>1, <2>2, <2>3, <2>4, <2>5, <2>6 DEF d, e, g
  <2>. QED BY <2>8, <2>9, <2>10
<1>12. /\ r0 \in 0..Size - 1 /\ rt \in 0..Size - 1 /\ ru \in 0..Size - 1
       /\ v \in 0..HalfSize - 1
  BY <1>5, <1>6, <1>7, <1>8 DEF L, M
<1>13. Field!Product(a, b) = <<r0, rt, ru, v>>
  BY <1>3, <1>9
<1>14. Value(r0, rt, ru, v) = Field!Number(a) * Field!Number(b)
  BY <1>10, <1>11
<1> HIDE DEF v
<1>. QED BY <1>12, <1>13, <1>14

\* fp_reduce256 keeps the number of a product, modulo p.
LEMMA ReduceRepresents ==
  ASSUME NEW z1 \in 0..Size - 1, NEW z2 \in 0..Size - 1, NEW z3 \in 0..Size - 1,
         NEW z4 \in 0..HalfSize - 1
  PROVE  Represents(Field!Reduce(<<z1, z2, z3, z4>>), Value(z1, z2, z3, z4))
<1> DEFINE L == Size
           M == HalfSize
           P == LimbP
           N == M * L
           e2 == z2 \div M
           f2 == z2 % M
           e3 == z3 \div M
           f3 == z3 % M
           h0 == (e2 + 2 * z3) % L
           h1 == (e3 + 2 * z4) % L
           t0 == z1 + h0
           c0 == t0 \div L
           u0 == t0 % L
           t1 == f2 + h1 + c0
           c1 == t1 \div L
           x1 == t1 % L
           x2 == z4 \div M + c1
           g == x1 \div M
           k == x1 % M
           G == g + 2 * x2
           s0 == u0 + (G % L)
           d == s0 \div L
           l == s0 % L
<1>1. /\ L \in Nat \ {0} /\ M \in Nat \ {0} /\ L = 2 * M /\ L \in Int /\ M \in Int /\ M >= 2
      /\ Field!Mask = M - 1 /\ Field!Limb = L
  BY SizeIs
<1>2. P = N - 1 /\ N \in Int /\ P \in Int
  BY CanonicalIs
<1>3. Field!Reduce(<<z1, z2, z3, z4>>) = Field!FromWords(l, k + d)
  <2>1. (M - 1) + 1 = M
    BY <1>1
  <2> DEFINE z == <<z1, z2, z3, z4>>
  <2>2. z[1] = z1 /\ z[2] = z2 /\ z[3] = z3 /\ z[4] = z4
    OBVIOUS
  <2> HIDE DEF z
  <2>3. Field!Reduce(z) = Field!FromWords(l, k + d)
    BY <1>1, <2>1, <2>2 DEF Field!Reduce
  <2>. QED BY <2>3 DEF z
<1> HIDE DEF L, M, P
<1>4. /\ z1 \in 0..L - 1 /\ z2 \in 0..L - 1 /\ z3 \in 0..L - 1 /\ z4 \in 0..M - 1
      /\ z1 \in Int /\ z2 \in Int /\ z3 \in Int /\ z4 \in Int
  BY <1>1 DEF L, M
<1> DEFINE y2 == M * e2
           y3 == M * e3
<1>5. /\ e2 \in 0..1 /\ f2 \in 0..M - 1 /\ y2 \in Int /\ z2 = y2 + f2
      /\ e3 \in 0..1 /\ f3 \in 0..M - 1 /\ y3 \in Int /\ z3 = y3 + f3
  <2>1. M * (1 + 1) = L
    BY <1>1
  <2>2. 0 <= z2 /\ z2 < M * (1 + 1) /\ 0 <= z3 /\ z3 < M * (1 + 1)
    BY <1>1, <1>4, <2>1
  <2>3. e2 \in 0..1 /\ f2 \in 0..M - 1 /\ y2 \in Int /\ z2 = y2 + f2
    BY <1>1, <1>4, <2>2, CarryIs
  <2>4. e3 \in 0..1 /\ f3 \in 0..M - 1 /\ y3 \in Int /\ z3 = y3 + f3
    BY <1>1, <1>4, <2>2, CarryIs
  <2>. QED BY <2>3, <2>4
<1>6. z4 \div M = 0
  BY <1>1, <1>4, NoCarry
<1> HIDE DEF e2, f2, e3, f3
<1>7. h0 = e2 + 2 * f3 /\ h0 \in 0..L - 1
  <2>1. e2 + 2 * f3 \in 0..L - 1
    BY <1>1, <1>5
  <2>2. e2 + 2 * z3 = e3 * L + (e2 + 2 * f3) /\ e3 \in Int
    <3>1. e3 * L = 2 * y3
      BY <1>1, <1>5
    <3> HIDE DEF y3
    <3> DEFINE w == e3 * L
    <3>2. w = 2 * y3
      BY <3>1
    <3> HIDE DEF w
    <3>3. e2 + 2 * z3 = w + (e2 + 2 * f3)
      BY <3>2, <1>1, <1>5
    <3>. QED BY <3>3, <1>5 DEF w
  <2>3. (e3 * L + (e2 + 2 * f3)) % L = e2 + 2 * f3
    BY <2>1, <2>2, <1>1, DivModUnique
  <2>. QED BY <2>1, <2>2, <2>3
<1>8. h1 = e3 + 2 * z4 /\ h1 \in 0..L - 1
  <2>1. e3 + 2 * z4 \in 0..L - 1
    BY <1>1, <1>4, <1>5
  <2>. QED BY <2>1, <1>1, NoCarry
<1> HIDE DEF h0, h1
<1> DEFINE w0 == L * c0
           w1 == L * c1
<1>9. c0 \in 0..1 /\ u0 \in 0..L - 1 /\ w0 \in Int /\ t0 = w0 + u0
  <2>1. t0 \in Int /\ 0 <= t0 /\ t0 < L * (1 + 1)
    BY <1>1, <1>4, <1>7
  <2> HIDE DEF t0
  <2>. QED BY <1>1, <2>1, CarryIs
<1> HIDE DEF c0, u0
<1>10. c1 \in 0..1 /\ x1 \in 0..L - 1 /\ w1 \in Int /\ t1 = w1 + x1
  <2>1. t1 \in Int /\ 0 <= t1 /\ t1 < L * (1 + 1)
    BY <1>1, <1>5, <1>8, <1>9
  <2> HIDE DEF t1
  <2>. QED BY <1>1, <2>1, CarryIs
<1> HIDE DEF c1, x1
<1> DEFINE yg == M * g
<1>11. g \in 0..1 /\ k \in 0..M - 1 /\ yg \in Int /\ x1 = yg + k
  <2>1. 0 <= x1 /\ x1 < M * (1 + 1) /\ x1 \in Int
    BY <1>1, <1>10
  <2>. QED BY <1>1, <2>1, CarryIs
<1> HIDE DEF g, k
<1>12. G = g + 2 * c1 /\ G \in 0..L - 1 /\ G % L = G
  <2>1. G = g + 2 * c1
    BY <1>6, <1>10, <1>11
  <2>2. G \in 0..L - 1
    BY <2>1, <1>1, <1>10, <1>11
  <2> HIDE DEF G
  <2>. QED BY <2>1, <2>2, <1>1, NoCarry
<1>13. s0 = u0 + G
  BY <1>12
<1> HIDE DEF G
<1> DEFINE yd == L * d
<1>14. d \in 0..1 /\ l \in 0..L - 1 /\ yd \in Int /\ s0 = yd + l
  <2>1. s0 \in Int /\ 0 <= s0 /\ s0 < L * (1 + 1)
    BY <1>1, <1>9, <1>12, <1>13
  <2> HIDE DEF s0
  <2>. QED BY <1>1, <2>1, CarryIs
<1> HIDE DEF d, l
<1>15. k + d \in 0..L - 1
  BY <1>1, <1>11, <1>14
<1> DEFINE res == Field!FromWords(l, k + d)
           W == u0 + L * k + G
           V == h0 + L * h1
<1>16. Represents(res, (k + d) * L + l)
  BY <1>14, <1>15, FromWordsRepresents DEF L
<1>17. (k + d) * L + l = W /\ W \in Int
  <2> DEFINE x == L * k
  <2>1. (k + d) * L = x + yd /\ x \in Int
    BY <1>1, <1>11, <1>14, Products
  <2> HIDE DEF x, yd, s0
  <2>2. (x + yd) + l = u0 + x + G /\ u0 + x + G \in Int
    BY <2>1, <1>9, <1>12, <1>13, <1>14
  <2>. QED BY <2>1, <2>2 DEF x
<1> HIDE DEF W, res
<1>18. G * P \in Int /\ V \in Int /\ V * P \in Int /\ W + G * P \in Int
  <2>1. L * h1 \in Int /\ h0 \in Int /\ G \in Int
    BY <1>1, <1>7, <1>8, <1>12
  <2>. QED BY <2>1, <1>2, <1>17, Ints
<1>19. Represents(res, (W + G * P) + V * P)
  <2>1. Represents(res, W + G * P) /\ G \in Int
    BY <1>12, <1>16, <1>17, RepresentsShift DEF P
  <2>. QED BY <2>1, <1>18, RepresentsShift DEF P
<1>20. Value(z1, z2, z3, z4) = (W + G * P) + V * P
  <2>0. /\ e2 \in Int /\ f2 \in Int /\ e3 \in Int /\ f3 \in Int /\ h0 \in Int /\ h1 \in Int
        /\ c0 \in Int /\ u0 \in Int /\ c1 \in Int /\ x1 \in Int /\ g \in Int /\ k \in Int
        /\ G \in Int
    BY <1>1, <1>5, <1>7, <1>8, <1>9, <1>10, <1>11, <1>12
  \* The first fold: z = (z1 + L f2) + N V.
  <2> DEFINE A == z1 + L * f2
             U == u0 + L * x1 + L * w1
  <2>1. Value(z1, z2, z3, z4) = A + N * V
    <3> DEFINE p2 == L * y2
               p3 == L * (L * y3)
               q3 == L * (L * f3)
               q4 == L * (L * (L * z4))
               b2 == L * f2
    <3>1. /\ p2 \in Int /\ p3 \in Int /\ q3 \in Int /\ q4 \in Int /\ b2 \in Int
          /\ L * y3 \in Int /\ L * f3 \in Int /\ L * z4 \in Int /\ L * (L * z4) \in Int
          /\ z3 + L * z4 \in Int /\ L * (z3 + L * z4) \in Int
      BY <1>1, <1>4, <1>5, <2>0, Ints
    <3>2. L * (z2 + L * (z3 + L * z4)) = p2 + b2 + p3 + q3 + q4
      <4>1. L * (z3 + L * z4) = L * z3 + L * (L * z4)
        BY <3>1, <1>1, <1>4, Products
      <4>2. L * z3 = L * y3 + L * f3
        BY <1>1, <1>5, <2>0, Products
      <4>3. L * (z2 + L * (z3 + L * z4)) = L * z2 + L * (L * (z3 + L * z4))
        BY <3>1, <1>1, <1>4, Products
      <4>4. L * z2 = p2 + b2
        BY <1>1, <1>5, <2>0, Products
      <4> DEFINE i == L * y3
                 j == L * f3
                 m == L * (L * z4)
      <4>5. L * (z3 + L * z4) = (i + j) + m /\ i \in Int /\ j \in Int /\ m \in Int /\ i + j \in Int
        BY <4>1, <4>2, <3>1, Ints
      <4>6. L * ((i + j) + m) = L * (i + j) + L * m /\ L * (i + j) = L * i + L * j
        BY <4>5, <1>1, Products
      <4>7. L * (L * (z3 + L * z4)) = (p3 + q3) + q4
        BY <4>5, <4>6
      <4> HIDE DEF i, j, m, p2, p3, q3, q4, b2
      <4>8. (p2 + b2) + ((p3 + q3) + q4) = p2 + b2 + p3 + q3 + q4
        BY <3>1
      <4>. QED BY <4>3, <4>4, <4>7, <4>8
    <3>3. N * V = N * h0 + N * (L * h1)
      BY <1>1, <1>2, <2>0, Products
    <3>4. N * h0 = p2 + q3
      <4>1. N * h0 = N * e2 + N * (2 * f3)
        BY <1>2, <1>7, <2>0, Products
      <4>2. N * e2 = p2
        <5>1. N = L * M /\ (L * M) * e2 = p2
          BY <1>1, <2>0, Products
        <5>. QED BY <5>1
      <4>3. N * (2 * f3) = q3
        <5>1. N * (2 * f3) = (N * 2) * f3
          BY <1>2, <2>0, Products
        <5>2. N * 2 = L * L
          BY <1>1
        <5>3. (L * L) * f3 = q3
          BY <1>1, <2>0, Products
        <5>. QED BY <5>1, <5>2, <5>3
      <4>. QED BY <4>1, <4>2, <4>3
    <3>5. N * (L * h1) = p3 + q4
      <4>1. N * (L * h1) = L * (N * h1)
        <5>1. N * (L * h1) = (N * L) * h1 /\ N * L = L * N /\ (L * N) * h1 = L * (N * h1)
          BY <1>1, <1>2, <2>0, Products
        <5>. QED BY <5>1
      <4>2. N * h1 = N * e3 + N * (2 * z4)
        BY <1>2, <1>4, <1>8, <2>0, Products
      <4>3. N * e3 = L * y3
        <5>1. N = L * M /\ (L * M) * e3 = L * y3
          BY <1>1, <2>0, Products
        <5>. QED BY <5>1
      <4>4. N * (2 * z4) = L * (L * z4)
        <5>1. N * (2 * z4) = (N * 2) * z4
          BY <1>2, <1>4, Products
        <5>2. N * 2 = L * L
          BY <1>1
        <5>3. (L * L) * z4 = L * (L * z4)
          BY <1>1, <1>4, Products
        <5>. QED BY <5>1, <5>2, <5>3
      <4>5. L * (L * y3 + L * (L * z4)) = p3 + q4
        BY <3>1, <1>1, Products
      <4>. QED BY <4>1, <4>2, <4>3, <4>4, <4>5
    <3>6. Value(z1, z2, z3, z4) = z1 + L * (z2 + L * (z3 + L * z4))
      BY DEF Value, L
    <3> HIDE DEF p2, p3, q3, q4, b2
    <3>7. z1 + (p2 + b2 + p3 + q3 + q4) = (z1 + b2) + ((p2 + q3) + (p3 + q4))
      BY <3>1, <1>4
    <3>. QED BY <3>2, <3>3, <3>4, <3>5, <3>6, <3>7 DEF b2
  \* Its sum is U.
  <2>2. A + V = U /\ A \in Int /\ U \in Int
    <3> DEFINE b2 == L * f2
               bh == L * h1
               bx == L * x1
               bw == L * w1
    <3>1. b2 \in Int /\ bh \in Int /\ bx \in Int /\ bw \in Int /\ w0 \in Int
      BY <1>1, <1>9, <1>10, <2>0, Ints
    <3>2. L * t1 = (b2 + bh) + w0 /\ L * t1 = bw + bx
      <4>1. f2 + h1 \in Int
        BY <2>0
      <4>2. L * ((f2 + h1) + c0) = L * (f2 + h1) + w0 /\ L * (f2 + h1) = b2 + bh
        BY <4>1, <1>1, <2>0, Products
      <4>3. L * (w1 + x1) = bw + bx
        BY <1>1, <1>10, <2>0, Products
      <4>. QED BY <4>2, <4>3, <1>10
    <3>3. z1 + h0 = w0 + u0
      BY <1>9
    <3>4. (b2 + bh) + w0 = bw + bx
      BY <3>2
    <3> HIDE DEF b2, bh, bx, bw, w0
    <3>5. (z1 + b2) + (h0 + bh) = u0 + bx + bw /\ z1 + b2 \in Int /\ u0 + bx + bw \in Int
      BY <3>1, <3>3, <3>4, <2>0, <1>4
    <3>. QED BY <3>5 DEF b2, bh, bx, bw
  \* The second fold: U = u0 + L k + N G.
  <2>3. U = (u0 + L * k) + N * G
    <3>1. L * x1 = L * yg + L * k
      BY <1>1, <1>11, <2>0, Products
    <3>2. L * yg = N * g
      BY <1>1, <2>0, Products
    <3>3. L * w1 = N * (2 * c1)
      <4>1. N * (2 * c1) = (N * 2) * c1
        BY <1>2, <2>0, Products
      <4>2. N * 2 = L * L
        BY <1>1
      <4>3. (L * L) * c1 = L * w1
        BY <1>1, <2>0, Products
      <4>. QED BY <4>1, <4>2, <4>3
    <3>4. N * G = N * g + N * (2 * c1)
      BY <1>2, <1>12, <2>0, Products
    <3> DEFINE i == N * g
               j == L * k
               m == N * (2 * c1)
    <3>5. i \in Int /\ j \in Int /\ m \in Int
      BY <1>1, <1>2, <2>0, Ints
    <3>6. U = u0 + (i + j) + m
      BY <3>1, <3>2, <3>3
    <3> HIDE DEF i, j, m, U
    <3>7. u0 + (i + j) + m = (u0 + j) + (i + m)
      BY <3>5, <2>0
    <3>. QED BY <3>4, <3>6, <3>7 DEF i, j, m
  <2>4. N * V = V * P + V /\ N * G = G * P + G
    <3>1. \A x \in Int : N * x = x * P + x
      <4> SUFFICES ASSUME NEW x \in Int PROVE N * x = x * P + x
        OBVIOUS
      <4>1. N = P + 1 /\ (P + 1) * x = P * x + 1 * x /\ P * x = x * P /\ 1 * x = x
        BY <1>2, Products
      <4>. QED BY <4>1
    <3>. QED BY <3>1, <1>18, <2>0
  <2> DEFINE lk == L * k
             gp == G * P
             vp == V * P
  <2>5. /\ Value(z1, z2, z3, z4) = A + (vp + V)
        /\ U = (u0 + lk) + (gp + G) /\ W = u0 + lk + G
        /\ lk \in Int /\ gp \in Int /\ vp \in Int /\ V \in Int
    BY <2>1, <2>3, <2>4, <1>1, <1>18, <2>0, Ints DEF W
  <2> HIDE DEF A, U, V, lk, gp, vp
  <2>6. A + (vp + V) = ((u0 + lk + G) + gp) + vp
    BY <2>2, <2>5, <2>0
  <2>. QED BY <2>5, <2>6 DEF gp, vp
<1>. QED BY <1>3, <1>19, <1>20 DEF res

\* An element below p is known by its number.
LEMMA OneForm ==
  ASSUME NEW a, NEW b, Canonical(a), Canonical(b),
         Field!Number(a) = Field!Number(b)
  PROVE  a = b
<1> DEFINE L == Size
<1>1. L \in Nat \ {0}
  BY SizeIs
<1>2. a = [lo |-> a.lo, hi |-> a.hi] /\ b = [lo |-> b.lo, hi |-> b.hi]
  BY CanonicalIs DEF Canonical
<1>3. /\ a.lo \in 0..L - 1 /\ a.hi \in Int /\ Field!Number(a) = a.hi * L + a.lo
      /\ b.lo \in 0..L - 1 /\ b.hi \in Int /\ Field!Number(b) = b.hi * L + b.lo
  BY NumberIs DEF Canonical
<1> HIDE DEF L
<1>4. /\ (a.hi * L + a.lo) \div L = a.hi /\ (a.hi * L + a.lo) % L = a.lo
      /\ (b.hi * L + b.lo) \div L = b.hi /\ (b.hi * L + b.lo) % L = b.lo
  BY <1>1, <1>3, DivModUnique
<1>. QED BY <1>2, <1>3, <1>4

\* c is the form of x.
IsForm(c, x) == Canonical(c) /\ Field!Number(c) = x % LimbP

\* For limbs of any width the words of a hash, or of a file, become the one form of
\* their number modulo p: the form of p itself is 0.
THEOREM FromWordsExact ==
  ASSUME NEW lo \in 0..Size - 1, NEW hi \in 0..Size - 1
  PROVE  IsForm(Field!FromWords(lo, hi), hi * Size + lo)
<1>1. Size \in Int /\ lo \in Int /\ hi \in Int
  BY SizeIs
<1>2. hi * Size + lo \in Int
  BY <1>1, Ints
<1>3. Represents(Field!FromWords(lo, hi), hi * Size + lo)
  BY FromWordsRepresents
<1>. QED BY <1>2, <1>3, RepresentsIs DEF IsForm

\* For limbs of any width the sum, difference and product of two elements
\* (fp_add, fp_sub, fp_mul) are those of their numbers modulo p: no carry is lost in
\* the additions, in the four partial products, or in the two folds.
THEOREM FieldIsExact ==
  ASSUME NEW a \in Field!Elements, NEW b \in Field!Elements
  PROVE  /\ IsForm(Field!Add(a, b), Field!Number(a) + Field!Number(b))
         /\ IsForm(Field!Sub(a, b), Field!Number(a) - Field!Number(b))
         /\ IsForm(Field!Mul(a, b), Field!Number(a) * Field!Number(b))
<1> DEFINE x == Field!Number(a)
           y == Field!Number(b)
<1>1. x \in Int /\ y \in Int
  BY NumberIs
<1>2. x + y \in Int /\ x - y \in Int /\ x * y \in Int
  BY <1>1, Ints
<1>3. Represents(Field!Add(a, b), x + y)
  BY AddRepresents
<1>4. Represents(Field!Sub(a, b), x - y)
  BY SubRepresents
<1>5. Represents(Field!Mul(a, b), x * y)
  <2>1. PICK z1, z2, z3 \in 0..Size - 1, z4 \in 0..HalfSize - 1 :
          /\ Field!Product(a, b) = <<z1, z2, z3, z4>>
          /\ Value(z1, z2, z3, z4) = x * y
    BY ProductIs
  <2>2. Represents(Field!Reduce(<<z1, z2, z3, z4>>), Value(z1, z2, z3, z4))
    BY ReduceRepresents
  <2>. QED BY <2>1, <2>2 DEF Field!Mul
<1> HIDE DEF x, y
<1>6. IsForm(Field!Add(a, b), x + y)
  BY <1>2, <1>3, RepresentsIs DEF IsForm
<1>7. IsForm(Field!Sub(a, b), x - y)
  BY <1>2, <1>4, RepresentsIs DEF IsForm
<1>8. IsForm(Field!Mul(a, b), x * y)
  BY <1>2, <1>5, RepresentsIs DEF IsForm
<1>. QED BY <1>6, <1>7, <1>8 DEF x, y

-----------------------------------------------------------------------------
(* Powers and inverses in the field.                                        *)

\* Products stand for products.
LEMMA MulRepresents ==
  ASSUME NEW a, NEW b, NEW x \in Int, NEW y \in Int, Represents(a, x), Represents(b, y)
  PROVE  Represents(Field!Mul(a, b), x * y)
<1> DEFINE P == LimbP
           i == Field!Number(a)
           j == Field!Number(b)
           c == Field!Mul(a, b)
<1>1. a \in Field!Elements /\ b \in Field!Elements /\ P \in Int
  BY CanonicalIs DEF Represents, Canonical
<1>2. i \in Int /\ j \in Int
  BY <1>1, NumberIs
<1>3. IsForm(c, i * j)
  BY <1>1, FieldIsExact
<1>4. PICK k \in Int : x = i + k * P
  BY DEF Represents
<1>5. PICK l \in Int : y = j + l * P
  BY DEF Represents
<1>6. Represents(c, i * j)
  <2>1. P \in Nat \ {0} /\ i * j \in Int
    BY <1>2, CanonicalIs, Ints
  <2> DEFINE z == i * j
  <2>2. Canonical(c) /\ Field!Number(c) = z % P /\ z \in Int
    BY <1>3, <2>1 DEF IsForm
  <2> HIDE DEF P, z, c
  <2>3. z = (z \div P) * P + (z % P) /\ z \div P \in Int /\ z % P \in Int
    BY <2>1, <2>2, DivMod
  <2> DEFINE w == (z \div P) * P
  <2>4. w \in Int
    BY <1>1, <2>3, Ints
  <2>5. z = (z % P) + w
    <3>1. z = w + (z % P)
      BY <2>3
    <3> HIDE DEF w
    <3>. QED BY <3>1, <2>3, <2>4
  <2>. QED BY <2>2, <2>3, <2>5 DEF Represents, P, z
<1> HIDE DEF P, i, j, c
<1>7. k * j \in Int /\ i * l \in Int /\ k * P \in Int /\ l * P \in Int /\ (k * P) * l \in Int
      /\ (k * P) * j \in Int /\ i * (l * P) \in Int /\ i * j \in Int
  BY <1>1, <1>2, Ints
<1> DEFINE m == (k * j + i * l) + (k * P) * l
<1>8. x * y = i * j + m * P /\ m \in Int
  <2>1. x * y = (i * j + i * (l * P)) + ((k * P) * j + (k * P) * (l * P))
    <3>1. (i + k * P) * (j + l * P) = i * (j + l * P) + (k * P) * (j + l * P)
      BY <1>1, <1>2, <1>7, Products, Ints
    <3>2. i * (j + l * P) = i * j + i * (l * P)
      BY <1>2, <1>7, Products
    <3>3. (k * P) * (j + l * P) = (k * P) * j + (k * P) * (l * P)
      BY <1>2, <1>7, Products
    <3>. QED BY <1>4, <1>5, <3>1, <3>2, <3>3
  <2>2. i * (l * P) = (i * l) * P
    BY <1>1, <1>2, Products
  <2>3. (k * P) * j = (k * j) * P
    <3>1. (k * P) * j = k * (P * j) /\ P * j = j * P /\ (k * j) * P = k * (j * P)
      BY <1>1, <1>2, Products
    <3>. QED BY <3>1
  <2>4. (k * P) * (l * P) = ((k * P) * l) * P
    BY <1>1, <1>7, Products
  <2> DEFINE f == k * j
             g == i * l
             h == (k * P) * l
  <2>5. f \in Int /\ g \in Int /\ h \in Int /\ f + g \in Int
    BY <1>7, Ints
  <2>6. ((f + g) + h) * P = (f + g) * P + h * P /\ (f + g) * P = f * P + g * P
        /\ (f + g) + h \in Int
    BY <2>5, <1>1, Products, Ints
  <2> DEFINE u == f * P
             v == g * P
             w == h * P
             z == i * j
  <2>7. u \in Int /\ v \in Int /\ w \in Int /\ z \in Int
    BY <2>5, <1>1, <1>7, Ints
  <2>8. x * y = (z + v) + (u + w) /\ ((f + g) + h) * P = (u + v) + w
    BY <2>1, <2>2, <2>3, <2>4, <2>6
  <2> HIDE DEF u, v, w, z, f, g, h
  <2>9. (z + v) + (u + w) = z + ((u + v) + w)
    BY <2>7
  <2>. QED BY <2>6, <2>8, <2>9 DEF f, g, h, z
<1> HIDE DEF m
<1>9. Represents(c, i * j + m * P)
  <2> DEFINE z == i * j
  <2>1. z \in Int /\ Represents(c, z)
    BY <1>6, <1>7
  <2> HIDE DEF z
  <2>2. Represents(c, z + m * P)
    BY <1>8, <2>1, RepresentsShift DEF P
  <2>. QED BY <2>2 DEF z
<1>. QED BY <1>8, <1>9 DEF c

\* The form of a number.
LEMMA FormIs ==
  ASSUME NEW x \in Int
  PROVE  Represents(FieldForm(x), x) /\ \A c : Represents(c, x) => c = FieldForm(x)
<1> DEFINE P == LimbP
           L == Size
           m == x % P
           lo == m % L
           hi == m \div L
           a == FieldForm(x)
<1>1. /\ L \in Nat \ {0} /\ HalfSize \in Nat /\ P \in Nat \ {0} /\ P = HalfSize * L - 1
      /\ HalfSize * L \in Int /\ Field!Limb = L /\ Field!Modulus = P
  BY SizeIs, CanonicalIs DEF LimbP
<1>2. a = [lo |-> lo, hi |-> hi]
  BY <1>1 DEF FieldForm, Field!Fp
<1> HIDE DEF P, L, a
<1>3. m \in 0..P - 1 /\ x = (x \div P) * P + m /\ x \div P \in Int
  BY <1>1, DivMod
<1> HIDE DEF m
<1>4. lo \in 0..L - 1 /\ hi \in Int /\ m = hi * L + lo
  BY <1>1, <1>3, DivMod
<1>5. hi \in 0..HalfSize - 1
  <2> DEFINE z == HalfSize * L
  <2>1. 0 <= m /\ m < z /\ z = L * ((HalfSize - 1) + 1) /\ HalfSize - 1 \in Int
    <3>1. (HalfSize - 1) + 1 = HalfSize /\ L * HalfSize = z
      BY <1>1, Products
    <3>2. z \in Int /\ P = z - 1
      BY <1>1
    <3> HIDE DEF z
    <3>3. m < z
      BY <1>3, <3>2
    <3>. QED BY <1>1, <1>3, <3>1, <3>3
  <2> HIDE DEF z
  <2>. QED BY <1>1, <1>3, <2>1, CarryIs
<1> HIDE DEF lo, hi
<1>6. a \in Field!Elements /\ a.lo = lo /\ a.hi = hi
  BY <1>2, <1>4, <1>5, CanonicalIs DEF L
<1>7. Field!Number(a) = m
  BY <1>4, <1>6, NumberIs DEF L
<1>8. Canonical(a)
  BY <1>1, <1>3, <1>6, <1>7 DEF Canonical, P
<1>9. x = m + (x \div P) * P
  <2> DEFINE z == (x \div P) * P
  <2>1. z \in Int /\ x = z + m /\ m \in Int
    BY <1>1, <1>3, Ints
  <2> HIDE DEF z
  <2>2. x = m + z
    BY <2>1
  <2>. QED BY <2>2 DEF z
<1>10. Represents(a, x)
  BY <1>3, <1>7, <1>8, <1>9 DEF Represents, P
<1>11. ASSUME NEW c, Represents(c, x) PROVE c = a
  <2>1. Canonical(c) /\ Field!Number(c) = x % LimbP
    BY <1>11, RepresentsIs
  <2>. QED BY <2>1, <1>7, <1>8, OneForm DEF m, P
<1>. QED BY <1>10, <1>11 DEF a

\* The powers of a number, as far as they are needed.
PowersOf(n) == CHOOSE g \in [0..LimbP -> Int] : g[0] = 1 /\ \A k \in 1..LimbP : g[k] = n * g[k - 1]

LEMMA PowersOfAre ==
  ASSUME NEW n \in Int
  PROVE  /\ PowersOf(n)[0] = 1 /\ \A k \in 0..LimbP : PowersOf(n)[k] \in Int
         /\ \A k \in 1..LimbP : PowersOf(n)[k] = n * PowersOf(n)[k - 1]
<1> DEFINE N == LimbP
           next == [k \in 1..N |-> [x \in Int |-> n * x]]
<1>1. N \in Nat /\ 1 \in Int
  BY CanonicalIs
<1>2. \A x \in Int : n * x \in Int
  BY Ints
<1>3. next \in [1..N -> [Int -> Int]] /\ \A k \in 1..N, x \in Int : next[k][x] = n * x
  BY <1>2
<1> HIDE DEF next, N
<1>4. PICK g \in [0..N -> Int] : Iterates(g, 1, N, next)
  BY <1>1, <1>3, Iteration
<1>5. g[0] = 1 /\ \A k \in 1..N : g[k] = n * g[k - 1]
  <2>1. \A k \in 1..N : k - 1 \in 0..N
    BY <1>1
  <2>. QED BY <1>3, <1>4, <2>1 DEF Iterates
<1> DEFINE p == PowersOf(n)
<1>6. p \in [0..N -> Int] /\ p[0] = 1 /\ \A k \in 1..N : p[k] = n * p[k - 1]
  BY <1>5 DEF PowersOf, N
<1> HIDE DEF p
<1>. QED BY <1>6 DEF p, N

\* A power of a sum.
LEMMA PowersOfSum ==
  ASSUME NEW n \in Int, NEW i \in Nat, NEW j \in Nat, i + j <= LimbP
  PROVE  PowersOf(n)[i + j] = PowersOf(n)[i] * PowersOf(n)[j]
<1> DEFINE p == PowersOf(n)
           N == LimbP
           S == {k \in Nat : i + k <= N => p[i + k] = p[i] * p[k]}
<1>1. N \in Nat
  BY CanonicalIs
<1>2. p[0] = 1 /\ (\A k \in 0..N : p[k] \in Int) /\ \A k \in 1..N : p[k] = n * p[k - 1]
  BY PowersOfAre
<1> HIDE DEF p, N
<1>3. 0 \in S
  <2> SUFFICES ASSUME i + 0 <= N PROVE p[i + 0] = p[i] * p[0]
    OBVIOUS
  <2>1. i + 0 = i /\ p[i] \in Int
    BY <1>1, <1>2
  <2>2. p[i] * 1 = p[i]
    BY <2>1
  <2>. QED BY <2>1, <2>2, <1>2
<1>4. ASSUME NEW k \in Nat, k \in S PROVE k + 1 \in S
  <2> SUFFICES ASSUME i + (k + 1) <= N PROVE p[i + (k + 1)] = p[i] * p[k + 1]
    OBVIOUS
  <2>1. /\ i + k <= N /\ i + (k + 1) \in 1..N /\ (i + (k + 1)) - 1 = i + k
        /\ k + 1 \in 1..N /\ (k + 1) - 1 = k /\ i \in 0..N /\ k \in 0..N
    BY <1>1
  <2>2. p[i + (k + 1)] = n * p[i + k] /\ p[k + 1] = n * p[k] /\ p[i + k] = p[i] * p[k]
    BY <1>2, <1>4, <2>1
  <2>3. p[i] \in Int /\ p[k] \in Int
    BY <1>2, <2>1
  <2> DEFINE x == p[i]
             y == p[k]
  <2> HIDE DEF x, y
  <2>4. n * (x * y) = x * (n * y)
    <3>1. x \in Int /\ y \in Int
      BY <2>3 DEF x, y
    <3>2. (n * x) * y = n * (x * y) /\ n * x = x * n /\ (x * n) * y = x * (n * y)
      BY <3>1, Products
    <3>. QED BY <3>2
  <2>. QED BY <2>2, <2>4 DEF x, y
<1>5. j \in S
  <2> HIDE DEF S
  <2>. QED BY <1>3, <1>4, NatInduct
<1>. QED BY <1>5 DEF p, N

\* A power of a square.
LEMMA PowersOfSquare ==
  ASSUME NEW n \in Int, NEW j \in Nat, 2 * j <= LimbP
  PROVE  PowersOf(n * n)[j] = PowersOf(n)[2 * j]
<1> DEFINE m == n * n
           p == PowersOf(n)
           q == PowersOf(m)
           N == LimbP
           S == {k \in Nat : 2 * k <= N => q[k] = p[2 * k]}
<1>1. N \in Nat /\ m \in Int
  BY CanonicalIs, Ints
<1>2. p[0] = 1 /\ (\A k \in 0..N : p[k] \in Int) /\ \A k \in 1..N : p[k] = n * p[k - 1]
  BY PowersOfAre
<1> HIDE DEF m
<1>3. q[0] = 1 /\ (\A k \in 0..N : q[k] \in Int) /\ \A k \in 1..N : q[k] = m * q[k - 1]
  BY <1>1, PowersOfAre
<1> HIDE DEF p, q, N
<1>4. 0 \in S
  <2>1. 2 * 0 = 0
    OBVIOUS
  <2>. QED BY <2>1, <1>2, <1>3
<1>5. ASSUME NEW k \in Nat, k \in S PROVE k + 1 \in S
  <2> SUFFICES ASSUME 2 * (k + 1) <= N PROVE q[k + 1] = p[2 * (k + 1)]
    OBVIOUS
  <2> DEFINE a == 2 * (k + 1)
             b == 2 * k + 1
             c == 2 * k
  <2>1. /\ a \in 1..N /\ a - 1 = b /\ b \in 1..N /\ b - 1 = c /\ c \in 0..N
        /\ k + 1 \in 1..N /\ (k + 1) - 1 = k /\ c <= N
    BY <1>1
  <2>2. q[k] = p[c]
    BY <1>5, <2>1
  <2> HIDE DEF a, b, c
  <2>3. p[a] = n * p[b] /\ p[b] = n * p[c] /\ p[c] \in Int /\ q[k + 1] = m * q[k]
    BY <1>2, <1>3, <2>1
  <2> DEFINE x == p[c]
  <2>4. p[a] = n * (n * x) /\ q[k + 1] = m * x /\ x \in Int
    BY <2>2, <2>3
  <2> HIDE DEF x
  <2>5. (n * n) * x = n * (n * x)
    BY <2>4, Products
  <2>6. q[k + 1] = p[a]
    BY <2>4, <2>5 DEF m
  <2>. QED BY <2>6 DEF a
<1>6. j \in S
  <2> HIDE DEF S
  <2>. QED BY <1>4, <1>5, NatInduct
<1>. QED BY <1>6 DEF p, q, m, N

\* The function behind RaisedTo.
RaisedUpTo(n, e) ==
  CHOOSE power : power = [k \in 0..e |-> IF k = 0 THEN 1 ELSE (n * power[k - 1]) % Field!Modulus]

\* The power modulo p is that of the power.
LEMMA RaisedToIs ==
  ASSUME NEW n \in Int, NEW e \in 0..LimbP
  PROVE  RaisedTo(n, e) = PowersOf(n)[e] % LimbP
<1> DEFINE P == LimbP
           p == PowersOf(n)
           D == Int
           next == [k \in 1..e |-> [x \in D |-> (n * x) % P]]
<1>1. P \in Nat \ {0} /\ P > 1 /\ e \in Nat /\ e <= P /\ Field!Modulus = P
  BY CanonicalIs DEF LimbP
<1>2. p[0] = 1 /\ (\A k \in 0..P : p[k] \in Int) /\ \A k \in 1..P : p[k] = n * p[k - 1]
  BY PowersOfAre
<1> HIDE DEF P, p
<1>3. \A x \in Int : (n * x) % P \in Int
  <2> SUFFICES ASSUME NEW x \in Int PROVE (n * x) % P \in Int
    OBVIOUS
  <2> DEFINE y == n * x
  <2>1. y \in Int
    BY Ints
  <2> HIDE DEF y
  <2>2. y % P \in 0..P - 1
    BY <1>1, <2>1, DivMod
  <2>. QED BY <2>2, <1>1 DEF y
<1>4. next \in [1..e -> [D -> D]] /\ \A k \in 1..e, x \in D : next[k][x] = (n * x) % P
  BY <1>3
<1> HIDE DEF next
<1>5. PICK g \in [0..e -> D] : Iterates(g, 1, e, next)
  <2>1. e \in Nat /\ 1 \in D
    BY <1>1
  <2> HIDE DEF D
  <2>. QED BY <2>1, <1>4, Iteration
<1> DEFINE Is(f) == f = [k \in 0..e |-> IF k = 0 THEN 1 ELSE (n * f[k - 1]) % P]
<1>6. Is(g)
  <2>1. \A k \in 1..e : g[k - 1] \in D
    BY <1>1
  <2>2. \A k \in 1..e : g[k] = next[k][g[k - 1]]
    BY <1>5 DEF Iterates
  <2>3. \A k \in 1..e : g[k] = (n * g[k - 1]) % P
    BY <2>1, <2>2, <1>4
  <2>. QED BY <2>3, <1>5, <1>1 DEF Iterates
<1> DEFINE f == RaisedUpTo(n, e)
           S == {k \in Nat : k <= e => f[k] = p[k] % P}
<1>7. Is(f)
  BY <1>1, <1>6 DEF RaisedUpTo
<1>8. RaisedTo(n, e) = f[e]
  BY DEF RaisedTo, RaisedUpTo
<1> HIDE DEF f
<1>9. f[0] = 1 /\ \A k \in 1..e : f[k] = (n * f[k - 1]) % P
  BY <1>7, <1>1
<1>10. 0 \in S
  <2>1. 1 % P = 1
    <3>1. 1 \in 0..P - 1
      BY <1>1
    <3>. QED BY <3>1, <1>1, NoCarry
  <2>. QED BY <2>1, <1>2, <1>9
<1>11. ASSUME NEW k \in Nat, k \in S PROVE k + 1 \in S
  <2> SUFFICES ASSUME k + 1 <= e PROVE f[k + 1] = p[k + 1] % P
    OBVIOUS
  <2>1. k + 1 \in 1..e /\ (k + 1) - 1 = k /\ k + 1 \in 1..P /\ k \in 0..P /\ k <= e
    BY <1>1
  <2>2. f[k + 1] = (n * f[k]) % P /\ p[k + 1] = n * p[k] /\ f[k] = p[k] % P /\ p[k] \in Int
    BY <1>2, <1>9, <1>11, <2>1
  <2> DEFINE x == p[k]
             q == x \div P
             r == x % P
  <2>3. x \in Int /\ x = q * P + r /\ q \in Int /\ r \in Int
    <3>1. x \in Int
      BY <2>2
    <3> HIDE DEF x
    <3>. QED BY <1>1, <3>1, DivMod
  <2>4. p[k + 1] = n * x /\ f[k + 1] = (n * r) % P
    BY <2>2
  <2> HIDE DEF x, q, r
  <2>5. n * x = (n * q) * P + n * r
    <3>1. n * (q * P + r) = n * (q * P) + n * r
      BY <2>3, <1>1, Products, Ints
    <3>2. n * (q * P) = (n * q) * P
      BY <2>3, <1>1, Products
    <3>. QED BY <3>1, <3>2, <2>3
  <2> DEFINE y == n * r
             w == n * q
             s == y \div P
             t == y % P
  <2>6. y \in Int /\ w \in Int
    BY <2>3, Ints
  <2>7. n * x = w * P + y /\ f[k + 1] = t
    BY <2>4, <2>5
  <2> HIDE DEF y, w
  <2>8. y = s * P + t /\ s \in Int /\ t \in 0..P - 1
    BY <2>6, <1>1, DivMod
  <2> HIDE DEF s, t
  <2>9. n * x = (w + s) * P + t /\ w + s \in Int
    <3>1. (w + s) * P = w * P + s * P /\ w * P \in Int /\ s * P \in Int /\ w + s \in Int
      BY <2>6, <2>8, <1>1, Products, Ints
    <3> DEFINE a == w * P
               b == s * P
    <3>2. (w + s) * P = a + b /\ a \in Int /\ b \in Int /\ y = b + t /\ n * x = a + y
      BY <3>1, <2>7, <2>8
    <3> HIDE DEF a, b
    <3>3. a + (b + t) = (a + b) + t
      BY <3>2, <2>8, <1>1
    <3>. QED BY <3>1, <3>2, <3>3
  <2>10. ((w + s) * P + t) % P = t
    BY <2>8, <2>9, <1>1, DivModUnique
  <2>. QED BY <2>4, <2>7, <2>9, <2>10
<1>12. e \in S
  <2> HIDE DEF S
  <2>. QED BY <1>1, <1>10, <1>11, NatInduct
<1>. QED BY <1>8, <1>12, <1>1 DEF p, P

\* What a turn of fp_pow_u64 is given.
PowStates == [r : Field!Elements, x : Field!Elements, e : Nat]

\* r times a power of x is still the power that is asked for.
Raises(t, n, e) ==
  /\ t \in PowStates /\ t.e <= LimbP
  /\ \E y, z \in Int : /\ Represents(t.r, y) /\ Represents(t.x, z)
                       /\ y * PowersOf(z)[t.e] = PowersOf(n)[e]

\* Products are elements.
LEMMA MulCloses == \A a, b \in Field!Elements : Field!Mul(a, b) \in Field!Elements
  BY FieldIsExact DEF IsForm, Canonical

\* What a turn makes.
LEMMA PowTurnIs ==
  ASSUME NEW t \in PowStates
  PROVE  /\ Field!PowTurn(t) \in PowStates
         /\ t.e = 0 => Field!PowTurn(t) = t
         /\ t.e # 0 =>
              /\ Field!PowTurn(t).r = (IF t.e % 2 = 1 THEN Field!Mul(t.r, t.x) ELSE t.r)
              /\ Field!PowTurn(t).x = Field!Mul(t.x, t.x) /\ Field!PowTurn(t).e = t.e \div 2
<1> DEFINE r == IF t.e % 2 = 1 THEN Field!Mul(t.r, t.x) ELSE t.r
           x == Field!Mul(t.x, t.x)
           e == t.e \div 2
<1>1. t.r \in Field!Elements /\ t.x \in Field!Elements /\ t.e \in Nat
  BY DEF PowStates
<1>2. r \in Field!Elements /\ x \in Field!Elements
  BY <1>1, MulCloses
<1>3. e \in Nat
  BY <1>1
<1>4. t.e # 0 => Field!PowTurn(t) = [r |-> r, x |-> x, e |-> e]
  BY DEF Field!PowTurn
<1>5. t.e = 0 => Field!PowTurn(t) = t
  BY DEF Field!PowTurn
<1> HIDE DEF r, x, e
<1>6. [r |-> r, x |-> x, e |-> e] \in PowStates
  BY <1>2, <1>3 DEF PowStates
<1>. QED BY <1>4, <1>5, <1>6 DEF r, x, e

\* A turn goes on raising.
LEMMA PowTurnRaises ==
  ASSUME NEW t, NEW n \in Int, NEW e, Raises(t, n, e)
  PROVE  /\ Raises(Field!PowTurn(t), n, e)
         /\ \A c \in Nat : t.e < 2 * c => Field!PowTurn(t).e < c
<1>1. t \in PowStates /\ t.e <= LimbP /\ t.e \in Nat
  BY DEF Raises, PowStates
<1>2. PICK y, z \in Int : /\ Represents(t.r, y) /\ Represents(t.x, z)
                          /\ y * PowersOf(z)[t.e] = PowersOf(n)[e]
  BY DEF Raises
<1> DEFINE u == Field!PowTurn(t)
           x == t.e
           q == x \div 2
           P == LimbP
<1>3. u \in PowStates
  BY <1>1, PowTurnIs
<1>4. CASE x = 0
  <2>1. u = t
    BY <1>1, <1>4, PowTurnIs
  <2>2. \A c \in Nat : x < 2 * c => x < c
    BY <1>4
  <2>. QED BY <2>1, <2>2
<1>5. CASE x # 0
  <2>1. u.x = Field!Mul(t.x, t.x) /\ u.e = q
        /\ u.r = (IF x % 2 = 1 THEN Field!Mul(t.r, t.x) ELSE t.r)
    BY <1>1, <1>5, PowTurnIs
  <2>2. Represents(u.x, z * z) /\ z * z \in Int
    BY <1>2, <2>1, MulRepresents, Ints
  <2>3. P \in Nat
    BY CanonicalIs
  <2> HIDE DEF u, P
  <2>4. q \in Nat /\ q <= P /\ 2 * q <= P /\ (x = 2 * q \/ x = 2 * q + 1)
        /\ (x % 2 = 1 <=> x = 2 * q + 1) /\ \A c \in Nat : x < 2 * c => q < c
    BY <1>1, <2>3 DEF P
  <2> HIDE DEF q
  <2>5. PowersOf(z * z)[q] = PowersOf(z)[2 * q]
    BY <2>4, PowersOfSquare DEF P
  <2>6. CASE x = 2 * q
    <3>1. x % 2 # 1
      BY <2>4, <2>6
    <3>2. u.r = t.r
      BY <2>1, <3>1
    <3>3. y * PowersOf(z * z)[q] = PowersOf(n)[e]
      BY <1>2, <2>5, <2>6
    <3>4. Raises(u, n, e)
      BY <1>2, <1>3, <2>1, <2>2, <2>4, <3>2, <3>3 DEF Raises, P
    <3>. QED BY <3>4, <2>1, <2>4 DEF u
  <2>7. CASE x = 2 * q + 1
    <3>1. u.r = Field!Mul(t.r, t.x)
      BY <2>1, <2>4, <2>7
    <3>2. Represents(u.r, y * z) /\ y * z \in Int
      BY <1>2, <3>1, MulRepresents, Ints
    <3> DEFINE a == PowersOf(z)[2 * q]
    <3>3. PowersOf(z)[x] = z * a /\ a \in Int
      <4>1. x \in 1..P /\ x - 1 = 2 * q /\ 2 * q \in 0..P
        BY <1>1, <2>3, <2>4, <2>7 DEF P
      <4>2. PowersOf(z)[x] = z * PowersOf(z)[x - 1]
        BY <4>1, PowersOfAre DEF P
      <4>3. a \in Int
        BY <4>1, PowersOfAre DEF P
      <4>. QED BY <4>1, <4>2, <4>3
    <3> HIDE DEF a
    <3>4. y * (z * a) = (y * z) * a
      BY <1>2, <3>3, Products
    <3>5. (y * z) * PowersOf(z * z)[q] = PowersOf(n)[e]
      BY <1>2, <2>5, <3>3, <3>4 DEF a
    <3>6. Raises(u, n, e)
      BY <1>3, <2>1, <2>2, <2>4, <3>2, <3>5 DEF Raises, P
    <3>. QED BY <3>6, <2>1, <2>4 DEF u
  <2>. QED BY <2>4, <2>6, <2>7
<1>. QED BY <1>4, <1>5

\* The turns of fp_pow_u64.
PowTurns(a, e) ==
  CHOOSE turn : turn = [k \in 0..LimbBits |-> IF k = 0 THEN [r |-> Field!One, x |-> a, e |-> e]
                                              ELSE Field!PowTurn(turn[k - 1])]

\* One stands for 1.
LEMMA OneRepresents == Represents(Field!One, 1) /\ Field!One \in Field!Elements
<1>1. Represents(FieldForm(1), 1)
  BY FormIs
<1>2. FieldForm(1) = Field!One
  <2> DEFINE L == Size
             N == HalfSize * L
  <2>1. L \in Nat \ {0} /\ N \in Int /\ N >= 8 /\ Field!Limb = L /\ Field!Modulus = N - 1 /\ L >= 4
    BY SizeIs, CanonicalIs DEF LimbP
  <2> HIDE DEF L, N
  <2>2. 1 \in 0..(N - 1) - 1 /\ N - 1 \in Nat \ {0} /\ 1 \in 0..L - 1
    BY <2>1
  <2>3. 1 % (N - 1) = 1 /\ 1 % L = 1 /\ 1 \div L = 0
    BY <2>1, <2>2, NoCarry
  <2>. QED BY <2>1, <2>3 DEF FieldForm, Field!One
<1>. QED BY <1>1, <1>2 DEF Represents, Canonical

\* The exponents of fp_pow_u64 are below p.
LEMMA ExponentsFit == Size <= LimbP
<1>1. /\ Size \in Nat /\ Size >= 1 /\ HalfSize \in Nat /\ HalfSize >= 2
      /\ LimbP = HalfSize * Size - 1 /\ HalfSize * Size \in Int
  BY SizeIs, CanonicalIs
<1> DEFINE z == HalfSize * Size
<1>2. Size * 2 <= z
  <2>1. Size * 2 <= Size * HalfSize /\ Size * HalfSize = HalfSize * Size
    BY <1>1, Monotone, Products
  <2>. QED BY <2>1
<1> HIDE DEF z
<1>3. Size <= z - 1
  <2>1. z \in Int
    BY <1>1 DEF z
  <2> HIDE DEF Size
  <2>. QED BY <1>1, <1>2, <2>1
<1>. QED BY <1>1, <1>3 DEF z

\* fp_pow_u64 raises to powers.
LEMMA PowIs ==
  ASSUME NEW a, NEW n \in Int, Represents(a, n), NEW e \in 0..Field!Limb - 1
  PROVE  Represents(Field!Pow(a, e), PowersOf(n)[e])
<1> DEFINE N == LimbBits
           D == PowStates
           base == [r |-> Field!One, x |-> a, e |-> e]
           next == [k \in 1..N |-> [t \in D |-> Field!PowTurn(t)]]
<1>1. N \in Nat /\ e \in Nat /\ e < Size /\ e <= LimbP
  <2>1. Size \in Nat /\ Field!Limb = Size /\ LimbP \in Nat /\ Size <= LimbP
    BY SizeIs, CanonicalIs, ExponentsFit
  <2> HIDE DEF Size
  <2>. QED BY <2>1, DoublesAre
<1>2. base \in D
  BY <1>1, OneRepresents DEF Represents, Canonical, PowStates
<1>3. next \in [1..N -> [D -> D]] /\ \A k \in 1..N, t \in D : next[k][t] = Field!PowTurn(t)
  BY PowTurnIs
<1> HIDE DEF next, N
<1>4. PICK g \in [0..N -> D] : Iterates(g, base, N, next)
  <2> HIDE DEF D, base
  <2>. QED BY <1>1, <1>2, <1>3, Iteration
<1> DEFINE Is(f) == f = [k \in 0..N |-> IF k = 0 THEN base ELSE Field!PowTurn(f[k - 1])]
<1>5. Is(g)
  <2> HIDE DEF base, D
  <2>1. \A k \in 1..N : g[k - 1] \in D
    BY <1>1
  <2>2. \A k \in 1..N : g[k] = next[k][g[k - 1]]
    BY <1>4 DEF Iterates
  <2>3. \A k \in 1..N : g[k] = Field!PowTurn(g[k - 1])
    BY <2>1, <2>2, <1>3
  <2>. QED BY <2>3, <1>4, <1>1 DEF Iterates
<1> DEFINE f == PowTurns(a, e)
<1>6. Is(f)
  BY <1>5 DEF PowTurns, N
<1>7. Field!Pow(a, e) = f[N].r
  BY DEF Field!Pow, PowTurns, N
<1> HIDE DEF f
<1>8. f[0] = base /\ \A k \in 1..N : f[k] = Field!PowTurn(f[k - 1])
  <2> HIDE DEF base
  <2>. QED BY <1>6, <1>1
<1> DEFINE S == {k \in Nat : k <= N => Raises(f[k], n, e) /\ f[k].e < Field!TwoTo(N - k)}
<1>9. 0 \in S
  <2>1. base.r = Field!One /\ base.x = a /\ base.e = e
    OBVIOUS
  <2>2. Represents(base.r, 1) /\ Represents(base.x, n) /\ 1 \in Int
    BY <2>1, OneRepresents
  <2>3. 1 * PowersOf(n)[base.e] = PowersOf(n)[e]
    <3>1. PowersOf(n)[e] \in Int
      BY <1>1, PowersOfAre
    <3>. QED BY <3>1, <2>1
  <2>4. Raises(base, n, e)
    BY <1>1, <1>2, <2>1, <2>2, <2>3 DEF Raises
  <2>5. base.e < Field!TwoTo(N - 0)
    BY <1>1, <2>1 DEF Size, Field!Limb, N
  <2>. QED BY <2>4, <2>5, <1>8
<1>10. ASSUME NEW k \in Nat, k \in S PROVE k + 1 \in S
  <2> SUFFICES ASSUME k + 1 <= N
               PROVE  Raises(f[k + 1], n, e) /\ f[k + 1].e < Field!TwoTo(N - (k + 1))
    OBVIOUS
  <2>1. k + 1 \in 1..N /\ (k + 1) - 1 = k /\ k <= N
    BY <1>1
  <2>2. f[k + 1] = Field!PowTurn(f[k]) /\ Raises(f[k], n, e) /\ f[k].e < Field!TwoTo(N - k)
    BY <1>8, <1>10, <2>1
  <2>3. /\ N - k \in 1..2 * LimbBits /\ N - (k + 1) \in 0..2 * LimbBits
        /\ (N - k) - 1 = N - (k + 1)
    BY <2>1, <1>1 DEF N
  <2> DEFINE c == Field!TwoTo(N - (k + 1))
  <2>4. Field!TwoTo(N - k) = 2 * c /\ c \in Nat
    BY <2>3, DoublesAre
  <2> HIDE DEF c
  <2>5. Raises(f[k + 1], n, e) /\ f[k + 1].e < c
    BY <2>2, <2>4, PowTurnRaises
  <2>. QED BY <2>5 DEF c
<1>11. N \in S
  <2> HIDE DEF S
  <2>. QED BY <1>1, <1>9, <1>10, NatInduct
<1> DEFINE t == f[N]
<1>12. Raises(t, n, e) /\ t.e < 1
  <2>1. Field!TwoTo(N - N) = 1
    BY <1>1, DoublesAre
  <2>. QED BY <2>1, <1>1, <1>11
<1> HIDE DEF t
<1>13. t.e = 0
  BY <1>12 DEF Raises, PowStates
<1>14. PICK y, z \in Int : /\ Represents(t.r, y) /\ Represents(t.x, z)
                           /\ y * PowersOf(z)[t.e] = PowersOf(n)[e]
  BY <1>12 DEF Raises
<1>15. y = PowersOf(n)[e]
  <2>1. PowersOf(z)[0] = 1 /\ y * 1 = y
    BY PowersOfAre
  <2>. QED BY <2>1, <1>13, <1>14
<1>. QED BY <1>7, <1>14, <1>15 DEF t

\* Dividing twice.
LEMMA DividesTwice ==
  ASSUME NEW x \in Nat, NEW a \in Nat \ {0}, NEW b \in Nat \ {0}
  PROVE  (x \div a) \div b = x \div (a * b)
<1> DEFINE q == x \div a
           r == x % a
           s == q \div b
           t == q % b
           m == a * b
           u == t * a + r
<1>1. x = q * a + r /\ r \in 0..a - 1 /\ q \in Int
  BY DivMod
<1>2. q = s * b + t /\ t \in 0..b - 1 /\ s \in Int
  <2> HIDE DEF q
  <2>. QED BY <1>1, DivMod
<1> HIDE DEF q, r, s, t
<1>3. m \in Nat \ {0} /\ m \in Int
  <2>1. a * 1 <= a * b /\ a * b \in Int
    BY Monotone, Ints
  <2>. QED BY <2>1
<1>4. u \in 0..m - 1
  <2> DEFINE v == t * a
  <2>1. a * t <= a * (b - 1) /\ a * 0 <= a * t /\ a * t = v /\ a * (b - 1) = m - a /\ v \in Int
    <3>1. t \in Int /\ 0 <= t /\ t <= b - 1 /\ 0 <= a /\ a \in Int /\ b - 1 \in Int
      BY <1>2
    <3>2. a * t <= a * (b - 1) /\ a * 0 <= a * t
      BY <3>1, Monotone
    <3>3. a * t = t * a /\ t * a \in Int
      BY <3>1, Products
    <3>4. a * (b - 1) = a * b - a
      BY <3>1
    <3>. QED BY <3>2, <3>3, <3>4
  <2>2. a * 0 = 0
    OBVIOUS
  <2>3. 0 <= v /\ v <= m - a /\ v \in Int
    BY <2>1, <2>2
  <2> HIDE DEF v, m
  <2>4. v + r \in 0..m - 1
    BY <2>3, <1>1, <1>3
  <2>. QED BY <2>4 DEF v
<1>5. x = s * m + u
  <2>1. (s * b + t) * a = (s * b) * a + t * a /\ (s * b) * a = s * (b * a) /\ b * a = m
    BY <1>2, Products, Ints
  <2> DEFINE v == s * m
             w == t * a
  <2>2. v \in Int /\ w \in Int /\ q * a = v + w
    BY <2>1, <1>2, <1>3, Ints
  <2> HIDE DEF v, w
  <2>3. (v + w) + r = v + (w + r)
    BY <2>2, <1>1
  <2>. QED BY <2>2, <2>3, <1>1 DEF v, w
<1> HIDE DEF m, u
<1>6. (s * m + u) \div m = s
  BY <1>2, <1>3, <1>4, DivModUnique
<1>. QED BY <1>5, <1>6 DEF q, s, m

\* A power of two of a sum.
LEMMA DoublesSum ==
  ASSUME NEW i \in Nat, NEW j \in Nat, i + j <= 2 * LimbBits
  PROVE  Field!TwoTo(i + j) = Field!TwoTo(i) * Field!TwoTo(j)
<1> DEFINE N == 2 * LimbBits
           p(k) == Field!TwoTo(k)
           S == {k \in Nat : i + k <= N => p(i + k) = p(i) * p(k)}
<1>1. N \in Nat /\ LimbBits \in Nat
  BY DoublesAre
<1>2. p(0) = 1 /\ (\A k \in 0..N : p(k) \in Nat \ {0}) /\ \A k \in 1..N : p(k) = 2 * p(k - 1)
  BY DoublesAre
<1> HIDE DEF p, N
<1>3. 0 \in S
  <2> SUFFICES ASSUME i + 0 <= N PROVE p(i + 0) = p(i) * p(0)
    OBVIOUS
  <2>1. i + 0 = i /\ p(i) \in Nat
    BY <1>1, <1>2
  <2>2. p(i) * 1 = p(i)
    BY <2>1
  <2>. QED BY <2>1, <2>2, <1>2
<1>4. ASSUME NEW k \in Nat, k \in S PROVE k + 1 \in S
  <2> SUFFICES ASSUME i + (k + 1) <= N PROVE p(i + (k + 1)) = p(i) * p(k + 1)
    OBVIOUS
  <2>1. /\ i + k <= N /\ i + (k + 1) \in 1..N /\ (i + (k + 1)) - 1 = i + k
        /\ k + 1 \in 1..N /\ (k + 1) - 1 = k /\ i \in 0..N /\ k \in 0..N
    BY <1>1
  <2>2. p(i + (k + 1)) = 2 * p(i + k) /\ p(k + 1) = 2 * p(k) /\ p(i + k) = p(i) * p(k)
    BY <1>2, <1>4, <2>1
  <2>3. p(i) \in Int /\ p(k) \in Int
    BY <1>2, <2>1
  <2> DEFINE x == p(i)
             y == p(k)
  <2>4. x \in Int /\ y \in Int
    BY <2>3
  <2> HIDE DEF x, y
  <2>5. 2 * (x * y) = x * (2 * y)
    BY <2>4
  <2>. QED BY <2>2, <2>5 DEF x, y
<1>5. j \in S
  <2> HIDE DEF S
  <2>. QED BY <1>3, <1>4, NatInduct
<1>. QED BY <1>5, <1>1 DEF p, N

\* The bits of p - 2 from the l-th on.
BitsFrom(l) == (LimbP - 2) \div Field!TwoTo(l)

LEMMA BitsFromIs ==
  /\ BitsFrom(0) = LimbP - 2 /\ BitsFrom(2 * LimbBits - 1) = 0
  /\ LimbP - 2 \in Nat /\ LimbP + 1 = Field!TwoTo(2 * LimbBits - 1)
  /\ \A l \in 0..2 * LimbBits : BitsFrom(l) \in Nat /\ BitsFrom(l) <= LimbP - 2
<1>1. LimbBits \in Nat /\ LimbBits > 1 /\ \A n \in 0..2 * LimbBits : Field!TwoTo(n) \in Nat \ {0}
  BY DoublesAre
<1> DEFINE w == LimbBits
           E == LimbP - 2
           N == HalfSize * Size
<1>2. LimbP = N - 1 /\ N \in Int /\ N >= 8 /\ Size \in Nat /\ HalfSize \in Nat /\ Size = 2 * HalfSize
  BY CanonicalIs, SizeIs
<1>3. E \in Nat /\ E + 3 = N
  <2> HIDE DEF N
  <2>. QED BY <1>2
<1>4. Field!TwoTo(2 * w - 1) = N
  <2>1. Size = Field!TwoTo(w) /\ w \in 1..2 * LimbBits /\ w - 1 \in Nat /\ w - 1 \in 0..2 * LimbBits
        /\ w + (w - 1) = 2 * w - 1 /\ w + (w - 1) <= 2 * LimbBits
    BY <1>1 DEF Size, Field!Limb
  <2>2. Field!TwoTo(w) = 2 * Field!TwoTo(w - 1) /\ Field!TwoTo(w - 1) \in Nat
    BY <2>1, DoublesAre
  <2> DEFINE x == Field!TwoTo(w - 1)
  <2>3. x = HalfSize
    <3>1. 2 * x = 2 * HalfSize /\ x \in Nat
      BY <2>1, <2>2, <1>2
    <3> HIDE DEF x
    <3>. QED BY <3>1, <1>2
  <2>4. Field!TwoTo(w + (w - 1)) = Size * HalfSize
    BY <2>1, <2>3, <1>1, DoublesSum
  <2>. QED BY <2>1, <2>4, <1>2, Products
<1>5. \A x \in Nat \ {0} : E \div x \in Nat /\ E \div x <= E
  <2> SUFFICES ASSUME NEW x \in Nat \ {0} PROVE E \div x \in Nat /\ E \div x <= E
    OBVIOUS
  <2> HIDE DEF E
  <2>. QED BY <1>3
<1>6. E \div N = 0
  <2> HIDE DEF E, N
  <2>1. E \in 0..N - 1 /\ N \in Nat \ {0}
    BY <1>2, <1>3
  <2>. QED BY <2>1, NoCarry
<1>7. E \div 1 = E
  <2> HIDE DEF E
  <2>. QED BY <1>3
<1>8. LimbP + 1 = N
  <2> HIDE DEF N
  <2>. QED BY <1>2
<1>. QED BY <1>1, <1>3, <1>4, <1>5, <1>6, <1>7, <1>8, DoublesAre DEF BitsFrom

\* The bits from l on: those from l + m on, and m more.
LEMMA MoreBits ==
  ASSUME NEW l \in Nat, NEW m \in Nat, l + m <= 2 * LimbBits
  PROVE  /\ BitsFrom(l) = BitsFrom(l + m) * Field!TwoTo(m) + (BitsFrom(l) % Field!TwoTo(m))
         /\ BitsFrom(l) % Field!TwoTo(m) \in 0..Field!TwoTo(m) - 1
         /\ BitsFrom(l + m) * Field!TwoTo(m) <= LimbP - 2
         /\ BitsFrom(l + m) * Field!TwoTo(m) \in Nat
<1> DEFINE a == Field!TwoTo(l)
           b == Field!TwoTo(m)
           E == LimbP - 2
           x == BitsFrom(l)
           y == BitsFrom(l + m)
<1>1. LimbBits \in Nat /\ l \in 0..2 * LimbBits /\ m \in 0..2 * LimbBits /\ l + m \in 0..2 * LimbBits
  BY DoublesAre
<1>2. a \in Nat \ {0} /\ b \in Nat \ {0} /\ Field!TwoTo(l + m) = a * b
  BY <1>1, DoublesAre, DoublesSum
<1>3. E \in Nat /\ x \in Nat /\ x <= E /\ y \in Nat
  BY <1>1, BitsFromIs
<1>4. x = E \div a /\ y = E \div (a * b)
  BY <1>2 DEF BitsFrom
<1> HIDE DEF a, b, E, x, y
<1>5. x \div b = y
  BY <1>2, <1>3, <1>4, DividesTwice
<1>6. x = (x \div b) * b + (x % b) /\ x % b \in 0..b - 1
  BY <1>2, <1>3, DivMod
<1>7. y * b <= E /\ y * b \in Nat
  <2> DEFINE z == y * b
             r == x % b
  <2>1. z \in Int /\ x = z + r /\ r \in Nat
    BY <1>2, <1>3, <1>5, <1>6, Ints
  <2>2. 0 <= z
    <3>1. b * 0 <= b * y /\ b * 0 = 0 /\ b * y = z
      BY <1>2, <1>3, Monotone, Products
    <3>. QED BY <3>1
  <2> HIDE DEF z, r
  <2>3. z <= E /\ z \in Nat
    BY <2>1, <2>2, <1>3
  <2>. QED BY <2>3 DEF z
<1>. QED BY <1>5, <1>6, <1>7 DEF b, E, x, y

\* The function behind Field!Squared.
Squares(r, n) ==
  CHOOSE s : s = [k \in 0..n |-> IF k = 0 THEN r ELSE Field!Mul(s[k - 1], s[k - 1])]

\* Squaring n times.
LEMMA SquaredIs ==
  ASSUME NEW r, NEW n \in Int, NEW i \in Nat, NEW m \in 0..2 * LimbBits,
         Represents(r, PowersOf(n)[i]), i * Field!TwoTo(m) <= LimbP
  PROVE  Represents(Field!Squared(r, m), PowersOf(n)[i * Field!TwoTo(m)])
<1> DEFINE D == Field!Elements
           next == [k \in 1..m |-> [x \in D |-> Field!Mul(x, x)]]
           P == LimbP
           p(k) == Field!TwoTo(k)
<1>1. m \in Nat /\ P \in Nat /\ r \in D /\ LimbBits \in Nat
  BY CanonicalIs, DoublesAre DEF Represents, Canonical
<1>2. next \in [1..m -> [D -> D]] /\ \A k \in 1..m, x \in D : next[k][x] = Field!Mul(x, x)
  BY MulCloses
<1> HIDE DEF next, D, P
<1>3. PICK g \in [0..m -> D] : Iterates(g, r, m, next)
  BY <1>1, <1>2, Iteration
<1> DEFINE Is(f) == f = [k \in 0..m |-> IF k = 0 THEN r ELSE Field!Mul(f[k - 1], f[k - 1])]
<1>4. Is(g)
  <2>1. \A k \in 1..m : g[k - 1] \in D
    BY <1>1
  <2>2. \A k \in 1..m : g[k] = next[k][g[k - 1]]
    BY <1>3 DEF Iterates
  <2>3. \A k \in 1..m : g[k] = Field!Mul(g[k - 1], g[k - 1])
    BY <2>1, <2>2, <1>2
  <2>. QED BY <2>3, <1>3, <1>1 DEF Iterates
<1> DEFINE f == Squares(r, m)
<1>5. Is(f)
  BY <1>4 DEF Squares
<1>6. Field!Squared(r, m) = f[m]
  BY DEF Field!Squared, Squares
<1> HIDE DEF f
<1>7. f[0] = r /\ \A k \in 1..m : f[k] = Field!Mul(f[k - 1], f[k - 1])
  BY <1>1, <1>5
<1>8. /\ p(0) = 1 /\ \A k \in 0..m : p(k) \in Nat \ {0}
      /\ \A k \in 1..m : p(k) = 2 * p(k - 1)
  <2>1. (\A k \in 0..m : k \in 0..2 * LimbBits) /\ \A k \in 1..m : k \in 1..2 * LimbBits
    BY <1>1
  <2>. QED BY <2>1, DoublesAre
<1> HIDE DEF p
<1>9. i * p(m) <= P
  BY DEF p, P
<1> DEFINE S == {k \in Nat : k <= m /\ i * p(k) <= P => Represents(f[k], PowersOf(n)[i * p(k)])}
<1>10. 0 \in S
  <2>1. i * 1 = i
    OBVIOUS
  <2>. QED BY <2>1, <1>7, <1>8
<1>11. ASSUME NEW k \in Nat, k \in S PROVE k + 1 \in S
  <2> SUFFICES ASSUME k + 1 <= m, i * p(k + 1) <= P
               PROVE  Represents(f[k + 1], PowersOf(n)[i * p(k + 1)])
    OBVIOUS
  <2>1. k + 1 \in 1..m /\ (k + 1) - 1 = k /\ k \in 0..m /\ k <= m
    BY <1>1
  <2>2. p(k + 1) = 2 * p(k) /\ p(k) \in Nat /\ f[k + 1] = Field!Mul(f[k], f[k])
    BY <1>7, <1>8, <2>1
  <2> DEFINE x == i * p(k)
  <2>3. x \in Nat /\ i * p(k + 1) = x + x
    <3> DEFINE t == p(k)
    <3>1. t \in Nat /\ p(k + 1) = 2 * t
      BY <2>2
    <3> HIDE DEF t
    <3>2. i * t \in Nat /\ i * (2 * t) = i * t + i * t
      <4>1. i * 0 <= i * t /\ i * 0 = 0 /\ i * t \in Int
        BY <3>1, Monotone, Ints
      <4>2. i * (2 * t) = i * t + i * t
        BY <3>1
      <4>. QED BY <4>1, <4>2
    <3>. QED BY <3>1, <3>2 DEF t
  <2> HIDE DEF x
  <2>4. x <= P /\ x + x <= P /\ x \in 0..P
    BY <2>3, <1>1
  <2>5. Represents(f[k], PowersOf(n)[x])
    BY <1>11, <2>1, <2>4 DEF x
  <2>6. PowersOf(n)[x + x] = PowersOf(n)[x] * PowersOf(n)[x]
    BY <2>3, <2>4, PowersOfSum DEF P
  <2>7. PowersOf(n)[x] \in Int
    BY <2>4, PowersOfAre DEF P
  <2>8. Represents(f[k + 1], PowersOf(n)[x] * PowersOf(n)[x])
    BY <2>2, <2>5, <2>7, MulRepresents
  <2>. QED BY <2>3, <2>6, <2>8
<1>12. m \in S
  <2> HIDE DEF S
  <2>. QED BY <1>1, <1>10, <1>11, NatInduct
<1>. QED BY <1>6, <1>9, <1>12, <1>1 DEF p

\* The function behind Field!Table.
TableOf(a) ==
  CHOOSE tbl : tbl = [k \in 0..Field!TwoTo(FieldWindow) - 1 |->
                        IF k = 0 THEN Field!One ELSE IF k = 1 THEN a ELSE Field!Mul(tbl[k - 1], a)]

\* The table of fp_inv_ct.
LEMMA TableIs ==
  ASSUME NEW a, NEW n \in Int, Represents(a, n)
  PROVE  \A k \in 0..Field!TwoTo(FieldWindow) - 1 : Represents(Field!Table(a)[k], PowersOf(n)[k])
<1> DEFINE D == Field!Elements
           N == Field!TwoTo(FieldWindow) - 1
           P == LimbP
           next == [k \in 1..N |-> [x \in D |-> IF k = 1 THEN a ELSE Field!Mul(x, a)]]
<1>1. N \in Nat /\ N <= P /\ P \in Nat /\ a \in D /\ Field!One \in D
  <2>1. FieldWindow \in 1..2 * LimbBits - 1 /\ LimbBits \in Nat
    BY LibraryAssumption DEF FieldSizes
  <2> DEFINE w == FieldWindow
             v == (2 * LimbBits - 1) - w
             x == Field!TwoTo(w)
             y == Field!TwoTo(v)
             z == Field!TwoTo(2 * LimbBits - 1)
  <2>2. w \in Nat /\ v \in Nat /\ w \in 0..2 * LimbBits /\ v \in 0..2 * LimbBits
        /\ w + v = 2 * LimbBits - 1 /\ w + v <= 2 * LimbBits
    BY <2>1
  <2>3. x \in Nat \ {0} /\ y \in Nat \ {0} /\ z = x * y
    <3> HIDE DEF v, w
    <3>1. Field!TwoTo(w + v) = x * y
      BY <2>2, DoublesSum
    <3>. QED BY <2>2, <3>1, DoublesAre
  <2>4. P + 1 = z /\ P \in Nat
    BY BitsFromIs, CanonicalIs
  <2> HIDE DEF x, y, z, P
  <2>5. x * 1 <= x * y /\ x * 1 = x
    BY <2>3, Monotone
  <2>6. x - 1 <= P /\ x - 1 \in Nat
    <3>1. x <= z /\ x \in Nat \ {0}
      BY <2>3, <2>5
    <3>. QED BY <3>1, <2>4
  <2>. QED BY <2>4, <2>6, OneRepresents DEF x, Represents, Canonical
<1>2. next \in [1..N -> [D -> D]]
      /\ \A k \in 1..N, x \in D : next[k][x] = IF k = 1 THEN a ELSE Field!Mul(x, a)
  BY <1>1, MulCloses
<1> HIDE DEF next, D, P, N
<1>3. PICK g \in [0..N -> D] : Iterates(g, Field!One, N, next)
  BY <1>1, <1>2, Iteration
<1> DEFINE Is(f) == f = [k \in 0..N |-> IF k = 0 THEN Field!One
                                        ELSE IF k = 1 THEN a ELSE Field!Mul(f[k - 1], a)]
<1>4. Is(g)
  <2>1. \A k \in 1..N : g[k - 1] \in D
    BY <1>1
  <2>2. \A k \in 1..N : g[k] = next[k][g[k - 1]]
    BY <1>3 DEF Iterates
  <2>3. \A k \in 1..N : g[k] = IF k = 1 THEN a ELSE Field!Mul(g[k - 1], a)
    BY <2>1, <2>2, <1>2
  <2>. QED BY <2>3, <1>3, <1>1 DEF Iterates
<1> DEFINE f == TableOf(a)
<1>5. Is(f)
  BY <1>4 DEF TableOf, N
<1>6. Field!Table(a) = f
  BY DEF Field!Table, TableOf
<1> HIDE DEF f
<1>7. f[0] = Field!One /\ \A k \in 1..N : f[k] = IF k = 1 THEN a ELSE Field!Mul(f[k - 1], a)
  BY <1>1, <1>5
<1>8. /\ PowersOf(n)[0] = 1 /\ \A k \in 0..P : PowersOf(n)[k] \in Int
      /\ \A k \in 1..P : PowersOf(n)[k] = n * PowersOf(n)[k - 1]
  BY PowersOfAre DEF P
<1> DEFINE S == {k \in Nat : k <= N => Represents(f[k], PowersOf(n)[k])}
<1>9. 0 \in S
  BY <1>7, <1>8, OneRepresents
<1>10. ASSUME NEW k \in Nat, k \in S PROVE k + 1 \in S
  <2> SUFFICES ASSUME k + 1 <= N PROVE Represents(f[k + 1], PowersOf(n)[k + 1])
    OBVIOUS
  <2>1. k + 1 \in 1..N /\ (k + 1) - 1 = k /\ k + 1 \in 1..P /\ k \in 0..P /\ k <= N
    BY <1>1
  <2> DEFINE x == PowersOf(n)[k]
  <2>2. Represents(f[k], x) /\ x \in Int /\ PowersOf(n)[k + 1] = n * x
    BY <1>8, <1>10, <2>1
  <2>3. CASE k = 0
    <3>1. f[k + 1] = a /\ x = 1
      BY <1>7, <1>8, <2>1, <2>3
    <3>2. n * 1 = n
      OBVIOUS
    <3>. QED BY <2>2, <3>1, <3>2
  <2>4. CASE k # 0
    <3>1. f[k + 1] = Field!Mul(f[k], a)
      BY <1>7, <2>1, <2>4
    <3> HIDE DEF x
    <3>2. Represents(f[k + 1], x * n)
      BY <2>2, <3>1, MulRepresents
    <3>3. x * n = n * x
      BY <2>2, Products
    <3>. QED BY <2>2, <3>2, <3>3
  <2>. QED BY <2>3, <2>4
<1>11. \A k \in 0..N : k \in S
  <2>1. Nat \subseteq S
    <3> HIDE DEF S
    <3>. QED BY <1>9, <1>10, NatInduct
  <2>. QED BY <2>1, <1>1
<1>12. \A k \in 0..N : Represents(f[k], PowersOf(n)[k])
  BY <1>11, <1>1
<1>. QED BY <1>6, <1>12 DEF N

\* What a turn of fp_inv_ct is given.
InvStates == [r : Field!Elements, pos : -1..2 * LimbBits - 2]

\* r is the power whose exponent is the bits before pos.
Inverting(t, n) == /\ t \in InvStates
                   /\ Represents(t.r, PowersOf(n)[BitsFrom(t.pos + 1)])

\* Where a window ends.
LEMMA LowIs ==
  ASSUME NEW pos \in 0..2 * LimbBits - 2
  PROVE  /\ Field!Low(pos) \in 0..pos /\ pos - Field!Low(pos) + 1 \in 1..FieldWindow
         /\ FieldWindow \in 1..2 * LimbBits - 1 /\ LimbBits \in Nat
  BY LibraryAssumption DEF FieldSizes, Field!Low

\* One turn.
LEMMA InvTurnIs ==
  ASSUME NEW a, NEW n \in Int, Represents(a, n), NEW t, Inverting(t, n)
  PROVE  /\ Inverting(Field!InvTurn(Field!Table(a), t), n)
         /\ t.pos >= 0 => Field!InvTurn(Field!Table(a), t).pos < t.pos
         /\ t.pos < 0 => Field!InvTurn(Field!Table(a), t) = t
<1> DEFINE tbl == Field!Table(a)
           u == Field!InvTurn(tbl, t)
           pos == t.pos
           low == Field!Low(pos)
           m == pos - low + 1
           k == BitsFrom(low) % Field!TwoTo(m)
           P == LimbP
           p(i) == PowersOf(n)[i]
<1>1. /\ t.r \in Field!Elements /\ pos \in -1..2 * LimbBits - 2 /\ Represents(t.r, p(BitsFrom(pos + 1)))
      /\ LimbBits \in Nat /\ LimbBits > 1 /\ P \in Nat
  BY CanonicalIs, DoublesAre DEF Inverting, InvStates
<1>2. CASE pos < 0
  <2>1. u = t
    BY <1>1, <1>2 DEF Field!InvTurn
  <2>. QED BY <2>1, <1>2, <1>1
<1>3. CASE pos >= 0 /\ BitsFrom(pos) % 2 = 0
  <2>1. u = [r |-> Field!Mul(t.r, t.r), pos |-> pos - 1]
    BY <1>1, <1>3 DEF Field!InvTurn, BitsFrom, LimbP
  <2> DEFINE x == BitsFrom(pos + 1)
             y == BitsFrom(pos)
  <2>2. pos \in Nat /\ pos + 1 <= 2 * LimbBits /\ (pos - 1) + 1 = pos
        /\ pos - 1 \in -1..2 * LimbBits - 2 /\ pos + 1 \in 0..2 * LimbBits /\ pos \in 0..2 * LimbBits
    BY <1>1, <1>3
  <2>3. x \in Nat /\ y \in Nat /\ y <= P - 2 /\ x <= P - 2
    BY <2>2, BitsFromIs
  <2>4. Field!TwoTo(1) = 2
    <3>1. 1 \in 1..2 * LimbBits /\ 1 - 1 = 0
      BY <1>1
    <3>. QED BY <3>1, DoublesAre
  <2>5. y = x * 2 + (y % 2)
    BY <2>2, <2>4, MoreBits
  <2>6. y % 2 = 0
    BY <1>3
  <2> HIDE DEF x, y
  <2>7. y = x + x /\ x \in 0..P /\ x + x <= P
    BY <2>3, <2>5, <2>6, <1>1
  <2>8. p(x) \in Int /\ p(x + x) = p(x) * p(x)
    <3>1. p(x) \in Int
      BY <2>7, PowersOfAre DEF P
    <3>2. p(x + x) = p(x) * p(x)
      BY <2>3, <2>7, PowersOfSum DEF P
    <3>. QED BY <3>1, <3>2
  <2> HIDE DEF p
  <2>9. Represents(Field!Mul(t.r, t.r), p(y))
    <3>1. Represents(t.r, p(x))
      BY <1>1 DEF x
    <3>. QED BY <2>7, <2>8, <3>1, MulRepresents
  <2>10. u.r = Field!Mul(t.r, t.r) /\ u.pos = pos - 1 /\ u \in InvStates
    BY <2>1, <2>2, <1>1, MulCloses DEF InvStates
  <2>11. Inverting(u, n)
    BY <2>2, <2>9, <2>10 DEF Inverting, p, y
  <2>. QED BY <2>10, <2>11, <1>1, <1>3
<1>4. CASE pos >= 0 /\ BitsFrom(pos) % 2 # 0
  <2> DEFINE s == Field!Squared(t.r, m)
  <2>1. u = [r |-> Field!Mul(s, tbl[k]), pos |-> low - 1]
    BY <1>1, <1>4 DEF Field!InvTurn, BitsFrom, LimbP
  <2>2. low \in 0..pos /\ m \in 1..FieldWindow /\ FieldWindow \in 1..2 * LimbBits - 1
    <3>1. pos \in 0..2 * LimbBits - 2
      BY <1>1, <1>4
    <3>. QED BY <3>1, LowIs
  <2>3. /\ low \in Nat /\ m \in Nat /\ low + m = pos + 1 /\ low + m <= 2 * LimbBits
        /\ (low - 1) + 1 = low /\ low - 1 \in -1..2 * LimbBits - 2 /\ low - 1 < pos
        /\ m \in 0..2 * LimbBits /\ FieldWindow - m \in Nat /\ FieldWindow \in 0..2 * LimbBits
        /\ FieldWindow - m \in 0..2 * LimbBits /\ m + (FieldWindow - m) = FieldWindow
        /\ low \in 0..2 * LimbBits /\ pos + 1 \in 0..2 * LimbBits /\ FieldWindow <= 2 * LimbBits
    <3> HIDE DEF low
    <3>. QED BY <1>1, <1>4, <2>2
  <2> HIDE DEF low, m
  <2> DEFINE b == Field!TwoTo(m)
             x == BitsFrom(pos + 1)
             y == BitsFrom(low)
  <2>4. y = x * b + k /\ k \in 0..b - 1 /\ x * b <= P - 2 /\ x * b \in Nat
    BY <2>3, MoreBits
  <2>5. x \in Nat /\ y \in Nat /\ y <= P - 2 /\ b \in Nat \ {0}
    BY <2>3, BitsFromIs, DoublesAre
  <2>6. k \in 0..Field!TwoTo(FieldWindow) - 1
    <3> DEFINE c == Field!TwoTo(FieldWindow - m)
               d == Field!TwoTo(FieldWindow)
    <3>1. d = b * c /\ c \in Nat \ {0} /\ d \in Nat
      <4>1. Field!TwoTo(m + (FieldWindow - m)) = b * c
        BY <2>3, DoublesSum
      <4>. QED BY <4>1, <2>3, DoublesAre
    <3> HIDE DEF c, d, b, k
    <3>2. b * 1 <= b * c /\ b * 1 = b
      BY <2>5, <3>1, Monotone
    <3>3. b <= d
      BY <3>1, <3>2
    <3>4. k \in 0..d - 1
      BY <2>4, <2>5, <3>1, <3>3
    <3>. QED BY <3>4 DEF d
  <2> HIDE DEF k
  <2>7. Represents(tbl[k], p(k))
    BY <2>6, TableIs
  <2> HIDE DEF tbl
  <2>8. Represents(s, p(x * b))
    <3>1. x * b <= P
      <4> DEFINE z == x * b
      <4> HIDE DEF z
      <4>1. z <= P - 2 /\ z \in Nat
        BY <2>4 DEF z
      <4>2. z <= P
        BY <4>1, <1>1
      <4>. QED BY <4>2 DEF z
    <3>2. Represents(t.r, PowersOf(n)[x])
      BY <1>1
    <3> HIDE DEF x
    <3>. QED BY <2>3, <2>5, <3>1, <3>2, SquaredIs DEF P
  <2> DEFINE z == x * b
  <2>9. z \in Nat /\ k \in Nat /\ y = z + k /\ z \in 0..P /\ k \in 0..P /\ z + k <= P
        /\ Represents(s, p(z))
    <3>1. Represents(s, p(z)) /\ z \in Nat /\ y = z + k /\ k \in 0..b - 1
      BY <2>4, <2>8
    <3> HIDE DEF z, y, b
    <3>. QED BY <3>1, <2>5, <1>1
  <2> HIDE DEF z, y, s
  <2>10. p(z) \in Int /\ p(k) \in Int /\ p(z + k) = p(z) * p(k)
    <3>1. p(z) \in Int /\ p(k) \in Int
      BY <2>9, PowersOfAre DEF P
    <3>2. p(z + k) = p(z) * p(k)
      BY <2>9, PowersOfSum DEF P
    <3>. QED BY <3>1, <3>2
  <2> HIDE DEF p
  <2>11. Represents(Field!Mul(s, tbl[k]), p(y))
    BY <2>7, <2>9, <2>10, MulRepresents
  <2>12. Field!Mul(s, tbl[k]) \in Field!Elements
    BY <2>11 DEF Represents, Canonical
  <2>13. u.r = Field!Mul(s, tbl[k]) /\ u.pos = low - 1 /\ u \in InvStates
    BY <2>1, <2>3, <2>12 DEF InvStates
  <2>14. Inverting(u, n)
    BY <2>3, <2>11, <2>13 DEF Inverting, p, y
  <2>. QED BY <2>3, <2>13, <2>14, <1>1, <1>4 DEF tbl
<1>. QED BY <1>1, <1>2, <1>3, <1>4

\* The turns of fp_inv_ct.
InvTurns(a) ==
  CHOOSE turn : turn = [k \in 0..2 * LimbBits - 1 |->
                          IF k = 0 THEN [r |-> Field!One, pos |-> 2 * LimbBits - 2]
                          ELSE Field!InvTurn(Field!Table(a), turn[k - 1])]

\* fp_inv_ct raises to the power p - 2.
LEMMA InvIs ==
  ASSUME NEW a, NEW n \in Int, Represents(a, n)
  PROVE  Represents(Field!Inv(a), PowersOf(n)[LimbP - 2])
<1> DEFINE N == 2 * LimbBits - 1
           D == {t \in InvStates : Inverting(t, n)}
           base == [r |-> Field!One, pos |-> 2 * LimbBits - 2]
           turned(t) == Field!InvTurn(Field!Table(a), t)
           next == [k \in 1..N |-> [t \in D |-> turned(t)]]
<1>1. N \in Nat /\ LimbBits \in Nat /\ LimbBits > 1
  BY DoublesAre
<1>2. base \in D
  <2>1. base \in InvStates /\ base.r = Field!One /\ base.pos = 2 * LimbBits - 2
    BY <1>1, OneRepresents DEF InvStates
  <2>2. (2 * LimbBits - 2) + 1 = 2 * LimbBits - 1
    BY <1>1
  <2>3. PowersOf(n)[BitsFrom(2 * LimbBits - 1)] = 1
    BY BitsFromIs, PowersOfAre
  <2> HIDE DEF base
  <2>4. Inverting(base, n)
    BY <2>1, <2>2, <2>3, OneRepresents DEF Inverting
  <2>. QED BY <2>1, <2>4
<1>3. \A t \in D : /\ turned(t) \in D /\ t.pos \in Int /\ turned(t).pos \in Int
                   /\ t.pos >= 0 => turned(t).pos < t.pos
                   /\ t.pos < 0 => turned(t) = t
  <2> SUFFICES ASSUME NEW t \in D
               PROVE  /\ turned(t) \in D /\ t.pos \in Int /\ turned(t).pos \in Int
                      /\ t.pos >= 0 => turned(t).pos < t.pos
                      /\ t.pos < 0 => turned(t) = t
    OBVIOUS
  <2>1. Inverting(t, n)
    OBVIOUS
  <2>2. /\ Inverting(turned(t), n)
        /\ t.pos >= 0 => turned(t).pos < t.pos
        /\ t.pos < 0 => turned(t) = t
    BY <2>1, InvTurnIs
  <2> HIDE DEF turned
  <2>3. turned(t) \in InvStates /\ t \in InvStates
    BY <2>1, <2>2 DEF Inverting
  <2>4. turned(t).pos \in Int /\ t.pos \in Int
    BY <2>3, <1>1 DEF InvStates
  <2>. QED BY <2>2, <2>3, <2>4
<1> HIDE DEF turned
<1>4. next \in [1..N -> [D -> D]] /\ \A k \in 1..N, t \in D : next[k][t] = turned(t)
  <2> HIDE DEF D
  <2>. QED BY <1>3
<1> HIDE DEF next, N, base, D
<1>5. PICK g \in [0..N -> D] : Iterates(g, base, N, next)
  BY <1>1, <1>2, <1>4, Iteration
<1> DEFINE Is(f) == f = [k \in 0..N |-> IF k = 0 THEN base ELSE turned(f[k - 1])]
<1>6. Is(g)
  <2>1. \A k \in 1..N : g[k - 1] \in D
    BY <1>1
  <2>2. \A k \in 1..N : g[k] = next[k][g[k - 1]]
    BY <1>5 DEF Iterates
  <2>3. \A k \in 1..N : g[k] = turned(g[k - 1])
    BY <2>1, <2>2, <1>4
  <2>. QED BY <2>3, <1>5, <1>1 DEF Iterates
<1> DEFINE f == InvTurns(a)
<1>7. Is(f)
  BY <1>6 DEF InvTurns, N, base, turned
<1>8. Field!Inv(a) = f[N].r
  BY DEF Field!Inv, InvTurns, N
<1> HIDE DEF f
<1>9. f[0] = base /\ \A k \in 1..N : f[k] = turned(f[k - 1])
  BY <1>1, <1>7
<1> DEFINE S == {k \in Nat : k <= N => f[k] \in D /\ (f[k].pos < 0 \/ f[k].pos <= N - 1 - k)}
<1>10. 0 \in S
  <2>1. base.pos = N - 1 /\ N - 1 - 0 = N - 1 /\ base.pos \in Int
    BY <1>1 DEF base, N
  <2>. QED BY <2>1, <1>1, <1>2, <1>9
<1>11. ASSUME NEW k \in Nat, k \in S PROVE k + 1 \in S
  <2> SUFFICES ASSUME k + 1 <= N
               PROVE  f[k + 1] \in D /\ (f[k + 1].pos < 0 \/ f[k + 1].pos <= N - 1 - (k + 1))
    OBVIOUS
  <2>1. k + 1 \in 1..N /\ (k + 1) - 1 = k /\ k <= N
    BY <1>1
  <2> DEFINE t == f[k]
             u == f[k + 1]
  <2>2. u = turned(t) /\ t \in D /\ (t.pos < 0 \/ t.pos <= N - 1 - k)
    BY <1>9, <1>11, <2>1
  <2> HIDE DEF t, u
  <2>3. /\ u \in D /\ t.pos \in Int /\ u.pos \in Int
        /\ t.pos >= 0 => u.pos < t.pos
        /\ t.pos < 0 => u = t
    BY <1>3, <2>2
  <2>4. u.pos < 0 \/ u.pos <= N - 1 - (k + 1)
    <3>1. CASE t.pos < 0
      BY <2>3, <3>1
    <3>2. CASE t.pos >= 0
      <4>1. t.pos <= N - 1 - k /\ u.pos < t.pos
        BY <2>2, <2>3, <3>2
      <4>. QED BY <4>1, <2>3, <1>1
    <3>. QED BY <3>1, <3>2, <2>3
  <2>. QED BY <2>3, <2>4 DEF u
<1>12. N \in S
  <2> HIDE DEF S
  <2>. QED BY <1>1, <1>10, <1>11, NatInduct
<1> DEFINE t == f[N]
<1>13. t \in D /\ (t.pos < 0 \/ t.pos <= N - 1 - N)
  BY <1>1, <1>12
<1> HIDE DEF t
<1>14. t.pos = -1 /\ Inverting(t, n)
  <2>1. t \in InvStates /\ Inverting(t, n) /\ t.pos \in -1..2 * LimbBits - 2
    BY <1>13 DEF D, InvStates
  <2>. QED BY <2>1, <1>1, <1>13
<1>15. Represents(t.r, PowersOf(n)[LimbP - 2])
  <2>1. t.pos + 1 = 0
    BY <1>14
  <2>. QED BY <2>1, <1>14, BitsFromIs DEF Inverting
<1>. QED BY <1>8, <1>15 DEF t

\* An inverse times its number is 1.
LEMMA InvIsInverse ==
  ASSUME NEW a, NEW n \in 1..LimbP - 1, Represents(a, n)
  PROVE  Represents(Field!Mul(Field!Inv(a), a), 1)
<1> DEFINE P == LimbP
           x == PowersOf(n)[P - 2]
           y == PowersOf(n)[P - 1]
           c == Field!Mul(Field!Inv(a), a)
<1>1. P \in Nat /\ P - 2 \in Nat /\ n \in Int
  BY CanonicalIs, BitsFromIs
<1>2. P - 2 \in 0..P /\ P - 1 \in 1..P /\ (P - 1) - 1 = P - 2 /\ P - 1 \in 0..P
  <2> HIDE DEF P
  <2>. QED BY <1>1
<1>3. x \in Int /\ y \in Int /\ y = n * x
  BY <1>1, <1>2, PowersOfAre
<1>4. Represents(Field!Inv(a), x)
  BY <1>1, InvIs
<1> HIDE DEF P, x, y
<1>5. Represents(c, x * n)
  BY <1>1, <1>3, <1>4, MulRepresents
<1>6. x * n = y
  BY <1>1, <1>3, Products
<1>7. y % P = 1
  <2>1. RaisedTo(n, P - 1) = 1
    BY LibraryAssumption DEF FieldSizes, LimbP, P
  <2>2. RaisedTo(n, P - 1) = y % P
    BY <1>1, <1>2, RaisedToIs DEF y, P
  <2>. QED BY <2>1, <2>2
<1>8. Represents(c, 1)
  <2>1. Canonical(c) /\ Field!Number(c) = 1
    BY <1>3, <1>5, <1>6, <1>7, RepresentsIs DEF P
  <2>2. 0 \in Int /\ 1 = 1 + 0 * LimbP
    BY <1>1 DEF P
  <2>. QED BY <2>1, <2>2 DEF Represents
<1>. QED BY <1>8 DEF c

\* An input is a number modulo p.
FieldInput == input.n \in 0..LimbP - 1

\* For limbs of any width whose p obeys Fermat's theorem, and windows of any size, the
\* sums, differences, products, powers and inverses of the field (fp_add, fp_sub,
\* fp_mul, fp_pow_u64, fp_inv_ct) are those of the numbers modulo p, and the words of a
\* hash become the form of their number (fp_from_words).
THEOREM FieldDoesCompute ==
  ASSUME input.kind = "field" => FieldInput
  PROVE  FieldExact
<1> SUFFICES ASSUME input.kind = "field" PROVE FieldExact
  BY DEF FieldExact
<1> DEFINE n == input.n
           a == FieldForm(n)
           P == LimbP
           L == Size
<1>1. /\ n \in 0..P - 1 /\ n \in Int /\ Represents(a, n) /\ a \in Field!Elements
      /\ Field!Modulus = P /\ Field!Limb = L /\ L \in Nat /\ P \in Nat
  <2>1. n \in 0..P - 1 /\ P \in Nat
    BY CanonicalIs DEF FieldInput
  <2>2. n \in Int
    BY <2>1
  <2>3. Represents(a, n)
    BY <2>2, FormIs
  <2>. QED BY <2>1, <2>2, <2>3, SizeIs DEF Represents, Canonical, LimbP
<1> HIDE DEF n, a, P, L
<1>2. \A m \in 0..P - 1 : /\ Field!Mul(a, FieldForm(m)) = FieldForm(n * m)
                          /\ Field!Add(a, FieldForm(m)) = FieldForm(n + m)
                          /\ Field!Sub(a, FieldForm(m)) = FieldForm(n - m)
  <2> SUFFICES ASSUME NEW m \in 0..P - 1
               PROVE  /\ Field!Mul(a, FieldForm(m)) = FieldForm(n * m)
                      /\ Field!Add(a, FieldForm(m)) = FieldForm(n + m)
                      /\ Field!Sub(a, FieldForm(m)) = FieldForm(n - m)
    OBVIOUS
  <2> DEFINE b == FieldForm(m)
  <2>1. m \in Int
    OBVIOUS
  <2>2. Represents(b, m)
    BY <2>1, FormIs
  <2> HIDE DEF b
  <2>3. n * m \in Int /\ n + m \in Int /\ n - m \in Int
    BY <1>1, <2>1, Ints
  <2>4. Represents(Field!Mul(a, b), n * m)
    BY <1>1, <2>1, <2>2, MulRepresents
  <2>5. b \in Field!Elements /\ Field!Number(a) = n /\ Field!Number(b) = m
    <3>1. Field!Number(a) = n % P /\ Field!Number(b) = m % P /\ b \in Field!Elements
      BY <1>1, <2>1, <2>2, RepresentsIs DEF P, Canonical
    <3>2. P \in Nat \ {0}
      BY <1>1
    <3>3. n % P = n /\ m % P = m
      BY <1>1, <3>2, NoCarry
    <3>. QED BY <3>1, <3>3
  <2>6. Represents(Field!Add(a, b), n + m)
    BY <1>1, <2>5, AddRepresents
  <2>7. Represents(Field!Sub(a, b), n - m)
    BY <1>1, <2>5, SubRepresents
  <2>. QED BY <2>3, <2>4, <2>6, <2>7, FormIs DEF b
<1>3. n # 0 => Field!Mul(Field!Inv(a), a) = FieldForm(1)
  <2> SUFFICES ASSUME n # 0 PROVE Field!Mul(Field!Inv(a), a) = FieldForm(1)
    OBVIOUS
  <2>1. n \in 1..LimbP - 1
    BY <1>1 DEF P
  <2>2. Represents(Field!Mul(Field!Inv(a), a), 1)
    BY <1>1, <2>1, InvIsInverse
  <2>. QED BY <2>2, FormIs
<1>4. \A e \in 0..L - 1 : Field!Pow(a, e) = FieldForm(RaisedTo(n, e))
  <2> SUFFICES ASSUME NEW e \in 0..L - 1 PROVE Field!Pow(a, e) = FieldForm(RaisedTo(n, e))
    OBVIOUS
  <2> DEFINE x == PowersOf(n)[e]
             c == Field!Pow(a, e)
  <2>1. Represents(c, x)
    BY <1>1, PowIs
  <2>2. e \in 0..LimbP
    BY <1>1, ExponentsFit DEF P, L
  <2>3. x \in Int
    BY <1>1, <2>2, PowersOfAre
  <2>4. RaisedTo(n, e) = x % LimbP
    BY <1>1, <2>2, RaisedToIs
  <2> HIDE DEF x, c
  <2>5. Canonical(c) /\ Field!Number(c) = x % LimbP /\ Field!Number(c) \in 0..LimbP - 1
    BY <2>1, <2>3, RepresentsIs
  <2> DEFINE y == x % LimbP
  <2>6. y \in Int /\ Field!Number(c) = y /\ Canonical(c)
    BY <2>5, CanonicalIs
  <2> HIDE DEF y
  <2>7. y = y + 0 * LimbP /\ 0 \in Int
    BY <2>6, CanonicalIs
  <2>8. Represents(c, y)
    BY <2>6, <2>7 DEF Represents
  <2>. QED BY <2>4, <2>6, <2>8, FormIs DEF y, c
<1>5. n < L => \A hi \in 0..L - 1 : Field!FromWords(n, hi) = FieldForm(n + L * hi)
  <2> SUFFICES ASSUME n < L, NEW hi \in 0..L - 1
               PROVE  Field!FromWords(n, hi) = FieldForm(n + L * hi)
    OBVIOUS
  <2>1. n \in 0..L - 1 /\ hi \in Int /\ L \in Int
    BY <1>1
  <2>2. Represents(Field!FromWords(n, hi), hi * L + n)
    BY <2>1, FromWordsRepresents DEF L
  <2> DEFINE x == L * hi
  <2>3. hi * L = x /\ x \in Int
    BY <2>1, Products
  <2> HIDE DEF x
  <2>4. x + n = n + x /\ n + x \in Int
    BY <2>3, <1>1
  <2>5. Represents(Field!FromWords(n, hi), n + x)
    BY <2>2, <2>3, <2>4
  <2>. QED BY <2>4, <2>5, FormIs DEF x
<1>. QED BY <1>1, <1>2, <1>3, <1>4, <1>5 DEF FieldExact, n, a

-----------------------------------------------------------------------------
(* The recorder's output.                                                  *)

\* The places, among the first n, of errors, of results and of steps.
ErrorsUpTo(lines, n) == {i \in 1..n : ~IsStatus(lines[i]) /\ IsError(lines[i])}
ResultsUpTo(lines, n) == {i \in 1..n : ~IsStatus(lines[i]) /\ IsOk(lines[i])}
StepsUpTo(lines, n) == {i \in 1..n : {"status", "step"} \subseteq lines[i]}

\* What record() has of a recorder that said a set of words.
Recordings(Said) ==
  [ok : SUBSET Said, error : SUBSET Said, shown : Seq(SUBSET Said)]

\* What it has after n lines.
Follows(r, lines, n) ==
  /\ r.error = {} => ErrorsUpTo(lines, n) = {}
  /\ r.error # {} => \E e \in ErrorsUpTo(lines, n) :
                       r.error = lines[e] /\ \A j \in ErrorsUpTo(lines, n) : e <= j
  /\ r.error = {} /\ r.ok = {} => ResultsUpTo(lines, n) = {}
  /\ r.error = {} /\ r.ok # {} => \E i \in ResultsUpTo(lines, n) :
                       r.ok = lines[i] /\ \A j \in ResultsUpTo(lines, n) : j <= i
  /\ Len(r.shown) =
       Cardinality({i \in StepsUpTo(lines, n) : \A j \in ErrorsUpTo(lines, n) : i < j})

\* One more line.
LEMMA OneMore ==
  ASSUME NEW lines, NEW n \in Nat
  PROVE  /\ ErrorsUpTo(lines, n + 1) =
              ErrorsUpTo(lines, n) \cup
                (IF ~IsStatus(lines[n + 1]) /\ IsError(lines[n + 1])
                 THEN {n + 1} ELSE {})
         /\ ResultsUpTo(lines, n + 1) =
              ResultsUpTo(lines, n) \cup
                (IF ~IsStatus(lines[n + 1]) /\ IsOk(lines[n + 1])
                 THEN {n + 1} ELSE {})
         /\ StepsUpTo(lines, n + 1) =
              StepsUpTo(lines, n) \cup
                (IF {"status", "step"} \subseteq lines[n + 1] THEN {n + 1} ELSE {})
         /\ \A i \in ErrorsUpTo(lines, n) \cup ResultsUpTo(lines, n) \cup StepsUpTo(lines, n) :
              i \in Int /\ i <= n /\ i < n + 1 /\ i # n + 1
<1>1. /\ 1..(n + 1) = (1..n) \cup {n + 1}
      /\ \A i \in 1..n : i \in Int /\ i <= n /\ i < n + 1 /\ i # n + 1
  OBVIOUS
<1>. QED BY <1>1 DEF ErrorsUpTo, ResultsUpTo, StepsUpTo

\* A line is taken as the lines before it were.
LEMMA TakeFollows ==
  ASSUME NEW Said, NEW lines, NEW n \in Nat, NEW r \in Recordings(Said),
         lines[n + 1] \in SUBSET Said, Follows(r, lines, n)
  PROVE  LET s == Take(r, lines[n + 1])
         IN s \in Recordings(Said) /\ Follows(s, lines, n + 1)
<1> DEFINE line == lines[n + 1]
           s == Take(r, line)
           E == ErrorsUpTo(lines, n)
           O == ResultsUpTo(lines, n)
           T == StepsUpTo(lines, n)
           E1 == ErrorsUpTo(lines, n + 1)
           O1 == ResultsUpTo(lines, n + 1)
           T1 == StepsUpTo(lines, n + 1)
           Before(S, X) == {i \in S : \A j \in X : i < j}
<1>1. /\ r.ok \in SUBSET Said /\ r.error \in SUBSET Said /\ r.shown \in Seq(SUBSET Said)
      /\ r = [ok |-> r.ok, error |-> r.error, shown |-> r.shown]
  BY DEF Recordings
<1>2. /\ r.error = {} => E = {}
      /\ r.error # {} => \E e \in E : r.error = lines[e] /\ \A j \in E : e <= j
      /\ r.error = {} /\ r.ok = {} => O = {}
      /\ r.error = {} /\ r.ok # {} => \E i \in O : r.ok = lines[i] /\ \A j \in O : j <= i
      /\ Len(r.shown) = Cardinality(Before(T, E))
  BY DEF Follows
<1>3. /\ E1 = E \cup (IF ~IsStatus(line) /\ IsError(line) THEN {n + 1} ELSE {})
      /\ O1 = O \cup (IF ~IsStatus(line) /\ IsOk(line) THEN {n + 1} ELSE {})
      /\ T1 = T \cup (IF {"status", "step"} \subseteq line THEN {n + 1} ELSE {})
      /\ \A i \in E \cup O \cup T : i \in Int /\ i <= n /\ i < n + 1 /\ i # n + 1
  BY OneMore
<1>4. /\ (IsStatus(line) <=> "status" \in line)
      /\ (IsOk(line) <=> "ok" \in line)
      /\ (IsError(line) <=> "error" \in line /\ "ok" \notin line)
  BY DEF IsStatus, IsOk, IsError
<1>5. /\ s = IF r.error # {} THEN r
             ELSE IF IsStatus(line) THEN Show(r, line)
             ELSE IF IsOk(line) THEN [r EXCEPT !.ok = line]
             ELSE IF IsError(line) THEN [r EXCEPT !.error = line]
             ELSE r
  BY DEF Take
<1>6. IsFiniteSet(T) /\ IsFiniteSet(Before(T, E)) /\ Before(T, {}) = T
  <2>1. IsFiniteSet(1..n)
    BY FS_Interval
  <2>2. T \subseteq 1..n /\ Before(T, E) \subseteq 1..n /\ Before(T, {}) = T
    BY DEF StepsUpTo
  <2>. QED BY <2>1, <2>2, FS_Subset
<1>7. line \in SUBSET Said
  OBVIOUS
<1> HIDE DEF line, s, E, O, T, E1, O1, T1
<1>8. CASE r.error # {}
  <2>1. s = r
    BY <1>5, <1>8
  <2>2. PICK e \in E : r.error = lines[e] /\ \A j \in E : e <= j
    BY <1>2, <1>8
  <2>3. e \in E1 /\ \A j \in E1 : e <= j
    BY <2>2, <1>3
  <2>4. Before(T1, E1) = Before(T, E)
    BY <2>2, <1>3
  <2>. QED BY <2>1, <2>2, <2>3, <2>4, <1>2, <1>8 DEF Follows, s, line, E1, T1
<1>9. CASE r.error = {} /\ IsStatus(line)
  <2>1. E = {} /\ E1 = {} /\ O1 = O
    BY <1>2, <1>3, <1>9
  <2>2. s = Show(r, line)
    BY <1>5, <1>9
  <2>3. Before(T, E) = T /\ Before(T1, E1) = T1
    BY <2>1
  <2>4. CASE "step" \in line
    <3>1. s = [r EXCEPT !.shown = @ \o <<line>>]
      BY <2>2, <2>4 DEF Show
    <3>2. s.ok = r.ok /\ s.error = r.error /\ s.shown = r.shown \o <<line>>
          /\ s \in Recordings(Said)
      <4> DEFINE w == r.shown \o <<line>>
      <4>1. w \in Seq(SUBSET Said)
        BY <1>1, <1>7
      <4>2. s = [r EXCEPT !.shown = w]
        BY <3>1
      <4> HIDE DEF w
      <4>3. s = [ok |-> r.ok, error |-> r.error, shown |-> w]
        BY <4>2, <1>1
      <4>4. s.ok = r.ok /\ s.error = r.error /\ s.shown = w /\ s \in Recordings(Said)
        BY <4>1, <4>3, <1>1 DEF Recordings
      <4>. QED BY <4>4 DEF w
    <3>3. Len(s.shown) = Len(r.shown) + 1
      BY <3>2, <1>1, <1>7
    <3>4. T1 = T \cup {n + 1} /\ n + 1 \notin T
      BY <1>3, <1>4, <1>9, <2>4
    <3>5. Cardinality(T1) = Cardinality(T) + 1
      BY <3>4, <1>6, FS_AddElement
    <3>6. Len(s.shown) = Cardinality(Before(T1, E1))
      BY <3>3, <3>5, <2>3, <1>2
    <3>7. s.error = {} /\ (s.ok = {} => O1 = {})
          /\ (s.ok # {} => \E i \in O1 : s.ok = lines[i] /\ \A j \in O1 : j <= i)
      BY <3>2, <2>1, <1>2, <1>9
    <3>. QED BY <3>2, <3>6, <3>7, <2>1 DEF Follows, s, line, E1, T1, O1
  <2>5. CASE "step" \notin line
    <3>1. s = [r EXCEPT !.shown = @ \o <<>>]
      BY <2>2, <2>5 DEF Show
    <3>2. s = r
      <4>1. r.shown \o <<>> = r.shown
        BY <1>1
      <4>. QED BY <3>1, <4>1, <1>1
    <3>3. T1 = T
      BY <1>3, <1>4, <2>5
    <3>4. Len(s.shown) = Cardinality(Before(T1, E1))
      BY <3>2, <3>3, <2>1, <1>2
    <3>5. s.error = {} /\ (s.ok = {} => O1 = {})
          /\ (s.ok # {} => \E i \in O1 : s.ok = lines[i] /\ \A j \in O1 : j <= i)
      BY <3>2, <2>1, <1>2, <1>9
    <3>. QED BY <3>2, <3>4, <3>5, <2>1 DEF Follows, s, line, E1, T1, O1
  <2>. QED BY <2>4, <2>5
<1>10. CASE r.error = {} /\ ~IsStatus(line)
  <2>1. T1 = T /\ E = {}
    BY <1>2, <1>3, <1>4, <1>10
  <2>2. CASE IsOk(line)
    <3>1. s = [r EXCEPT !.ok = line]
      BY <1>5, <1>10, <2>2
    <3>2. s.ok = line /\ s.error = {} /\ s.shown = r.shown /\ s \in Recordings(Said)
      BY <3>1, <1>1, <1>7, <1>10 DEF Recordings
    <3>3. E1 = {} /\ O1 = O \cup {n + 1}
      BY <1>3, <1>4, <1>10, <2>1, <2>2
    <3>4. s.ok # {} /\ s.ok = lines[n + 1] /\ n + 1 \in O1 /\ \A j \in O1 : j <= n + 1
      BY <3>2, <3>3, <1>3, <1>4, <2>2 DEF line
    <3>5. Len(s.shown) = Cardinality(Before(T1, E1))
      BY <3>2, <3>3, <2>1, <1>2
    <3>. QED BY <3>2, <3>3, <3>4, <3>5 DEF Follows, s, line, E1, T1, O1
  <2>3. CASE IsError(line)
    <3>1. s = [r EXCEPT !.error = line] /\ ~IsOk(line)
      BY <1>4, <1>5, <1>10, <2>3
    <3>2. s.error = line /\ s.shown = r.shown /\ s \in Recordings(Said) /\ line # {}
      BY <3>1, <1>1, <1>4, <1>7, <1>10, <2>3 DEF Recordings
    <3>3. E1 = {n + 1}
      BY <1>3, <1>10, <2>1, <2>3
    <3>4. s.error = lines[n + 1] /\ n + 1 \in E1 /\ \A j \in E1 : n + 1 <= j
      BY <3>2, <3>3 DEF line
    <3>5. Before(T1, E1) = T /\ Before(T, E) = T
      <4>1. \A i \in T, j \in E1 : i < j
        BY <3>3, <1>3
      <4>2. \A i \in T, j \in E : i < j
        BY <2>1
      <4>. QED BY <4>1, <4>2, <2>1
    <3>6. Len(s.shown) = Cardinality(Before(T1, E1))
      BY <3>2, <3>5, <1>2
    <3>. QED BY <3>2, <3>4, <3>6 DEF Follows, s, line, E1, T1, O1
  <2>4. CASE ~IsOk(line) /\ ~IsError(line)
    <3>1. s = r
      BY <1>5, <1>10, <2>4
    <3>2. E1 = E /\ O1 = O
      BY <1>3, <2>4
    <3>3. Len(s.shown) = Cardinality(Before(T1, E1))
      BY <3>1, <3>2, <2>1, <1>2
    <3>5. s.error = {} /\ E1 = {} /\ (s.ok = {} => O1 = {})
          /\ (s.ok # {} => \E i \in O1 : s.ok = lines[i] /\ \A j \in O1 : j <= i)
      BY <3>1, <3>2, <2>1, <1>2, <1>10
    <3>. QED BY <3>1, <3>3, <3>5 DEF Follows, s, line, E1, T1, O1
  <2>. QED BY <2>2, <2>3, <2>4
<1>. QED BY <1>8, <1>9, <1>10

\* The function whose last value Taken is.
Takings(lines) == CHOOSE after : after =
  [n \in 0..Len(lines) |-> IF n = 0 THEN Nothing
                           ELSE Take(after[n - 1], lines[n])]

\* After all lines.
LEMMA TakenFollows ==
  ASSUME NEW Said, NEW lines \in Seq(SUBSET Said)
  PROVE  /\ Taken(lines) \in Recordings(Said)
         /\ Follows(Taken(lines), lines, Len(lines))
<1> DEFINE N == Len(lines)
           D == Recordings(Said)
           turn == [n \in 1..N |-> [r \in D |-> Take(r, lines[n])]]
<1>1. Nothing \in D /\ N \in Nat /\ \A n \in 1..N : lines[n] \in SUBSET Said
  BY DEF Nothing, Recordings
<1>2. \A n \in 1..N, r \in D : Take(r, lines[n]) \in D
  <2> SUFFICES ASSUME NEW n \in 1..N, NEW r \in D PROVE Take(r, lines[n]) \in D
    OBVIOUS
  <2> DEFINE line == lines[n]
  <2>1. /\ r.ok \in SUBSET Said /\ r.error \in SUBSET Said /\ r.shown \in Seq(SUBSET Said)
        /\ r = [ok |-> r.ok, error |-> r.error, shown |-> r.shown] /\ line \in SUBSET Said
    BY <1>1 DEF Recordings
  <2> HIDE DEF line
  <2>2. [r EXCEPT !.ok = line] \in D /\ [r EXCEPT !.error = line] \in D
    BY <2>1 DEF Recordings
  <2>3. Show(r, line) \in D
    <3>1. r.shown \o <<line>> \in Seq(SUBSET Said) /\ r.shown \o <<>> \in Seq(SUBSET Said)
      BY <2>1
    <3>. QED BY <2>1, <3>1 DEF Recordings, Show
  <2>4. Take(r, line) \in D
    BY <2>2, <2>3 DEF Take
  <2>. QED BY <2>4 DEF line
<1>3. turn \in [1..N -> [D -> D]]
  BY <1>2
<1>4. \A n \in 1..N, r \in D : turn[n][r] = Take(r, lines[n])
  OBVIOUS
<1>5. PICK g \in [0..N -> D] : Iterates(g, Nothing, N, turn)
  <2> HIDE DEF turn, D, N
  <2>. QED BY <1>1, <1>3, Iteration
<1> DEFINE Is(after) == after =
      [n \in 0..N |-> IF n = 0 THEN Nothing ELSE Take(after[n - 1], lines[n])]
<1>6. Is(g)
  <2> HIDE DEF turn, D
  <2>1. \A k \in 1..N : g[k - 1] \in D /\ g[k] = turn[k][g[k - 1]]
    BY <1>5 DEF Iterates
  <2>2. \A k \in 1..N : g[k] = Take(g[k - 1], lines[k])
    BY <2>1, <1>4
  <2>. QED BY <2>2, <1>5, <1>1 DEF Iterates
<1> DEFINE t == Takings(lines)
<1>7. Is(t)
  BY <1>6 DEF Takings
<1> HIDE DEF t, turn
<1>8. /\ t[0] = Nothing
      /\ \A n \in 1..N : t[n] = Take(t[n - 1], lines[n])
  BY <1>1, <1>7
<1> DEFINE S == {n \in Nat : n <= N => t[n] \in D /\ Follows(t[n], lines, n)}
<1>9. 0 \in S
  <2>1. ErrorsUpTo(lines, 0) = {} /\ ResultsUpTo(lines, 0) = {} /\ StepsUpTo(lines, 0) = {}
    BY DEF ErrorsUpTo, ResultsUpTo, StepsUpTo
  <2>2. {i \in StepsUpTo(lines, 0) : \A j \in ErrorsUpTo(lines, 0) : i < j} = {}
    BY <2>1
  <2>3. Follows(Nothing, lines, 0)
    BY <2>1, <2>2, FS_EmptySet DEF Follows, Nothing
  <2>. QED BY <2>3, <1>1, <1>8
<1>10. ASSUME NEW n \in Nat, n \in S PROVE n + 1 \in S
  <2> SUFFICES ASSUME n + 1 <= N PROVE t[n + 1] \in D /\ Follows(t[n + 1], lines, n + 1)
    OBVIOUS
  <2>1. t[n] \in D /\ Follows(t[n], lines, n) /\ n + 1 \in 1..N /\ (n + 1) - 1 = n
    BY <1>10, <1>1
  <2>2. t[n + 1] = Take(t[n], lines[n + 1]) /\ lines[n + 1] \in SUBSET Said
    BY <2>1, <1>1, <1>8
  <2> HIDE DEF N
  <2>. QED BY <2>1, <2>2, TakeFollows
<1>11. t[N] \in D /\ Follows(t[N], lines, N)
  <2>1. Nat \subseteq S
    <3> HIDE DEF S
    <3>. QED BY <1>9, <1>10, NatInduct
  <2>. QED BY <2>1, <1>1
<1>12. Taken(lines) = t[N]
  BY DEF Taken, Takings, t
<1>. QED BY <1>11, <1>12

\* For every output of the recorder, of any number of lines, record() answers the
\* last result, or the first error, and passes on the steps before it.
THEOREM AnswersRightly ==
  ASSUME NEW Said, NEW lines \in Seq(SUBSET Said), NEW last \in SUBSET Said, NEW exit
  PROVE  AnswerRight(lines, last, exit)
<1> DEFINE r == Taken(lines)
           N == Len(lines)
           E == Errors(lines)
           O == Results(lines)
           T == Steps(lines)
           a == Recorded(lines, last, exit)
<1>1. /\ E = ErrorsUpTo(lines, N) /\ O = ResultsUpTo(lines, N)
      /\ T = {i \in StepsUpTo(lines, N) : \A j \in ErrorsUpTo(lines, N) : i < j}
  <2>1. DOMAIN lines = 1..N
    OBVIOUS
  <2>. QED BY <2>1 DEF Errors, Results, Steps, ErrorsUpTo, ResultsUpTo, StepsUpTo
<1>2. /\ r.error = {} => E = {}
      /\ r.error # {} => \E e \in E : r.error = lines[e] /\ \A j \in E : e <= j
      /\ r.error = {} /\ r.ok = {} => O = {}
      /\ r.error = {} /\ r.ok # {} => \E i \in O : r.ok = lines[i] /\ \A j \in O : j <= i
      /\ Len(r.shown) = Cardinality(T)
  <2>1. Follows(r, lines, N)
    BY TakenFollows
  <2> HIDE DEF r, N, E, O, T
  <2>. QED BY <1>1, <2>1 DEF Follows
<1>3. a = IF r.error # {} THEN Answer("error", r.error, r.shown)
          ELSE AtEnd(last, exit, r.ok, r.shown)
  BY DEF Recorded
<1>4. /\ IsOk(last) => last # {} /\ ~IsError(last)
  BY DEF IsOk, IsError
<1> HIDE DEF r, N, E, O, T, a
<1>5. /\ a.kind = "error" <=> E # {} \/ IsError(last)
      /\ a.kind = "error" =>
           IF E = {} THEN a.line = last
           ELSE \E i \in E : a.line = lines[i] /\ \A j \in E : i <= j
      /\ a.kind = "result" =>
           IF IsOk(last) THEN a.line = last
           ELSE \E i \in O : a.line = lines[i] /\ \A j \in O : j <= i
      /\ a.kind \in {"exited", "empty"} => O = {} /\ ~IsOk(last)
      /\ a.shown = r.shown
  <2>1. CASE r.error # {}
    BY <2>1, <1>2, <1>3 DEF Answer
  <2>2. CASE r.error = {} /\ IsError(last)
    BY <2>2, <1>2, <1>3 DEF Answer, AtEnd
  <2>3. CASE r.error = {} /\ ~IsError(last) /\ IsOk(last)
    BY <2>3, <1>2, <1>3, <1>4 DEF Answer, AtEnd
  <2>4. CASE r.error = {} /\ ~IsError(last) /\ ~IsOk(last) /\ r.ok # {}
    BY <2>4, <1>2, <1>3 DEF Answer, AtEnd
  <2>5. CASE r.error = {} /\ ~IsError(last) /\ ~IsOk(last) /\ r.ok = {}
    <3>1. a.kind \in {"exited", "empty"} /\ a.shown = r.shown
          /\ a.kind # "error" /\ a.kind # "result"
      BY <2>5, <1>3 DEF Answer, AtEnd
    <3>. QED BY <3>1, <2>5, <1>2
  <2>. QED BY <2>1, <2>2, <2>3, <2>4, <2>5
<1>6. Len(a.shown) = Cardinality(T)
  BY <1>2, <1>5
<1>. QED BY <1>5, <1>6 DEF AnswerRight, E, O, T, a

(* So is the answer to the output that a state holds.                        *)
THEOREM OutputAnswered ==
  ASSUME NEW Said,
         input.kind = "output" => /\ input.lines \in Seq(SUBSET Said)
                                  /\ input.last \in SUBSET Said
  PROVE  RecorderAnswer
BY AnswersRightly DEF RecorderAnswer

-----------------------------------------------------------------------------
(* Keys: what the range coder and base64 write is read as it was.           *)

\* A byte has no more than eight bits.
LEMMA OctetIs ==
  ASSUME KeySizes
  PROVE  /\ Coder!Octet \in 2..256 /\ Coder!Octet = Coder!Power(2, KeyBits)
         /\ Coder!Half = Coder!Octet * Coder!Octet /\ Coder!Word = Coder!Half * Coder!Half
<1> DEFINE P(n) == Coder!Power(2, n)
<1>1. P(0) = 1 /\ \A n \in Nat : P(n) \in Nat /\ P(n + 1) = 2 * P(n)
  BY KeyPowerIs
<1> HIDE DEF P
<1>2. /\ P(0 + 1) = 2 /\ P(1 + 1) = 4 /\ P(2 + 1) = 8 /\ P(3 + 1) = 16 /\ P(4 + 1) = 32
      /\ P(5 + 1) = 64 /\ P(6 + 1) = 128 /\ P(7 + 1) = 256
  <2>1. P(0 + 1) = 2
    BY <1>1
  <2>2. P(1 + 1) = 4
    BY <2>1, <1>1
  <2>3. P(2 + 1) = 8
    BY <2>2, <1>1
  <2>4. P(3 + 1) = 16
    BY <2>3, <1>1
  <2>5. P(4 + 1) = 32
    BY <2>4, <1>1
  <2>6. P(5 + 1) = 64
    BY <2>5, <1>1
  <2>7. P(6 + 1) = 128
    BY <2>6, <1>1
  <2>8. P(7 + 1) = 256
    BY <2>7, <1>1
  <2>. QED BY <2>1, <2>2, <2>3, <2>4, <2>5, <2>6, <2>7, <2>8
<1>3. KeyBits \in {0 + 1, 1 + 1, 2 + 1, 3 + 1, 4 + 1, 5 + 1, 6 + 1, 7 + 1}
  BY DEF KeySizes
<1>4. P(KeyBits) \in 2..256
  BY <1>2, <1>3
<1>. QED BY <1>4 DEF P, Coder!Octet, Coder!Half, Coder!Word

-----------------------------------------------------------------------------
(* The interval of the coder.                                               *)

\* What three bytes of a word count.
Rest3 == Coder!Octet * Coder!Half

\* The widths of the coder.
LEMMA WidthsAre ==
  ASSUME KeySizes
  PROVE  /\ Coder!Octet \in Nat /\ Coder!Octet >= 2 /\ Coder!Octet <= 256
         /\ Coder!Half \in Nat /\ Coder!Half >= 4 /\ Coder!Half = Coder!Octet * Coder!Octet
         /\ Rest3 \in Nat /\ Rest3 >= 8
         /\ Coder!Word \in Nat /\ Coder!Word > Rest3 /\ Coder!Word = Coder!Octet * Rest3
         /\ Coder!Word = Coder!Half * Coder!Half /\ Coder!Half \div 4 \in Nat \ {0}
         /\ Coder!Word \div 16 \in Nat
<1> DEFINE o == Coder!Octet
           h == Coder!Half
           t == Rest3
           w == Coder!Word
<1>1. o \in Nat /\ o >= 2 /\ o <= 256 /\ h = o * o /\ w = h * h /\ t = o * h
  BY OctetIs DEF Rest3
<1> HIDE DEF o, h, t, w
<1>2. h \in Nat /\ h >= 4
  <2>1. o * 2 <= o * o /\ o * o \in Int
    BY <1>1, Monotone
  <2>. QED BY <2>1, <1>1
<1>3. t \in Nat /\ t >= 8
  <2>1. o * h \in Int /\ 2 * h <= h * o /\ h * o = o * h
    BY <1>1, <1>2, Monotone, Products
  <2>. QED BY <2>1, <1>1, <1>2
<1>4. w \in Nat /\ w > t /\ w = o * t
  <2>1. o * (o * h) = (o * o) * h
    BY <1>1, <1>2, Products
  <2>2. w = o * t
    BY <2>1, <1>1
  <2>3. t * 2 <= t * o /\ t * o = o * t /\ o * t \in Int
    BY <1>1, <1>3, Monotone, Products
  <2>. QED BY <2>2, <2>3, <1>3
<1>5. h \div 4 \in Nat \ {0} /\ w \div 16 \in Nat
  BY <1>2, <1>4
<1>. QED BY <1>1, <1>2, <1>3, <1>4, <1>5 DEF o, h, t, w

\* The predictor stays one, and its guess is less than half a word.
LEMMA PredictorIs ==
  ASSUME KeySizes
  PROVE  /\ Coder!Fresh \in Coder!Models
         /\ \A m \in Coder!Models : /\ Coder!Predicted(m) \in 0..Coder!Half - 1
                                    /\ \A bit \in {0, 1} : Coder!Learned(m, bit) \in Coder!Models
<1> DEFINE o == Coder!Octet
           h == Coder!Half
           w == Coder!Word
<1>1. /\ o \in Nat /\ o >= 2 /\ h \in Nat /\ h >= 4 /\ h = o * o /\ w \in Nat /\ w > 0
      /\ w = h * h /\ h \div 4 \in Nat \ {0} /\ w \div 16 \in Nat
  BY WidthsAre
<1>2. Coder!Octets = 0..o - 1 /\ Coder!Words = 0..w - 1
  BY DEF Coder!Octets, Coder!Words
<1> USE <1>1
<1>3. \A x \in Int : x % o \in 0..o - 1 /\ x % w \in 0..w - 1
  OBVIOUS
<1>4. Coder!Fresh \in Coder!Models
  <2>1. \A i \in 0..h - 1 : Coder!Guess(i) \in Int
    <3> TAKE i \in 0..h - 1
    <3>1. i \in Nat /\ 0 \in Nat /\ 1 \in Nat /\ KeyBits \in Nat
      BY DEF KeySizes
    <3>2. \A k \in Nat : Coder!Down(i, k, 2) \in Nat
      BY <3>1, KeyDownIs
    <3>3. Coder!BitOf(i, 0) \in Int /\ Coder!BitOf(i, 1) \in Int
      BY <3>1, <3>2 DEF Coder!BitOf
    <3> DEFINE S == {k \in 2..KeyBits - 1 : Coder!BitOf(i, k) = 1}
    <3>4. Cardinality(S) \in Nat
      <4>1. IsFiniteSet(2..KeyBits - 1) /\ S \subseteq 2..KeyBits - 1
        BY <3>1, FS_Interval
      <4> HIDE DEF S
      <4>. QED BY <4>1, FS_Subset, FS_CardinalityType
    <3>5. Coder!Guess(i) = 2 * Coder!BitOf(i, 0) + 2 * Coder!BitOf(i, 1) + Cardinality(S) + 3
      BY DEF Coder!Guess, Coder!Cardinality, Cardinality
    <3> HIDE DEF S
    <3>. QED BY <3>3, <3>4, <3>5
  <2> HIDE DEF h, w, o
  <2>2. \A i \in 0..h - 1 : (Coder!Guess(i) * (w \div 16) + FirstCount) % w \in 0..w - 1
    <3> TAKE i \in 0..h - 1
    <3>1. Coder!Guess(i) * (w \div 16) + FirstCount \in Int
      BY <2>1 DEF KeySizes
    <3>. QED BY <3>1, <1>3
  <2>3. 102 % o \in 0..o - 1 /\ 0 \in 0..o - 1
    BY <1>3
  <2>. QED BY <2>2, <2>3, <1>2 DEF Coder!Fresh, Coder!Models, o, h, w
<1>5. ASSUME NEW m \in Coder!Models
      PROVE  /\ Coder!Predicted(m) \in 0..h - 1
             /\ \A bit \in {0, 1} : Coder!Learned(m, bit) \in Coder!Models
  <2>1. m.prev \in 0..o - 1 /\ m.order \in [0..o - 1 -> 0..o - 1]
        /\ m.ctx \in [0..h - 1 -> 0..w - 1]
    BY <1>2 DEF Coder!Models
  <2>2. Coder!State(m) \in 0..h - 1
    <3>1. m.order[m.prev] \in 0..o - 1
      BY <2>1
    <3>2. m.prev * o <= (o - 1) * o /\ (o - 1) * o = o * o - o /\ m.prev * o \in Int
          /\ 0 <= m.prev * o
      <4> DEFINE x == m.prev
      <4>1. x \in Int /\ 0 <= x /\ x <= o - 1 /\ o \in Int /\ 0 <= o
        BY <2>1
      <4> HIDE DEF o, h, w, x
      <4>2. o * x <= o * (o - 1) /\ o * 0 <= o * x
        BY <4>1, Monotone
      <4>3. o * x = x * o /\ o * (o - 1) = o * o - o /\ o * x \in Int
            /\ (o - 1) * o = o * (o - 1) /\ o * 0 = 0
        BY <4>1, Products
      <4>4. x * o <= (o - 1) * o /\ (o - 1) * o = o * o - o /\ x * o \in Int /\ 0 <= x * o
        BY <4>2, <4>3
      <4>. QED BY <4>4 DEF x
    <3>3. Coder!State(m) = m.prev * o + m.order[m.prev]
      BY DEF Coder!State
    <3> DEFINE x == m.order[m.prev]
               y == m.prev * o
               z == o * o
    <3> HIDE DEF x
    <3>4. x \in 0..o - 1 /\ y \in Int /\ 0 <= y /\ y <= z - o /\ z \in Int
          /\ Coder!State(m) = y + x /\ h = z
      <4>1. z \in Int
        BY Ints
      <4>. QED BY <4>1, <3>1, <3>2, <3>3 DEF x
    <3> HIDE DEF o, h, w, y, z
    <3>. QED BY <3>4
  <2>3. m.ctx[Coder!State(m)] \in 0..w - 1
    BY <2>1, <2>2
  <2>4. Coder!Predicted(m) \in 0..h - 1
    <3> DEFINE c == m.ctx[Coder!State(m)]
    <3> HIDE DEF c, o, h, w
    <3>1. c \in Nat /\ c < h * h
      BY <2>3 DEF c
    <3>2. c \div h < h /\ c \div h \in Nat
      <4> DEFINE q == c \div h
                 r == c % h
                 hh == h * h
      <4>1. c = q * h + r /\ r \in 0..h - 1 /\ q \in Int
        <5>1. h \in Nat \ {0} /\ c \in Int
          BY <3>1
        <5>. QED BY <5>1, DivMod
      <4>2. hh \in Int /\ c \in Nat /\ c < hh
        BY <3>1, Ints
      <4> HIDE DEF q, r
      <4>3. q < h
        <5> SUFFICES ASSUME h <= q PROVE FALSE
          BY <4>1
        <5> DEFINE x == q * h
        <5>1. hh <= x /\ x \in Int
          BY <4>1, Monotone, Products
        <5> HIDE DEF x, hh
        <5>2. c = x + r
          BY <4>1 DEF x
        <5>. QED BY <5>1, <5>2, <4>1, <4>2
      <4>4. q >= 0
        <5> SUFFICES ASSUME q <= -1 PROVE FALSE
          BY <4>1
        <5> DEFINE x == q * h
        <5>1. x <= -h /\ x \in Int
          <6>1. h * q <= h * (-1) /\ h * q = q * h /\ h * q \in Int /\ h * (-1) = -h
            BY <4>1, Monotone, Products
          <6>. QED BY <6>1
        <5> HIDE DEF x
        <5>2. c = x + r
          BY <4>1 DEF x
        <5>. QED BY <5>1, <5>2, <4>1, <4>2
      <4>. QED BY <4>1, <4>3, <4>4 DEF q
    <3>3. Coder!Predicted(m) = c \div h
      BY DEF Coder!Predicted, c, h
    <3>. QED BY <3>2, <3>3
  <2>5. ASSUME NEW bit \in {0, 1} PROVE Coder!Learned(m, bit) \in Coder!Models
    <3> DEFINE next == 2 * m.prev + bit
               c == m.ctx[Coder!State(m)]
    <3>1. (IF next >= o THEN 0 ELSE next) \in 0..o - 1
      <4>1. next \in Nat
        <5>1. m.prev \in Nat
          BY <2>1
        <5>. QED BY <5>1
      <4> HIDE DEF o, next
      <4>. QED BY <4>1
    <3>2. (2 * m.order[m.prev] + bit) % o \in 0..o - 1
      <4>1. m.order[m.prev] \in 0..o - 1
        BY <2>1
      <4> HIDE DEF o
      <4>2. 2 * m.order[m.prev] + bit \in Int
        BY <4>1
      <4>. QED BY <4>2, <1>3
    <3>3. Coder!Adapted(c, bit) \in 0..w - 1
      <4>1. c \in 0..w - 1
        BY <2>3
      <4> HIDE DEF c
      <4>2. c % o \in Nat /\ c \div (h \div 4) \in Int
        BY <4>1, <1>3
      <4>3. Coder!Rate(c % o) \in Int
        <5>1. 2 * (c % o) + 3 \in Nat \ {0} /\ h \div 2 \in Int
          BY <4>2
        <5>2. (h \div 2) \div (2 * (c % o) + 3) \in Int
          <6> HIDE DEF h, o
          <6>. QED BY <5>1
        <5>. QED BY <5>2 DEF Coder!Rate
      <4> DEFINE r == Coder!Rate(c % o)
                 p == c \div (h \div 4)
                 x == bit * 4 * h - p
                 moved == x * r
                 y == c + 1 + (moved - (moved % o))
      <4>4. Coder!Adapted(c, bit) = IF c % o >= RateLimit THEN c ELSE y % w
        BY DEF Coder!Adapted, o, h, w
      <4> HIDE DEF r, p
      <4>5. r \in Int /\ p \in Int
        BY <4>2, <4>3 DEF r, p
      <4> HIDE DEF h, o, w
      <4>6. x \in Int
        BY <4>5
      <4> HIDE DEF x
      <4>7. moved \in Int
        BY <4>5, <4>6, Ints
      <4> HIDE DEF moved
      <4>8. moved % o \in Int
        BY <4>7, <1>3
      <4>9. y \in Int
        BY <4>1, <4>7, <4>8
      <4> HIDE DEF y
      <4>10. y % w \in 0..w - 1
        BY <4>9, <1>3
      <4>. QED BY <4>1, <4>4, <4>10
    <3>4. Coder!Learned(m, bit) =
            [prev |-> IF next >= o THEN 0 ELSE next,
             order |-> [m.order EXCEPT ![m.prev] = (2 * @ + bit) % o],
             ctx |-> [m.ctx EXCEPT ![Coder!State(m)] = Coder!Adapted(@, bit)]]
      BY DEF Coder!Learned
    <3>5. [m.order EXCEPT ![m.prev] = (2 * @ + bit) % o] \in [0..o - 1 -> 0..o - 1]
      BY <3>2, <2>1
    <3>6. [m.ctx EXCEPT ![Coder!State(m)] = Coder!Adapted(@, bit)] \in [0..h - 1 -> 0..w - 1]
      BY <3>3, <2>1, <2>2
    <3> DEFINE pr == IF next >= o THEN 0 ELSE next
               ord == [m.order EXCEPT ![m.prev] = (2 * @ + bit) % o]
               cx == [m.ctx EXCEPT ![Coder!State(m)] = Coder!Adapted(@, bit)]
    <3>7. pr \in 0..o - 1 /\ ord \in [0..o - 1 -> 0..o - 1] /\ cx \in [0..h - 1 -> 0..w - 1]
          /\ Coder!Learned(m, bit) = [prev |-> pr, order |-> ord, ctx |-> cx]
      BY <3>1, <3>4, <3>5, <3>6
    <3> HIDE DEF pr, ord, cx, next
    <3>8. Coder!Models = [prev : 0..o - 1, order : [0..o - 1 -> 0..o - 1],
                          ctx : [0..h - 1 -> 0..w - 1]]
      BY <1>2 DEF Coder!Models
    <3> HIDE DEF o, h, w
    <3>9. \A x \in 0..o - 1, y \in [0..o - 1 -> 0..o - 1], z \in [0..h - 1 -> 0..w - 1] :
            [prev |-> x, order |-> y, ctx |-> z]
              \in [prev : 0..o - 1, order : [0..o - 1 -> 0..o - 1], ctx : [0..h - 1 -> 0..w - 1]]
      OBVIOUS
    <3>10. [prev |-> pr, order |-> ord, ctx |-> cx]
              \in [prev : 0..o - 1, order : [0..o - 1 -> 0..o - 1], ctx : [0..h - 1 -> 0..w - 1]]
      BY <3>7, <3>9, Zenon
    <3>. QED BY <3>7, <3>8, <3>10, Zenon
  <2>. QED BY <2>4, <2>5
<1>. QED BY <1>4, <1>5

\* The middle divides an interval of two or more in two.
LEMMA MiddleIs ==
  ASSUME KeySizes, NEW lo \in Coder!Words, NEW hi \in Coder!Words, lo < hi,
         NEW p \in 0..Coder!Half - 1
  PROVE  Coder!Middle(lo, hi, p) \in Coder!Words /\ lo <= Coder!Middle(lo, hi, p)
         /\ Coder!Middle(lo, hi, p) < hi
<1> DEFINE h == Coder!Half
           g == hi - lo
           q == g \div h
           r == g % h
           s == (r * p) \div h
<1>1. h \in Nat \ {0} /\ Coder!Words = 0..Coder!Word - 1 /\ Coder!Word \in Nat
  BY WidthsAre DEF Coder!Words
<1> HIDE DEF h
<1>2. g \in Nat /\ g > 0 /\ lo \in Nat /\ hi \in Nat /\ p \in Nat /\ p <= h - 1
  BY <1>1 DEF h
<1> HIDE DEF g
<1>3. g = q * h + r /\ r \in 0..h - 1 /\ q \in Int
  BY <1>1, <1>2, DivMod
<1> HIDE DEF q, r
<1>4. q >= 0
  <2> SUFFICES ASSUME q <= -1 PROVE FALSE
    BY <1>3
  <2>1. h * q <= h * (-1) /\ h * q = q * h /\ h * q \in Int /\ h * (-1) = -h
    BY <1>1, <1>3, Monotone, Products
  <2>. QED BY <2>1, <1>1, <1>2, <1>3
<1>5. r * p \in Int /\ 0 <= r * p /\ r * p <= r * (h - 1) /\ r * (h - 1) = r * h - r
      /\ r * h \in Int
  <2>1. r * 0 <= r * p /\ r * p <= r * (h - 1)
    BY <1>1, <1>2, <1>3, Monotone
  <2>2. r * (h - 1) = r * h - r /\ r * h \in Int /\ r * p \in Int
    BY <1>1, <1>2, <1>3, Products
  <2>. QED BY <2>1, <2>2, <1>3
<1>6. r * p = s * h + ((r * p) % h) /\ ((r * p) % h) \in 0..h - 1 /\ s \in Int
  BY <1>1, <1>5, DivMod
<1> DEFINE x == r * p
           rh == r * h
           rest == (r * p) % h
<1> HIDE DEF s
<1>7. s >= 0 /\ s <= r /\ (r > 0 => s < r)
  <2> HIDE DEF x, rh, rest
  <2>1. x \in Int /\ 0 <= x /\ x <= rh - r /\ rh \in Int /\ x = s * h + rest /\ rest \in 0..h - 1
    BY <1>5, <1>6 DEF x, rh, rest
  <2>2. s >= 0
    <3> SUFFICES ASSUME s <= -1 PROVE FALSE
      BY <1>6
    <3>1. h * s <= h * (-1) /\ h * s = s * h /\ h * s \in Int /\ h * (-1) = -h
      BY <1>1, <1>6, Monotone, Products
    <3>. QED BY <3>1, <2>1, <1>1
  <2>3. s < r \/ r = 0
    <3> SUFFICES ASSUME r <= s, r > 0 PROVE FALSE
      BY <1>3, <1>6
    <3>1. h * r <= h * s /\ h * s = s * h /\ h * s \in Int /\ h * r = rh
      BY <1>1, <1>3, <1>6, Monotone, Products DEF rh
    <3>. QED BY <3>1, <2>1, <1>1, <1>3
  <2>4. r = 0 => s = 0
    <3> SUFFICES ASSUME r = 0, s >= 1 PROVE FALSE
      BY <2>2, <1>6
    <3>1. h * 1 <= h * s /\ h * s = s * h /\ h * s \in Int /\ rh = 0
      BY <1>1, <1>3, <1>6, Monotone, Products DEF rh
    <3>. QED BY <3>1, <2>1, <1>1, <1>3
  <2>. QED BY <2>2, <2>3, <2>4, <1>3, <1>6
<1>8. q * p \in Int /\ 0 <= q * p /\ q * p <= q * h - q /\ q * h \in Int
  <2>1. q * 0 <= q * p /\ q * p <= q * (h - 1)
    BY <1>1, <1>2, <1>3, <1>4, Monotone
  <2>2. q * (h - 1) = q * h - q /\ q * h \in Int /\ q * p \in Int
    BY <1>1, <1>2, <1>3, Products
  <2>. QED BY <2>1, <2>2, <1>3
<1>9. Coder!Middle(lo, hi, p) = lo + q * p + s
  BY DEF Coder!Middle, q, r, s, h, g
<1> DEFINE qp == q * p
           qh == q * h
           m == lo + qp + s
<1>10. 0 <= qp + s /\ qp + s < g /\ qp + s \in Int
  <2>1. qp \in Int /\ 0 <= qp /\ qp <= qh - q /\ qh \in Int /\ g = qh + r
    BY <1>8, <1>3
  <2> HIDE DEF qp, qh
  <2>2. CASE r > 0
    BY <2>1, <2>2, <1>3, <1>4, <1>6, <1>7
  <2>3. CASE r = 0
    <3>1. q > 0
      <4> SUFFICES ASSUME q = 0 PROVE FALSE
        BY <1>3, <1>4
      <4>1. qh = 0
        BY <1>1 DEF qh
      <4>. QED BY <4>1, <2>1, <2>3, <1>2
    <3>. QED BY <3>1, <2>1, <2>3, <1>3, <1>6, <1>7
  <2>. QED BY <2>2, <2>3, <1>3
<1> HIDE DEF qp
<1>11. lo + qp + s \in Int /\ lo <= lo + qp + s /\ lo + qp + s < hi
  <2>1. g = hi - lo
    BY DEF g
  <2>2. qp \in Int
    BY <1>8 DEF qp
  <2>. QED BY <2>1, <2>2, <1>10, <1>2, <1>6
<1>12. Coder!Middle(lo, hi, p) = lo + qp + s
  BY <1>9 DEF qp
<1>. QED BY <1>11, <1>12, <1>1, <1>2

\* A digit more.
LEMMA DigitMore ==
  ASSUME NEW o \in Nat \ {0}, NEW n \in Nat, NEW x \in 0..n - 1, NEW d \in 0..o - 1
  PROVE  x * o + d \in 0..n * o - 1 /\ x * o \in Nat
<1> DEFINE xo == x * o
           no == n * o
<1>1. o * 0 <= o * x /\ o * x <= o * (n - 1)
  BY Monotone
<1>2. o * x = xo /\ o * (n - 1) = no - o /\ xo \in Int /\ no \in Int /\ o * 0 = 0
  BY Products
<1> HIDE DEF xo, no
<1>3. xo + d \in 0..no - 1 /\ xo \in Nat
  BY <1>1, <1>2
<1>. QED BY <1>3 DEF xo, no

\* A word's first byte, and the word after it.
LEMMA ShiftIs ==
  ASSUME KeySizes, NEW x \in Coder!Words, NEW low \in Coder!Octets
  PROVE  /\ Coder!TopByte(x) \in Coder!Octets /\ x % Rest3 \in 0..Rest3 - 1
         /\ x = Coder!TopByte(x) * Rest3 + (x % Rest3)
         /\ Coder!Shift(x, low) = (x % Rest3) * Coder!Octet + low
         /\ Coder!Shift(x, low) \in Coder!Words
<1> DEFINE o == Coder!Octet
           t == Rest3
           w == Coder!Word
           q == x \div t
           r == x % t
           ro == r * o
           qw == q * w
<1>1. /\ o \in Nat \ {0} /\ t \in Nat \ {0} /\ w \in Nat \ {0} /\ w = o * t
      /\ x \in 0..w - 1 /\ low \in 0..o - 1 /\ x \in Int
      /\ Coder!Words = 0..w - 1 /\ Coder!Octets = 0..o - 1
  BY WidthsAre DEF Coder!Words, Coder!Octets
<1> HIDE DEF o, t, w
<1>2. x = q * t + r /\ r \in 0..t - 1 /\ q \in Int
  BY <1>1, DivMod
<1>3. q \in 0..o - 1
  <2>1. x \in 0..t * o - 1
    BY <1>1, Products
  <2>. QED BY <2>1, <1>1, QuotientLess
<1> HIDE DEF q, r
<1>4. ro + low \in 0..w - 1 /\ ro \in Nat /\ ro \in 0..w - 1
  <2>1. ro + low \in 0..t * o - 1 /\ ro + 0 \in 0..t * o - 1 /\ ro \in Nat
    <3>1. 0 \in 0..o - 1
      BY <1>1
    <3>. QED BY <3>1, <1>1, <1>2, DigitMore
  <2>2. t * o = w
    BY <1>1, Products
  <2> HIDE DEF ro
  <2>. QED BY <2>1, <2>2
<1>5. x * o = qw + ro
  <2>1. (q * t + r) * o = (q * t) * o + r * o /\ (q * t) * o = q * (t * o) /\ t * o = o * t
    BY <1>1, <1>2, Products
  <2>. QED BY <2>1, <1>1, <1>2
<1>6. (x * o) % w = ro
  <2> HIDE DEF ro
  <2>1. (q * w + ro) % w = ro
    <3>1. w \in Nat \ {0} /\ q \in Int /\ ro \in 0..w - 1
      BY <1>1, <1>2, <1>4
    <3>. QED BY <3>1, DivModUnique
  <2>. QED BY <2>1, <1>5
<1>7. Coder!TopByte(x) = q /\ Coder!Shift(x, low) = ro + low
  BY <1>6 DEF Coder!TopByte, Coder!Shift, q, o, w, t, Rest3
<1>. QED BY <1>1, <1>2, <1>3, <1>4, <1>7 DEF r, o, t

\* The byte at a place of what was written; after the last come zeros.
KeyAt(F, i) == IF i <= Len(F) THEN F[i] ELSE 0

\* The word that begins after the first n bytes.
Window(F, n) ==
  ((KeyAt(F, n + 1) * Coder!Octet + KeyAt(F, n + 2)) * Coder!Octet + KeyAt(F, n + 3))
    * Coder!Octet + KeyAt(F, n + 4)

\* Four digits, the first apart.
LEMMA FourDigits ==
  ASSUME NEW o \in Int, NEW a \in Int, NEW b \in Int, NEW c \in Int, NEW d \in Int
  PROVE  ((a * o + b) * o + c) * o + d = a * (o * (o * o)) + ((b * o + c) * o + d)
<1> DEFINE ao == a * o
           bo == b * o
           aoo == ao * o
           boo == bo * o
<1>1. ao \in Int /\ bo \in Int /\ aoo \in Int /\ boo \in Int /\ c * o \in Int
  BY Ints
<1>2. (ao + b) * o = aoo + bo /\ (ao + b) * o \in Int
  BY <1>1, Products
<1>3. (aoo + bo + c) * o = aoo * o + boo + c * o
  <2> HIDE DEF ao, aoo, bo
  <2>1. (aoo + bo + c) * o = (aoo + bo) * o + c * o /\ (aoo + bo) * o = aoo * o + bo * o
    BY <1>1, Products
  <2>. QED BY <2>1
<1>4. (bo + c) * o = boo + c * o
  BY <1>1, Products
<1>5. aoo * o = a * (o * (o * o))
  <2>1. o * o \in Int /\ o * (o * o) \in Int
    BY Ints
  <2>2. (a * o) * o = a * (o * o) /\ (a * (o * o)) * o = a * ((o * o) * o)
        /\ (o * o) * o = o * (o * o)
    BY <2>1, Products
  <2>. QED BY <2>2
<1> DEFINE x == aoo * o
           co == c * o
<1>6. x \in Int /\ co \in Int
  BY <1>1, Ints
<1> HIDE DEF ao, bo, aoo, boo
<1>7. ((a * o + b) * o + c) * o + d = (aoo + bo + c) * o + d
  BY <1>2 DEF ao, bo, aoo
<1>8. (b * o + c) * o + d = (bo + c) * o + d
  BY DEF bo
<1>. QED BY <1>1, <1>3, <1>4, <1>5, <1>6, <1>7, <1>8

\* A word of what was written.
LEMMA WindowIs ==
  ASSUME KeySizes, NEW F \in Seq(Coder!Octets), NEW n \in Nat
  PROVE  /\ Window(F, n) \in Coder!Words /\ KeyAt(F, n + 5) \in Coder!Octets
         /\ Coder!TopByte(Window(F, n)) = KeyAt(F, n + 1)
         /\ Coder!Shift(Window(F, n), KeyAt(F, n + 5)) = Window(F, n + 1)
<1> DEFINE o == Coder!Octet
           h == Coder!Half
           t == Rest3
           w == Coder!Word
           a == KeyAt(F, n + 1)
           b == KeyAt(F, n + 2)
           c == KeyAt(F, n + 3)
           d == KeyAt(F, n + 4)
           e == KeyAt(F, n + 5)
           s == (b * o + c) * o + d
<1>1. /\ o \in Nat \ {0} /\ t \in Nat \ {0} /\ w \in Nat \ {0} /\ w = o * t /\ h = o * o /\ t = o * h
      /\ Coder!Words = 0..w - 1 /\ Coder!Octets = 0..o - 1 /\ h \in Nat
  <2>1. t = o * h
    BY DEF Rest3
  <2>2. Coder!Words = 0..w - 1 /\ Coder!Octets = 0..o - 1
    BY DEF Coder!Words, Coder!Octets
  <2>3. /\ o \in Nat /\ o >= 2 /\ t \in Nat /\ t >= 8 /\ w \in Nat /\ w > t /\ w = o * t
        /\ h = o * o /\ h \in Nat
    BY WidthsAre
  <2> HIDE DEF o, h, t, w
  <2>4. o \in Nat \ {0} /\ t \in Nat \ {0} /\ w \in Nat \ {0}
    BY <2>3
  <2>. QED BY <2>1, <2>2, <2>3, <2>4
<1>2. /\ a \in 0..o - 1 /\ b \in 0..o - 1 /\ c \in 0..o - 1 /\ d \in 0..o - 1 /\ e \in 0..o - 1
  <2> HIDE DEF o
  <2>1. ASSUME NEW i \in Nat \ {0} PROVE KeyAt(F, i) \in 0..o - 1
    <3>1. CASE i <= Len(F)
      <4>1. i \in 1..Len(F)
        BY <3>1
      <4>. QED BY <4>1, <3>1, <1>1 DEF KeyAt
    <3>2. CASE ~(i <= Len(F))
      BY <3>2, <1>1 DEF KeyAt
    <3>. QED BY <3>1, <3>2
  <2>2. n + 1 \in Nat \ {0} /\ n + 2 \in Nat \ {0} /\ n + 3 \in Nat \ {0} /\ n + 4 \in Nat \ {0}
        /\ n + 5 \in Nat \ {0}
    OBVIOUS
  <2>. QED BY <2>1, <2>2
<1>3. Window(F, n) = ((a * o + b) * o + c) * o + d
  BY DEF Window
<1>4. Window(F, n + 1) = s * o + e
  <2>1. (n + 1) + 1 = n + 2 /\ (n + 1) + 2 = n + 3 /\ (n + 1) + 3 = n + 4 /\ (n + 1) + 4 = n + 5
    OBVIOUS
  <2>2. Window(F, n + 1) =
          ((KeyAt(F, (n + 1) + 1) * Coder!Octet + KeyAt(F, (n + 1) + 2)) * Coder!Octet
             + KeyAt(F, (n + 1) + 3)) * Coder!Octet + KeyAt(F, (n + 1) + 4)
    BY DEF Window
  <2>. QED BY <2>1, <2>2
<1> HIDE DEF a, b, c, d, e, o, h, t, w
<1>5. b * o + c \in 0..h - 1 /\ s \in 0..t - 1
  <2>1. b * o + c \in 0..o * o - 1
    BY <1>1, <1>2, DigitMore
  <2> DEFINE x == b * o + c
  <2> HIDE DEF x
  <2>2. x \in 0..h - 1
    BY <2>1, <1>1 DEF x
  <2>3. x * o + d \in 0..h * o - 1
    BY <2>2, <1>1, <1>2, DigitMore
  <2>4. h * o = t
    BY <1>1, Products
  <2>. QED BY <2>2, <2>3, <2>4 DEF x
<1> DEFINE win == Window(F, n)
           lowAt == a * t
<1>6. win = lowAt + s
  <2>1. ((a * o + b) * o + c) * o + d = a * (o * (o * o)) + ((b * o + c) * o + d)
    BY <1>1, <1>2, FourDigits
  <2>. QED BY <2>1, <1>1, <1>3
<1>7. win \in 0..w - 1
  <2>1. a * t + s \in 0..o * t - 1
    BY <1>1, <1>2, <1>5, DigitMore
  <2>. QED BY <2>1, <1>6, <1>1
<1> HIDE DEF s, win
<1>8. win \div t = a /\ win % t = s
  <2>1. t \in Nat \ {0} /\ a \in Int /\ s \in 0..t - 1
    BY <1>1, <1>2, <1>5
  <2>2. (a * t + s) \div t = a /\ (a * t + s) % t = s
    BY <2>1, DivModUnique
  <2>. QED BY <2>2, <1>6
<1>9. Coder!TopByte(win) = a
  BY <1>8 DEF Coder!TopByte, t, Rest3
<1>10. Coder!Shift(win, e) = s * o + e
  <2>1. win \in Coder!Words /\ e \in Coder!Octets
    BY <1>1, <1>2, <1>7
  <2>2. Coder!Shift(win, e) = (win % Rest3) * Coder!Octet + e
    BY <2>1, ShiftIs
  <2>. QED BY <2>2, <1>8 DEF t, o
<1>. QED BY <1>1, <1>2, <1>4, <1>7, <1>9, <1>10 DEF win, a, e

-----------------------------------------------------------------------------
(* The encoder.                                                             *)

\* What F begins with is what e has written, and the word after it is one that
\* e may still write.
WrittenIn(e, F) == /\ Len(e.out) <= Len(F) /\ \A i \in 1..Len(e.out) : F[i] = e.out[i]
              /\ e.lo <= Window(F, Len(e.out)) /\ Window(F, Len(e.out)) <= e.hi

\* The parts of an encoder.
LEMMA EncoderIs ==
  /\ \A e \in Coder!Encoders : /\ e.m \in Coder!Models /\ e.lo \in Coder!Words
                               /\ e.hi \in Coder!Words /\ e.out \in Seq(Coder!Octets)
  /\ \A m \in Coder!Models, lo, hi \in Coder!Words, out \in Seq(Coder!Octets) :
       Coder!Encoder(m, lo, hi, out) \in Coder!Encoders
  /\ \A m, lo, hi, out :
       LET e == Coder!Encoder(m, lo, hi, out)
       IN e.m = m /\ e.lo = lo /\ e.hi = hi /\ e.out = out
BY DEF Coder!Encoders, Coder!Encoder

\* A turn of the encoder's loop.
LEMMA EmitByteIs ==
  ASSUME KeySizes, NEW e \in Coder!Encoders, e.lo <= e.hi
  PROVE  LET f == Coder!EmitByte[e]
             known == Coder!TopByte(e.lo) = Coder!TopByte(e.hi)
         IN /\ f \in Coder!Encoders /\ f.lo <= f.hi /\ f.m = e.m
            /\ ~known => f = e
            /\ known => /\ f = Coder!Encoder(e.m, Coder!Shift(e.lo, 0),
                                             Coder!Shift(e.hi, Coder!Octet - 1),
                                             Append(e.out, Coder!TopByte(e.hi)))
                        /\ e.hi - e.lo + 1 <= Rest3
                        /\ f.hi - f.lo + 1 = (e.hi - e.lo + 1) * Coder!Octet
            /\ \A F \in Seq(Coder!Octets) : WrittenIn(f, F) => WrittenIn(e, F)
<1> DEFINE f == Coder!EmitByte[e]
           o == Coder!Octet
           t == Rest3
           a == Coder!TopByte(e.lo)
           b == Coder!TopByte(e.hi)
           x == e.lo % t
           y == e.hi % t
           next == Coder!Encoder(e.m, Coder!Shift(e.lo, 0), Coder!Shift(e.hi, o - 1),
                                 Append(e.out, b))
<1>1. f = IF a # b THEN e ELSE next
  BY DEF Coder!EmitByte
<1>2. /\ e.m \in Coder!Models /\ e.lo \in Coder!Words /\ e.hi \in Coder!Words
      /\ e.out \in Seq(Coder!Octets)
  BY EncoderIs
<1>3. /\ o \in Nat /\ o >= 2 /\ t \in Nat \ {0} /\ Coder!Octets = 0..o - 1
      /\ Coder!Words \subseteq Nat
  BY WidthsAre DEF Coder!Words, Coder!Octets
<1>4. CASE a # b
  BY <1>1, <1>4
<1>5. CASE a = b
  <2>1. 0 \in Coder!Octets /\ o - 1 \in Coder!Octets
    BY <1>3
  <2>2. /\ a \in Coder!Octets /\ x \in 0..t - 1 /\ e.lo = a * t + x
        /\ Coder!Shift(e.lo, 0) = x * o + 0 /\ Coder!Shift(e.lo, 0) \in Coder!Words
    BY <1>2, <2>1, ShiftIs
  <2>3. /\ b \in Coder!Octets /\ y \in 0..t - 1 /\ e.hi = b * t + y
        /\ Coder!Shift(e.hi, o - 1) = y * o + (o - 1) /\ Coder!Shift(e.hi, o - 1) \in Coder!Words
    BY <1>2, <2>1, ShiftIs
  <2>4. /\ next \in Coder!Encoders /\ next.lo = Coder!Shift(e.lo, 0) /\ next.m = e.m
        /\ next.hi = Coder!Shift(e.hi, o - 1) /\ next.out = Append(e.out, b)
    <3> DEFINE lo == Coder!Shift(e.lo, 0)
               hi == Coder!Shift(e.hi, o - 1)
               out == Append(e.out, b)
    <3>1. out \in Seq(Coder!Octets) /\ e.m \in Coder!Models /\ lo \in Coder!Words
          /\ hi \in Coder!Words
      BY <1>2, <2>2, <2>3
    <3> HIDE DEF lo, hi, out
    <3>2. LET x1 == Coder!Encoder(e.m, lo, hi, out)
          IN x1 \in Coder!Encoders /\ x1.m = e.m /\ x1.lo = lo /\ x1.hi = hi /\ x1.out = out
      BY <3>1, EncoderIs
    <3>. QED BY <3>2 DEF lo, hi, out
  <2>5. f = next
    BY <1>1, <1>5
  <2> DEFINE bt == b * t
             xo == x * o
             yo == y * o
  <2>6. bt \in Int /\ xo \in Int /\ yo \in Int /\ e.lo = bt + x /\ e.hi = bt + y
        /\ (y - x + 1) * o = yo - xo + o /\ a * t = bt
    <3>1. b \in Int /\ x \in Int /\ y \in Int /\ t \in Int /\ o \in Int
      BY <1>3, <2>2, <2>3
    <3>2. (y - x + 1) * o = yo - xo + o
      <4> HIDE DEF x, y, o
      <4>1. (y - x + 1) * o = (y - x) * o + 1 * o /\ (y - x) * o = y * o - x * o
        BY <3>1
      <4>. QED BY <4>1, <3>1
    <3>3. a * t = bt
      BY <1>5
    <3> HIDE DEF a, b, x, y, o, t
    <3>4. bt \in Int /\ xo \in Int /\ yo \in Int
      BY <3>1, Ints
    <3>. QED BY <3>2, <3>3, <3>4, <2>2, <2>3
  <2> HIDE DEF a, b, x, y, o, t, bt, xo, yo, next, f
  <2>7. x <= y /\ e.hi - e.lo + 1 <= t /\ e.hi - e.lo + 1 = y - x + 1
    BY <2>6, <2>2, <2>3, <1>3
  <2>8. xo <= yo
    <3>1. o * x <= o * y
      BY <2>7, <2>2, <2>3, <1>3, Monotone
    <3>2. o * x = xo /\ o * y = yo
      BY <2>2, <2>3, <1>3, Products DEF xo, yo
    <3>. QED BY <3>1, <3>2
  <2>9. f.hi - f.lo + 1 = (e.hi - e.lo + 1) * o /\ f.lo <= f.hi
    <3>1. f.lo = xo /\ f.hi = yo + (o - 1)
      BY <2>2, <2>3, <2>4, <2>5, <2>6, <1>3 DEF xo, yo
    <3>2. (e.hi - e.lo + 1) * o = yo - xo + o
      BY <2>6, <2>7
    <3>. QED BY <3>1, <3>2, <2>6, <2>8, <1>3
  <2>10. ASSUME NEW F \in Seq(Coder!Octets), WrittenIn(f, F) PROVE WrittenIn(e, F)
    <3> DEFINE n == Len(e.out)
               win == Window(F, n)
               win1 == Window(F, n + 1)
               z == win % t
               e5 == KeyAt(F, n + 5)
               zo == z * o
    <3>1. n \in Nat /\ Len(f.out) = n + 1 /\ f.out[n + 1] = b
          /\ \A i \in 1..n : f.out[i] = e.out[i]
      BY <1>2, <2>4, <2>5
    <3>2. n + 1 <= Len(F) /\ F[n + 1] = b /\ \A i \in 1..n : F[i] = e.out[i]
      BY <2>10, <3>1 DEF WrittenIn
    <3>3. KeyAt(F, n + 1) = b
      BY <3>2 DEF KeyAt
    <3>4. win \in Coder!Words /\ e5 \in Coder!Octets /\ Coder!TopByte(win) = b
          /\ Coder!Shift(win, e5) = win1
      BY <3>1, <3>3, WindowIs
    <3>5. win = b * t + z /\ z \in 0..t - 1 /\ win1 = zo + e5
      BY <3>4, ShiftIs DEF t, o
    <3>6. xo <= zo + e5 /\ zo + e5 <= yo + (o - 1)
      <4>1. f.lo <= win1 /\ win1 <= f.hi
        BY <2>10, <3>1 DEF WrittenIn
      <4>2. f.lo = xo /\ f.hi = yo + (o - 1)
        BY <2>2, <2>3, <2>4, <2>5, <2>6, <1>3 DEF xo, yo
      <4>. QED BY <4>1, <4>2, <3>5
    <3>7. x <= z /\ z <= y
      <4> HIDE DEF z, zo, win, win1
      <4>1. zo \in Int /\ z \in Int /\ e5 \in 0..o - 1 /\ x \in Int /\ y \in Int /\ o \in Int
        BY <3>4, <3>5, <2>2, <2>3, <1>3, Ints DEF zo
      <4>2. z + 1 <= x => zo + o <= xo
        <5>1. z + 1 <= x => o * (z + 1) <= o * x
          BY <4>1, <1>3, Monotone
        <5>2. o * (z + 1) = zo + o /\ o * x = xo
          BY <4>1, Products DEF zo, xo
        <5>. QED BY <5>1, <5>2
      <4>3. y + 1 <= z => yo + o <= zo
        <5>1. y + 1 <= z => o * (y + 1) <= o * z
          BY <4>1, <1>3, Monotone
        <5>2. o * (y + 1) = yo + o /\ o * z = zo
          BY <4>1, Products DEF zo, yo
        <5>. QED BY <5>1, <5>2
      <4> HIDE DEF e5
      <4>. QED BY <4>1, <4>2, <4>3, <3>6, <2>6, <1>3
    <3>8. e.lo <= win /\ win <= e.hi
      <4>1. win = bt + z
        BY <3>5 DEF bt
      <4> HIDE DEF z, win
      <4>. QED BY <4>1, <3>5, <3>7, <2>6, <2>2, <2>3
    <3>. QED BY <3>1, <3>2, <3>8 DEF WrittenIn
  <2>11. f \in Coder!Encoders /\ f.m = e.m
    BY <2>4, <2>5
  <2>. QED BY <2>5, <2>7, <2>9, <2>10, <2>11, <1>5 DEF f, next, a, b, o, t
<1>. QED BY <1>4, <1>5

\* After four turns the loop has ended: the interval is wider than three bytes.
LEMMA EmitIs ==
  ASSUME KeySizes, NEW e \in Coder!Encoders, e.lo <= e.hi
  PROVE  LET f == Coder!Emit(e)
         IN /\ f \in Coder!Encoders /\ f.lo < f.hi /\ f.m = e.m
            /\ Coder!TopByte(f.lo) # Coder!TopByte(f.hi)
            /\ \A F \in Seq(Coder!Octets) : WrittenIn(f, F) => WrittenIn(e, F)
<1> DEFINE o == Coder!Octet
           E1 == Coder!EmitByte[e]
           E2 == Coder!EmitByte[E1]
           E3 == Coder!EmitByte[E2]
           E4 == Coder!EmitByte[E3]
           Known(x) == Coder!TopByte(x.lo) = Coder!TopByte(x.hi)
           Gap(x) == x.hi - x.lo + 1
           Turns(x, y) == /\ y \in Coder!Encoders /\ y.lo <= y.hi /\ y.m = x.m
                          /\ ~Known(x) => y = x
                          /\ Known(x) => Gap(x) <= Rest3 /\ Gap(y) = Gap(x) * o
                          /\ \A F \in Seq(Coder!Octets) : WrittenIn(y, F) => WrittenIn(x, F)
<1>1. Turns(e, E1)
  BY EmitByteIs
<1> HIDE DEF E1
<1>2. Turns(E1, E2)
  BY <1>1, EmitByteIs
<1> HIDE DEF E2
<1>3. Turns(E2, E3)
  BY <1>2, EmitByteIs
<1> HIDE DEF E3
<1>4. Turns(E3, E4)
  BY <1>3, EmitByteIs
<1> HIDE DEF E4
<1>5. Coder!Emit(e) = E4
  BY DEF Coder!Emit, E1, E2, E3, E4
<1>6. \A x \in Coder!Encoders : x.lo \in Nat /\ x.hi \in Nat
  <2>1. Coder!Words \subseteq Nat
    BY WidthsAre DEF Coder!Words
  <2>. QED BY <2>1, EncoderIs
<1>7. ~Known(E4)
  <2> SUFFICES ASSUME Known(E4) PROVE FALSE
    OBVIOUS
  <2>1. Known(E3) /\ Known(E2) /\ Known(E1) /\ Known(e)
    BY <1>1, <1>2, <1>3, <1>4
  <2>2. Gap(E1) = Gap(e) * o /\ Gap(E2) = Gap(E1) * o /\ Gap(E3) = Gap(E2) * o
        /\ Gap(E4) = Gap(E3) * o
    BY <2>1, <1>1, <1>2, <1>3, <1>4
  <2>3. Gap(E4) <= Rest3
    <3>1. E4 \in Coder!Encoders /\ E4.lo <= E4.hi
      BY <1>4
    <3>. QED BY <3>1, EmitByteIs
  <2> DEFINE g == Gap(e)
             g1 == Gap(E1)
             g2 == Gap(E2)
             g3 == Gap(E3)
             g4 == Gap(E4)
  <2>4. g \in Int /\ g1 \in Int /\ g2 \in Int /\ g3 \in Int /\ g4 \in Int /\ g >= 1
    <3>1. /\ e.lo \in Nat /\ e.hi \in Nat /\ E1.lo \in Nat /\ E1.hi \in Nat /\ E2.lo \in Nat
          /\ E2.hi \in Nat /\ E3.lo \in Nat /\ E3.hi \in Nat /\ E4.lo \in Nat /\ E4.hi \in Nat
      BY <1>1, <1>2, <1>3, <1>4, <1>6
    <3>. QED BY <3>1
  <2>5. /\ o \in Nat /\ o >= 2 /\ Coder!Half \in Nat /\ Coder!Half = o * o /\ Rest3 \in Nat
        /\ Rest3 = o * Coder!Half /\ Coder!Word \in Nat /\ Coder!Word = o * Rest3
        /\ Coder!Word > Rest3
    BY WidthsAre DEF Rest3
  <2> HIDE DEF g, g1, g2, g3, g4, o, Known, Gap
  <2>6. g1 = g * o /\ g2 = g1 * o /\ g3 = g2 * o /\ g4 = g3 * o
    BY <2>2 DEF g, g1, g2, g3, g4
  <2>7. g1 >= o
    <3>1. o * 1 <= o * g /\ o * g = g * o
      BY <2>4, <2>5, Monotone, Products
    <3>. QED BY <3>1, <2>5, <2>6
  <2>8. g2 >= Coder!Half
    <3>1. o * o <= o * g1 /\ o * g1 = g1 * o
      BY <2>4, <2>5, <2>7, Monotone, Products
    <3>. QED BY <3>1, <2>5, <2>6
  <2>9. g3 >= Rest3
    <3>1. o * Coder!Half <= o * g2 /\ o * g2 = g2 * o
      BY <2>4, <2>5, <2>8, Monotone, Products
    <3>. QED BY <3>1, <2>5, <2>6
  <2>10. g4 >= Coder!Word
    <3>1. o * Rest3 <= o * g3 /\ o * g3 = g3 * o
      BY <2>4, <2>5, <2>9, Monotone, Products
    <3>. QED BY <3>1, <2>5, <2>6
  <2>. QED BY <2>3, <2>4, <2>5, <2>10 DEF g4
<1>8. E4 \in Coder!Encoders /\ E4.m = e.m /\ E4.lo <= E4.hi
  BY <1>1, <1>2, <1>3, <1>4
<1>9. E4.lo < E4.hi
  <2>1. E4.lo # E4.hi
    BY <1>7
  <2>. QED BY <2>1, <1>6, <1>8
<1>10. \A F \in Seq(Coder!Octets) : WrittenIn(E4, F) => WrittenIn(e, F)
  BY <1>1, <1>2, <1>3, <1>4
<1>. QED BY <1>5, <1>7, <1>8, <1>9, <1>10

\* An encoder with more than one number to choose from.
Open(e) == e \in Coder!Encoders /\ e.lo < e.hi

\* The interval of an encoder that a bit leaves.
Narrowed(e, bit) ==
  LET mid == Coder!Middle(e.lo, e.hi, Coder!Predicted(e.m))
  IN Coder!Encoder(Coder!Learned(e.m, bit), IF bit = 1 THEN e.lo ELSE mid + 1,
                   IF bit = 1 THEN mid ELSE e.hi, e.out)

\* The part of the interval that a bit leaves.
LEMMA NarrowedIs ==
  ASSUME KeySizes, NEW e, Open(e), NEW bit \in {0, 1}
  PROVE  LET n == Narrowed(e, bit)
             mid == Coder!Middle(e.lo, e.hi, Coder!Predicted(e.m))
         IN /\ n \in Coder!Encoders /\ n.lo <= n.hi /\ n.m = Coder!Learned(e.m, bit)
            /\ mid \in Nat /\ n.out = e.out
            /\ n.lo = (IF bit = 1 THEN e.lo ELSE mid + 1)
            /\ n.hi = (IF bit = 1 THEN mid ELSE e.hi)
            /\ \A F \in Seq(Coder!Octets) : WrittenIn(n, F) =>
                 WrittenIn(e, F) /\ bit = (IF Window(F, Len(e.out)) <= mid THEN 1 ELSE 0)
<1> DEFINE mid == Coder!Middle(e.lo, e.hi, Coder!Predicted(e.m))
           n == Narrowed(e, bit)
           lo == IF bit = 1 THEN e.lo ELSE mid + 1
           hi == IF bit = 1 THEN mid ELSE e.hi
<1>1. e \in Coder!Encoders /\ e.m \in Coder!Models /\ e.lo \in Coder!Words
      /\ e.hi \in Coder!Words /\ e.out \in Seq(Coder!Octets) /\ e.lo < e.hi
  BY EncoderIs DEF Open
<1>2. Coder!Predicted(e.m) \in 0..Coder!Half - 1 /\ Coder!Learned(e.m, bit) \in Coder!Models
  BY <1>1, PredictorIs
<1>3. mid \in Coder!Words /\ e.lo <= mid /\ mid < e.hi
  BY <1>1, <1>2, MiddleIs
<1>4. Coder!Words = 0..Coder!Word - 1 /\ Coder!Word \in Nat
  BY WidthsAre DEF Coder!Words
<1> HIDE DEF mid
<1>5. lo \in Coder!Words /\ hi \in Coder!Words /\ lo <= hi /\ e.lo <= lo /\ hi <= e.hi
  BY <1>1, <1>3, <1>4
<1>6. n = Coder!Encoder(Coder!Learned(e.m, bit), lo, hi, e.out)
  BY DEF Narrowed, mid
<1>7. n \in Coder!Encoders /\ n.lo = lo /\ n.hi = hi /\ n.m = Coder!Learned(e.m, bit)
      /\ n.out = e.out
  BY <1>1, <1>2, <1>5, <1>6, EncoderIs
<1>8. ASSUME NEW F \in Seq(Coder!Octets), WrittenIn(n, F)
      PROVE  WrittenIn(e, F) /\ bit = (IF Window(F, Len(e.out)) <= mid THEN 1 ELSE 0)
  <2> DEFINE win == Window(F, Len(e.out))
  <2>1. win \in Nat
    <3>1. Len(e.out) \in Nat
      BY <1>1
    <3>2. win \in Coder!Words
      BY <3>1, WindowIs
    <3>. QED BY <3>2, <1>4
  <2>2. lo <= win /\ win <= hi
    BY <1>7, <1>8 DEF WrittenIn
  <2> HIDE DEF win, n
  <2>3. e.lo <= win /\ win <= e.hi /\ bit = (IF win <= mid THEN 1 ELSE 0)
    BY <2>1, <2>2, <1>1, <1>3, <1>4, <1>5
  <2>. QED BY <2>3, <1>7, <1>8 DEF WrittenIn, win
<1>. QED BY <1>3, <1>4, <1>5, <1>7, <1>8 DEF mid

\* The encoder after a bit.
LEMMA EncodeBitIs ==
  ASSUME KeySizes, NEW e, Open(e), NEW bit \in {0, 1}
  PROVE  LET f == Coder!EncodeBit(bit)[e]
         IN /\ Open(f) /\ f = Coder!Emit(Narrowed(e, bit))
            /\ f.m = Coder!Learned(e.m, bit) /\ Coder!TopByte(f.lo) # Coder!TopByte(f.hi)
            /\ \A F \in Seq(Coder!Octets) : WrittenIn(f, F) =>
                 /\ WrittenIn(e, F)
                 /\ bit = IF Window(F, Len(e.out)) <= Coder!Middle(e.lo, e.hi, Coder!Predicted(e.m))
                          THEN 1 ELSE 0
<1> DEFINE f == Coder!EncodeBit(bit)[e]
           n == Narrowed(e, bit)
<1>1. f = Coder!Emit(n)
  BY DEF Coder!EncodeBit, Open, Narrowed
<1>2. n \in Coder!Encoders /\ n.lo <= n.hi /\ n.m = Coder!Learned(e.m, bit)
  BY NarrowedIs
<1> HIDE DEF n, f
<1>3. /\ f \in Coder!Encoders /\ f.lo < f.hi /\ f.m = n.m
      /\ Coder!TopByte(f.lo) # Coder!TopByte(f.hi)
      /\ \A F \in Seq(Coder!Octets) : WrittenIn(f, F) => WrittenIn(n, F)
  BY <1>1, <1>2, EmitIs
<1>4. \A F \in Seq(Coder!Octets) : WrittenIn(n, F) =>
        /\ WrittenIn(e, F)
        /\ bit = IF Window(F, Len(e.out)) <= Coder!Middle(e.lo, e.hi, Coder!Predicted(e.m))
                 THEN 1 ELSE 0
  BY NarrowedIs DEF n
<1>. QED BY <1>1, <1>2, <1>3, <1>4 DEF Open, f, n

\* A bit of a number is 0 or 1.
LEMMA BitIs ==
  ASSUME NEW v \in Nat, NEW k \in Nat
  PROVE  Coder!BitOf(v, k) \in {0, 1}
<1>1. Coder!Down(v, k, 2) \in Nat
  BY KeyDownIs
<1>. QED BY <1>1 DEF Coder!BitOf

\* The encoders on the way through a byte.
BitRounds(e, byte) ==
  CHOOSE coded : coded = [k \in 0..KeyBits |->
    IF k = 0 THEN Coder!EncodeBit(1)[e]
    ELSE Coder!EncodeBit(Coder!BitOf(byte, KeyBits - k))[coded[k - 1]]]

\* The encoders that are open.
Opens == {e \in Coder!Encoders : e.lo < e.hi}

\* It is what encoding a byte goes through, and stays open.
LEMMA BitRoundsAre ==
  ASSUME KeySizes, NEW e \in Opens, NEW byte \in Coder!Octets
  PROVE  LET c == BitRounds(e, byte)
         IN /\ \A k \in 0..KeyBits : c[k] \in Opens
            /\ c[0] = Coder!EncodeBit(1)[e]
            /\ \A k \in 1..KeyBits :
                 /\ Coder!BitOf(byte, KeyBits - k) \in {0, 1}
                 /\ c[k] = Coder!EncodeBit(Coder!BitOf(byte, KeyBits - k))[c[k - 1]]
            /\ Coder!EncodeByte(byte)[e] = c[KeyBits]
<1> DEFINE c == BitRounds(e, byte)
           bit(k) == Coder!BitOf(byte, KeyBits - k)
           turn == [k \in 1..KeyBits |-> [x \in Opens |-> Coder!EncodeBit(bit(k))[x]]]
           base == Coder!EncodeBit(1)[e]
           Is(coded) == coded = [k \in 0..KeyBits |->
                          IF k = 0 THEN base ELSE Coder!EncodeBit(bit(k))[coded[k - 1]]]
<1>1. byte \in Nat /\ KeyBits \in Nat
  BY WidthsAre DEF Coder!Octets, KeySizes
<1>2. \A k \in 1..KeyBits : bit(k) \in {0, 1}
  <2> TAKE k \in 1..KeyBits
  <2>1. KeyBits - k \in Nat
    BY <1>1
  <2>. QED BY <2>1, <1>1, BitIs
<1> HIDE DEF bit
<1>3. \A x \in Opens, y \in {0, 1} : Coder!EncodeBit(y)[x] \in Opens
  BY EncodeBitIs DEF Open, Opens
<1>4. base \in Opens
  BY <1>3
<1> HIDE DEF base
<1>5. turn \in [1..KeyBits -> [Opens -> Opens]]
      /\ \A k \in 1..KeyBits, x \in Opens : turn[k][x] = Coder!EncodeBit(bit(k))[x]
  BY <1>2, <1>3
<1> HIDE DEF turn
<1>6. PICK g \in [0..KeyBits -> Opens] : Iterates(g, base, KeyBits, turn)
  BY <1>1, <1>4, <1>5, Iteration
<1>7. Is(g)
  <2>1. \A k \in 1..KeyBits : g[k - 1] \in Opens /\ g[k] = turn[k][g[k - 1]]
    BY <1>1, <1>6 DEF Iterates
  <2>2. \A k \in 1..KeyBits : g[k] = Coder!EncodeBit(bit(k))[g[k - 1]]
    BY <2>1, <1>5
  <2>. QED BY <2>2, <1>1, <1>6 DEF Iterates
<1>8. c = CHOOSE coded : Is(coded)
  BY DEF BitRounds, bit, base
<1>9. Is(c)
  BY <1>7, <1>8
<1> HIDE DEF c
<1>10. c[0] = base /\ \A k \in 1..KeyBits : c[k] = Coder!EncodeBit(bit(k))[c[k - 1]]
  BY <1>1, <1>9
<1>11. \A k \in 0..KeyBits : c[k] \in Opens
  <2>1. c[0] \in Opens
    BY <1>4, <1>10
  <2>2. ASSUME NEW k \in 1..KeyBits, c[k - 1] \in Opens PROVE c[k] \in Opens
    BY <2>2, <1>2, <1>3, <1>10
  <2>. QED BY <2>1, <2>2, <1>1, StaysIn
<1>12. Coder!EncodeByte(byte)[e] = BitRounds(e, byte)[KeyBits]
  <2>1. e \in Coder!Encoders
    BY DEF Opens
  <2>. QED BY <2>1 DEF Coder!EncodeByte, BitRounds
<1>. QED BY <1>2, <1>10, <1>11, <1>12 DEF c, bit, base

\* The encoder after a byte.  If in the end it has not gone past what F says, it
\* never has.
LEMMA EncodeByteIs ==
  ASSUME KeySizes, NEW e \in Opens, NEW byte \in Coder!Octets
  PROVE  LET f == Coder!EncodeByte(byte)[e]
             c == BitRounds(e, byte)
         IN /\ f \in Opens
            /\ \A F \in Seq(Coder!Octets) : WrittenIn(f, F) =>
                 WrittenIn(e, F) /\ \A k \in 0..KeyBits : WrittenIn(c[k], F)
<1> DEFINE f == Coder!EncodeByte(byte)[e]
           c == BitRounds(e, byte)
<1>1. /\ \A k \in 0..KeyBits : c[k] \in Opens
      /\ c[0] = Coder!EncodeBit(1)[e]
      /\ \A k \in 1..KeyBits :
           /\ Coder!BitOf(byte, KeyBits - k) \in {0, 1}
           /\ c[k] = Coder!EncodeBit(Coder!BitOf(byte, KeyBits - k))[c[k - 1]]
      /\ f = c[KeyBits]
  BY BitRoundsAre
<1> HIDE DEF c, f
<1>2. KeyBits \in Nat
  BY DEF KeySizes
<1>3. ASSUME NEW F \in Seq(Coder!Octets), WrittenIn(f, F)
      PROVE  WrittenIn(e, F) /\ \A k \in 0..KeyBits : WrittenIn(c[k], F)
  <2> DEFINE D == {x \in Opens : WrittenIn(x, F)}
  <2>1. c[KeyBits] \in D
    BY <1>1, <1>2, <1>3
  <2>2. ASSUME NEW k \in 1..KeyBits, c[k] \in D PROVE c[k - 1] \in D
    <3>1. k - 1 \in 0..KeyBits /\ c[k - 1] \in Opens
      BY <1>1, <1>2
    <3>. QED BY <3>1, <2>2, <1>1, EncodeBitIs DEF Open, Opens
  <2>3. \A k \in 0..KeyBits : c[k] \in D
    <3> HIDE DEF D
    <3>. QED BY <2>1, <2>2, <1>2, StaysBack
  <2>4. WrittenIn(c[0], F)
    BY <2>3, <1>2
  <2>5. WrittenIn(e, F)
    BY <2>4, <1>1, EncodeBitIs DEF Open, Opens
  <2>. QED BY <2>3, <2>5
<1>4. f \in Opens
  BY <1>1, <1>2
<1>. QED BY <1>3, <1>4 DEF f, c

\* The encoder before the first byte, and after each.
Begun == Coder!Encoder(Coder!Fresh, 0, Coder!Word - 1, <<>>)
ByteRounds(raw) ==
  CHOOSE coded : coded = [n \in 0..Len(raw) |->
    IF n = 0 THEN Begun ELSE Coder!EncodeByte(raw[n])[coded[n - 1]]]

\* It is what packing goes through, and stays open.
LEMMA ByteRoundsAre ==
  ASSUME KeySizes, NEW raw \in Seq(Coder!Octets)
  PROVE  LET c == ByteRounds(raw)
         IN /\ \A n \in 0..Len(raw) : c[n] \in Opens
            /\ c[0] = Begun
            /\ \A n \in 1..Len(raw) : c[n] = Coder!EncodeByte(raw[n])[c[n - 1]]
            /\ Coder!Pack(raw) = <<Coder!Tag>> \o Coder!SizeField(Len(raw))
                                   \o Coder!Flush(Coder!EncodeBit(0)[c[Len(raw)]])
<1> DEFINE N == Len(raw)
           c == ByteRounds(raw)
           turn == [k \in 1..N |-> [x \in Opens |-> Coder!EncodeByte(raw[k])[x]]]
           Is(coded) == coded = [k \in 0..N |->
                          IF k = 0 THEN Begun ELSE Coder!EncodeByte(raw[k])[coded[k - 1]]]
<1>1. N \in Nat /\ \A k \in 1..N : raw[k] \in Coder!Octets
  OBVIOUS
<1>2. \A x \in Opens, y \in Coder!Octets : Coder!EncodeByte(y)[x] \in Opens
  BY EncodeByteIs
<1>3. Begun \in Opens /\ Begun.out = <<>> /\ Begun.lo = 0 /\ Begun.hi = Coder!Word - 1
      /\ Begun.m = Coder!Fresh
  <2>1. 0 \in Coder!Words /\ Coder!Word - 1 \in Coder!Words /\ 0 < Coder!Word - 1
    <3>1. Coder!Word \in Nat /\ Coder!Word > Rest3 /\ Rest3 \in Nat /\ Rest3 >= 8
      BY WidthsAre
    <3>2. Coder!Words = 0..Coder!Word - 1
      BY DEF Coder!Words
    <3>. QED BY <3>1, <3>2
  <2>2. Coder!Fresh \in Coder!Models /\ <<>> \in Seq(Coder!Octets)
    BY PredictorIs
  <2> DEFINE lo == 0
             hi == Coder!Word - 1
             out == <<>>
  <2>3. lo \in Coder!Words /\ hi \in Coder!Words /\ lo < hi /\ out \in Seq(Coder!Octets)
    BY <2>1, <2>2
  <2>4. Begun = Coder!Encoder(Coder!Fresh, lo, hi, out)
    BY DEF Begun
  <2> HIDE DEF lo, hi, out
  <2>5. Begun \in Coder!Encoders /\ Begun.m = Coder!Fresh /\ Begun.lo = lo /\ Begun.hi = hi
        /\ Begun.out = out
    BY <2>2, <2>3, <2>4, EncoderIs
  <2>6. Begun \in Opens
    BY <2>3, <2>5 DEF Opens
  <2>. QED BY <2>5, <2>6 DEF lo, hi, out
<1>4. turn \in [1..N -> [Opens -> Opens]]
      /\ \A k \in 1..N, x \in Opens : turn[k][x] = Coder!EncodeByte(raw[k])[x]
  BY <1>1, <1>2
<1> HIDE DEF turn
<1>5. PICK g \in [0..N -> Opens] : Iterates(g, Begun, N, turn)
  BY <1>1, <1>3, <1>4, Iteration
<1>6. Is(g)
  <2>1. \A k \in 1..N : g[k - 1] \in Opens /\ g[k] = turn[k][g[k - 1]]
    BY <1>1, <1>5 DEF Iterates
  <2>2. \A k \in 1..N : g[k] = Coder!EncodeByte(raw[k])[g[k - 1]]
    BY <2>1, <1>4
  <2>. QED BY <2>2, <1>1, <1>5 DEF Iterates
<1>7. c = CHOOSE coded : Is(coded)
  BY DEF ByteRounds
<1>8. Is(c)
  BY <1>6, <1>7
<1> HIDE DEF c
<1>9. c[0] = Begun /\ \A k \in 1..N : c[k] = Coder!EncodeByte(raw[k])[c[k - 1]]
  BY <1>1, <1>8
<1>10. \A k \in 0..N : c[k] \in Opens
  <2>1. c[0] \in Opens
    BY <1>3, <1>9
  <2>2. ASSUME NEW k \in 1..N, c[k - 1] \in Opens PROVE c[k] \in Opens
    BY <2>2, <1>1, <1>2, <1>9
  <2> HIDE DEF N
  <2>. QED BY <2>1, <2>2, <1>1, StaysIn
<1>11. Coder!Pack(raw) = <<Coder!Tag>> \o Coder!SizeField(N)
                           \o Coder!Flush(Coder!EncodeBit(0)[ByteRounds(raw)[N]])
  BY DEF Coder!Pack, ByteRounds, Begun
<1>. QED BY <1>9, <1>10, <1>11 DEF c

\* What flush() writes is a number that the encoder may write.
LEMMA FlushIs ==
  ASSUME KeySizes, NEW e \in Opens, Coder!TopByte(e.lo) # Coder!TopByte(e.hi)
  PROVE  LET F == Coder!Flush(e)
         IN F \in Seq(Coder!Octets) /\ WrittenIn(e, F) /\ Len(F) = Len(e.out) + 1
<1> DEFINE F == Coder!Flush(e)
           o == Coder!Octet
           t == Rest3
           a == Coder!TopByte(e.lo)
           b == Coder!TopByte(e.hi)
           n == Len(e.out)
<1>1. e \in Coder!Encoders /\ e.lo < e.hi /\ e.lo \in Coder!Words /\ e.hi \in Coder!Words
      /\ e.out \in Seq(Coder!Octets)
  BY EncoderIs DEF Opens
<1>2. F = Append(e.out, b)
  <2>1. Coder!EmitByte[e] = e
    BY <1>1 DEF Coder!EmitByte
  <2>. QED BY <2>1 DEF Coder!Flush, Coder!Emit
<1>3. /\ o \in Nat /\ o >= 2 /\ t \in Nat \ {0} /\ Coder!Octets = 0..o - 1
  BY WidthsAre DEF Coder!Octets
<1>4. 0 \in Coder!Octets
  BY <1>3
<1>5. a \in 0..o - 1 /\ e.lo % t \in 0..t - 1 /\ e.lo = a * t + (e.lo % t)
  BY <1>1, <1>3, <1>4, ShiftIs
<1>6. b \in 0..o - 1 /\ e.hi % t \in 0..t - 1 /\ e.hi = b * t + (e.hi % t)
  BY <1>1, <1>3, <1>4, ShiftIs
<1>7. F \in Seq(Coder!Octets) /\ Len(F) = n + 1 /\ F[n + 1] = b /\ n \in Nat
      /\ \A i \in 1..n : F[i] = e.out[i]
  BY <1>1, <1>2, <1>3, <1>6
<1> HIDE DEF F, n
<1>8. Window(F, n) = ((b * o + 0) * o + 0) * o + 0
  <2>1. KeyAt(F, n + 1) = b /\ KeyAt(F, n + 2) = 0 /\ KeyAt(F, n + 3) = 0 /\ KeyAt(F, n + 4) = 0
    BY <1>7 DEF KeyAt
  <2>. QED BY <2>1 DEF Window
<1> HIDE DEF a, b, o
<1>9. Window(F, n) = b * t
  <2>1. ((b * o + 0) * o + 0) * o + 0 = b * (o * (o * o)) + ((0 * o + 0) * o + 0)
    <3>1. b \in Int /\ o \in Int
      BY <1>3, <1>6
    <3>. QED BY <3>1, FourDigits
  <2>2. t = o * (o * o) /\ t \in Int /\ b * t \in Int
    BY <1>3, <1>6, WidthsAre, Ints DEF Rest3, o
  <2>3. (0 * o + 0) * o + 0 = 0
    BY <1>3
  <2>. QED BY <2>1, <2>2, <2>3, <1>8
<1> DEFINE x == e.lo % t
           y == e.hi % t
           lowAt == a * t
           bt == b * t
<1> HIDE DEF t
<1>10. lowAt \in Int /\ bt \in Int /\ (a + 1 <= b => lowAt + t <= bt) /\ (b + 1 <= a => bt + t <= lowAt)
  <2>1. a \in Int /\ b \in Int
    BY <1>3, <1>5, <1>6
  <2>2. (a + 1 <= b => t * (a + 1) <= t * b) /\ (b + 1 <= a => t * (b + 1) <= t * a)
    BY <2>1, <1>3, Monotone
  <2>3. t * (a + 1) = lowAt + t /\ t * b = bt /\ t * (b + 1) = bt + t /\ t * a = lowAt
        /\ lowAt \in Int /\ bt \in Int
    BY <2>1, <1>3, Products
  <2>. QED BY <2>2, <2>3
<1>11. e.lo <= Window(F, n) /\ Window(F, n) <= e.hi
  <2> HIDE DEF x, y, lowAt, bt
  <2>1. a # b
    BY DEF a, b
  <2>2. e.lo = lowAt + x /\ x \in 0..t - 1 /\ e.hi = bt + y /\ y \in 0..t - 1 /\ Window(F, n) = bt
        /\ a \in Int /\ b \in Int
    BY <1>3, <1>5, <1>6, <1>9 DEF x, y, lowAt, bt
  <2>. QED BY <2>1, <2>2, <1>1, <1>3, <1>10
<1>12. WrittenIn(e, F)
  BY <1>7, <1>11 DEF WrittenIn, n
<1>. QED BY <1>7, <1>12 DEF F, n

-----------------------------------------------------------------------------
(* The decoder.                                                             *)

\* d has the predictor and the interval of e.
Follows2(d, e) == d \in Coder!Decoders /\ d.m = e.m /\ d.lo = e.lo /\ d.hi = e.hi

\* d also reads F, and holds the word after what e has written.
Reads2(d, e, F) ==
  /\ d.src = F /\ d.code = Window(F, Len(e.out))
  /\ d.pos = IF Len(e.out) + 4 <= Len(F) THEN Len(e.out) + 4 ELSE Len(F)

\* The parts of a decoder.
LEMMA DecoderIs ==
  /\ \A d \in Coder!Decoders : /\ d.m \in Coder!Models /\ d.lo \in Coder!Words
                               /\ d.hi \in Coder!Words /\ d.code \in Coder!Words
                               /\ d.src \in Seq(Coder!Octets) /\ d.pos \in Nat
  /\ \A m \in Coder!Models, lo, hi, code \in Coder!Words, src \in Seq(Coder!Octets), pos \in Nat :
       Coder!Decoder(m, lo, hi, code, src, pos) \in Coder!Decoders
  /\ \A m, lo, hi, code, src, pos :
       LET d == Coder!Decoder(m, lo, hi, code, src, pos)
       IN /\ d.m = m /\ d.lo = lo /\ d.hi = hi /\ d.code = code /\ d.src = src /\ d.pos = pos
BY DEF Coder!Decoders, Coder!Decoder

\* The byte that is read, and the place after it.
LEMMA NextByteIs ==
  ASSUME KeySizes, NEW src \in Seq(Coder!Octets), NEW pos \in Nat
  PROVE  Coder!NextByte(src, pos) \in Coder!Octets /\ Coder!After(src, pos) \in Nat
<1>1. CASE pos < Len(src)
  <2>1. pos + 1 \in 1..Len(src)
    BY <1>1
  <2>. QED BY <2>1, <1>1 DEF Coder!NextByte, Coder!After
<1>2. CASE ~(pos < Len(src))
  <2>1. 0 \in Coder!Octets
    BY WidthsAre DEF Coder!Octets
  <2>. QED BY <2>1, <1>2 DEF Coder!NextByte, Coder!After
<1>. QED BY <1>1, <1>2

\* A turn of the decoder's loop goes along with a turn of the encoder's.
LEMMA AbsorbByteIs ==
  ASSUME KeySizes, NEW e \in Coder!Encoders, e.lo <= e.hi, NEW d, Follows2(d, e)
  PROVE  LET f == Coder!EmitByte[e]
             g == Coder!AbsorbByte[d]
         IN /\ Follows2(g, f)
            /\ \A F \in Seq(Coder!Octets) : Reads2(d, e, F) => Reads2(g, f, F)
<1> DEFINE f == Coder!EmitByte[e]
           g == Coder!AbsorbByte[d]
           known == Coder!TopByte(e.lo) = Coder!TopByte(e.hi)
           lo == Coder!Shift(d.lo, 0)
           hi == Coder!Shift(d.hi, Coder!Octet - 1)
           nb == Coder!NextByte(d.src, d.pos)
           after == Coder!After(d.src, d.pos)
           code == Coder!Shift(d.code, nb)
<1>1. /\ d \in Coder!Decoders /\ d.m = e.m /\ d.lo = e.lo /\ d.hi = e.hi
      /\ d.m \in Coder!Models /\ d.lo \in Coder!Words /\ d.hi \in Coder!Words
      /\ d.code \in Coder!Words /\ d.src \in Seq(Coder!Octets) /\ d.pos \in Nat
  BY DecoderIs DEF Follows2
<1>2. g = IF ~known THEN d ELSE Coder!Decoder(d.m, lo, hi, code, d.src, after)
  BY <1>1 DEF Coder!AbsorbByte
<1>3. /\ ~known => f = e
      /\ known => f = Coder!Encoder(e.m, Coder!Shift(e.lo, 0), Coder!Shift(e.hi, Coder!Octet - 1),
                                    Append(e.out, Coder!TopByte(e.hi)))
  BY EmitByteIs
<1>4. CASE ~known
  BY <1>2, <1>3, <1>4
<1>5. CASE known
  <2>1. 0 \in Coder!Octets /\ Coder!Octet - 1 \in Coder!Octets
    BY WidthsAre DEF Coder!Octets
  <2>2. nb \in Coder!Octets /\ after \in Nat
    BY <1>1, NextByteIs
  <2>3. lo \in Coder!Words /\ hi \in Coder!Words /\ code \in Coder!Words
    <3> HIDE DEF nb
    <3>. QED BY <1>1, <2>1, <2>2, ShiftIs
  <2>4. f.m = e.m /\ f.lo = lo /\ f.hi = hi /\ f.out = Append(e.out, Coder!TopByte(e.hi))
    <3> DEFINE tail == Append(e.out, Coder!TopByte(e.hi))
    <3>1. f = Coder!Encoder(e.m, lo, hi, tail)
      BY <1>1, <1>3, <1>5
    <3> HIDE DEF f, lo, hi, tail
    <3>2. LET x1 == Coder!Encoder(e.m, lo, hi, tail)
          IN x1.m = e.m /\ x1.lo = lo /\ x1.hi = hi /\ x1.out = tail
      BY EncoderIs
    <3>. QED BY <3>1, <3>2 DEF tail
  <2> HIDE DEF lo, hi, code, after, f, known
  <2>5. /\ g \in Coder!Decoders /\ g.m = d.m /\ g.lo = lo /\ g.hi = hi /\ g.code = code
        /\ g.src = d.src /\ g.pos = after
    <3>1. g = Coder!Decoder(d.m, lo, hi, code, d.src, after)
      BY <1>2, <1>5
    <3> HIDE DEF g
    <3>2. LET x1 == Coder!Decoder(d.m, lo, hi, code, d.src, after)
          IN /\ x1 \in Coder!Decoders /\ x1.m = d.m /\ x1.lo = lo /\ x1.hi = hi
             /\ x1.code = code /\ x1.src = d.src /\ x1.pos = after
      BY <1>1, <2>2, <2>3 DEF Coder!Decoder, Coder!Decoders
    <3>. QED BY <3>1, <3>2
  <2> HIDE DEF g, nb
  <2>6. Follows2(g, f)
    BY <1>1, <2>4, <2>5 DEF Follows2
  <2>7. ASSUME NEW F \in Seq(Coder!Octets), Reads2(d, e, F) PROVE Reads2(g, f, F)
    <3> DEFINE n == Len(e.out)
    <3>1. n \in Nat /\ Len(f.out) = n + 1
      BY <2>4, EncoderIs
    <3>2. d.src = F /\ d.code = Window(F, n)
          /\ d.pos = (IF n + 4 <= Len(F) THEN n + 4 ELSE Len(F))
      BY <2>7 DEF Reads2
    <3> HIDE DEF n
    <3>3. nb = KeyAt(F, n + 5) /\ after = (IF n + 5 <= Len(F) THEN n + 5 ELSE Len(F))
      BY <3>1, <3>2 DEF nb, after, Coder!NextByte, Coder!After, KeyAt
    <3>4. code = Window(F, n + 1)
      BY <3>1, <3>2, <3>3, WindowIs DEF code
    <3>5. (n + 1) + 4 = n + 5
      BY <3>1
    <3>. QED BY <3>1, <3>2, <3>3, <3>4, <3>5, <2>5 DEF Reads2
  <2>. QED BY <2>6, <2>7 DEF f, g
<1>. QED BY <1>4, <1>5

\* So does the loop.
LEMMA AbsorbIs ==
  ASSUME KeySizes, NEW e \in Coder!Encoders, e.lo <= e.hi, NEW d, Follows2(d, e)
  PROVE  LET f == Coder!Emit(e)
             g == Coder!Absorb(d)
         IN /\ Follows2(g, f)
            /\ \A F \in Seq(Coder!Octets) : Reads2(d, e, F) => Reads2(g, f, F)
<1> DEFINE E1 == Coder!EmitByte[e]
           E2 == Coder!EmitByte[E1]
           E3 == Coder!EmitByte[E2]
           E4 == Coder!EmitByte[E3]
           D1 == Coder!AbsorbByte[d]
           D2 == Coder!AbsorbByte[D1]
           D3 == Coder!AbsorbByte[D2]
           D4 == Coder!AbsorbByte[D3]
           Along(x, y, g, f) ==
             /\ f \in Coder!Encoders /\ f.lo <= f.hi /\ Follows2(g, f)
             /\ \A F \in Seq(Coder!Octets) : Reads2(x, y, F) => Reads2(g, f, F)
<1>1. Along(d, e, D1, E1)
  BY EmitByteIs, AbsorbByteIs
<1> HIDE DEF E1, D1
<1>2. Along(D1, E1, D2, E2)
  BY <1>1, EmitByteIs, AbsorbByteIs
<1> HIDE DEF E2, D2
<1>3. Along(D2, E2, D3, E3)
  BY <1>2, EmitByteIs, AbsorbByteIs
<1> HIDE DEF E3, D3
<1>4. Along(D3, E3, D4, E4)
  BY <1>3, EmitByteIs, AbsorbByteIs
<1> HIDE DEF E4, D4
<1>5. Follows2(D4, E4) /\ \A F \in Seq(Coder!Octets) : Reads2(d, e, F) => Reads2(D4, E4, F)
  BY <1>1, <1>2, <1>3, <1>4
<1>6. Coder!Emit(e) = E4 /\ Coder!Absorb(d) = D4
  BY DEF Coder!Emit, Coder!Absorb, E1, E2, E3, E4, D1, D2, D3, D4
<1>. QED BY <1>5, <1>6

\* A decoder that follows an open encoder reads a bit, and follows the encoder
\* that has written it.
LEMMA DecodeBitFollows ==
  ASSUME KeySizes, NEW e \in Opens, NEW d, Follows2(d, e)
  PROVE  LET r == Coder!DecodeBit[d]
         IN /\ r.bit \in {0, 1}
            /\ r.bit = IF d.code <= Coder!Middle(e.lo, e.hi, Coder!Predicted(e.m)) THEN 1 ELSE 0
            /\ Follows2(r.d, Coder!EncodeBit(r.bit)[e])
            /\ \A F \in Seq(Coder!Octets) :
                 Reads2(d, e, F) => Reads2(r.d, Coder!EncodeBit(r.bit)[e], F)
<1> DEFINE r == Coder!DecodeBit[d]
           mid == Coder!Middle(e.lo, e.hi, Coder!Predicted(e.m))
           bit == IF d.code <= mid THEN 1 ELSE 0
           lo == IF bit = 1 THEN e.lo ELSE mid + 1
           hi == IF bit = 1 THEN mid ELSE e.hi
           n == Narrowed(e, bit)
           x == Coder!Decoder(Coder!Learned(e.m, bit), lo, hi, d.code, d.src, d.pos)
<1>1. /\ d \in Coder!Decoders /\ d.m = e.m /\ d.lo = e.lo /\ d.hi = e.hi
      /\ d.code \in Coder!Words /\ d.src \in Seq(Coder!Octets) /\ d.pos \in Nat
  BY DecoderIs DEF Follows2
<1>2. r = [bit |-> bit, d |-> Coder!Absorb(x)]
  BY <1>1 DEF Coder!DecodeBit
<1>3. bit \in {0, 1} /\ Open(e)
  BY DEF Open, Opens
<1> HIDE DEF bit
<1>4. /\ n \in Coder!Encoders /\ n.lo <= n.hi /\ n.m = Coder!Learned(e.m, bit)
      /\ n.lo = lo /\ n.hi = hi /\ n.out = e.out
  BY <1>3, NarrowedIs
<1> HIDE DEF mid, lo, hi, n
<1>5. Follows2(x, n) /\ x.code = d.code /\ x.src = d.src /\ x.pos = d.pos
  <2>1. n.m \in Coder!Models /\ n.lo \in Coder!Words /\ n.hi \in Coder!Words
    BY <1>4, EncoderIs
  <2> DEFINE m == Coder!Learned(e.m, bit)
  <2>2. m \in Coder!Models /\ lo \in Coder!Words /\ hi \in Coder!Words
    BY <1>4, <2>1
  <2>3. x = Coder!Decoder(m, lo, hi, d.code, d.src, d.pos)
    OBVIOUS
  <2> HIDE DEF m, x
  <2>4. LET x1 == Coder!Decoder(m, lo, hi, d.code, d.src, d.pos)
        IN /\ x1 \in Coder!Decoders /\ x1.m = m /\ x1.lo = lo /\ x1.hi = hi
           /\ x1.code = d.code /\ x1.src = d.src /\ x1.pos = d.pos
    BY <1>1, <2>2 DEF Coder!Decoder, Coder!Decoders
  <2>5. n.m = m /\ n.lo = lo /\ n.hi = hi
    BY <1>4 DEF m
  <2>. QED BY <2>3, <2>4, <2>5 DEF Follows2
<1> HIDE DEF x
<1>6. /\ Follows2(Coder!Absorb(x), Coder!Emit(n))
      /\ \A F \in Seq(Coder!Octets) : Reads2(x, n, F) => Reads2(Coder!Absorb(x), Coder!Emit(n), F)
  BY <1>4, <1>5, AbsorbIs
<1>7. Coder!EncodeBit(bit)[e] = Coder!Emit(n)
  BY <1>3, EncodeBitIs DEF n
<1>8. \A F \in Seq(Coder!Octets) : Reads2(d, e, F) => Reads2(x, n, F)
  BY <1>4, <1>5 DEF Reads2
<1>9. r.bit = bit /\ r.d = Coder!Absorb(x)
  BY <1>2
<1>. QED BY <1>3, <1>6, <1>7, <1>8, <1>9 DEF bit, mid

\* The bit that the encoder has written is the one that the decoder reads.
LEMMA DecodeBitIs ==
  ASSUME KeySizes, NEW e \in Opens, NEW d, Follows2(d, e), NEW bit \in {0, 1},
         NEW F \in Seq(Coder!Octets), Reads2(d, e, F), WrittenIn(Coder!EncodeBit(bit)[e], F)
  PROVE  LET r == Coder!DecodeBit[d]
             f == Coder!EncodeBit(bit)[e]
         IN r.bit = bit /\ Follows2(r.d, f) /\ Reads2(r.d, f, F)
<1>1. Open(e)
  BY DEF Open, Opens
<1>2. bit = IF Window(F, Len(e.out)) <= Coder!Middle(e.lo, e.hi, Coder!Predicted(e.m))
            THEN 1 ELSE 0
  BY <1>1, EncodeBitIs
<1>3. d.code = Window(F, Len(e.out))
  BY DEF Reads2
<1>4. Coder!DecodeBit[d].bit = bit
  BY <1>2, <1>3, DecodeBitFollows
<1>. QED BY <1>4, DecodeBitFollows

\* The decoders that are open.
OpenDecoders == {d \in Coder!Decoders : d.lo < d.hi}
OpenPartials == {x \in Coder!Partial : x.d \in OpenDecoders}

\* A decoder that is open stays so; an encoder could have written what it reads.
LEMMA DecodeBitOpens ==
  ASSUME KeySizes, NEW d \in OpenDecoders
  PROVE  Coder!DecodeBit[d].bit \in {0, 1} /\ Coder!DecodeBit[d].d \in OpenDecoders
<1> DEFINE e == Coder!Encoder(d.m, d.lo, d.hi, <<>>)
           r == Coder!DecodeBit[d]
           f == Coder!EncodeBit(r.bit)[e]
<1>1. /\ d \in Coder!Decoders /\ d.lo < d.hi /\ d.m \in Coder!Models
      /\ d.lo \in Coder!Words /\ d.hi \in Coder!Words
  BY DecoderIs DEF OpenDecoders
<1>2. e \in Coder!Encoders /\ e.m = d.m /\ e.lo = d.lo /\ e.hi = d.hi
  BY <1>1 DEF Coder!Encoder, Coder!Encoders
<1> HIDE DEF e
<1>3. e \in Opens /\ Follows2(d, e) /\ Open(e)
  BY <1>1, <1>2 DEF Opens, Follows2, Open
<1>4. r.bit \in {0, 1} /\ Follows2(r.d, f)
  BY <1>3, DecodeBitFollows
<1>5. Open(f)
  <2> HIDE DEF r
  <2>. QED BY <1>3, <1>4, EncodeBitIs
<1>6. r.d \in OpenDecoders
  BY <1>4, <1>5 DEF Open, Follows2, OpenDecoders
<1>. QED BY <1>4, <1>6

\* The parts of a byte that is being read.
LEMMA DecodeNextIs ==
  ASSUME KeySizes, NEW x \in OpenPartials
  PROVE  /\ Coder!DecodeNext[x] \in OpenPartials
         /\ Coder!DecodeNext[x].b = 2 * x.b + Coder!DecodeBit[x.d].bit
         /\ Coder!DecodeNext[x].d = Coder!DecodeBit[x.d].d
         /\ x.b \in Nat /\ x.d \in OpenDecoders
<1>1. x \in Coder!Partial /\ x.b \in Nat /\ x.d \in OpenDecoders
  BY DEF OpenPartials, Coder!Partial
<1>2. Coder!DecodeBit[x.d].bit \in {0, 1} /\ Coder!DecodeBit[x.d].d \in OpenDecoders
  BY <1>1, DecodeBitOpens
<1> DEFINE r == Coder!DecodeBit[x.d]
<1>3. Coder!DecodeNext[x] = [b |-> 2 * x.b + r.bit, d |-> r.d]
  BY <1>1 DEF Coder!DecodeNext
<1> HIDE DEF r
<1>4. r.bit \in Nat /\ r.d \in OpenDecoders /\ r.d \in Coder!Decoders
  BY <1>2 DEF r, OpenDecoders
<1>5. Coder!DecodeNext[x] \in OpenPartials
  BY <1>1, <1>3, <1>4 DEF OpenPartials, Coder!Partial
<1>. QED BY <1>1, <1>3, <1>5 DEF r

\* What a decoder holds on the way through a byte.
BitReads(d) ==
  CHOOSE read : read = [k \in 0..KeyBits |->
    IF k = 0 THEN [b |-> 1, d |-> d] ELSE Coder!DecodeNext[read[k - 1]]]

\* It is what decoding a byte goes through, and stays open.
LEMMA BitReadsAre ==
  ASSUME KeySizes, NEW d \in OpenDecoders
  PROVE  LET r == BitReads(d)
         IN /\ \A k \in 0..KeyBits : r[k] \in OpenPartials
            /\ r[0] = [b |-> 1, d |-> d]
            /\ \A k \in 1..KeyBits : r[k] = Coder!DecodeNext[r[k - 1]]
            /\ Coder!DecodeByte[d] = r[KeyBits]
<1> DEFINE r == BitReads(d)
           first == [b |-> 1, d |-> d]
           turn == [k \in 1..KeyBits |-> [x \in OpenPartials |-> Coder!DecodeNext[x]]]
           Is(read) == read = [k \in 0..KeyBits |->
                         IF k = 0 THEN first ELSE Coder!DecodeNext[read[k - 1]]]
<1>1. KeyBits \in Nat /\ d \in Coder!Decoders
  BY DEF KeySizes, OpenDecoders
<1>2. \A x \in OpenPartials : Coder!DecodeNext[x] \in OpenPartials
  BY DecodeNextIs
<1>3. first \in OpenPartials
  BY <1>1 DEF OpenPartials, Coder!Partial
<1>4. turn \in [1..KeyBits -> [OpenPartials -> OpenPartials]]
      /\ \A k \in 1..KeyBits, x \in OpenPartials : turn[k][x] = Coder!DecodeNext[x]
  BY <1>2
<1> HIDE DEF turn, first
<1>5. PICK g \in [0..KeyBits -> OpenPartials] : Iterates(g, first, KeyBits, turn)
  BY <1>1, <1>3, <1>4, Iteration
<1>6. Is(g)
  <2>1. \A k \in 1..KeyBits : g[k - 1] \in OpenPartials /\ g[k] = turn[k][g[k - 1]]
    BY <1>1, <1>5 DEF Iterates
  <2>2. \A k \in 1..KeyBits : g[k] = Coder!DecodeNext[g[k - 1]]
    BY <2>1, <1>4
  <2>3. g \in [0..KeyBits -> OpenPartials] /\ g[0] = first
    BY <1>5 DEF Iterates
  <2>4. ASSUME NEW k \in 0..KeyBits
        PROVE  g[k] = IF k = 0 THEN first ELSE Coder!DecodeNext[g[k - 1]]
    <3>1. CASE k = 0
      BY <2>3, <3>1, Zenon
    <3>2. CASE k # 0
      <4>1. k \in 1..KeyBits
        BY <1>1, <3>2
      <4>. QED BY <2>2, <3>2, <4>1, Zenon
    <3>. QED BY <3>1, <3>2
  <2>5. g = [k \in 0..KeyBits |-> g[k]]
    BY <2>3, Zenon
  <2>. QED BY <2>4, <2>5, Zenon
<1>7. r = CHOOSE read : Is(read)
  BY DEF BitReads, first
<1>8. Is(r)
  BY <1>6, <1>7
<1>9. Coder!DecodeByte[d] = r[KeyBits]
  BY <1>1, <1>7 DEF Coder!DecodeByte, first
<1> HIDE DEF r
<1>10. r[0] = first /\ \A k \in 1..KeyBits : r[k] = Coder!DecodeNext[r[k - 1]]
  BY <1>1, <1>8
<1>11. \A k \in 0..KeyBits : r[k] \in OpenPartials
  <2>1. r[0] \in OpenPartials
    BY <1>3, <1>10
  <2>2. ASSUME NEW k \in 1..KeyBits, r[k - 1] \in OpenPartials PROVE r[k] \in OpenPartials
    BY <2>2, <1>2, <1>10
  <2>. QED BY <2>1, <2>2, <1>1, StaysIn
<1>. QED BY <1>9, <1>10, <1>11 DEF r, first

\* The byte that the encoder has written is the one that the decoder reads, after
\* the bit that says there is one.
LEMMA DecodeByteIs ==
  ASSUME KeySizes, NEW e \in Opens, NEW byte \in Coder!Octets, NEW F \in Seq(Coder!Octets),
         WrittenIn(Coder!EncodeByte(byte)[e], F),
         NEW d, Follows2(d, Coder!EncodeBit(1)[e]), Reads2(d, Coder!EncodeBit(1)[e], F)
  PROVE  LET x == Coder!DecodeByte[d]
             f == Coder!EncodeByte(byte)[e]
         IN x.b = Coder!Octet + byte /\ Follows2(x.d, f) /\ Reads2(x.d, f, F)
<1> DEFINE c == BitRounds(e, byte)
           r == BitReads(d)
           P(k) == Coder!Power(2, k)
           W(k) == Coder!Down(byte, k, 2)
           S == {k \in 0..KeyBits : /\ r[k].b = W(KeyBits - k) + P(k)
                                    /\ Follows2(r[k].d, c[k]) /\ Reads2(r[k].d, c[k], F)}
           id == [k \in 0..KeyBits |-> k]
<1>1. /\ \A k \in 0..KeyBits : c[k] \in Opens
      /\ c[0] = Coder!EncodeBit(1)[e]
      /\ \A k \in 1..KeyBits :
           /\ Coder!BitOf(byte, KeyBits - k) \in {0, 1}
           /\ c[k] = Coder!EncodeBit(Coder!BitOf(byte, KeyBits - k))[c[k - 1]]
      /\ Coder!EncodeByte(byte)[e] = c[KeyBits]
  BY BitRoundsAre
<1>2. \A k \in 0..KeyBits : WrittenIn(c[k], F)
  BY EncodeByteIs
<1> HIDE DEF c
<1>3. KeyBits \in Nat /\ byte \in 0..P(KeyBits) - 1 /\ byte \in Nat /\ Coder!Octet = P(KeyBits)
  BY OctetIs DEF KeySizes, Coder!Octets
<1>4. d \in OpenDecoders
  <2>1. c[0] \in Opens /\ Follows2(d, c[0])
    BY <1>1, <1>3
  <2>. QED BY <2>1 DEF Follows2, Opens, OpenDecoders
<1>5. /\ \A k \in 0..KeyBits : r[k] \in OpenPartials
      /\ r[0] = [b |-> 1, d |-> d]
      /\ \A k \in 1..KeyBits : r[k] = Coder!DecodeNext[r[k - 1]]
      /\ Coder!DecodeByte[d] = r[KeyBits]
  BY <1>4, BitReadsAre
<1> HIDE DEF r
<1>6. P(0) = 1 /\ \A k \in Nat : P(k) \in Nat /\ P(k + 1) = 2 * P(k)
  BY KeyPowerIs
<1>7. W(0) = byte /\ W(KeyBits) = 0
  <2>1. W(0) = byte
    BY <1>3, KeyDownIs
  <2>2. W(KeyBits) = 0
    <3>1. 2 \in Nat \ {0}
      OBVIOUS
    <3>. QED BY <3>1, <1>3, NoDigitsLeft, Zenon
  <2>. QED BY <2>1, <2>2
<1>8. \A k \in Nat : /\ W(k) = 2 * W(k + 1) + Coder!BitOf(byte, k)
                     /\ W(k) \in Nat /\ W(k + 1) \in Nat /\ Coder!BitOf(byte, k) \in {0, 1}
  <2> SUFFICES ASSUME NEW k \in Nat
               PROVE  /\ W(k) = 2 * W(k + 1) + Coder!BitOf(byte, k)
                      /\ W(k) \in Nat /\ W(k + 1) \in Nat /\ Coder!BitOf(byte, k) \in {0, 1}
    OBVIOUS
  <2>1. Coder!BitOf(byte, k) = W(k) % 2 /\ Coder!BitOf(byte, k) \in {0, 1}
    BY <1>3, BitIs DEF Coder!BitOf
  <2>2. W(k) = 2 * W(k + 1) + (W(k) % 2) /\ W(k) \in Nat /\ W(k + 1) \in Nat
    <3> DEFINE base == 2
    <3>1. base \in Nat \ {0}
      OBVIOUS
    <3> HIDE DEF base
    <3>2. /\ Coder!Down(byte, k, base) = base * Coder!Down(byte, k + 1, base)
                                          + (Coder!Down(byte, k, base) % base)
          /\ Coder!Down(byte, k, base) \in Nat /\ Coder!Down(byte, k + 1, base) \in Nat
      BY <1>3, <3>1, LastDigit
    <3>. QED BY <3>2 DEF base
  <2> HIDE DEF W
  <2>. QED BY <2>1, <2>2
<1> HIDE DEF P, W
<1>9. id[0] \in S
  <2>1. r[0].b = 1 /\ r[0].d = d /\ KeyBits - 0 = KeyBits
    BY <1>3, <1>5
  <2>2. r[0].b = W(KeyBits - 0) + P(0)
    BY <2>1, <1>6, <1>7
  <2>3. Follows2(r[0].d, c[0]) /\ Reads2(r[0].d, c[0], F)
    BY <2>1, <1>1
  <2>4. id[0] = 0 /\ 0 \in 0..KeyBits
    BY <1>3
  <2>. QED BY <2>2, <2>3, <2>4
<1>10. ASSUME NEW k \in 1..KeyBits, id[k - 1] \in S PROVE id[k] \in S
  <2> DEFINE j == k - 1
             bit == Coder!BitOf(byte, KeyBits - k)
  <2>1. j \in 0..KeyBits /\ k \in 0..KeyBits /\ j \in Nat /\ j + 1 = k /\ KeyBits - k \in Nat
        /\ KeyBits - j = (KeyBits - k) + 1
    BY <1>3
  <2>2. /\ r[j].b = W(KeyBits - j) + P(j)
        /\ Follows2(r[j].d, c[j]) /\ Reads2(r[j].d, c[j], F)
    BY <1>10, <2>1
  <2>3. /\ r[k] = Coder!DecodeNext[r[j]] /\ r[j] \in OpenPartials
        /\ c[k] = Coder!EncodeBit(bit)[c[j]] /\ bit \in {0, 1} /\ c[j] \in Opens
        /\ WrittenIn(c[k], F)
    BY <1>1, <1>2, <1>5, <2>1
  <2>4. W(KeyBits - k) = 2 * W(KeyBits - j) + bit /\ W(KeyBits - j) \in Nat
        /\ P(k) = 2 * P(j) /\ P(j) \in Nat
    BY <1>6, <1>8, <2>1
  <2> HIDE DEF j, bit
  <2>5. LET s == Coder!DecodeBit[r[j].d]
        IN s.bit = bit /\ Follows2(s.d, c[k]) /\ Reads2(s.d, c[k], F)
    BY <2>2, <2>3, DecodeBitIs
  <2>6. r[k].b = 2 * r[j].b + bit /\ r[k].d = Coder!DecodeBit[r[j].d].d
    BY <2>3, <2>5, DecodeNextIs
  <2>7. r[k].b = W(KeyBits - k) + P(k)
    BY <2>2, <2>3, <2>4, <2>6
  <2>. QED BY <2>1, <2>5, <2>6, <2>7
<1>11. \A k \in 0..KeyBits : id[k] \in S
  <2> HIDE DEF id, S
  <2>. QED BY <1>3, <1>9, <1>10, StaysIn
<1>12. /\ r[KeyBits].b = W(KeyBits - KeyBits) + P(KeyBits)
       /\ Follows2(r[KeyBits].d, c[KeyBits]) /\ Reads2(r[KeyBits].d, c[KeyBits], F)
  BY <1>11, <1>3
<1>13. KeyBits - KeyBits = 0 /\ W(0) + P(KeyBits) = Coder!Octet + byte
  BY <1>3, <1>6, <1>7
<1>. QED BY <1>1, <1>5, <1>12, <1>13

-----------------------------------------------------------------------------
(* What is read at the start.                                               *)

\* How far j reads have come.
Reached(F, j) == IF j <= Len(F) THEN j ELSE Len(F)

\* A byte more of the first word.
LEMMA StartByteIs ==
  ASSUME KeySizes, NEW F \in Seq(Coder!Octets), NEW j \in Nat, NEW d \in Coder!Decoders,
         d.src = F, d.pos = Reached(F, j), d.code < Rest3
  PROVE  LET g == Coder!StartByte[d]
         IN /\ g \in Coder!Decoders /\ g.m = d.m /\ g.lo = d.lo /\ g.hi = d.hi /\ g.src = F
            /\ g.pos = Reached(F, j + 1)
            /\ g.code = d.code * Coder!Octet + KeyAt(F, j + 1)
            /\ KeyAt(F, j + 1) \in 0..Coder!Octet - 1
<1> DEFINE nb == Coder!NextByte(d.src, d.pos)
           after == Coder!After(d.src, d.pos)
           code == Coder!Shift(d.code, nb)
           g == Coder!StartByte[d]
<1>1. /\ d.m \in Coder!Models /\ d.lo \in Coder!Words /\ d.hi \in Coder!Words
      /\ d.code \in Coder!Words /\ d.src \in Seq(Coder!Octets) /\ d.pos \in Nat
  BY DecoderIs
<1>2. nb \in Coder!Octets /\ after \in Nat
  BY <1>1, NextByteIs
<1>3. nb = KeyAt(F, j + 1) /\ after = Reached(F, j + 1)
  BY DEF Coder!NextByte, Coder!After, KeyAt, Reached
<1>4. g = Coder!Decoder(d.m, d.lo, d.hi, code, d.src, after)
  BY DEF Coder!StartByte
<1> HIDE DEF nb, after
<1>5. code \in Coder!Words /\ code = (d.code % Rest3) * Coder!Octet + nb
  BY <1>1, <1>2, ShiftIs
<1>6. d.code % Rest3 = d.code
  <2> DEFINE x == d.code
             t == Rest3
  <2>1. x \in Nat /\ t \in Nat /\ x < t
    <3>1. Coder!Word \in Nat /\ t \in Nat
      BY WidthsAre
    <3>2. x \in 0..Coder!Word - 1 /\ x < t
      BY <1>1 DEF Coder!Words
    <3> HIDE DEF x, t
    <3>. QED BY <3>1, <3>2
  <2> HIDE DEF x, t
  <2>2. x % t = x
    BY <2>1
  <2>. QED BY <2>2 DEF x, t
<1> HIDE DEF code, g
<1>7. LET x1 == Coder!Decoder(d.m, d.lo, d.hi, code, d.src, after)
      IN /\ x1 \in Coder!Decoders /\ x1.m = d.m /\ x1.lo = d.lo /\ x1.hi = d.hi
         /\ x1.code = code /\ x1.src = d.src /\ x1.pos = after
  BY <1>1, <1>2, <1>5 DEF Coder!Decoder, Coder!Decoders
<1>8. KeyAt(F, j + 1) \in 0..Coder!Octet - 1
  BY <1>2, <1>3 DEF Coder!Octets
<1>. QED BY <1>3, <1>4, <1>5, <1>6, <1>7, <1>8 DEF g

\* The decoder begins where the encoder does, with the first word.
LEMMA StartIs ==
  ASSUME KeySizes, NEW F \in Seq(Coder!Octets)
  PROVE  Follows2(Coder!Start(F), Begun) /\ Reads2(Coder!Start(F), Begun, F)
<1> DEFINE o == Coder!Octet
           hi == Coder!Word - 1
           D0 == Coder!Decoder(Coder!Fresh, 0, hi, 0, F, 0)
           D1 == Coder!StartByte[D0]
           D2 == Coder!StartByte[D1]
           D3 == Coder!StartByte[D2]
           D4 == Coder!StartByte[D3]
           K(j) == KeyAt(F, j)
           Came(d, j) == /\ d \in Coder!Decoders /\ d.m = Coder!Fresh /\ d.lo = 0 /\ d.hi = hi
                         /\ d.src = F /\ d.pos = Reached(F, j)
<1>1. /\ o \in Nat \ {0} /\ o >= 2 /\ o * o \in Nat \ {0} /\ (o * o) * o = Rest3
      /\ o * o <= Rest3 /\ o <= Rest3 /\ 0 < Rest3
      /\ Coder!Words = 0..hi /\ 0 \in Coder!Words /\ hi \in Coder!Words
  <2>1. /\ Coder!Octet \in Nat /\ Coder!Octet >= 2 /\ Coder!Half \in Nat /\ Coder!Half >= 4
        /\ Coder!Half = Coder!Octet * Coder!Octet /\ Coder!Word \in Nat /\ Coder!Word > Rest3
        /\ Rest3 \in Nat /\ Rest3 >= 8
    BY WidthsAre
  <2>2. Rest3 = Coder!Octet * Coder!Half /\ Coder!Half * Coder!Octet = Coder!Octet * Coder!Half
    BY <2>1 DEF Rest3
  <2>3. Coder!Octet <= Coder!Half /\ Coder!Half <= Coder!Half * Coder!Octet
    <3>1. Coder!Octet * 1 <= Coder!Octet * Coder!Octet
      BY <2>1, Monotone
    <3>2. Coder!Half * 1 <= Coder!Half * Coder!Octet
      BY <2>1, Monotone
    <3>. QED BY <3>1, <3>2, <2>1
  <2>4. Coder!Words = 0..hi /\ 0 \in Coder!Words /\ hi \in Coder!Words
    BY <2>1 DEF Coder!Words
  <2>. QED BY <2>1, <2>2, <2>3, <2>4
<1>2. Coder!Fresh \in Coder!Models
  BY PredictorIs
<1> HIDE DEF hi
<1>3. Came(D0, 0) /\ D0.code = 0
  <2>1. 0 = Reached(F, 0) /\ 0 \in Nat
    BY DEF Reached
  <2>. QED BY <2>1, <1>1, <1>2 DEF Coder!Decoder, Coder!Decoders
<1> HIDE DEF D0, o, K
<1>4. Came(D1, 1) /\ D1.code = K(1) /\ K(1) \in 0..o - 1
  <2>1. /\ D1 \in Coder!Decoders /\ D1.m = D0.m /\ D1.lo = D0.lo /\ D1.hi = D0.hi /\ D1.src = F
        /\ D1.pos = Reached(F, 0 + 1)
        /\ D1.code = D0.code * Coder!Octet + KeyAt(F, 0 + 1)
        /\ KeyAt(F, 0 + 1) \in 0..Coder!Octet - 1
    BY <1>1, <1>3, StartByteIs
  <2>2. D1.code = 0 * o + K(1) /\ K(1) \in 0..o - 1
    BY <2>1, <1>3 DEF K, o
  <2>. QED BY <2>1, <2>2, <1>1, <1>3
<1> HIDE DEF D1
<1>5. Came(D2, 2) /\ D2.code = K(1) * o + K(2) /\ D2.code \in 0..o * o - 1
  <2>1. D1.code < Rest3
    BY <1>1, <1>4
  <2>2. D1 \in Coder!Decoders /\ D1.src = F /\ D1.pos = Reached(F, 1) /\ 1 \in Nat
    BY <1>4
  <2>3. /\ D2 \in Coder!Decoders /\ D2.m = D1.m /\ D2.lo = D1.lo /\ D2.hi = D1.hi /\ D2.src = F
        /\ D2.pos = Reached(F, 1 + 1)
        /\ D2.code = D1.code * Coder!Octet + KeyAt(F, 1 + 1)
        /\ KeyAt(F, 1 + 1) \in 0..Coder!Octet - 1
    BY <2>1, <2>2, StartByteIs
  <2>4. D2.code = K(1) * o + K(2) /\ K(2) \in 0..o - 1
    BY <2>3, <1>4 DEF K, o
  <2>5. K(1) * o + K(2) \in 0..o * o - 1
    BY <2>4, <1>1, <1>4, DigitMore
  <2>. QED BY <2>3, <2>4, <2>5, <1>4
<1> HIDE DEF D2
<1>6. Came(D3, 3) /\ D3.code = (K(1) * o + K(2)) * o + K(3) /\ D3.code \in 0..(o * o) * o - 1
  <2>1. D2.code < Rest3
    <3> DEFINE half == o * o
    <3>1. half \in Nat /\ half <= Rest3 /\ D2.code \in 0..half - 1 /\ Rest3 \in Nat
      BY <1>1, <1>5, WidthsAre
    <3> HIDE DEF half
    <3>. QED BY <3>1
  <2>2. D2 \in Coder!Decoders /\ D2.src = F /\ D2.pos = Reached(F, 2) /\ 2 \in Nat
    BY <1>5
  <2>3. /\ D3 \in Coder!Decoders /\ D3.m = D2.m /\ D3.lo = D2.lo /\ D3.hi = D2.hi /\ D3.src = F
        /\ D3.pos = Reached(F, 2 + 1)
        /\ D3.code = D2.code * Coder!Octet + KeyAt(F, 2 + 1)
        /\ KeyAt(F, 2 + 1) \in 0..Coder!Octet - 1
    BY <2>1, <2>2, StartByteIs
  <2>4. D3.code = D2.code * o + K(3) /\ K(3) \in 0..o - 1
    BY <2>3, <1>5 DEF K, o
  <2>5. D2.code * o + K(3) \in 0..(o * o) * o - 1
    BY <2>4, <1>1, <1>5, DigitMore
  <2>. QED BY <2>3, <2>4, <2>5, <1>5
<1> HIDE DEF D3
<1>7. Came(D4, 4) /\ D4.code = ((K(1) * o + K(2)) * o + K(3)) * o + K(4)
  <2>1. D3.code < Rest3
    <3>1. Rest3 \in Nat /\ D3.code \in 0..Rest3 - 1
      BY <1>1, <1>6, WidthsAre
    <3>. QED BY <3>1
  <2>2. D3 \in Coder!Decoders /\ D3.src = F /\ D3.pos = Reached(F, 3) /\ 3 \in Nat
    BY <1>6
  <2>3. /\ D4 \in Coder!Decoders /\ D4.m = D3.m /\ D4.lo = D3.lo /\ D4.hi = D3.hi /\ D4.src = F
        /\ D4.pos = Reached(F, 3 + 1)
        /\ D4.code = D3.code * Coder!Octet + KeyAt(F, 3 + 1)
    BY <2>1, <2>2, StartByteIs
  <2>4. D4.code = D3.code * o + K(4)
    BY <2>3, <1>6 DEF K, o
  <2>. QED BY <2>3, <2>4, <1>6
<1>8. D4.code = Window(F, 0)
  <2>1. Window(F, 0) = ((K(1) * o + K(2)) * o + K(3)) * o + K(4)
    BY DEF Window, K, o
  <2>. QED BY <2>1, <1>7
<1>9. Coder!Start(F) = D4
  BY DEF Coder!Start, D0, D1, D2, D3, hi
<1> HIDE DEF D4
<1>10. Begun.m = Coder!Fresh /\ Begun.lo = 0 /\ Begun.hi = hi /\ Begun.out = <<>>
  BY DEF Begun, Coder!Encoder, hi
<1>11. Len(Begun.out) = 0 /\ Len(F) \in Nat
  BY <1>10
<1>12. D4.pos = IF Len(Begun.out) + 4 <= Len(F) THEN Len(Begun.out) + 4 ELSE Len(F)
  BY <1>7, <1>11 DEF Reached
<1>. QED BY <1>7, <1>8, <1>9, <1>10, <1>11, <1>12 DEF Follows2, Reads2

\* Three sequences in one.
Joined3(t, s, f) == t \o s \o f

Holds3(u, t, s, f) == /\ Len(u) = Len(t) + Len(s) + Len(f)
                      /\ \A i \in 1..Len(t) : u[i] = t[i]
                      /\ \A i \in 1..Len(s) : u[Len(t) + i] = s[i]
                      /\ \A i \in 1..Len(f) : u[Len(t) + Len(s) + i] = f[i]

\* Where the parts of three joined sequences are.
LEMMA Joined3Is ==
  ASSUME NEW D, NEW t \in Seq(D), NEW s \in Seq(D), NEW f \in Seq(D)
  PROVE  Joined3(t, s, f) \in Seq(D) /\ Holds3(Joined3(t, s, f), t, s, f)
<1> DEFINE h == t \o s
           u == h \o f
<1>1. h \in Seq(D)
  OBVIOUS
<1>2. Len(h) = Len(t) + Len(s)
  OBVIOUS
<1>3. \A i \in 1..Len(t) : h[i] = t[i]
  OBVIOUS
<1>4. \A i \in 1..Len(s) : h[Len(t) + i] = s[i]
  OBVIOUS
<1> HIDE DEF h
<1>5. u \in Seq(D)
  BY <1>1
<1>6. Len(u) = Len(h) + Len(f)
  BY <1>1
<1>7. \A i \in 1..Len(h) : u[i] = h[i]
  BY <1>1
<1>8. \A i \in 1..Len(f) : u[Len(h) + i] = f[i]
  BY <1>1
<1> HIDE DEF u
<1>9. Len(t) \in Nat /\ Len(s) \in Nat
      /\ (\A i \in 1..Len(t) : i \in 1..Len(h)) /\ \A i \in 1..Len(s) : Len(t) + i \in 1..Len(h)
  BY <1>2
<1>10. u = Joined3(t, s, f)
  BY DEF u, h, Joined3
<1>11. \A i \in 1..Len(t) : u[i] = t[i]
  BY <1>3, <1>7, <1>9
<1>12. \A i \in 1..Len(s) : u[Len(t) + i] = s[i]
  BY <1>4, <1>7, <1>9
<1>. QED BY <1>2, <1>5, <1>6, <1>8, <1>10, <1>11, <1>12 DEF Holds3

\* The header: the tag, the size, what the coder wrote.
Packed(n, F) == <<Coder!Tag>> \o Coder!SizeField(n) \o F

\* Where the parts of packed bytes are.
LEMMA PackedIs ==
  ASSUME KeySizes, NEW n \in Nat, NEW F \in Seq(Coder!Octets)
  PROVE  LET data == Packed(n, F)
         IN /\ data \in Seq(Coder!Octets) /\ Len(data) = KeySizeBytes + 1 + Len(F)
            /\ data[1] = Coder!Tag
            /\ \A i \in 1..KeySizeBytes :
                 data[i + 1] = Coder!Down(n, KeySizeBytes - i, Coder!Octet) % Coder!Octet
            /\ SubSeq(data, KeySizeBytes + 2, Len(data)) = F
<1> DEFINE o == Coder!Octet
           s == Coder!SizeField(n)
           t == <<Coder!Tag>>
           data == Packed(n, F)
           b == KeySizeBytes
<1>1. o \in Nat \ {0} /\ Coder!Octets = 0..o - 1 /\ b \in Nat
  BY WidthsAre DEF KeySizes, Coder!Octets
<1>2. Coder!Tag \in Coder!Octets
  <2> HIDE DEF o
  <2>1. 236 % o \in 0..o - 1 /\ Coder!Tag = 236 % o
    BY <1>1 DEF Coder!Tag, o
  <2>. QED BY <1>1, <2>1
<1>3. s \in Seq(Coder!Octets) /\ Len(s) = b
      /\ \A i \in 1..b : s[i] = Coder!Down(n, b - i, o) % o
  <2>1. ASSUME NEW i \in 1..b PROVE Coder!Down(n, b - i, o) % o \in Coder!Octets
    <3> DEFINE k == b - i
               x == Coder!Down(n, k, o)
    <3>1. k \in Nat
      BY <1>1
    <3> HIDE DEF k, o
    <3>2. x \in Nat
      BY <3>1, <1>1, KeyDownIs
    <3> HIDE DEF x
    <3>3. x % o \in Coder!Octets
      BY <3>2, <1>1
    <3>. QED BY <3>3 DEF x, k
  <2>2. s = [i \in 1..b |-> Coder!Down(n, b - i, o) % o]
    BY DEF Coder!SizeField
  <2> HIDE DEF s, o
  <2>. QED BY <2>1, <2>2, <1>1
<1> HIDE DEF s, o, b
<1>4. t \in Seq(Coder!Octets) /\ Len(t) = 1 /\ t[1] = Coder!Tag
  BY <1>2
<1>5. data = (t \o s) \o F
  BY DEF Packed, s
<1> HIDE DEF t, data
<1>9. /\ data \in Seq(Coder!Octets) /\ Len(data) = 1 + b + Len(F)
      /\ data[1] = Coder!Tag /\ \A i \in 1..b : data[i + 1] = s[i]
      /\ \A j \in 1..Len(F) : data[1 + b + j] = F[j]
  <2> DEFINE D == Coder!Octets
             u == Joined3(t, s, F)
  <2>1. t \in Seq(D) /\ s \in Seq(D) /\ F \in Seq(D)
    BY <1>3, <1>4
  <2> HIDE DEF D
  <2>2. u \in Seq(D) /\ Holds3(u, t, s, F)
    BY <2>1, Joined3Is
  <2>3. data = u
    BY <1>5 DEF Joined3
  <2> HIDE DEF u
  <2>4. 1 \in 1..1 /\ \A i \in 1..b : i + 1 = 1 + i
    BY <1>1
  <2>. QED BY <2>2, <2>3, <2>4, <1>3, <1>4 DEF D, Holds3
<1>11. SubSeq(data, b + 2, Len(data)) = F
  <2> DEFINE L == Len(F)
             part == SubSeq(data, b + 2, Len(data))
  <2>1. L \in Nat /\ Len(data) = 1 + b + L
    BY <1>9
  <2>2. part \in Seq(Coder!Octets) /\ Len(part) = L
        /\ \A i \in 1..L : part[i] = data[(b + 2) + i - 1]
    <3> DEFINE m == b + 2
               n1 == Len(data)
    <3>1. m \in Int /\ n1 \in Int /\ n1 - m + 1 = L /\ (IF m <= n1 THEN n1 - m + 1 ELSE 0) = L
          /\ \A i \in m..n1 : i \in 1..n1
      BY <2>1, <1>1
    <3>2. \A i \in m..n1 : data[i] \in Coder!Octets
      BY <3>1, <1>9
    <3>3. \A i \in 1..L : m + i - 1 = (b + 2) + i - 1
      OBVIOUS
    <3>4. part = SubSeq(data, m, n1)
      OBVIOUS
    <3> HIDE DEF part, m, n1
    <3>. QED BY <3>1, <3>2, <3>3, <3>4, SubSeqProperties
  <2>3. \A i \in 1..L : data[(b + 2) + i - 1] = F[i]
    <3>1. \A i \in 1..L : (b + 2) + i - 1 = 1 + b + i
      BY <2>1, <1>1
    <3>. QED BY <3>1, <1>9
  <2> HIDE DEF part
  <2>4. part = F
    BY <2>1, <2>2, <2>3
  <2>. QED BY <2>4 DEF part
<1>12. \A i \in 1..b : data[i + 1] = Coder!Down(n, b - i, o) % o
  BY <1>3, <1>9
<1>13. Len(data) = b + 1 + Len(F)
  BY <1>1, <1>9
<1>. QED BY <1>9, <1>11, <1>12, <1>13 DEF data, b, o

\* The size that is read from the header, a byte at a time.
SizeReads(data) ==
  CHOOSE size : size = [i \in 0..KeySizeBytes |->
    IF i = 0 THEN 0 ELSE size[i - 1] * Coder!Octet + data[i + 1]]

\* The size that was written is read.
LEMMA SizeIsRead ==
  ASSUME KeySizes, NEW n \in 0..Coder!Power(Coder!Octet, KeySizeBytes) - 1,
         NEW F \in Seq(Coder!Octets)
  PROVE  SizeReads(Packed(n, F))[KeySizeBytes] = n
<1> DEFINE o == Coder!Octet
           data == Packed(n, F)
           b == KeySizeBytes
           W(k) == Coder!Down(n, k, o)
           size == [i \in 0..b |-> W(b - i)]
           r == SizeReads(data)
           Is(f) == f = [i \in 0..b |-> IF i = 0 THEN 0 ELSE f[i - 1] * o + data[i + 1]]
<1>1. o \in Nat \ {0} /\ b \in Nat /\ Coder!Octets = 0..o - 1 /\ Coder!Power(o, b) \in Nat
  <2>1. o \in Nat \ {0} /\ b \in Nat /\ Coder!Octets = 0..o - 1
    BY WidthsAre DEF KeySizes, Coder!Octets
  <2>2. o \in Nat
    BY <2>1
  <2> HIDE DEF o
  <2>3. Coder!Power(o, b) \in Nat
    BY <2>1, <2>2, KeyPowerIs
  <2>. QED BY <2>1, <2>3
<1>2. n \in Nat
  BY <1>1
<1>3. data \in Seq(Coder!Octets) /\ Len(data) = b + 1 + Len(F)
      /\ \A i \in 1..b : data[i + 1] = W(b - i) % o
  BY <1>2, PackedIs
<1> HIDE DEF data, o
<1>4. W(b) = 0 /\ W(0) = n
  BY <1>1, <1>2, NoDigitsLeft, KeyDownIs DEF o
<1>5. \A k \in Nat : W(k) = o * W(k + 1) + (W(k) % o) /\ W(k) \in Nat /\ W(k + 1) \in Nat
  BY <1>1, <1>2, LastDigit
<1> HIDE DEF W, b
<1>6. Is(size)
  <2>1. size[0] = 0
    <3>1. b - 0 = b /\ 0 \in 0..b
      BY <1>1
    <3>. QED BY <3>1, <1>4
  <2>2. ASSUME NEW i \in 1..b PROVE size[i] = size[i - 1] * o + data[i + 1]
    <3> DEFINE k == b - i
    <3>1. k \in Nat /\ b - (i - 1) = k + 1 /\ i - 1 \in 0..b /\ i \in 0..b
      BY <1>1
    <3>2. size[i] = W(k) /\ size[i - 1] = W(k + 1) /\ data[i + 1] = W(k) % o
      BY <3>1, <1>3
    <3> HIDE DEF k, size
    <3>3. W(k) = o * W(k + 1) + (W(k) % o) /\ W(k + 1) \in Nat
      BY <3>1, <1>5
    <3>4. o * W(k + 1) = W(k + 1) * o
      <4> DEFINE w == W(k + 1)
      <4>1. w \in Nat
        BY <3>3
      <4> HIDE DEF w
      <4>2. o * w = w * o
        BY <4>1, <1>1
      <4>. QED BY <4>2 DEF w
    <3>. QED BY <3>2, <3>3, <3>4
  <2>3. size = [i \in 0..b |-> size[i]]
    OBVIOUS
  <2> HIDE DEF size
  <2>4. \A i \in 0..b : size[i] = IF i = 0 THEN 0 ELSE size[i - 1] * o + data[i + 1]
    BY <2>1, <2>2, <1>1
  <2>. QED BY <2>3, <2>4
<1>7. r = CHOOSE f : Is(f)
  BY DEF SizeReads, b, o
<1> HIDE DEF size
<1>8. Is(r)
  BY <1>6, <1>7
<1> HIDE DEF r
<1>9. \A i \in 0..b : r[i] = size[i]
  <2> DEFINE S == {i \in 0..b : r[i] = size[i]}
             id == [i \in 0..b |-> i]
  <2>1. id[0] \in S
    <3>1. 0 \in 0..b /\ r[0] = 0 /\ size[0] = 0
      BY <1>1, <1>6, <1>8
    <3>. QED BY <3>1
  <2>2. ASSUME NEW i \in 1..b, id[i - 1] \in S PROVE id[i] \in S
    <3>1. i - 1 \in 0..b /\ i \in 0..b
      BY <1>1
    <3>2. r[i - 1] = size[i - 1]
      BY <3>1, <2>2
    <3>3. r[i] = r[i - 1] * o + data[i + 1] /\ size[i] = size[i - 1] * o + data[i + 1]
      BY <3>1, <1>6, <1>8
    <3>. QED BY <3>1, <3>2, <3>3
  <2>3. \A i \in 0..b : id[i] \in S
    <3> HIDE DEF id, S
    <3>. QED BY <2>1, <2>2, <1>1, StaysIn
  <2>. QED BY <2>3
<1>10. r[b] = W(b - b)
  BY <1>1, <1>9 DEF size
<1>11. b - b = 0
  BY <1>1
<1>. QED BY <1>4, <1>10, <1>11 DEF r, data, b

-----------------------------------------------------------------------------
(* The loop of unpack.                                                      *)

\* What has been unpacked while the decoder is open.
OpenUnpacked == {x \in Coder!Unpacked : x.d \in OpenDecoders}

\* A turn of the loop.
LEMMA TurnIs ==
  ASSUME KeySizes, NEW size \in Nat, NEW x \in OpenUnpacked
  PROVE  LET more == Coder!DecodeBit[x.d]
             next == Coder!DecodeByte[more.d]
             y == Coder!Turn(size)[x]
         IN /\ y \in OpenUnpacked
            /\ ~x.end /\ more.bit = 0 /\ Len(x.out) = size => y.out = x.out
            /\ ~x.end /\ more.bit = 1 /\ Len(x.out) < size =>
                 y.d = next.d /\ y.out = Append(x.out, next.b - Coder!Octet) /\ ~y.end
<1> DEFINE more == Coder!DecodeBit[x.d]
           next == Coder!DecodeByte[more.d]
           y == Coder!Turn(size)[x]
           last == IF Len(x.out) = size THEN x.out ELSE Coder!Bad
           longer == Append(x.out, next.b - Coder!Octet)
<1>1. /\ x \in Coder!Unpacked /\ x.d \in OpenDecoders /\ x.out \in Seq(Int) /\ x.end \in BOOLEAN
      /\ x = [d |-> x.d, out |-> x.out, end |-> x.end]
  BY DEF OpenUnpacked, Coder!Unpacked
<1>2. more.bit \in {0, 1} /\ more.d \in OpenDecoders
  BY <1>1, DecodeBitOpens
<1>3. next.b \in Nat /\ next.d \in OpenDecoders
  <2> HIDE DEF more
  <2>1. KeyBits \in 0..KeyBits
    BY DEF KeySizes
  <2>2. next \in OpenPartials
    BY <2>1, <1>2, BitReadsAre
  <2>. QED BY <2>2 DEF OpenPartials, Coder!Partial
<1>4. y = IF x.end THEN x
          ELSE IF more.bit = 0 THEN [d |-> x.d, out |-> last, end |-> TRUE]
          ELSE IF Len(x.out) >= size THEN [d |-> x.d, out |-> Coder!Bad, end |-> TRUE]
          ELSE [d |-> next.d, out |-> longer, end |-> FALSE]
  BY <1>1 DEF Coder!Turn
<1>5. last \in Seq(Int) /\ Coder!Bad \in Seq(Int) /\ longer \in Seq(Int) /\ Len(x.out) \in Nat
  <2>1. Coder!Bad \in Seq(Int)
    BY DEF Coder!Bad
  <2>2. next.b - Coder!Octet \in Int
    BY <1>3, WidthsAre
  <2> HIDE DEF next
  <2>. QED BY <2>1, <2>2, <1>1
<1> HIDE DEF y, more, next, last, longer
<1>6. y \in OpenUnpacked
  <2>1. x.d \in Coder!Decoders /\ next.d \in Coder!Decoders
    BY <1>1, <1>3 DEF OpenDecoders
  <2>. QED BY <2>1, <1>1, <1>3, <1>4, <1>5 DEF OpenUnpacked, Coder!Unpacked
<1>7. ASSUME ~x.end, more.bit = 0, Len(x.out) = size PROVE y.out = x.out
  BY <1>4, <1>7 DEF last
<1>8. ASSUME ~x.end, more.bit = 1, Len(x.out) < size
      PROVE  y.d = next.d /\ y.out = longer /\ ~y.end
  BY <1>4, <1>5, <1>8
<1>. QED BY <1>6, <1>7, <1>8 DEF y, more, next, longer

\* What unpack() holds after each turn.
UnpackReads(size, src) ==
  CHOOSE read : read = [n \in 0..size + 1 |->
    IF n = 0 THEN [d |-> Coder!Start(src), out |-> << >>, end |-> FALSE]
    ELSE Coder!Turn(size)[read[n - 1]]]

\* It is what unpacking goes through, and stays open.
LEMMA UnpackReadsAre ==
  ASSUME KeySizes, NEW size \in Nat, NEW src, Coder!Start(src) \in OpenDecoders
  PROVE  LET r == UnpackReads(size, src)
         IN /\ \A n \in 0..size + 1 : r[n] \in OpenUnpacked
            /\ r[0] = [d |-> Coder!Start(src), out |-> << >>, end |-> FALSE]
            /\ \A n \in 1..size + 1 : r[n] = Coder!Turn(size)[r[n - 1]]
<1> DEFINE r == UnpackReads(size, src)
           N == size + 1
           first == [d |-> Coder!Start(src), out |-> << >>, end |-> FALSE]
           turn == [k \in 1..N |-> [x \in OpenUnpacked |-> Coder!Turn(size)[x]]]
           Is(read) == read = [n \in 0..N |->
                         IF n = 0 THEN first ELSE Coder!Turn(size)[read[n - 1]]]
<1>1. N \in Nat
  OBVIOUS
<1>2. \A x \in OpenUnpacked : Coder!Turn(size)[x] \in OpenUnpacked
  BY TurnIs
<1>3. first \in OpenUnpacked
  BY DEF OpenUnpacked, Coder!Unpacked, OpenDecoders
<1>4. turn \in [1..N -> [OpenUnpacked -> OpenUnpacked]]
      /\ \A k \in 1..N, x \in OpenUnpacked : turn[k][x] = Coder!Turn(size)[x]
  BY <1>2
<1> HIDE DEF turn, first, N
<1>5. PICK g \in [0..N -> OpenUnpacked] : Iterates(g, first, N, turn)
  BY <1>1, <1>3, <1>4, Iteration
<1>6. Is(g)
  <2>1. \A k \in 1..N : g[k - 1] \in OpenUnpacked /\ g[k] = turn[k][g[k - 1]]
    BY <1>1, <1>5 DEF Iterates
  <2>2. \A k \in 1..N : g[k] = Coder!Turn(size)[g[k - 1]]
    BY <2>1, <1>4
  <2>3. g \in [0..N -> OpenUnpacked] /\ g[0] = first
    BY <1>5 DEF Iterates
  <2>4. ASSUME NEW k \in 0..N
        PROVE  g[k] = IF k = 0 THEN first ELSE Coder!Turn(size)[g[k - 1]]
    <3>1. CASE k = 0
      BY <2>3, <3>1, Zenon
    <3>2. CASE k # 0
      <4>1. k \in 1..N
        BY <1>1, <3>2
      <4>. QED BY <2>2, <3>2, <4>1, Zenon
    <3>. QED BY <3>1, <3>2
  <2>5. g = [k \in 0..N |-> g[k]]
    BY <2>3, Zenon
  <2>. QED BY <2>4, <2>5, Zenon
<1>7. r = CHOOSE read : Is(read)
  BY DEF UnpackReads, first, N
<1>8. Is(r)
  BY <1>6, <1>7
<1> HIDE DEF r
<1>9. r[0] = first /\ \A k \in 1..N : r[k] = Coder!Turn(size)[r[k - 1]]
  BY <1>1, <1>8
<1>10. \A k \in 0..N : r[k] \in OpenUnpacked
  <2>1. r[0] \in OpenUnpacked
    BY <1>3, <1>9
  <2>2. ASSUME NEW k \in 1..N, r[k - 1] \in OpenUnpacked PROVE r[k] \in OpenUnpacked
    BY <2>2, <1>2, <1>9
  <2>. QED BY <2>1, <2>2, <1>1, StaysIn
<1>. QED BY <1>9, <1>10 DEF r, first, N

\* The beginnings of a sequence.
LEMMA Beginning ==
  ASSUME NEW D, NEW s \in Seq(D)
  PROVE  /\ SubSeq(s, 1, 0) = << >> /\ SubSeq(s, 1, Len(s)) = s
         /\ \A n \in 1..Len(s) : /\ SubSeq(s, 1, n) = Append(SubSeq(s, 1, n - 1), s[n])
                                 /\ Len(SubSeq(s, 1, n - 1)) = n - 1
<1>1. SubSeq(s, 1, 0) = << >>
  OBVIOUS
<1>2. SubSeq(s, 1, Len(s)) = s
  BY SubSeqFull
<1>3. ASSUME NEW n \in 1..Len(s)
      PROVE  /\ SubSeq(s, 1, n) = Append(SubSeq(s, 1, n - 1), s[n])
             /\ Len(SubSeq(s, 1, n - 1)) = n - 1
  <2> DEFINE a == SubSeq(s, 1, n)
             p == SubSeq(s, 1, n - 1)
             b == Append(p, s[n])
  <2>1. p \in Seq(D)
    OBVIOUS
  <2>2. Len(p) = n - 1
    OBVIOUS
  <2>3. \A i \in 1..n - 1 : p[i] = s[i]
    OBVIOUS
  <2>4. a \in Seq(D)
    OBVIOUS
  <2>5. Len(a) = n
    OBVIOUS
  <2>6. \A i \in 1..n : a[i] = s[i]
    OBVIOUS
  <2> HIDE DEF a, p
  <2>7. b \in Seq(D)
    BY <2>1
  <2>8. Len(b) = n
    BY <2>1, <2>2
  <2>9. \A i \in 1..n : b[i] = s[i]
    BY <2>1, <2>2, <2>3
  <2> HIDE DEF b
  <2>10. a = b
    BY <2>4, <2>5, <2>6, <2>7, <2>8, <2>9
  <2>. QED BY <2>2, <2>10 DEF a, b, p
<1>. QED BY <1>1, <1>2, <1>3

\* What is written for a key, after the header: the encoder has ended every byte
\* within it.
LEMMA WrittenIs ==
  ASSUME KeySizes, NEW raw \in Seq(Coder!Octets)
  PROVE  LET c == ByteRounds(raw)
             z == Coder!EncodeBit(0)[c[Len(raw)]]
             F == Coder!Flush(z)
         IN /\ F \in Seq(Coder!Octets) /\ WrittenIn(z, F) /\ \A n \in 0..Len(raw) : WrittenIn(c[n], F)
            /\ Coder!Pack(raw) = Packed(Len(raw), F)
<1> DEFINE c == ByteRounds(raw)
           N == Len(raw)
           z == Coder!EncodeBit(0)[c[N]]
           F == Coder!Flush(z)
<1>1. /\ \A n \in 0..N : c[n] \in Opens
      /\ \A n \in 1..N : c[n] = Coder!EncodeByte(raw[n])[c[n - 1]]
  BY ByteRoundsAre
<1>2. Coder!Pack(raw) = Packed(N, F)
  BY ByteRoundsAre DEF Packed
<1>3. N \in Nat /\ \A n \in 1..N : raw[n] \in Coder!Octets
  OBVIOUS
<1> HIDE DEF c, N
<1>4. Open(z) /\ Coder!TopByte(z.lo) # Coder!TopByte(z.hi)
      /\ \A f \in Seq(Coder!Octets) : WrittenIn(z, f) => WrittenIn(c[N], f)
  <2>1. c[N] \in Opens /\ N \in 0..N
    BY <1>1, <1>3
  <2>2. Open(c[N])
    BY <2>1 DEF Open, Opens
  <2>. QED BY <2>2, EncodeBitIs
<1>5. z \in Opens
  BY <1>4 DEF Open, Opens
<1> HIDE DEF z
<1>6. F \in Seq(Coder!Octets) /\ WrittenIn(z, F)
  BY <1>4, <1>5, FlushIs
<1> HIDE DEF F
<1>7. \A n \in 0..N : WrittenIn(c[n], F)
  <2> DEFINE S == {n \in 0..N : WrittenIn(c[n], F)}
             id == [n \in 0..N |-> n]
  <2>1. id[N] \in S
    BY <1>3, <1>4, <1>6
  <2>2. ASSUME NEW n \in 1..N, id[n] \in S PROVE id[n - 1] \in S
    <3>1. n - 1 \in 0..N /\ n \in 0..N
      BY <1>3
    <3>2. WrittenIn(Coder!EncodeByte(raw[n])[c[n - 1]], F) /\ c[n - 1] \in Opens /\ raw[n] \in Coder!Octets
      BY <3>1, <2>2, <1>1, <1>3
    <3>3. WrittenIn(c[n - 1], F)
      BY <3>2, <1>6, EncodeByteIs
    <3>. QED BY <3>1, <3>3
  <2>3. \A n \in 0..N : id[n] \in S
    <3> HIDE DEF id, S
    <3>. QED BY <2>1, <2>2, <1>3, StaysBack
  <2>. QED BY <2>3
<1>. QED BY <1>2, <1>6, <1>7 DEF F, z, c, N

\* What is unpacked after each turn.
LEMMA BytesAreRead ==
  ASSUME KeySizes, NEW raw \in Seq(Coder!Octets)
  PROVE  LET F == Coder!Flush(Coder!EncodeBit(0)[ByteRounds(raw)[Len(raw)]])
         IN UnpackReads(Len(raw), F)[Len(raw) + 1].out = raw
<1> DEFINE c == ByteRounds(raw)
           N == Len(raw)
           z == Coder!EncodeBit(0)[c[N]]
           F == Coder!Flush(z)
           r == UnpackReads(N, F)
           P(n) == SubSeq(raw, 1, n)
           S == {n \in 0..N : /\ ~r[n].end /\ r[n].out = P(n)
                              /\ Follows2(r[n].d, c[n]) /\ Reads2(r[n].d, c[n], F)}
           id == [n \in 0..N |-> n]
<1>1. /\ \A n \in 0..N : c[n] \in Opens
      /\ c[0] = Begun
      /\ \A n \in 1..N : c[n] = Coder!EncodeByte(raw[n])[c[n - 1]]
  BY ByteRoundsAre
<1>2. F \in Seq(Coder!Octets) /\ WrittenIn(z, F) /\ \A n \in 0..N : WrittenIn(c[n], F)
  BY WrittenIs
<1>3. N \in Nat /\ \A n \in 1..N : raw[n] \in Coder!Octets
  OBVIOUS
<1>4. P(0) = << >> /\ P(N) = raw
      /\ \A n \in 1..N : P(n) = Append(P(n - 1), raw[n]) /\ Len(P(n - 1)) = n - 1
  BY Beginning
<1> HIDE DEF c, N, F, P
<1>5. Follows2(Coder!Start(F), Begun) /\ Reads2(Coder!Start(F), Begun, F)
  BY <1>2, StartIs
<1>6. Coder!Start(F) \in OpenDecoders
  <2>1. Begun \in Opens
    BY <1>1, <1>3
  <2>. QED BY <2>1, <1>5 DEF Follows2, Opens, OpenDecoders
<1>7. /\ \A n \in 0..N + 1 : r[n] \in OpenUnpacked
      /\ r[0] = [d |-> Coder!Start(F), out |-> << >>, end |-> FALSE]
      /\ \A n \in 1..N + 1 : r[n] = Coder!Turn(N)[r[n - 1]]
  BY <1>3, <1>6, UnpackReadsAre
<1> HIDE DEF r
<1>8. id[0] \in S
  <2>1. ~r[0].end /\ r[0].out = << >> /\ r[0].d = Coder!Start(F)
    BY <1>7
  <2>2. id[0] = 0 /\ 0 \in 0..N
    BY <1>3
  <2>. QED BY <2>1, <2>2, <1>1, <1>4, <1>5
<1>9. ASSUME NEW n \in 1..N, id[n - 1] \in S PROVE id[n] \in S
  <2> DEFINE j == n - 1
             e == c[j]
             x == r[j]
             byte == raw[n]
             b == BitRounds(e, byte)
             more == Coder!DecodeBit[x.d]
             next == Coder!DecodeByte[more.d]
  <2>1. j \in 0..N /\ n \in 0..N /\ j \in 0..N + 1 /\ n \in 1..N + 1 /\ j < N
    BY <1>3
  <2>2. ~x.end /\ x.out = P(j) /\ Follows2(x.d, e) /\ Reads2(x.d, e, F)
    BY <1>9, <2>1
  <2>3. /\ e \in Opens /\ byte \in Coder!Octets /\ c[n] = Coder!EncodeByte(byte)[e]
        /\ WrittenIn(c[n], F) /\ r[n] = Coder!Turn(N)[x] /\ x \in OpenUnpacked
    BY <1>1, <1>2, <1>3, <1>7, <2>1
  <2>4. P(n) = Append(P(j), byte) /\ Len(P(j)) = j
    BY <1>4
  <2> HIDE DEF j, e, x, byte
  <2>5. WrittenIn(Coder!EncodeBit(1)[e], F)
    <3>1. KeyBits \in Nat
      BY DEF KeySizes
    <3>2. 0 \in 0..KeyBits
      BY <3>1
    <3>3. b[0] = Coder!EncodeBit(1)[e]
      BY <2>3, BitRoundsAre
    <3>4. WrittenIn(Coder!EncodeByte(byte)[e], F)
      BY <2>3
    <3>5. WrittenIn(b[0], F)
      BY <3>2, <3>4, <2>3, <1>2, EncodeByteIs
    <3>. QED BY <3>3, <3>5
  <2>6. /\ more.bit = 1 /\ Follows2(more.d, Coder!EncodeBit(1)[e])
        /\ Reads2(more.d, Coder!EncodeBit(1)[e], F)
    <3>1. 1 \in {0, 1}
      OBVIOUS
    <3>. QED BY <3>1, <2>2, <2>3, <2>5, <1>2, DecodeBitIs
  <2> HIDE DEF more, b
  <2>7. next.b = Coder!Octet + byte /\ Follows2(next.d, c[n]) /\ Reads2(next.d, c[n], F)
    <3>1. WrittenIn(Coder!EncodeByte(byte)[e], F)
      BY <2>3
    <3>. QED BY <3>1, <2>3, <2>6, <1>2, DecodeByteIs
  <2> HIDE DEF next
  <2>8. r[n].d = next.d /\ r[n].out = Append(x.out, next.b - Coder!Octet) /\ ~r[n].end
    <3>1. Len(x.out) < N
      BY <2>1, <2>2, <2>4
    <3>. QED BY <3>1, <2>2, <2>3, <2>6, <1>3, TurnIs DEF more, next
  <2>9. next.b - Coder!Octet = byte
    <3>1. Coder!Octet \in Nat /\ byte \in Int
      BY <2>3, WidthsAre DEF Coder!Octets
    <3>. QED BY <3>1, <2>7
  <2>10. r[n].out = P(n)
    BY <2>2, <2>4, <2>8, <2>9
  <2>. QED BY <2>1, <2>7, <2>8, <2>10
<1>10. \A n \in 0..N : id[n] \in S
  <2> HIDE DEF id, S
  <2>. QED BY <1>3, <1>8, <1>9, StaysIn
<1>11. ~r[N].end /\ r[N].out = raw /\ Follows2(r[N].d, c[N]) /\ Reads2(r[N].d, c[N], F)
  BY <1>10, <1>3, <1>4
<1>12. Coder!DecodeBit[r[N].d].bit = 0
  <2>1. c[N] \in Opens /\ 0 \in {0, 1} /\ WrittenIn(Coder!EncodeBit(0)[c[N]], F)
    BY <1>1, <1>2, <1>3
  <2>. QED BY <2>1, <1>2, <1>11, DecodeBitIs
<1>13. r[N + 1] = Coder!Turn(N)[r[N]] /\ r[N] \in OpenUnpacked
  <2>1. N + 1 \in 1..N + 1 /\ (N + 1) - 1 = N /\ N \in 0..N + 1
    BY <1>3
  <2>. QED BY <2>1, <1>7
<1>14. r[N + 1].out = r[N].out
  <2>1. Len(r[N].out) = N
    BY <1>11 DEF N
  <2>. QED BY <2>1, <1>3, <1>11, <1>12, <1>13, TurnIs
<1>. QED BY <1>11, <1>14 DEF r, F, N, c

\* A key that is packed is unpacked as it was.
LEMMA KeyIsUnpacked ==
  ASSUME KeySizes, NEW raw \in Seq(Coder!Octets), Len(raw) <= MaxKey
  PROVE  Coder!Pack(raw) \in Seq(Coder!Octets) /\ Coder!Unpack(Coder!Pack(raw)) = raw
<1> DEFINE N == Len(raw)
           F == Coder!Flush(Coder!EncodeBit(0)[ByteRounds(raw)[N]])
           data == Packed(N, F)
           b == KeySizeBytes
           src == SubSeq(data, b + 2, Len(data))
           size == SizeReads(data)
<1>1. N \in Nat /\ b \in Nat /\ N <= MaxKey /\ MaxKey \in Nat
      /\ N \in 0..Coder!Power(Coder!Octet, b) - 1
  <2>1. Coder!Octet \in Nat
    BY WidthsAre
  <2>2. b \in Nat /\ MaxKey \in Nat /\ MaxKey < Coder!Power(Coder!Octet, b)
    BY DEF KeySizes
  <2>3. Coder!Power(Coder!Octet, b) \in Nat
    BY <2>1, <2>2, KeyPowerIs
  <2>. QED BY <2>2, <2>3
<1>2. F \in Seq(Coder!Octets) /\ Coder!Pack(raw) = data
  BY WrittenIs
<1>3. UnpackReads(N, F)[N + 1].out = raw
  BY BytesAreRead
<1> HIDE DEF N, F
<1>4. data \in Seq(Coder!Octets) /\ Len(data) = b + 1 + Len(F) /\ data[1] = Coder!Tag /\ src = F
  BY <1>1, <1>2, PackedIs
<1>5. size[b] = N
  BY <1>1, <1>2, SizeIsRead
<1>6. Coder!Unpack(data) =
        IF Len(data) < b + 1 \/ data[1] # Coder!Tag \/ size[b] > MaxKey THEN Coder!Bad
        ELSE UnpackReads(size[b], src)[size[b] + 1].out
  BY DEF Coder!Unpack, SizeReads, UnpackReads
<1> HIDE DEF data, size, src
<1>7. ~(Len(data) < b + 1) /\ ~(size[b] > MaxKey)
  <2>1. Len(F) \in Nat
    BY <1>2
  <2>. QED BY <2>1, <1>1, <1>4, <1>5
<1>8. Coder!Unpack(data) = UnpackReads(N, F)[N + 1].out
  BY <1>4, <1>5, <1>6, <1>7
<1>. QED BY <1>2, <1>3, <1>4, <1>8
-----------------------------------------------------------------------------
(* Base64.                                                                  *)

Bytes8 == 0..255

\* The number that three bytes are, from a place on.
ThreeBytes(data, i) ==
  Text64!At(data, i) * 65536 + Text64!At(data, i + 1) * 256 + Text64!At(data, i + 2)

\* Its letters are the number, its bytes the three.
TheLetters(n, a, b, c) ==
  /\ \A k \in 0..3 : Text64!Letter(n, k) \in Text64!Letters
  /\ n = Text64!Letter(n, 0) * 262144 + Text64!Letter(n, 1) * 4096
           + Text64!Letter(n, 2) * 64 + Text64!Letter(n, 3)
  /\ n \div 65536 = a /\ (n \div 256) % 256 = b /\ n % 256 = c
  /\ c = 0 => Text64!Letter(n, 3) = 0
  /\ b = 0 /\ c = 0 => Text64!Letter(n, 2) = 0

\* They are.
LEMMA LettersAre ==
  ASSUME NEW a \in Bytes8, NEW b \in Bytes8, NEW c \in Bytes8
  PROVE  TheLetters(a * 65536 + b * 256 + c, a, b, c)
<1> DEFINE n == a * 65536 + b * 256 + c
<1>1. n \in Nat /\ n < 16777216
  <2>1. a \in Nat /\ a <= 255 /\ b \in Nat /\ b <= 255 /\ c \in Nat /\ c <= 255
    BY DEF Bytes8
  <2>. QED BY <2>1
<1>2. n \div 65536 = a /\ (n \div 256) % 256 = b /\ n % 256 = c
  BY DEF Bytes8
<1>3. c = 0 => n % 64 = 0
  BY DEF Bytes8
<1>4. b = 0 /\ c = 0 => (n \div 64) % 64 = 0
  BY DEF Bytes8
<1> HIDE DEF n
<1>5. /\ (n \div 262144) % 64 \in Text64!Letters /\ (n \div 4096) % 64 \in Text64!Letters
      /\ (n \div 64) % 64 \in Text64!Letters /\ n % 64 \in Text64!Letters
  <2>1. \A m \in Int : m % 64 \in Text64!Letters
    BY DEF Text64!Letters
  <2>2. n \in Int /\ n \div 262144 \in Int /\ n \div 4096 \in Int /\ n \div 64 \in Int
    BY <1>1
  <2>. QED BY <2>1, <2>2
<1>6. n = ((n \div 262144) % 64) * 262144 + ((n \div 4096) % 64) * 4096
            + ((n \div 64) % 64) * 64 + (n % 64)
  BY <1>1
<1>7. /\ Text64!Letter(n, 0) = (n \div 262144) % 64 /\ Text64!Letter(n, 1) = (n \div 4096) % 64
      /\ Text64!Letter(n, 2) = (n \div 64) % 64 /\ Text64!Letter(n, 3) = n % 64
  BY DEF Text64!Letter
<1>8. \A k \in 0..3 : k = 0 \/ k = 1 \/ k = 2 \/ k = 3
  OBVIOUS
<1>9. \A k \in 0..3 : Text64!Letter(n, k) \in Text64!Letters
  BY <1>5, <1>7, <1>8
<1>10. TheLetters(n, a, b, c)
  BY <1>2, <1>3, <1>4, <1>6, <1>7, <1>9 DEF TheLetters
<1>. QED BY <1>10 DEF n

\* Where the groups of three bytes are, and the last byte.
Groups(data) == (Len(data) + 2) \div 3

\* The four characters of a group.
LEMMA TextIs ==
  ASSUME NEW data \in Seq(Bytes8)
  PROVE  LET text == Text64!Encode(data)
         IN /\ Len(text) = 4 * Groups(data) /\ Len(text) \div 4 = Groups(data)
            /\ Groups(data) \in Nat
            /\ \A g \in 1..Groups(data), k \in 0..3 :
                 text[(4 * g - 4) + k + 1] =
                   IF 3 * g - 2 + k <= Len(data) + 1
                   THEN Text64!Letter(ThreeBytes(data, 3 * g - 2), k) ELSE Text64!Pad
<1> DEFINE text == Text64!Encode(data)
           G == Groups(data)
           L == Len(data)
<1>1. L \in Nat /\ G \in Nat /\ G = (L + 2) \div 3
  <2>1. L \in Nat /\ G = (L + 2) \div 3
    BY DEF Groups
  <2> HIDE DEF L, G
  <2>. QED BY <2>1
<1>2. text = [j \in 1..4 * G |->
         LET k == (j - 1) % 4
             i == 3 * ((j - 1) \div 4) + 1
         IN IF i + k <= L + 1 THEN Text64!Letter(ThreeBytes(data, i), k) ELSE Text64!Pad]
  BY DEF Text64!Encode, ThreeBytes, Groups
<1> HIDE DEF text, G, L
<1>3. Len(text) = 4 * G
  <2> DEFINE m == 4 * G
             T == {text[j] : j \in 1..m}
  <2>1. m \in Nat
    BY <1>1
  <2>2. \A j \in 1..m : text[j] \in T
    OBVIOUS
  <2>3. text = [j \in 1..m |-> text[j]]
    BY <1>2
  <2> HIDE DEF m, T
  <2>4. text \in Seq(T) /\ Len(text) = m
    BY <2>1, <2>2, <2>3
  <2>. QED BY <2>4 DEF m
<1>4. (4 * G) \div 4 = G
  BY <1>1
<1>5. ASSUME NEW g \in 1..G, NEW k \in 0..3
      PROVE  text[(4 * g - 4) + k + 1] =
               IF 3 * g - 2 + k <= L + 1
               THEN Text64!Letter(ThreeBytes(data, 3 * g - 2), k) ELSE Text64!Pad
  <2> DEFINE j == (4 * g - 4) + k + 1
  <2>1. j \in 1..4 * G
    BY <1>1
  <2>2. (j - 1) % 4 = k /\ (j - 1) \div 4 = g - 1
    <3>1. g \in Int /\ k \in Int /\ 0 <= k /\ k <= 3 /\ j - 1 = 4 * (g - 1) + k
      BY <1>1
    <3> DEFINE h == g - 1
    <3>2. h \in Int /\ j - 1 = 4 * h + k
      BY <3>1
    <3> HIDE DEF h, j
    <3>3. (4 * h + k) % 4 = k /\ (4 * h + k) \div 4 = h
      BY <3>1, <3>2
    <3>. QED BY <3>2, <3>3 DEF h
  <2>3. 3 * (g - 1) + 1 = 3 * g - 2
    BY <1>1
  <2> HIDE DEF j
  <2>4. text[j] = IF (3 * ((j - 1) \div 4) + 1) + ((j - 1) % 4) <= L + 1
                  THEN Text64!Letter(ThreeBytes(data, 3 * ((j - 1) \div 4) + 1), (j - 1) % 4)
                  ELSE Text64!Pad
    BY <1>2, <2>1
  <2>. QED BY <2>2, <2>3, <2>4 DEF j
<1>. QED BY <1>1, <1>3, <1>4, <1>5 DEF text, G, L

\* A letter or a padding is read as six bits.
Characters == Text64!Letters \cup {Text64!Pad}

\* Those six bits, when the character is one of those.
LEMMA SixIs ==
  ASSUME NEW text, NEW i \in Nat, \A j \in 0..3 : text[i + j + 1] \in Characters
  PROVE  \A k \in 0..3 : Text64!Six(text, i, k) = text[i + k + 1] % 64
<1>1. ASSUME NEW k \in 0..3
      PROVE  Text64!Six(text, i, k) = text[i + k + 1] % 64
  <2>1. \A j \in k..3 : text[i + j + 1] \in Characters
    <3>1. \A j \in k..3 : j \in 0..3
      OBVIOUS
    <3>. QED BY <3>1
  <2>. QED BY <2>1 DEF Text64!Six, Characters
<1>. QED BY <1>1

\* A byte more.
LEMMA BytesMore ==
  ASSUME NEW D, NEW s \in Seq(D), NEW a \in D, NEW b \in D, NEW c \in D
  PROVE  /\ s \o (<<a>> \o << >> \o << >>) = Append(s, a)
         /\ s \o (<<a>> \o <<b>> \o << >>) = Append(Append(s, a), b)
         /\ s \o (<<a>> \o <<b>> \o <<c>>) = Append(Append(Append(s, a), b), c)
<1>1. s \o (<<a>> \o << >> \o << >>) = Append(s, a)
  OBVIOUS
<1>2. s \o (<<a>> \o <<b>> \o << >>) = Append(Append(s, a), b)
  OBVIOUS
<1>3. s \o (<<a>> \o <<b>> \o <<c>>) = Append(Append(Append(s, a), b), c)
  <2> DEFINE t == <<a>> \o <<b>> \o <<c>>
             u == s \o t
             p == Append(s, a)
             q == Append(p, b)
             v == Append(q, c)
             n == Len(s)
  <2>1. t \in Seq(D) /\ Len(t) = 3 /\ t[1] = a /\ t[2] = b /\ t[3] = c
    OBVIOUS
  <2> HIDE DEF t
  <2>2. t \in Seq(D)
    BY <2>1
  <2>3. Len(u) = n + Len(t)
    BY <2>2
  <2>4. \A i \in 1..Len(t) : u[n + i] = t[i]
    BY <2>2
  <2>5. u \in Seq(D)
    BY <2>2
  <2>6. \A i \in 1..n : u[i] = s[i]
    BY <2>2
  <2> HIDE DEF u
  <2>7. Len(u) = n + 3
    BY <2>1, <2>3
  <2>8. u[n + 1] = a /\ u[n + 2] = b /\ u[n + 3] = c
    <3>1. 1 \in 1..3 /\ 2 \in 1..3 /\ 3 \in 1..3
      OBVIOUS
    <3>. QED BY <3>1, <2>1, <2>4
  <2>9. p \in Seq(D) /\ Len(p) = n + 1 /\ (\A i \in 1..n : p[i] = s[i]) /\ p[n + 1] = a
    OBVIOUS
  <2> HIDE DEF p, n
  <2>10. n \in Nat
    BY DEF n
  <2>11. q \in Seq(D) /\ Len(q) = n + 2 /\ (\A i \in 1..n + 1 : q[i] = p[i]) /\ q[n + 2] = b
    BY <2>9, <2>10
  <2> HIDE DEF q
  <2>12. v \in Seq(D) /\ Len(v) = n + 3 /\ (\A i \in 1..n + 2 : v[i] = q[i]) /\ v[n + 3] = c
    BY <2>10, <2>11
  <2> HIDE DEF v
  <2>13. ASSUME NEW i \in 1..n + 3 PROVE u[i] = v[i]
    <3>1. CASE i \in 1..n
      <4>1. i \in 1..n + 1 /\ i \in 1..n + 2
        BY <2>10, <3>1
      <4>. QED BY <4>1, <3>1, <2>6, <2>9, <2>11, <2>12
    <3>2. CASE i = n + 1
      <4>1. i \in 1..n + 1 /\ i \in 1..n + 2
        BY <2>10, <3>2
      <4>. QED BY <4>1, <3>2, <2>8, <2>9, <2>11, <2>12
    <3>3. CASE i = n + 2
      <4>1. i \in 1..n + 2
        BY <2>10, <3>3
      <4>. QED BY <4>1, <3>3, <2>8, <2>11, <2>12
    <3>4. CASE i = n + 3
      BY <3>4, <2>8, <2>12
    <3>. QED BY <3>1, <3>2, <3>3, <3>4, <2>10
  <2>14. u = v
    BY <2>7, <2>5, <2>12, <2>13
  <2>. QED BY <2>14 DEF u, t, v, q, p
<1>. QED BY <1>1, <1>2, <1>3

\* The bytes that are known after g groups.
Upto(data, g) == SubSeq(data, 1, IF 3 * g <= Len(data) THEN 3 * g ELSE Len(data))

\* The bytes that a group's characters are read as.
LEMMA GroupIs ==
  ASSUME NEW data \in Seq(Bytes8), NEW g \in 1..Groups(data)
  PROVE  Upto(data, g) = Upto(data, g - 1) \o Text64!Three(Text64!Encode(data), 4 * g - 4)
<1> DEFINE L == Len(data)
           text == Text64!Encode(data)
           tx == 4 * g - 4
           i == 3 * g - 2
           a == Text64!At(data, i)
           b == Text64!At(data, i + 1)
           c == Text64!At(data, i + 2)
           n == ThreeBytes(data, i)
           ch(k) == text[tx + k + 1]
           P(m) == SubSeq(data, 1, m)
<1>1. /\ L \in Nat /\ g \in Nat /\ g >= 1 /\ i \in Nat /\ tx \in Nat /\ i >= 1 /\ i <= L
      /\ i + 1 \in Nat /\ i + 2 \in Nat
  <2>1. L \in Nat /\ Groups(data) = (L + 2) \div 3
    BY DEF Groups
  <2> HIDE DEF L
  <2>2. g \in Nat /\ 1 <= g /\ g <= (L + 2) \div 3
    BY <2>1
  <2>3. 3 * ((L + 2) \div 3) <= L + 2
    BY <2>1
  <2>. QED BY <2>1, <2>2, <2>3
<1>2. /\ a \in Bytes8 /\ b \in Bytes8 /\ c \in Bytes8 /\ n = a * 65536 + b * 256 + c
      /\ a = data[i] /\ (i + 1 <= L => b = data[i + 1]) /\ (i + 2 <= L => c = data[i + 2])
      /\ (~(i + 1 <= L) => b = 0 /\ c = 0) /\ (~(i + 2 <= L) => c = 0)
  <2>1. \A j \in 1..L : data[j] \in Bytes8
    OBVIOUS
  <2>2. \A j \in Nat \ {0} : Text64!At(data, j) \in Bytes8
                             /\ Text64!At(data, j) = IF j <= L THEN data[j] ELSE 0
    <3>1. 0 \in Bytes8
      BY DEF Bytes8
    <3>. QED BY <2>1, <3>1, <1>1 DEF Text64!At
  <2>3. n = a * 65536 + b * 256 + c
    BY DEF ThreeBytes
  <2> HIDE DEF n, a, b, c, i, L
  <2>4. i \in Nat \ {0} /\ i + 1 \in Nat \ {0} /\ i + 2 \in Nat \ {0} /\ (i + 2 <= L => i + 1 <= L)
    BY <1>1
  <2>. QED BY <2>2, <2>3, <2>4, <1>1 DEF a, b, c
<1>3. /\ \A k \in 0..3 : Text64!Letter(n, k) \in Text64!Letters
      /\ n = Text64!Letter(n, 0) * 262144 + Text64!Letter(n, 1) * 4096
               + Text64!Letter(n, 2) * 64 + Text64!Letter(n, 3)
      /\ n \div 65536 = a /\ (n \div 256) % 256 = b /\ n % 256 = c
      /\ c = 0 => Text64!Letter(n, 3) = 0
      /\ b = 0 /\ c = 0 => Text64!Letter(n, 2) = 0
  <2> HIDE DEF n, a, b, c
  <2>1. TheLetters(a * 65536 + b * 256 + c, a, b, c)
    BY <1>2, LettersAre
  <2>2. TheLetters(n, a, b, c)
    BY <2>1, <1>2
  <2>. QED BY <2>2 DEF TheLetters
<1>4. \A k \in 0..3 : ch(k) = IF i + k <= L + 1 THEN Text64!Letter(n, k) ELSE Text64!Pad
  BY TextIs
<1> HIDE DEF n, a, b, c, text, tx, i, L
<1>5. /\ ch(0) = Text64!Letter(n, 0) /\ ch(1) = Text64!Letter(n, 1)
      /\ ch(2) = (IF i + 1 <= L THEN Text64!Letter(n, 2) ELSE Text64!Pad)
      /\ ch(3) = (IF i + 2 <= L THEN Text64!Letter(n, 3) ELSE Text64!Pad)
  <2>1. /\ i + 0 <= L + 1 /\ i + 1 <= L + 1 /\ (i + 2 <= L + 1 <=> i + 1 <= L)
        /\ (i + 3 <= L + 1 <=> i + 2 <= L)
        /\ 0 \in 0..3 /\ 1 \in 0..3 /\ 2 \in 0..3 /\ 3 \in 0..3
    BY <1>1
  <2> HIDE DEF ch
  <2>. QED BY <2>1, <1>4
<1>6. \A k \in 0..3 : ch(k) \in Characters
  <2> HIDE DEF ch
  <2>. QED BY <1>3, <1>4 DEF Characters
<1>7. \A k \in 0..3 : Text64!Six(text, tx, k) = ch(k) % 64
  BY <1>1, <1>6, SixIs
<1> HIDE DEF ch
<1>8. \A k \in 0..3 : Text64!Six(text, tx, k) = Text64!Letter(n, k)
  <2>1. \A x \in Text64!Letters : x % 64 = x
    BY DEF Text64!Letters
  <2>2. Text64!Pad % 64 = 0
    BY DEF Text64!Pad
  <2>3. 0 \in 0..3 /\ 1 \in 0..3 /\ 2 \in 0..3 /\ 3 \in 0..3
        /\ \A k \in 0..3 : k = 0 \/ k = 1 \/ k = 2 \/ k = 3
    OBVIOUS
  <2>4. ch(0) % 64 = Text64!Letter(n, 0) /\ ch(1) % 64 = Text64!Letter(n, 1)
    BY <2>1, <2>3, <1>3, <1>5
  <2>5. ch(2) % 64 = Text64!Letter(n, 2)
    BY <2>1, <2>2, <2>3, <1>2, <1>3, <1>5
  <2>6. ch(3) % 64 = Text64!Letter(n, 3)
    BY <2>1, <2>2, <2>3, <1>2, <1>3, <1>5
  <2>. QED BY <2>3, <2>4, <2>5, <2>6, <1>7
<1>9. Text64!Three(text, tx) = <<a>> \o (IF i + 1 <= L THEN <<b>> ELSE << >>)
                                     \o (IF i + 2 <= L THEN <<c>> ELSE << >>)
  <2>1. ch(2) = text[tx + 3] /\ ch(3) = text[tx + 4]
    <3>1. tx + 2 + 1 = tx + 3 /\ tx + 3 + 1 = tx + 4
      BY <1>1
    <3>. QED BY <3>1 DEF ch
  <2>2. Text64!Six(text, tx, 0) * 262144 + Text64!Six(text, tx, 1) * 4096
          + Text64!Six(text, tx, 2) * 64 + Text64!Six(text, tx, 3) = n
    <3>1. 0 \in 0..3 /\ 1 \in 0..3 /\ 2 \in 0..3 /\ 3 \in 0..3
      OBVIOUS
    <3>2. /\ Text64!Six(text, tx, 0) = Text64!Letter(n, 0)
          /\ Text64!Six(text, tx, 1) = Text64!Letter(n, 1)
          /\ Text64!Six(text, tx, 2) = Text64!Letter(n, 2)
          /\ Text64!Six(text, tx, 3) = Text64!Letter(n, 3)
      BY <3>1, <1>8
    <3>. QED BY <3>2, <1>3
  <2>3. Text64!Three(text, tx) =
          <<n \div 65536>> \o (IF text[tx + 3] # Text64!Pad THEN <<(n \div 256) % 256>> ELSE << >>)
                           \o (IF text[tx + 4] # Text64!Pad THEN <<n % 256>> ELSE << >>)
    BY <2>2 DEF Text64!Three
  <2>4. (text[tx + 3] # Text64!Pad <=> i + 1 <= L) /\ (text[tx + 4] # Text64!Pad <=> i + 2 <= L)
    <3>1. Text64!Pad \notin Text64!Letters
      BY DEF Text64!Pad, Text64!Letters
    <3>2. Text64!Letter(n, 2) \in Text64!Letters /\ Text64!Letter(n, 3) \in Text64!Letters
      BY <1>3
    <3>. QED BY <3>1, <3>2, <2>1, <1>5
  <2>5. n \div 65536 = a /\ (n \div 256) % 256 = b /\ n % 256 = c
    BY <1>3
  <2> DEFINE middle == IF text[tx + 3] # Text64!Pad THEN <<(n \div 256) % 256>> ELSE << >>
             last == IF text[tx + 4] # Text64!Pad THEN <<n % 256>> ELSE << >>
             second == IF i + 1 <= L THEN <<b>> ELSE << >>
             third == IF i + 2 <= L THEN <<c>> ELSE << >>
  <2>6. Text64!Three(text, tx) = <<n \div 65536>> \o middle \o last
    BY <2>3
  <2>7. middle = second /\ last = third /\ <<n \div 65536>> = <<a>>
    BY <2>4, <2>5
  <2> HIDE DEF middle, last, second, third
  <2>8. Text64!Three(text, tx) = <<a>> \o second \o third
    BY <2>6, <2>7
  <2>. QED BY <2>8 DEF second, third
<1>10. \A m \in 1..L : P(m) = Append(P(m - 1), data[m])
  BY Beginning DEF L
<1>11. Upto(data, g - 1) = P(i - 1) /\ P(i - 1) \in Seq(Bytes8)
  <2>1. 3 * (g - 1) = i - 1 /\ i - 1 <= L /\ i - 1 \in Nat
    BY <1>1 DEF i
  <2>2. P(i - 1) \in Seq(Bytes8)
    <3>1. \A j \in 1..i - 1 : data[j] \in Bytes8
      BY <2>1, <1>1 DEF L
    <3>2. 1 \in Int /\ i - 1 \in Int
      BY <2>1
    <3>. QED BY <3>1, <3>2, SubSeqProperties
  <2>. QED BY <2>1, <2>2 DEF Upto, L
<1>12. 3 * g = i + 2
  BY <1>1 DEF i
<1> DEFINE s == P(i - 1)
<1>13. P(i) = Append(s, a)
  BY <1>1, <1>2, <1>10
<1>14. CASE i + 2 <= L
  <2>1. P(i + 1) = Append(P(i), b) /\ P(i + 2) = Append(P(i + 1), c)
    <3>1. i + 1 \in 1..L /\ i + 2 \in 1..L /\ (i + 1) - 1 = i /\ (i + 2) - 1 = i + 1 /\ i + 1 <= L
      BY <1>1, <1>14
    <3>2. b = data[i + 1] /\ c = data[i + 2]
      BY <3>1, <1>2, <1>14
    <3> HIDE DEF P
    <3>3. P(i + 1) = Append(P((i + 1) - 1), data[i + 1])
      BY <3>1, <1>10
    <3>4. P(i + 2) = Append(P((i + 2) - 1), data[i + 2])
      BY <3>1, <1>10
    <3>. QED BY <3>1, <3>2, <3>3, <3>4
  <2>2. Upto(data, g) = P(i + 2)
    BY <1>12, <1>14 DEF Upto, L
  <2>3. Text64!Three(text, tx) = <<a>> \o <<b>> \o <<c>>
    <3>1. i + 1 <= L
      BY <1>1, <1>14
    <3>. QED BY <3>1, <1>9, <1>14
  <2> HIDE DEF P
  <2>4. s \o (<<a>> \o <<b>> \o <<c>>) = Append(Append(Append(s, a), b), c)
    BY <1>2, <1>11, BytesMore
  <2>. QED BY <2>1, <2>2, <2>3, <2>4, <1>11, <1>13 DEF text, tx
<1>15. CASE ~(i + 2 <= L) /\ i + 1 <= L
  <2>1. P(i + 1) = Append(P(i), b) /\ L = i + 1
    <3>1. i + 1 \in 1..L /\ (i + 1) - 1 = i /\ L = i + 1
      BY <1>1, <1>15
    <3>2. b = data[i + 1]
      BY <1>2, <1>15
    <3> HIDE DEF P
    <3>3. P(i + 1) = Append(P((i + 1) - 1), data[i + 1])
      BY <3>1, <1>10
    <3>. QED BY <3>1, <3>2, <3>3
  <2>2. Upto(data, g) = P(i + 1)
    BY <2>1, <1>12, <1>15 DEF Upto, L
  <2>3. Text64!Three(text, tx) = <<a>> \o <<b>> \o << >>
    BY <1>9, <1>15
  <2> HIDE DEF P
  <2>4. s \o (<<a>> \o <<b>> \o << >>) = Append(Append(s, a), b)
    BY <1>2, <1>11, BytesMore
  <2>. QED BY <2>1, <2>2, <2>3, <2>4, <1>11, <1>13 DEF text, tx
<1>16. CASE ~(i + 1 <= L)
  <2>1. L = i /\ ~(i + 2 <= L)
    BY <1>1, <1>16
  <2>2. Upto(data, g) = P(i)
    BY <2>1, <1>12 DEF Upto, L
  <2>3. Text64!Three(text, tx) = <<a>> \o << >> \o << >>
    BY <1>9, <1>16, <2>1
  <2> HIDE DEF P
  <2>4. s \o (<<a>> \o << >> \o << >>) = Append(s, a)
    BY <1>2, <1>11, BytesMore
  <2>. QED BY <2>2, <2>3, <2>4, <1>11, <1>13 DEF text, tx
<1>. QED BY <1>14, <1>15, <1>16

\* The function whose last value is what a text is read as.
TextReads(text) ==
  CHOOSE read : read = [g \in 0..Len(text) \div 4 |->
                  IF g = 0 THEN << >> ELSE read[g - 1] \o Text64!Three(text, 4 * g - 4)]

\* What is written in base64 is read as it was.
LEMMA TextIsRead ==
  ASSUME NEW data \in Seq(Bytes8)
  PROVE  Text64!Decode(Text64!Encode(data)) = data
<1> DEFINE text == Text64!Encode(data)
           G == Len(text) \div 4
           r == TextReads(text)
           Step(s, g) == s \o Text64!Three(text, 4 * g - 4)
           sol == [g \in 0..G |-> Upto(data, g)]
           id == [g \in 0..G |-> g]
           S == {g \in 0..G : r[g] = Upto(data, g)}
           Is(f) == f = [g \in 0..G |-> IF g = 0 THEN << >> ELSE Step(f[g - 1], g)]
<1>1. G \in Nat /\ G = Groups(data)
  BY TextIs
<1>2. \A g \in 1..G : Upto(data, g) = Step(Upto(data, g - 1), g)
  <2>1. ASSUME NEW g \in 1..Groups(data)
        PROVE  Upto(data, g) = Upto(data, g - 1) \o Text64!Three(Text64!Encode(data), 4 * g - 4)
    BY GroupIs
  <2>. QED BY <2>1, <1>1
<1>3. Upto(data, 0) = << >> /\ Upto(data, G) = data
  <2> DEFINE L == Len(data)
             P(m) == SubSeq(data, 1, m)
  <2>1. P(0) = << >> /\ P(L) = data
    BY Beginning
  <2>2. L \in Nat /\ G = (L + 2) \div 3
    BY <1>1 DEF Groups
  <2> HIDE DEF L, P, G
  <2>3. 3 * ((L + 2) \div 3) >= L
    BY <2>2
  <2>4. 3 * G >= L /\ 3 * 0 = 0 /\ 0 <= L
    BY <2>2, <2>3
  <2>5. Upto(data, 0) = P(0)
    BY <2>4 DEF Upto, L, P
  <2>6. Upto(data, G) = P(L)
    <3>1. 3 * G <= L => 3 * G = L
      BY <2>2, <2>4
    <3>2. Upto(data, G) = P(IF 3 * G <= L THEN 3 * G ELSE L)
      BY DEF Upto, L, P
    <3>. QED BY <3>1, <3>2
  <2>. QED BY <2>1, <2>5, <2>6
<1>4. Text64!Decode(text) = r[G]
  BY DEF Text64!Decode, TextReads
<1>5. r = CHOOSE f : Is(f)
  BY DEF TextReads
<1> HIDE DEF text, G, r, Step
<1>6. Is(sol)
  <2>1. sol[0] = << >>
    BY <1>1, <1>3
  <2>2. ASSUME NEW g \in 1..G PROVE sol[g] = Step(sol[g - 1], g)
    <3>1. g \in 0..G /\ g - 1 \in 0..G
      BY <1>1
    <3>. QED BY <3>1, <1>2
  <2>3. sol = [g \in 0..G |-> sol[g]]
    OBVIOUS
  <2> HIDE DEF sol
  <2>4. \A g \in 0..G : sol[g] = IF g = 0 THEN << >> ELSE Step(sol[g - 1], g)
    BY <2>1, <2>2, <1>1
  <2>. QED BY <2>3, <2>4
<1> HIDE DEF sol
<1>7. Is(r)
  BY <1>5, <1>6
<1>8. id[0] \in S
  BY <1>1, <1>3, <1>7
<1>9. ASSUME NEW g \in 1..G, id[g - 1] \in S PROVE id[g] \in S
  <2>1. g \in 0..G /\ g - 1 \in 0..G /\ r[g - 1] = Upto(data, g - 1)
    BY <1>1, <1>9
  <2>2. r[g] = Step(r[g - 1], g)
    BY <1>1, <1>7, <2>1
  <2>3. r[g] = Upto(data, g)
    BY <1>2, <2>1, <2>2
  <2>. QED BY <2>1, <2>3
<1>10. \A g \in 0..G : id[g] \in S
  <2> HIDE DEF id, S
  <2>. QED BY <1>1, <1>8, <1>9, StaysIn
<1>11. r[G] = Upto(data, G)
  BY <1>1, <1>10
<1>. QED BY <1>3, <1>4, <1>11 DEF text

(* A key that is packed and written in base64 is the key that a job reads   *)
(* from it, and a text in base64 is the text that is read from it           *)
(* (main.cpp: /test/keygen; pvac_serialize.hpp, base64.hpp), for every      *)
(* width of an octet up to eight bits and every length that the size's      *)
(* bytes can hold.                                                          *)
THEOREM KeysAreKept ==
  ASSUME KeySizes,
         input.kind = "key" => /\ input.raw \in Seq(Coder!Octets) /\ Len(input.raw) <= MaxKey
                               /\ input.text \in Seq(Bytes8)
  PROVE  KeysKept
<1> SUFFICES ASSUME input.kind = "key"
             PROVE  /\ Coder!Unpack(Text64!Decode(Text64!Encode(Coder!Pack(input.raw)))) = input.raw
                    /\ Text64!Decode(Text64!Encode(input.text)) = input.text
  BY DEF KeysKept
<1> DEFINE raw == input.raw
           text == input.text
           data == Coder!Pack(raw)
<1>1. raw \in Seq(Coder!Octets) /\ Len(raw) <= MaxKey /\ text \in Seq(Bytes8)
  OBVIOUS
<1> HIDE DEF raw, text
<1>2. data \in Seq(Coder!Octets) /\ Coder!Unpack(data) = raw
  BY <1>1, KeyIsUnpacked
<1> HIDE DEF data
<1>3. Coder!Octets \subseteq Bytes8
  <2>1. Coder!Octet \in Nat /\ Coder!Octet <= 256
    BY WidthsAre
  <2>. QED BY <2>1 DEF Coder!Octets, Bytes8
<1>4. data \in Seq(Bytes8)
  BY <1>2, <1>3
<1>5. Text64!Decode(Text64!Encode(data)) = data
  BY <1>4, TextIsRead
<1>6. Text64!Decode(Text64!Encode(text)) = text
  BY <1>1, TextIsRead
<1>. QED BY <1>2, <1>5, <1>6 DEF data, raw, text

=============================================================================
