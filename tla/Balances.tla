------------------------------ MODULE Balances ------------------------------
(***************************************************************************)
(* The cipher operations of src/src/prover.hpp, as a client uses them: it   *)
(* keeps ciphers, one of which may come from elsewhere, and sends them back *)
(* for differences and for proofs.                                          *)
(***************************************************************************)
EXTENDS Ciphers

CONSTANTS Values,    \* amounts that are encrypted
          Noises,    \* the randomness of an encryption
          Foreign,   \* ciphers from elsewhere
          MaxCts     \* bound on the ciphers a client keeps

ASSUME BalancesAssumption == /\ TwoTo(WordBits) <= Prime
                             /\ Values \subseteq 0..TwoTo(WordBits) - 1
                             /\ Noises # {} /\ \A noise \in Noises : IsNoise(noise)
                             /\ Foreign \subseteq CipherSet
                             /\ MaxCts \in Nat \ {0}

VARIABLES cts,   \* the client's ciphers
          told   \* the range proofs of the last answer

ledger == <<cts, told>>

Words == 0..TwoTo(WordBits) - 1
SomeNoise == CHOOSE n \in Noises : TRUE

\* A range proof for ct and value; with whose plaintext the value was found.
RangeProof(ct, value, from) == [ct |-> ct, value |-> value, from |-> from]

\* What it proves to be zero.
Zeros(p) == ZerosOfRange(p.ct, p.value, SomeNoise)

LedgerInit == /\ cts \in {<<>>} \cup {<<ct>> : ct \in Foreign}
              /\ told = {}

\* shield, encrypt_value
Encrypt(v, noise) == /\ Len(cts) < MaxCts
                     /\ cts' = Append(cts, EncValue(v, noise))
                     /\ told' = {}

\* ct_subtract
Subtract(i, j) == /\ Len(cts) < MaxCts
                  /\ cts' = Append(cts, Sub(cts[i], cts[j]))
                  /\ told' = {}

\* stealth: the balance is decrypted, the amount encrypted, and what is left is
\* the number that the second proof is for.
Stealth(i, amount, noise) ==
  LET balance == Low(Dec(cts[i]))
      delta == EncValue(amount, noise)
      rest == Sub(cts[i], delta)
  IN /\ Len(cts) < MaxCts
     /\ balance >= amount
     /\ ValueOk(delta) /\ ValueOk(rest)
     /\ cts' = Append(cts, delta)
     /\ told' = {RangeProof(delta, amount, <<>>),
                 RangeProof(rest, balance - amount, <<cts[i]>>)}

\* claim
Claim(amount, noise) ==
  LET ct == EncValue(amount, noise)
  IN /\ Len(cts) < MaxCts
     /\ ValueOk(ct)
     /\ cts' = Append(cts, ct)
     /\ told' = {RangeProof(ct, amount, <<>>)}

\* range_proof, with a value the client gives.
ProveRange(i, value) == /\ Len(cts) < MaxCts
                        /\ ValueOk(cts[i])
                        /\ told' = {RangeProof(cts[i], value, <<>>)}
                        /\ UNCHANGED cts

LedgerNext ==
  \/ \E v \in Values, n \in Noises : Encrypt(v, n) \/ Claim(v, n)
  \/ \E i \in DOMAIN cts : \/ \E j \in DOMAIN cts : Subtract(i, j)
                           \/ \E v \in Values, n \in Noises : Stealth(i, v, n)
                           \/ \E v \in Words : ProveRange(i, v)

LedgerSpec == LedgerInit /\ [][LedgerNext]_ledger

-----------------------------------------------------------------------------
\* Every cipher the server hands out is one that it takes back: its layers are
\* numbered without gaps and parents come before their products.
LedgerTypeOK == /\ Len(cts) <= MaxCts /\ Cardinality(told) <= 2
                /\ \A i \in DOMAIN cts : ShapeOk(cts[i])

\* The ciphers mean what a client takes them for, however layers are renumbered
\* and edges merged on the way.
ImplementsAmounts ==
  INSTANCE Amounts WITH amounts <- [i \in DOMAIN cts |-> Dec(cts[i])]
LedgerImplements == ImplementsAmounts!Spec

\* A range proof rests on true statements exactly if its value is the plaintext.
\* For what is left of a balance that is so exactly if the balance is a word:
\* of a larger one, a negative one among them, stealth takes the low word.
ClaimsRight == \A p \in told :
  LET true == \A z \in Zeros(p) : Dec(z) = 0
  IN /\ true <=> Dec(p.ct) = p.value
     /\ p.from # <<>> => (true <=> Dec(p.from[1]) \in Words)
=============================================================================
