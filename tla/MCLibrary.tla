----------------------------- MODULE MCLibrary -----------------------------
(***************************************************************************)
(* The parts of the program that compute: a run chooses one of them and     *)
(* either an input for it, or lets its threads or its client go on.  What   *)
(* an algorithm makes of its input is looked at in the state that has it,   *)
(* or in the step that chooses it.                                          *)
(***************************************************************************)
EXTENDS R1CS, Balances, LazyTables, RangeWorkers, LibraryInputs, Bitwise

VARIABLE part   \* what this behaviour is about

library == <<part, input, ledger, tables, workers>>

-----------------------------------------------------------------------------
(* The parameters, small.  A byte has four bits, a limb of the field too,   *)
(* where ciphers are concerned two.                                         *)

MCGenG(i) == (7919 * i + 31 * i * i * i) % 32749
MCGenH(i) == (4409 * i + 57 * i * i * i + 3) % 32749
MCRandom(k) == (12347 * k + 8 * k * k * k + 99) % 32749

MCFactor == <<3, 5, 6, 2>>
MCDelta == <<<<1, 4>>, <<6, 2>>, <<3, 3>>, <<5, 1>>>>
MCBlind == <<77, 1234, 9, 20000>>

Node(i, c, w) == [idx |-> i, ch |-> c, w |-> w]
Half(s, i, a, b, c, x) ==
  [seed |-> s,
   nodes |-> <<Node(i, x, 2), Node((i + 1) % 3, -x, 5)>>,
   pairs |-> <<[a |-> a, b |-> b, sa |-> x, ra |-> 3]>>,
   triples |-> <<[a |-> c, b |-> a, c |-> b, sa |-> x, sb |-> 1, sc |-> -x, ra |-> 1, rb |-> 4]>>]
Noise(s, i, x, m) ==
  [m |-> m, first |-> Half(s, i, 0, 1, 2, x), second |-> Half(s + 1, (i + 1) % 3, 2, 0, 1, -x),
   repack |-> <<Node(i, x, 4), Node((i + 2) % 3, -x, 1)>>]
NoiseOne == Noise(1, 0, 1, 3)
NoiseTwo == Noise(3, 1, -1, 5)
MCNoises == {NoiseOne, NoiseTwo}

BaseLayer(s) == [rule |-> "base", seed |-> s]
ProdLayer(a, b) == [rule |-> "prod", pa |-> a, pb |-> b]
EdgeOf(l, i, c, w) == [layer |-> l, idx |-> i, ch |-> c, w |-> w]

\* Ciphers from elsewhere: none of their layers need be used, or in order.
MCForeign ==
  {[L |-> <<>>, E |-> <<>>, c0 |-> <<>>],
   [L |-> <<>>, E |-> <<>>, c0 |-> <<2>>],
   [L |-> <<BaseLayer(1), BaseLayer(2), BaseLayer(3), ProdLayer(1, 3), BaseLayer(4),
            ProdLayer(3, 4)>>,
    E |-> <<EdgeOf(6, 1, 1, 4), EdgeOf(2, 0, -1, 5), EdgeOf(6, 1, 1, 2)>>, c0 |-> <<>>],
   [L |-> <<BaseLayer(4), BaseLayer(2)>>, E |-> <<EdgeOf(2, 2, 1, 4)>>, c0 |-> <<6>>]}

MCXor == [a \in 0..15 |-> [b \in 0..15 |-> a ^^ b]]

-----------------------------------------------------------------------------
(* The inputs.                                                              *)

NoInput == [kind |-> "none"]

\* Lengths around the places where the form of a length changes, and the limits.
Messages == {[i \in 1..n |-> (7 * i + n) % 16] :
               n \in {0, 1, 5, 6, 7, 15, 16, 255, 256, 260, 261, 300, 301}}
FrameInputs == [kind : {"frames"}, msg : Messages, first : {0, 3, 150}, ping : {<<>>, <<15, 15>>},
                control : {PingOp, PongOp}, key : {<<9, 6>>}, next : {<<1, 2, 3>>}]

Lines == {{}, {"json"}, {"json", "status"}, {"json", "status", "step"}, {"json", "ok"},
          {"json", "error"}, {"json", "ok", "error"}, {"json", "status", "ok"}}
OutputInputs == [kind : {"output"}, lines : BoundedSeq(Lines, 3), last : Lines, exit : {0, 1}]

KeyInputs ==
  [kind : {"key"},
   raw : BoundedSeq({0, 7, 15}, 3)
           \cup {[i \in 1..n |-> IF i % k = 0 THEN a ELSE b] :
                   n \in {7, 20}, k \in {2, 3, 30}, a \in {0, 15}, b \in {0, 9, 15}},
   text : {<<>>, <<255>>, <<130, 0>>, <<0, 255, 1>>, <<1, 130, 255, 0>>}]

FieldInputs == [kind : {"field"}, n : 0..Field!Modulus - 1]

Pair2(n, x) == [i \in 1..n |-> [lo |-> 5 + x * i, hi |-> 7]]
BaseBytes(pc) == [rule |-> 0, seed |-> 14, com |-> 2, pc |-> pc]
ProdBytes(a, b) == [rule |-> 1, pa |-> a, pb |-> b, com |-> 1, pc |-> <<>>]
EdgeBytes(ch, w) ==
  [layer |-> 0, idx |-> 13, ch |-> ch, w |-> w, s |-> [bits |-> 3, w |-> <<7, 9>>]]
CiphersOf(n) ==
  LET pc == [i \in 1..n |-> i]
      w == Pair2(n, 3)
  IN [slots : {n},
      L : {<<BaseBytes(pc), BaseBytes(<<>>), ProdBytes(1, 0), ProdBytes(2, 2)>>, <<BaseBytes(pc)>>},
      c0 : {<<>>, w},
      E : {<<>>, <<EdgeBytes(1, w)>>, <<EdgeBytes(0, w), EdgeBytes(1, w)>>}]
SomeCiphers == CiphersOf(1) \cup CiphersOf(2)
ProofOf(k, v, b) ==
  [points |-> [i \in 1..8 |-> i % 3], scalars |-> <<1, 3, 0>>, ippL |-> [i \in 1..k |-> i % 3],
   ippR |-> [i \in 1..k |-> 1], ab |-> <<3, 1>>, V |-> [i \in 1..v |-> 2], bound |-> b]
RangeOf(c) == [bits |-> <<c, c>>, proofs |-> <<ProofOf(1, 2, FALSE), ProofOf(0, 1, TRUE)>>,
               lc |-> ProofOf(1, 2, FALSE)]
WireInputs ==
  [kind : {"cipher"}, v : SomeCiphers]
    \cup [kind : {"zero"}, v : {ProofOf(k, v, b) : k \in 0..3, v \in 0..3, b \in BOOLEAN}]
    \cup [kind : {"range"}, v : {RangeOf(c) : c \in SomeCiphers}]

\* Ciphers of balances, and the check of a bit.
Difference(v, n, u, k) == Sub(EncValue(v, n), EncValue(u, k))
BitCheck(v, n) == LET ct == EncValue(v, n) IN Mul(ct, AddConst(ct, 6), n.repack)
CircuitCiphers == {EncValue(v, n) : v \in 0..3, n \in MCNoises}
                    \cup {Difference(v, NoiseOne, 1, NoiseTwo) : v \in 0..3}
                    \cup {BitCheck(v, n) : v \in 0..2, n \in MCNoises}
                    \cup {ct \in MCForeign : Len(ct.L) > 0}
CircuitInputs == [kind : {"circuit"}, ct : CircuitCiphers, amount : {<<v, 555>> : v \in 0..3}]
                   \cup [kind : {"circuit"}, ct : CircuitCiphers, amount : {<<>>}]
ProofInputs == [kind : {"proof"}, ct : {EncValue(0, NoiseOne), EncValue(3, NoiseTwo)},
                amount : {<<>>, <<0, 555>>, <<3, 555>>}]
                 \cup [kind : {"proof"}, ct : {Difference(3, NoiseOne, 1, NoiseTwo)},
                       amount : {<<2, 555>>, <<3, 555>>}]

-----------------------------------------------------------------------------
LibraryInit == /\ part \in {"algorithm", "tables", "ledger", "workers"}
               /\ input = NoInput
               /\ TablesInit /\ WorkersInit
               /\ LedgerInit /\ (part # "ledger" => cts = <<>>)

Choose(inputs) == /\ part = "algorithm" /\ input = NoInput
                  /\ input' \in inputs
                  /\ UNCHANGED <<part, ledger, tables, workers>>

LibraryNext ==
  \/ Choose(FrameInputs)
  \/ Choose(OutputInputs)
  \/ Choose(KeyInputs)
  \/ Choose(FieldInputs)
  \/ Choose(WireInputs)
  \/ Choose(CircuitInputs)
  \/ Choose(ProofInputs)
  \/ part = "tables" /\ TablesNext /\ UNCHANGED <<part, input, ledger, workers>>
  \/ part = "ledger" /\ LedgerNext /\ UNCHANGED <<part, input, tables, workers>>
  \/ part = "workers" /\ WorkersNext /\ UNCHANGED <<part, input, ledger, tables>>

LibrarySpec == LibraryInit /\ [][LibraryNext]_library

-----------------------------------------------------------------------------
(* The witness that the server has for a cipher's circuit satisfies it       *)
(* exactly if the cipher decrypts to the amount, and the circuit is the one *)
(* that verify_zero_bound builds without a witness (verify_zero_circuit.hpp). *)
CircuitRight(ct, given) ==
  LET prover == ProverCircuit(ct, given)
      verifier == VerifierCircuit(ct, given # <<>>)
      amount == IF given = <<>> THEN 0 ELSE given[1]
  IN /\ Satisfied(prover) <=> Dec(ct) = amount
     /\ prover.cons = verifier.cons
     /\ Len(prover.gates) = Len(verifier.gates)
     /\ Len(prover.com) = Len(verifier.com)
CircuitComplete ==
  [][input'.kind = "circuit" => CircuitRight(input'.ct, input'.amount)]_input

(* A proof that the server makes for a cipher and an amount is accepted by   *)
(* the verifier exactly if the cipher decrypts to the amount: prover and     *)
(* verifier hear the same challenges and fold the vectors alike             *)
(* (r1cs_prover.hpp, r1cs_verifier.hpp, inner_product.hpp).                 *)
ProofRight(ct, given) ==
  LET pf == MakeZeroProof(ct, given)
      commitment == IF given = <<>> THEN <<>> ELSE <<Pedersen(given[1], given[2])>>
      amount == IF given = <<>> THEN 0 ELSE given[1]
  IN VerifyZero(ct, pf, commitment) <=> Dec(ct) = amount
ProofsVerify ==
  [][input'.kind = "proof" => ProofRight(input'.ct, input'.amount)]_input
=============================================================================
