---------------------------- MODULE RangeWorkers ----------------------------
(***************************************************************************)
(* The threads of a range proof: make_range_proof in                        *)
(* src/pvac/include/pvac/ops/range_proof.hpp, and the table of generators   *)
(* that their proofs share: GeneratorTable in                               *)
(* crypto/bulletproofs/generators.hpp.  A reference into the table outlives *)
(* the table's lock, and a table that grows frees the vector that the       *)
(* reference points into.  A vector is known by its size.                   *)
(*                                                                         *)
(* With one core the caller does the bits itself, which is one worker here. *)
(* prover_mutex (src/main.cpp) allows one proof at a time.                  *)
(***************************************************************************)
EXTENDS Integers

CONSTANTS Bits,      \* RANGE_BITS
          Cores,     \* hardware_concurrency
          BitGens,   \* the generators of the proof of a bit
          SumGens    \* the generators of the proof of the sum

ASSUME WorkersAssumption == /\ Bits \in Nat \ {0} /\ Cores \in Nat
                            /\ BitGens \in Nat \ {0} /\ SumGens \in Nat \ {0}

VARIABLES main,      \* the thread that wants the proof
          spawned,   \* the workers it has come to
          step,      \* what each worker does
          at,        \* the bit each worker is at
          ref,       \* the vector its reference points into, 0 if it has none
          proofs,    \* how often each bit's cipher and proof were stored
          table      \* the size of the table, which names its vector

workers == <<main, spawned, step, at, ref, proofs, table>>

BitSet == 0..(Bits - 1)
Threads == IF Cores > 1 THEN IF Cores < Bits THEN Cores ELSE Bits ELSE 1
Workers == 0..(Threads - 1)

\* Wrong on purpose: bits are left over.
ChunkFloor == Bits \div Threads
Chunk == (Bits + Threads - 1) \div Threads

From(t) == t * Chunk
To(t) == IF From(t) + Chunk < Bits THEN From(t) + Chunk ELSE Bits

Grown(n) == IF table < n THEN n ELSE table

WorkersInit == /\ main = "idle" /\ spawned = 0 /\ table = 0
               /\ step = [t \in Workers |-> "none"]
               /\ at = [t \in Workers |-> 0]
               /\ ref = [t \in Workers |-> 0]
               /\ proofs = [b \in BitSet |-> 0]

Begin == /\ main = "idle"
         /\ main' = "spawn" /\ spawned' = 0
         /\ step' = [t \in Workers |-> "none"]
         /\ proofs' = [b \in BitSet |-> 0]
         /\ UNCHANGED <<at, ref, table>>

\* threads.emplace_back(worker, from, to), if there are bits left
Spawn == LET t == spawned
         IN /\ main = "spawn" /\ t < Threads
            /\ spawned' = t + 1
            /\ at' = [at EXCEPT ![t] = From(t)]
            /\ step' = [step EXCEPT ![t] = IF From(t) < To(t) THEN "encrypt" ELSE "done"]
            /\ UNCHANGED <<main, ref, proofs, table>>

\* enc_value, ct_sub_const, ct_mul_seeded, and R1CSProver::prove until precompute
Precompute(t) == /\ step[t] = "encrypt"
                 /\ table' = Grown(BitGens)
                 /\ step' = [step EXCEPT ![t] = "points"]
                 /\ UNCHANGED <<main, spawned, at, ref, proofs>>

\* G(i) and H(i)
Refer(t) == /\ step[t] = "points" /\ ref[t] = 0
            /\ \E i \in 1..BitGens :
                 /\ table' = Grown(i)
                 /\ ref' = [ref EXCEPT ![t] = Grown(i)]
            /\ UNCHANGED <<main, spawned, step, at, proofs>>

\* pt.push_back copies what the reference points to.
Copy(t) == /\ ref[t] # 0
           /\ ref' = [ref EXCEPT ![t] = 0]
           /\ UNCHANGED <<main, spawned, step, at, proofs, table>>

\* The bit is done.
Store(t) == /\ step[t] = "points" /\ ref[t] = 0
            /\ proofs' = [proofs EXCEPT ![at[t]] = @ + 1]
            /\ at' = [at EXCEPT ![t] = @ + 1]
            /\ step' = [step EXCEPT ![t] = IF at[t] + 1 < To(t) THEN "encrypt" ELSE "done"]
            /\ UNCHANGED <<main, spawned, ref, table>>

\* Wrong on purpose: only the first worker is waited for.
JoinFirst == /\ main = "spawn" /\ spawned = Threads
             /\ step[0] = "done"
             /\ main' = "sum"
             /\ UNCHANGED <<spawned, step, at, ref, proofs, table>>

Join == /\ main = "spawn" /\ spawned = Threads
        /\ \A t \in Workers : step[t] = "done"
        /\ main' = "sum"
        /\ UNCHANGED <<spawned, step, at, ref, proofs, table>>

\* lc_proof: its circuit is larger.
SumProof == /\ main = "sum"
            /\ table' = Grown(SumGens)
            /\ main' = "idle"
            /\ UNCHANGED <<spawned, step, at, ref, proofs>>

Work(t) == Precompute(t) \/ Refer(t) \/ Copy(t) \/ Store(t)

WorkersNext == Begin \/ Spawn \/ Join \/ SumProof \/ \E t \in Workers : Work(t)

WorkersSpec == WorkersInit /\ [][WorkersNext]_workers

-----------------------------------------------------------------------------
(* A bit's cipher and proof are stored by one worker only, whatever the      *)
(* number of cores, and when the ciphers are summed up every bit has them:  *)
(* the chunks of range_proof.hpp neither overlap nor leave a bit out.       *)
EachBitOnce == /\ \A b \in BitSet : proofs[b] <= 1
               /\ main = "sum" => \A b \in BitSet : proofs[b] = 1

(* A generator is copied from the vector that is the table's: no worker      *)
(* holds a reference when the table grows.                                  *)
GeneratorsAlive == \A t \in Workers : ref[t] # 0 => ref[t] = table
=============================================================================
