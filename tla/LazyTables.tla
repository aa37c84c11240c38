----------------------------- MODULE LazyTables -----------------------------
(***************************************************************************)
(* The two tables that are filled on first use: the alphabet of             *)
(* base64_decode (src/src/base64.hpp) and the rates of AdaptiveState         *)
(* (src/pvac/include/pvac/core/pvac_compress.hpp).  Neither has a lock of    *)
(* its own.  Jobs use both under prover_mutex (src/main.cpp); /test/keygen   *)
(* packs a key, and so uses the rates, without it.                          *)
(*                                                                         *)
(* A table is the set of its cells that are right, its flag among them.      *)
(* Stores of one thread become visible to others in any order.              *)
(***************************************************************************)
CONSTANTS Jobs,      \* connection threads with a job
          Keygens,   \* connection threads with a request for /test/keygen
          Entries,   \* the entries of a table that are used
          Ready,     \* the cell of the flag: init, rate_init
          None

ASSUME TablesAssumption == /\ Jobs \cap Keygens = {}
                           /\ Ready \notin Entries
                           /\ None \notin Jobs

VARIABLES lock,  \* prover_mutex: the job that holds it
          dec,   \* D and init
          rate,  \* rate_table and rate_init
          phase,  \* what each thread does
          left   \* the cells it has still to store

tables == <<lock, dec, rate, phase, left>>

Cells == Entries \cup {Ready}
Users == Jobs \cup Keygens

TablesInit == /\ lock = None /\ dec = {} /\ rate = {}
              /\ phase = [t \in Users |-> "idle"]
              /\ left = [t \in Users |-> {}]

Becomes(t, s) == phase' = [phase EXCEPT ![t] = s]
Leaves(t, cells) == left' = [left EXCEPT ![t] = cells]

\* Wrong on purpose: no lock.
LockUnguarded(t) == /\ t \in Jobs /\ phase[t] = "idle"
                    /\ lock' = t /\ Becomes(t, "lookup")
                    /\ UNCHANGED <<dec, rate, left>>

\* A job is inside prover_mutex; it begins with keys in base64.
Lock(t) == /\ t \in Jobs /\ phase[t] = "idle" /\ lock = None
           /\ lock' = t /\ Becomes(t, "lookup")
           /\ UNCHANGED <<dec, rate, left>>

\* if (!init) memset(D, -1, sizeof(D))
Lookup(t) == /\ phase[t] = "lookup"
             /\ IF Ready \in dec
                THEN Becomes(t, "decode") /\ UNCHANGED <<dec, left>>
                ELSE /\ dec' = dec \ Entries
                     /\ Leaves(t, Cells) /\ Becomes(t, "fill")
             /\ UNCHANGED <<lock, rate>>

\* D[...] = i, and init = true
Fill(t) == /\ phase[t] = "fill"
           /\ \E c \in left[t] : /\ dec' = dec \cup {c}
                                 /\ Leaves(t, left[t] \ {c})
           /\ UNCHANGED <<lock, rate, phase>>

Filled(t) == /\ phase[t] = "fill" /\ left[t] = {}
             /\ Becomes(t, "decode")
             /\ UNCHANGED <<lock, dec, rate, left>>

\* The keys are decoded, and unpacked; /test/keygen packs keys of its own.
Construct(t) == /\ \/ t \in Jobs /\ phase[t] = "decode"
                   \/ t \in Keygens /\ phase[t] = "idle"
                /\ Becomes(t, "rates")
                /\ UNCHANGED <<lock, dec, rate, left>>

\* Wrong on purpose: the loop ends before the last entry.
RatesShort(t) == /\ phase[t] = "rates"
                 /\ IF Ready \in rate
                    THEN Becomes(t, "code") /\ UNCHANGED left
                    ELSE \E e \in Entries : Leaves(t, Cells \ {e}) /\ Becomes(t, "rate")
                 /\ UNCHANGED <<lock, dec, rate>>

\* if (!rate_init)
Rates(t) == /\ phase[t] = "rates"
            /\ IF Ready \in rate
               THEN Becomes(t, "code") /\ UNCHANGED left
               ELSE Leaves(t, Cells) /\ Becomes(t, "rate")
            /\ UNCHANGED <<lock, dec, rate>>

\* rate_table[i] = 32768 / (i + i + 3), and rate_init = true
Rate(t) == /\ phase[t] = "rate"
           /\ \E c \in left[t] : /\ rate' = rate \cup {c}
                                 /\ Leaves(t, left[t] \ {c})
           /\ UNCHANGED <<lock, dec, phase>>

Rated(t) == /\ phase[t] = "rate" /\ left[t] = {}
            /\ Becomes(t, "code")
            /\ UNCHANGED <<lock, dec, rate, left>>

\* The keys are packed or unpacked, and the request is done.
Coded(t) == /\ phase[t] = "code"
            /\ lock' = IF t \in Jobs THEN None ELSE lock
            /\ Becomes(t, "idle")
            /\ UNCHANGED <<dec, rate, left>>

TablesNext == \E t \in Users :
  Lock(t) \/ Lookup(t) \/ Fill(t) \/ Filled(t) \/ Construct(t)
    \/ Rates(t) \/ Rate(t) \/ Rated(t) \/ Coded(t)

TablesSpec == TablesInit /\ [][TablesNext]_tables

-----------------------------------------------------------------------------
TablesTypeOK == /\ lock \in Jobs \cup {None}
                /\ dec \in SUBSET Cells /\ rate \in SUBSET Cells
                /\ phase \in [Users -> {"idle", "lookup", "fill", "decode",
                                       "rates", "rate", "code"}]
                /\ left \in [Users -> SUBSET Cells]

\* Whatever threads share the process, base64_decode reads its table only when
\* all of it is there: the table's lock is prover_mutex, though base64.hpp does
\* not know it.
DecodesRight == \A t \in Users : phase[t] = "decode" => Cells \subseteq dec

\* The rates are missing to a coder only if /test/keygen has to do with it: a
\* thread outside prover_mutex is first to fill them, or reads what a job is
\* first to fill.
RatesRight == \A t \in Users : phase[t] = "code" =>
  \/ Entries \subseteq rate
  \/ \E u \in Users : phase[u] = "rate" /\ {t, u} \cap Keygens # {}
=============================================================================
