--------------------------- MODULE PairingProofs ---------------------------
(***************************************************************************)
(* Proofs about Pairing, for any number of exports and crashes.             *)
(*                                                                         *)
(* An export that had the handler to itself (Solo) knows what the files     *)
(* hold at each of its steps (Along), and once it is done they still hold   *)
(* that for as long as no export after it has opened relay_secret.key       *)
(* (PairingKept).  That nobody else is at work follows from how overlap is  *)
(* kept (OverlapKnown).                                                    *)
(***************************************************************************)
EXTENDS Pairing, TLAPS

Solo(e) == e \notin overlap

\* Exports start in order, and two that are at work together are in overlap.
InOrder == \A e, f \in Exports : e < f /\ pc[e] = "idle" => pc[f] = "idle"

OverlapKnown ==
  \A e, f \in Exports :
    f < e /\ pc[f] \in Working /\ pc[e] \notin {"idle", "refused"}
      => e \in overlap /\ f \in overlap

NobodyWorksDown == ~up => \A e \in Exports : pc[e] \notin Working

Hosted == \E t \in Threads : host[t] = "bound"

\* The steps before a file is known to hold the pairing.
BeforeConf == {"writeExport", "openSecret", "writeSecret", "openConf", "writeConf"}
BeforeSecret == {"writeExport", "openSecret", "writeSecret"}

Knows(e) ==
  /\ pc[e] = "writeExport" => e \in linked
  /\ pc[e] \in {"openSecret", "writeSecret", "openConf", "writeConf",
                "readExport", "removeExport"} => tmp = e
  /\ pc[e] \notin BeforeSecret => secret = e
  /\ pc[e] \notin BeforeConf => conf = e
  /\ pc[e] \notin BeforeConf \cup {"readExport"} => body[e] = e
  /\ pc[e] = "newBridge" => room[e] = e
  /\ pc[e] \in {"startBridge", "respond"} => bridge = e
  /\ pc[e] = "respond" => Hosted
  /\ pc[e] = "resetBridge" => bridge # None

Along == \A e \in Exports : Solo(e) /\ pc[e] \in Working => Knows(e)

\* An export at work that has not come to relay_secret.key.
BeforeKey == {"writeExport", "openSecret"}
OpenedKnown == \A e \in Exports : pc[e] \in Working \ BeforeKey => e \in opened

Promised(e) ==
  /\ body[e] = e /\ secret = e /\ conf = e
  /\ up => bridge = e /\ Hosted

Inv ==
  /\ TypeOK /\ InOrder /\ OverlapKnown /\ NobodyWorksDown /\ OpenedKnown
  /\ Along /\ PairingKept

\* Whoever has opened the pairing file has not removed it, or was stopped, and
\* no export that began later has got further.
Making == BeforeConf \cup {"readExport", "removeExport", "noKey", "noConf", "lost"}
NobodyFurther(e) ==
  \A f \in Exports : f > e => pc[f] \in Making \cup {"idle", "refused"}
LeftoverOwned ==
  tmp # NoFile => \E e \in Exports : pc[e] \in Making /\ NobodyFurther(e)

-----------------------------------------------------------------------------
(* The order of the exports, and who has run beside whom.                  *)

\* 0 stands for no pairing.
LEMMA Names == 0 \notin Exports /\ Exports \subseteq Nat
               /\ NoFile \notin Exports /\ Empty \notin Exports
               /\ None \notin Exports /\ Main \notin Exports
               /\ NoFile # Empty /\ MaxCrashes \in Nat
BY PairingAssumption DEF Exports

\* No files and no bridge are well typed.
LEMMA InitTyped == Init => TypeOK
BY Names DEF Init, TypeOK, File, Threads

\* Every step keeps the types.
LEMMA TypedSteps == TypeOK /\ [Next]_vars => TypeOK'
<1>. USE Names DEF past
<1>. SUFFICES ASSUME TypeOK, [Next]_vars
              PROVE  TypeOK'
  OBVIOUS
<1>1. ASSUME NEW e \in Exports, Generate(e)
      PROVE  TypeOK'
  <2>1. CASE OpenExport(e)
    <3>1. overlap' \in SUBSET Exports
      BY <2>1 DEF TypeOK, OpenExport, Concurrent
    <3>2. pc' \in [Exports -> {"idle"} \cup Working \cup Ended]
      BY <2>1 DEF TypeOK, OpenExport, Goto, Working
    <3>3. linked' \in SUBSET {f \in Exports : pc'[f] = "writeExport"}
      BY <2>1 DEF TypeOK, OpenExport, Goto
    <3>. QED
      BY <2>1, <3>1, <3>2, <3>3 DEF TypeOK, OpenExport, File
  <2>2. CASE WriteExport(e)
    BY <2>2 DEF TypeOK, WriteExport, Goto, File, Working
  <2>3. CASE OpenSecret(e) \/ WriteSecret(e) \/ OpenConf(e) \/ WriteConf(e)
    BY <2>3 DEF TypeOK, OpenSecret, WriteSecret, OpenConf, WriteConf, Goto,
                File, Working
  <2>4. CASE \/ OpenFails(e, "idle", "refused") \/ OpenFails(e, "openSecret", "noKey")
             \/ OpenFails(e, "openConf", "noConf")
    BY <2>4 DEF TypeOK, OpenFails, Goto, files, File, Ended
  <2>. QED
    BY <1>1, <2>1, <2>2, <2>3, <2>4 DEF Generate
<1>2. ASSUME NEW e \in Exports, ReadExport(e)
      PROVE  TypeOK'
  BY <1>2 DEF TypeOK, ReadExport, Goto, files, File, Working, Ended
<1>3. ASSUME NEW e \in Exports, RemoveExport(e) \/ CheckBridge(e) \/ Respond(e)
      PROVE  TypeOK'
  <2>1. CASE RemoveExport(e)
    BY <2>1 DEF TypeOK, RemoveExport, Goto, File, Working
  <2>2. CASE CheckBridge(e)
    BY <2>2 DEF TypeOK, CheckBridge, Goto, files, File, Working
  <2>3. CASE Respond(e)
    BY <2>3 DEF TypeOK, Respond, Goto, files, File, Ended
  <2>. QED
    BY <1>3, <2>1, <2>2, <2>3
<1>4. CASE Die
  <2>1. pc' \in [Exports -> {"idle"} \cup Working \cup Ended]
    BY <1>4 DEF TypeOK, Die, Ended
  <2>2. crashes' \in 0..MaxCrashes
    BY <1>4 DEF TypeOK, Die
  <2>. QED
    BY <1>4, <2>1, <2>2 DEF TypeOK, Die, File
<1>5. ASSUME NEW e \in Exports, ResetBridge(e)
      PROVE  TypeOK'
  <2>1. CASE bridge = None
    BY <1>4, <1>5, <2>1 DEF ResetBridge
  <2>2. CASE bridge # None
    <3>1. /\ Goto(e, "resetBridge", "loadConf") /\ bridge' = None /\ host' = Orphaned
          /\ UNCHANGED <<up, crashes, files, body, room, past>>
      BY <1>5, <2>2 DEF ResetBridge
    <3>2. pc' \in [Exports -> {"idle"} \cup Working \cup Ended]
      BY <3>1 DEF TypeOK, Goto, Working
    <3>3. linked \subseteq {f \in Exports : pc'[f] = "writeExport"}
      BY <3>1 DEF TypeOK, Goto
    <3>4. Orphaned \in [Threads -> {"none", "bound", "stale"}]
      BY DEF TypeOK, Orphaned
    <3>. QED
      BY <3>1, <3>2, <3>3, <3>4 DEF TypeOK, files
  <2>. QED
    BY <2>1, <2>2
<1>6. ASSUME NEW e \in Exports, LoadConf(e)
      PROVE  TypeOK'
  BY <1>6 DEF TypeOK, LoadConf, Configured, Goto, files, File, Working
<1>7. ASSUME NEW e \in Exports, NewBridge(e)
      PROVE  TypeOK'
  BY <1>7 DEF TypeOK, NewBridge, Orphaned, Goto, files, File, Working
<1>8. ASSUME NEW e \in Exports, StartBridge(e)
      PROVE  TypeOK'
  BY <1>4, <1>8 DEF TypeOK, StartBridge, Goto, files, File, Working, Threads
<1>9. ASSUME NEW t \in Threads, HostEnds(t)
      PROVE  TypeOK'
  BY <1>9 DEF TypeOK, HostEnds, files, File
<1>10. CASE Restart
  BY <1>10 DEF TypeOK, Restart, Configured, files, File, Threads
<1>11. CASE UNCHANGED vars
  BY <1>11 DEF TypeOK, vars, files
<1>. QED
  BY <1>1, <1>2, <1>3, <1>4, <1>5, <1>6, <1>7, <1>8, <1>9, <1>10, <1>11
     DEF Next, Export, Crash

\* An export that is under way takes a step that leaves the process alive.
Proceeds(e) ==
  /\ up /\ up' /\ pc[e] \in Working /\ overlap' = overlap
  /\ \E to \in (Working \cup Ended) \ {"refused"} : pc' = [pc EXCEPT ![e] = to]

First(e) == \A f \in Exports : f < e => pc[f] # "idle"
Refused(e) == First(e) /\ OpenFails(e, "idle", "refused")
Apart == pc' = pc /\ overlap' = overlap /\ (~up' => ~up)

\* An export past its opening goes on, or ends, and nobody else moves.
LEMMA Progress ==
  ASSUME NEW e \in Exports, Export(e), ~Die, ~OpenExport(e), ~Refused(e)
  PROVE  Proceeds(e)
<1>. USE DEF past
<1>1. CASE Generate(e)
  BY <1>1 DEF Generate, Refused, First, Proceeds, OpenExport, WriteExport,
     OpenSecret, WriteSecret, OpenConf, WriteConf, OpenFails, Goto, Working, Ended
<1>2. CASE \/ ReadExport(e) \/ RemoveExport(e) \/ CheckBridge(e)
           \/ LoadConf(e) \/ NewBridge(e) \/ Respond(e)
  BY <1>2 DEF Proceeds, ReadExport, RemoveExport, CheckBridge, LoadConf,
     NewBridge, Respond, Goto, Working, Ended
<1>3. CASE ResetBridge(e) \/ StartBridge(e)
  BY <1>3 DEF Proceeds, ResetBridge, StartBridge, Goto, Working, Ended
<1>. QED
  BY <1>1, <1>2, <1>3 DEF Export

\* A step begins an export, refuses one, takes one on, ends the process, or concerns none.
LEMMA Moves ==
  ASSUME [Next]_vars
  PROVE  \/ \E e \in Exports : OpenExport(e) \/ Refused(e) \/ Proceeds(e)
         \/ Die \/ Apart
<1>1. ASSUME NEW t \in Threads, HostEnds(t)
      PROVE  Apart
  BY <1>1 DEF HostEnds, Apart, past
<1>. QED
  BY <1>1, Progress DEF Next, Crash, Restart, Apart, vars, past

\* Exports that come later stay later.
LEMMA OrderSteps ==
  ASSUME TypeOK, InOrder, OverlapKnown, NobodyWorksDown, [Next]_vars
  PROVE  InOrder' /\ OverlapKnown' /\ NobodyWorksDown'
<1>. USE DEF TypeOK
<1>1. ASSUME NEW e \in Exports, OpenExport(e)
      PROVE  InOrder' /\ OverlapKnown' /\ NobodyWorksDown'
  <2>1. /\ pc' = [pc EXCEPT ![e] = "writeExport"] /\ pc[e] = "idle" /\ up /\ up'
        /\ \A f \in Exports : f < e => pc[f] # "idle"
        /\ Concurrent(e) # {} => e \in overlap' /\ Concurrent(e) \subseteq overlap'
        /\ overlap \subseteq overlap'
    BY <1>1 DEF OpenExport, Goto
  <2>2. InOrder' /\ NobodyWorksDown'
    BY <2>1, Names DEF InOrder, NobodyWorksDown
  <2>3. ASSUME NEW d \in Exports, NEW f \in Exports, f < d,
               pc'[f] \in Working, pc'[d] \notin {"idle", "refused"}
        PROVE  d \in overlap' /\ f \in overlap'
    <3>1. CASE d = e
      BY <2>1, <2>3, <3>1, Names DEF Concurrent
    <3>2. CASE f = e
      BY <2>1, <2>3, <3>2, Names DEF InOrder
    <3>3. CASE d # e /\ f # e
      BY <2>1, <2>3, <3>3 DEF OverlapKnown
    <3>. QED
      BY <3>1, <3>2, <3>3
  <2>. QED
    BY <2>2, <2>3 DEF OverlapKnown
<1>2. ASSUME NEW e \in Exports, Refused(e)
      PROVE  InOrder' /\ OverlapKnown' /\ NobodyWorksDown'
  <2>1. /\ pc' = [pc EXCEPT ![e] = "refused"] /\ up' /\ overlap' = overlap
        /\ \A f \in Exports : f < e => pc[f] # "idle"
    BY <1>2 DEF Refused, First, OpenFails, Goto, past
  <2>2. "refused" \notin Working
    BY DEF Working
  <2>. QED
    BY <2>1, <2>2, Names DEF InOrder, OverlapKnown, NobodyWorksDown
<1>3. ASSUME NEW e \in Exports, Proceeds(e)
      PROVE  InOrder' /\ OverlapKnown' /\ NobodyWorksDown'
  <2>1. PICK to \in (Working \cup Ended) \ {"refused"} : pc' = [pc EXCEPT ![e] = to]
    BY <1>3 DEF Proceeds
  <2>2. /\ pc[e] \in Working /\ overlap' = overlap /\ up'
        /\ pc[e] \notin {"idle", "refused"} /\ to # "idle"
    BY <1>3 DEF Proceeds, Working, Ended
  <2>. QED
    BY <2>1, <2>2, Names DEF InOrder, OverlapKnown, NobodyWorksDown
<1>4. CASE Die
  <2>1. \A e \in Exports : /\ pc'[e] \notin Working
                           /\ pc'[e] = "idle" <=> pc[e] = "idle"
    BY <1>4 DEF Die, Working
  <2>. QED
    BY <2>1 DEF InOrder, OverlapKnown, NobodyWorksDown
<1>5. CASE Apart
  BY <1>5 DEF Apart, InOrder, OverlapKnown, NobodyWorksDown
<1>. QED
  BY <1>1, <1>2, <1>3, <1>4, <1>5, Moves

-----------------------------------------------------------------------------
(* An export that has the handler to itself.                               *)

\* While a solo export is at work no other export takes a step.
LEMMA SoloAlone ==
  ASSUME TypeOK, OverlapKnown, NEW e \in Exports, pc[e] \in Working,
         NEW f \in Exports, f # e, pc[f] \in Working
  PROVE  e \in overlap
<1>1. e \in Nat /\ f \in Nat
  BY Names
<1>2. f < e \/ e < f
  BY <1>1
<1>3. pc[e] \notin {"idle", "refused"} /\ pc[f] \notin {"idle", "refused"}
  BY DEF Working
<1>. QED
  BY <1>2, <1>3 DEF OverlapKnown

\* What it knows it knows after its next step, if the process survives it.
LEMMA KnowsSteps ==
  ASSUME TypeOK, NEW e \in Exports, pc[e] \in Working, Knows(e),
         Export(e), pc'[e] \in Working
  PROVE  Knows(e)'
<1>. USE Names DEF TypeOK, BeforeSecret, BeforeConf, Goto
<1>1. ~Die
  BY DEF Die, Working
<1>2. CASE OpenExport(e)
  BY <1>2 DEF OpenExport, Working
<1>3. CASE WriteExport(e)
  BY <1>3 DEF WriteExport, Knows
<1>4. CASE OpenSecret(e)
  BY <1>4 DEF OpenSecret, Knows
<1>5. CASE WriteSecret(e)
  BY <1>5 DEF WriteSecret, Knows
<1>6. CASE OpenConf(e)
  BY <1>6 DEF OpenConf, Knows
<1>7. CASE WriteConf(e)
  BY <1>7 DEF WriteConf, Knows
<1>8. CASE \/ OpenFails(e, "idle", "refused") \/ OpenFails(e, "openSecret", "noKey")
           \/ OpenFails(e, "openConf", "noConf")
  BY <1>8 DEF OpenFails, Working
<1>9. CASE ReadExport(e)
  BY <1>9 DEF ReadExport, Knows, files, Working
<1>10. CASE RemoveExport(e)
  BY <1>10 DEF RemoveExport, Knows
<1>11. CASE CheckBridge(e)
  BY <1>11 DEF CheckBridge, Knows, files
<1>12. CASE Respond(e)
  BY <1>12 DEF Respond, Working
<1>13. CASE LoadConf(e)
  BY <1>13 DEF LoadConf, Configured, Knows, files
<1>14. CASE NewBridge(e)
  BY <1>14 DEF NewBridge, Knows, files
<1>15. CASE ResetBridge(e)
  BY <1>1, <1>15 DEF ResetBridge, Knows, files
<1>16. CASE StartBridge(e)
  <2>1. Goto(e, "startBridge", "respond") /\ host' = [host EXCEPT ![e] = "bound"]
        /\ UNCHANGED <<files, body, bridge>>
    BY <1>1, <1>16 DEF StartBridge
  <2>2. Hosted'
    BY <2>1 DEF Hosted, Threads
  <2>. QED
    BY <2>1, <2>2 DEF Knows, files
<1>. QED
  BY <1>2, <1>3, <1>4, <1>5, <1>6, <1>7, <1>8, <1>9, <1>10, <1>11, <1>12, <1>13,
     <1>14, <1>15, <1>16 DEF Export, Generate

\* Nobody else takes a step while a solo export is at work.
LEMMA SoloStep ==
  ASSUME Inv, [Next]_vars, NEW e \in Exports, Solo(e)', pc'[e] \in Working
  PROVE  /\ Solo(e)
         /\ \/ OpenExport(e)
            \/ pc[e] \in Working /\ Export(e)
            \/ pc[e] \in Working /\ \E f \in Exports : f # e /\ Refused(f)
            \/ pc[e] \in Working /\ \E t \in Threads : HostEnds(t)
            \/ UNCHANGED vars
<1>0. TypeOK /\ OverlapKnown /\ NobodyWorksDown
  BY DEF Inv
<1>1. ~Die
  BY <1>0 DEF Die, Working, TypeOK
<1>2. ~Restart
  BY <1>0 DEF Restart, NobodyWorksDown
<1>3. Solo(e)
  <2>1. overlap \subseteq overlap'
    BY <1>1, Moves DEF OpenExport, Refused, OpenFails, Proceeds, Apart, past
  <2>. QED
    BY <2>1 DEF Solo
<1>4. ASSUME NEW f \in Exports, f # e, Export(f), ~Refused(f)
      PROVE  FALSE
  <2>1. CASE OpenExport(f)
    <3>1. pc[e] \in Working
      BY <1>0, <1>4, <2>1 DEF OpenExport, Goto, TypeOK
    <3>2. e \in overlap'
      BY <2>1, <3>1 DEF OpenExport, Concurrent
    <3>. QED
      BY <3>2 DEF Solo
  <2>2. CASE Proceeds(f)
    <3>1. pc[f] \in Working /\ pc[e] \in Working
      BY <1>0, <1>4, <2>2 DEF Proceeds, TypeOK
    <3>. QED
      BY <1>0, <1>3, <1>4, <3>1, SoloAlone DEF Solo
  <2>. QED
    BY <1>1, <1>4, <2>1, <2>2, Progress
<1>5. ASSUME NEW f \in Exports, f # e, Refused(f)
      PROVE  pc[e] \in Working
  BY <1>0, <1>5 DEF Refused, OpenFails, Goto, TypeOK
<1>6. ASSUME NEW t \in Threads, HostEnds(t)
      PROVE  pc[e] \in Working
  BY <1>6 DEF HostEnds
<1>7. ASSUME Export(e), ~OpenExport(e)
      PROVE  pc[e] \in Working
  BY <1>0, <1>1, <1>7, Progress DEF Proceeds, Refused, OpenFails, Goto, TypeOK, Working
<1>. QED
  BY <1>1, <1>2, <1>3, <1>4, <1>5, <1>6, <1>7 DEF Next, Crash

\* An export that is alone knows the files at its next step too.
LEMMA AlongSteps ==
  ASSUME Inv, [Next]_vars
  PROVE  Along'
<1>. SUFFICES ASSUME NEW e \in Exports, Solo(e)', pc'[e] \in Working
              PROVE  Knows(e)'
  BY DEF Along
<1>0. TypeOK
  BY DEF Inv
<1>1. Solo(e)
  BY SoloStep
<1>2. CASE OpenExport(e)
  BY <1>0, <1>2, Names DEF TypeOK, OpenExport, Goto, Knows, BeforeSecret, BeforeConf
<1>3. CASE pc[e] \in Working /\ Export(e)
  BY <1>0, <1>1, <1>3, KnowsSteps DEF Inv, Along
<1>4. ASSUME pc[e] \in Working, NEW f \in Exports, f # e, Refused(f)
      PROVE  Knows(e)'
  <2>1. Knows(e)
    BY <1>1, <1>4 DEF Inv, Along
  <2>2. pc'[e] = pc[e] /\ UNCHANGED <<files, body, room, bridge, host>>
    BY <1>0, <1>4 DEF Refused, OpenFails, Goto, TypeOK
  <2>. QED
    BY <2>1, <2>2 DEF Knows, files, Hosted
<1>5. ASSUME pc[e] \in Working, NEW t \in Threads, HostEnds(t)
      PROVE  Knows(e)'
  <2>1. Knows(e)
    BY <1>1, <1>5 DEF Inv, Along
  <2>2. Hosted => Hosted'
    BY <1>0, <1>5 DEF HostEnds, Hosted, TypeOK
  <2>. QED
    BY <1>5, <2>1, <2>2 DEF HostEnds, Knows, files
<1>6. CASE UNCHANGED vars
  BY <1>1, <1>6 DEF Inv, Along, vars, files, Knows, Hosted
<1>. QED
  BY <1>2, <1>3, <1>4, <1>5, <1>6, SoloStep

-----------------------------------------------------------------------------
(* A pairing that is done.                                                 *)

\* The exports before a done one are over.
LEMMA OnlyLater ==
  ASSUME Inv, NEW e \in Exports, Solo(e), pc[e] = "done",
         NEW f \in Exports, f # e, pc[f] \in {"idle"} \cup Working
  PROVE  f > e
<1>1. f \in Nat /\ e \in Nat
  BY Names
<1>2. CASE f < e
  BY <1>2 DEF Inv, InOrder, OverlapKnown, Solo
<1>. QED
  BY <1>1, <1>2

\* Who has come past the key file is known to have opened it, after each step.
LEMMA OpenedSteps ==
  ASSUME TypeOK, OpenedKnown, [Next]_vars
  PROVE  OpenedKnown' /\ opened \subseteq opened'
<1>. USE DEF TypeOK, OpenedKnown, Working, BeforeKey, Goto, past
<1>1. ASSUME NEW f \in Exports, Generate(f)
      PROVE  OpenedKnown' /\ opened \subseteq opened'
  <2>1. CASE OpenExport(f)
    BY <2>1 DEF OpenExport
  <2>2. CASE WriteExport(f)
    BY <2>2 DEF WriteExport
  <2>3. CASE OpenSecret(f)
    BY <2>3 DEF OpenSecret
  <2>4. CASE WriteSecret(f) \/ OpenConf(f) \/ WriteConf(f)
    BY <2>4 DEF WriteSecret, OpenConf, WriteConf
  <2>5. CASE \/ OpenFails(f, "idle", "refused") \/ OpenFails(f, "openSecret", "noKey")
             \/ OpenFails(f, "openConf", "noConf")
    BY <2>5 DEF OpenFails
  <2>. QED
    BY <1>1, <2>1, <2>2, <2>3, <2>4, <2>5 DEF Generate
<1>2. CASE Die
  BY <1>2 DEF Die
<1>3. ASSUME NEW f \in Exports, Export(f), ~Generate(f), ~Die
      PROVE  OpenedKnown' /\ opened \subseteq opened'
  BY <1>3 DEF Export, ReadExport, RemoveExport, CheckBridge, ResetBridge, LoadConf,
     NewBridge, StartBridge, Respond
<1>4. CASE UNCHANGED <<pc, opened>>
  BY <1>4
<1>. QED
  BY <1>1, <1>2, <1>3, <1>4 DEF Next, HostEnds, Crash, Restart, vars

\* A step of an export that is not to open the key file touches nothing of
\* what the exports before it have left.
LEMMA TouchesNothing ==
  ASSUME TypeOK, OpenedKnown, NEW f \in Exports, Export(f), ~Die,
         pc[f] \in {"idle"} \cup Working, f \notin opened'
  PROVE  UNCHANGED <<up, body, secret, conf, bridge, host>>
<1>. USE DEF TypeOK, Goto, past, files
<1>1. pc[f] \in {"idle", "writeExport", "openSecret"}
  <2>1. CASE pc[f] \in Working \ BeforeKey
    <3>1. f \in opened
      BY <2>1 DEF OpenedKnown
    <3>2. opened \subseteq opened'
      BY DEF Export, Generate, OpenExport, WriteExport, OpenSecret, WriteSecret,
         OpenConf, WriteConf, OpenFails, ReadExport, RemoveExport, CheckBridge,
         ResetBridge, LoadConf, NewBridge, StartBridge, Respond
    <3>. QED
      BY <3>1, <3>2
  <2>. QED
    BY <2>1 DEF BeforeKey
<1>2. \/ OpenExport(f) \/ WriteExport(f) \/ OpenSecret(f)
      \/ OpenFails(f, "idle", "refused") \/ OpenFails(f, "openSecret", "noKey")
  BY <1>1 DEF Export, Generate, WriteSecret, OpenConf, WriteConf, OpenFails, ReadExport,
     RemoveExport, CheckBridge, ResetBridge, LoadConf, NewBridge, StartBridge, Respond
<1>3. ~OpenSecret(f)
  BY DEF OpenSecret
<1>. QED
  BY <1>2, <1>3 DEF OpenExport, WriteExport, OpenFails

\* What the last export left stays until a later one opens the key file.
LEMMA KeptSteps ==
  ASSUME Inv, [Next]_vars
  PROVE  PairingKept'
<1>. USE Names
<1>0. TypeOK /\ NobodyWorksDown /\ OpenedKnown
  BY DEF Inv
<1>. SUFFICES ASSUME NEW e \in Exports, Solo(e)', pc'[e] = "done",
                     \A f \in opened' : f <= e
              PROVE  Promised(e)'
  BY DEF PairingKept, Promised, Solo, Hosted
<1>1. Solo(e)
  <2>1. overlap \subseteq overlap'
    BY Moves DEF OpenExport, Refused, OpenFails, Proceeds, Apart, Die, past
  <2>. QED
    BY <2>1 DEF Solo
<1>2. pc[e] = "done" => Promised(e)
  <2>1. \A f \in opened : f <= e
    BY <1>0, OpenedSteps
  <2>. QED
    BY <1>1, <2>1 DEF Inv, PairingKept, Promised, Solo, Hosted
<1>3. CASE Respond(e)
  <2>1. pc[e] = "respond" /\ Knows(e)
    BY <1>1, <1>3 DEF Respond, Goto, Inv, Along, Working
  <2>. QED
    BY <1>3, <2>1 DEF Respond, Knows, BeforeSecret, BeforeConf, Promised, files, Hosted
<1>4. ASSUME NEW f \in Exports, Export(f), ~Die, ~Respond(e)
      PROVE  Promised(e)'
  <2>1. OpenExport(f) \/ Refused(f) \/ Proceeds(f)
    BY <1>4, Progress
  <2>2. f # e
    BY <1>0, <1>4 DEF TypeOK, Export, Generate, OpenExport, WriteExport, OpenSecret,
       WriteSecret, OpenConf, WriteConf, OpenFails, ReadExport, RemoveExport,
       CheckBridge, ResetBridge, LoadConf, NewBridge, StartBridge, Goto
  <2>3. pc[f] \in {"idle"} \cup Working /\ pc'[e] = pc[e]
    BY <1>0, <2>1, <2>2 DEF OpenExport, Refused, OpenFails, Proceeds, Goto, TypeOK
  <2>4. f > e
    BY <1>1, <2>2, <2>3, OnlyLater
  <2>5. f \notin opened'
    BY <2>4
  <2>. QED
    BY <1>0, <1>2, <1>4, <2>3, <2>5, TouchesNothing DEF Promised, Hosted
<1>5. CASE Die
  BY <1>0, <1>2, <1>5 DEF Die, TypeOK, Working, Promised
<1>6. ASSUME NEW t \in Threads, HostEnds(t)
      PROVE  Promised(e)'
  <2>1. Hosted => Hosted'
    BY <1>0, <1>6 DEF HostEnds, Hosted, TypeOK
  <2>. QED
    BY <1>2, <1>6, <2>1 DEF HostEnds, files, Promised
<1>7. CASE Restart
  <2>1. Promised(e) /\ pc'[e] = pc[e]
    BY <1>2, <1>7 DEF Restart
  <2>2. bridge' = e /\ Hosted'
    BY <1>0, <1>7, <2>1 DEF Restart, Configured, Hosted, Promised, Threads, TypeOK
  <2>. QED
    BY <1>7, <2>1, <2>2 DEF Restart, files, Promised
<1>8. CASE UNCHANGED vars
  BY <1>2, <1>8 DEF Promised, vars, files, Hosted
<1>. QED
  BY <1>3, <1>4, <1>5, <1>6, <1>7, <1>8 DEF Next, Crash

-----------------------------------------------------------------------------
(* The theorems.                                                           *)

\* Before the first export the invariant holds.
LEMMA InitInv == Init => Inv
BY InitTyped DEF Init, Inv, InOrder, OverlapKnown, NobodyWorksDown, OpenedKnown,
                 Along, PairingKept, Working

\* Every step keeps it.
LEMMA NextInv == Inv /\ [Next]_vars => Inv'
BY TypedSteps, OrderSteps, OpenedSteps, AlongSteps, KeptSteps DEF Inv

\* The invariant holds in every state of the pairing.
THEOREM Invariance == Spec => []Inv
BY InitInv, NextInv, PTL DEF Spec

\* Every variable keeps its type: no bridge is made from a file that is
\* missing or half written.
THEOREM TypeCorrect == Spec => []TypeOK
<1>1. Inv => TypeOK
  BY DEF Inv
<1>. QED
  BY <1>1, Invariance, PTL

\* The pairing that was exported last is kept whole, room and key, and served,
\* across crashes and failed exports, for any number of either, until a later
\* export has opened relay_secret.key.
THEOREM LastPairingKept == Spec => []PairingKept
<1>1. Inv => PairingKept
  BY DEF Inv
<1>. QED
  BY <1>1, Invariance, PTL

\* A file that is left belongs to an export that is still at work or was
\* stopped, and none that began later is further, after each step.
LEMMA OwnedSteps == TypeOK /\ InOrder /\ LeftoverOwned /\ [Next]_vars => LeftoverOwned'
<1>. SUFFICES ASSUME TypeOK, InOrder, LeftoverOwned, [Next]_vars, tmp' # NoFile
              PROVE  \E e \in Exports : pc'[e] \in Making /\ NobodyFurther(e)'
  BY DEF LeftoverOwned, Making
<1>. USE DEF TypeOK, Making, BeforeConf, Goto, past
<1>1. ASSUME NEW f \in Exports, OpenExport(f)
      PROVE  pc'[f] \in Making /\ NobodyFurther(f)'
  <2>1. pc[f] = "idle" /\ pc' = [pc EXCEPT ![f] = "writeExport"]
    BY <1>1 DEF OpenExport
  <2>2. ASSUME NEW g \in Exports, g > f
        PROVE  pc'[g] = "idle"
    BY <2>1, <2>2, Names DEF InOrder
  <2>. QED
    BY <2>1, <2>2 DEF NobodyFurther
<1>2. CASE tmp = NoFile
  <2>1. ASSUME NEW f \in Exports, WriteExport(f)
        PROVE  FALSE
    BY <1>2, <2>1 DEF WriteExport
  <2>. QED
    BY <1>1, <1>2, <2>1 DEF Next, Export, Generate, OpenSecret, WriteSecret, OpenConf,
       WriteConf, OpenFails, ReadExport, RemoveExport, CheckBridge, ResetBridge, Die,
       LoadConf, NewBridge, StartBridge, Respond, HostEnds, Crash, Restart, files, vars
<1>3. CASE tmp # NoFile
  <2>1. PICK e \in Exports : pc[e] \in Making /\ NobodyFurther(e)
    BY <1>3 DEF LeftoverOwned
  <2>2. ASSUME NEW g \in Exports, pc[g] \in Making, ~\E f \in Exports : OpenExport(f)
        PROVE  pc'[g] \in Making
    <3>1. CASE Die
      BY <2>2, <3>1 DEF Die, Working
    <3>2. ASSUME NEW f \in Exports, Export(f), ~Die
          PROVE  pc'[g] \in Making
      <4>1. CASE Generate(f)
        BY <2>2, <3>2, <4>1 DEF Generate, WriteExport, OpenSecret, WriteSecret,
           OpenConf, WriteConf, OpenFails
      <4>2. CASE ~Generate(f)
        BY <1>3, <2>2, <3>2, <4>2 DEF Export, ReadExport, RemoveExport, CheckBridge,
           ResetBridge, LoadConf, NewBridge, StartBridge, Respond
      <4>. QED
        BY <4>1, <4>2
    <3>3. CASE UNCHANGED pc
      BY <2>2, <3>3
    <3>. QED
      BY <3>1, <3>2, <3>3 DEF Next, HostEnds, Crash, Restart, vars
  <2>3. ASSUME NEW g \in Exports, pc[g] \in {"idle", "refused"},
               ~\E f \in Exports : OpenExport(f)
        PROVE  pc'[g] \in {"idle", "refused"}
    <3>1. CASE Die
      BY <2>3, <3>1 DEF Die, Working
    <3>2. ASSUME NEW f \in Exports, Export(f), ~Die
          PROVE  pc'[g] \in {"idle", "refused"}
      BY <2>3, <3>2 DEF Export, Generate, WriteExport, OpenSecret, WriteSecret, OpenConf,
         WriteConf, OpenFails, ReadExport, RemoveExport, CheckBridge, ResetBridge,
         LoadConf, NewBridge, StartBridge, Respond
    <3>3. CASE UNCHANGED pc
      BY <2>3, <3>3
    <3>. QED
      BY <3>1, <3>2, <3>3 DEF Next, HostEnds, Crash, Restart, vars
  <2>4. CASE ~\E f \in Exports : OpenExport(f)
    BY <2>1, <2>2, <2>3, <2>4 DEF NobodyFurther
  <2>. QED
    BY <1>1, <2>4
<1>. QED
  BY <1>2, <1>3

\* An export that is answered from the pairing file, or finds none, leaves none
\* behind, also not one that earlier exports have left, unless a later one has
\* opened it, however many run at the same time.
THEOREM NothingLeft == Spec => []NoLeftover
<1>1. Init => LeftoverOwned
  BY DEF Init, LeftoverOwned
<1>2. LeftoverOwned => NoLeftover
  <2>. SUFFICES ASSUME LeftoverOwned, tmp # NoFile,
                       NEW e \in Exports, pc[e] \in {"done", "gone"},
                       \A f \in Exports : f > e => pc[f] \in {"idle", "refused"}
                PROVE  FALSE
    BY DEF NoLeftover
  <2>1. PICK g \in Exports : pc[g] \in Making /\ NobodyFurther(g)
    BY DEF LeftoverOwned
  <2>2. e \notin {g} /\ ~(e > g) /\ ~(g > e)
    BY <2>1 DEF NobodyFurther, Making, BeforeConf
  <2>. QED
    BY <2>2, Names
<1>3. Inv => TypeOK /\ InOrder
  BY DEF Inv
<1>. QED
  BY <1>1, <1>2, <1>3, OwnedSteps, Invariance, PTL DEF Spec

=============================================================================
