--------------------------- MODULE RecorderProofs ---------------------------
(***************************************************************************)
(* Proofs about Recorder, for any number of requests, crashes, versions and *)
(* files: unless two requests have unpacked at the same time, at most one   *)
(* tar is at work (Alone), the files it has passed are whole (Passed), what *)
(* a request of the running server unpacks is of its own version (Owned),   *)
(* and once the recorder is vouched for nobody comes to unpack it (Settled). *)
(***************************************************************************)
EXTENDS Recorder, TLAPS

\* The phases in which a request has its tar, or the tree, to itself.
Busy == {"unpack", "fill", "rm", "mark"}
\* The phases from which a request may yet change the tree.
Coming == {"open", "write", "tar", "unpack", "fill"}

\* A tar begins with the first file, and comes to the next one only when it has
\* something to fill it with.
Begun ==
  \A r \in Recordings :
    /\ pc[r] \notin {"unpack", "fill", "rm"} => at[r] = 1
    /\ pc[r] \in {"unpack", "fill"} /\ at[r] > 1 => held[r] \in Versions
    /\ pc[r] = "fill" => held[r] \in Versions /\ at[r] \in Files

Alone == ~overlap => \A r, q \in Recordings : pc[r] \in Busy /\ pc[q] \in Busy => r = q

Passed ==
  ~overlap =>
    \A r \in Recordings :
      /\ pc[r] \in {"unpack", "fill"} => \A f \in Files : f < at[r] => tree[f] = held[r]
      /\ pc[r] = "fill" => writer[at[r]] = r
      /\ pc[r] \in {"rm", "mark"} => \E v \in Versions : Whole(v)

Settled ==
  (marker \/ extracted) /\ ~overlap =>
    /\ \E v \in Versions : Whole(v)
    /\ \A r \in Recordings : pc[r] \notin Coming

\* The archive a request has opened, what its tar reads of it and what it has
\* unpacked are of the version that runs.
Owned ==
  \A r \in Recordings \ orphans :
    /\ pc[r] \in {"write", "tar"} => archive \in {Absent, Cut, version}
    /\ pc[r] \in {"unpack", "fill"} => held[r] \in {Cut, version}
    /\ ~overlap /\ pc[r] \in {"rm", "mark"} => Whole(version)

IInv == TypeOK /\ Begun /\ Alone /\ Passed /\ Settled /\ Owned

\* The invariant holds at the start.
LEMMA InitIInv == Init => IInv
<1> SUFFICES ASSUME Init PROVE IInv
  OBVIOUS
<1> USE RecorderAssumption DEF Init
<1>1. FlagsOK
  BY DEF FlagsOK
<1>2. StepsOK
  BY DEF StepsOK, Thread, Shell
<1>3. FilesOK
  BY DEF FilesOK, Content, Files, Recordings
<1>4. Begun /\ Alone /\ Passed /\ Settled /\ Owned
  BY DEF Begun, Alone, Passed, Settled, Owned, Busy
<1> QED
  BY <1>1, <1>2, <1>3, <1>4 DEF IInv, TypeOK

\* Every step keeps the invariant.
LEMMA NextIInv == IInv /\ [Next]_vars => IInv'
<1> SUFFICES ASSUME IInv, [Next]_vars PROVE IInv'
  OBVIOUS
<1> USE RecorderAssumption DEF IInv, TypeOK
<1>1. CASE UNCHANGED vars
  BY <1>1 DEF vars, flags, FlagsOK, StepsOK, FilesOK, Begun, Alone, Passed, Settled, Owned, Whole
<1>2. ASSUME NEW r \in Recordings, Begin(r) PROVE IInv'
  <2>1. FlagsOK'
    BY <1>2 DEF Begin, Goto, FlagsOK
  <2>2. StepsOK'
    BY <1>2 DEF Begin, Goto, StepsOK, FlagsOK, Thread, Shell, Ended
  <2>3. FilesOK'
    BY <1>2 DEF Begin, Goto, StepsOK, FilesOK, Content, Files, Recordings
  <2>4. Begun'
    BY <1>2 DEF Begin, Goto, StepsOK, FilesOK, Begun, Content, Files, Thread, Shell
  <2>5. Alone'
    BY <1>2 DEF Begin, Goto, StepsOK, Alone, Busy, Thread, Shell
  <2>6. Passed'
    BY <1>2 DEF Begin, Goto, StepsOK, FilesOK, Begun, Alone, Passed, Whole, Busy, Content, Files, Thread, Shell
  <2>7. Settled'
    BY <1>2 DEF Begin, Goto, FlagsOK, StepsOK, FilesOK, Begun, Alone, Passed, Settled, Whole, Busy, Coming, Thread, Shell
  <2>8. Owned'
    BY <1>2 DEF Begin, Goto, StepsOK, FilesOK, Begun, Alone, Owned, Whole, Busy, Files, Thread, Shell
  <2> QED
    BY <2>1, <2>2, <2>3, <2>4, <2>5, <2>6, <2>7, <2>8
<1>3. ASSUME NEW r \in Recordings, OpenArchive(r) PROVE IInv'
  <2>1. FlagsOK'
    BY <1>3 DEF OpenArchive, Goto, flags, FlagsOK
  <2>2. StepsOK'
    BY <1>3 DEF OpenArchive, Goto, flags, StepsOK, FlagsOK, Thread, Shell, Ended
  <2>3. FilesOK'
    BY <1>3 DEF OpenArchive, Goto, flags, StepsOK, FilesOK, Content, Files, Recordings
  <2>4. Begun'
    BY <1>3 DEF OpenArchive, Goto, flags, StepsOK, FilesOK, Begun, Content, Files, Thread, Shell
  <2>5. Alone'
    BY <1>3 DEF OpenArchive, Goto, flags, StepsOK, Alone, Busy, Thread, Shell
  <2>6. Passed'
    BY <1>3 DEF OpenArchive, Goto, flags, StepsOK, FilesOK, Begun, Alone, Passed, Whole, Busy, Content, Files, Thread, Shell
  <2>7. Settled'
    BY <1>3 DEF OpenArchive, Goto, flags, FlagsOK, StepsOK, FilesOK, Begun, Alone, Passed, Settled, Whole, Busy, Coming, Thread, Shell
  <2>8. Owned'
    BY <1>3 DEF OpenArchive, Goto, flags, StepsOK, FilesOK, Begun, Alone, Owned, Whole, Busy, Files, Thread, Shell
  <2> QED
    BY <2>1, <2>2, <2>3, <2>4, <2>5, <2>6, <2>7, <2>8
<1>4. ASSUME NEW r \in Recordings, OpenFails(r) PROVE IInv'
  <2>1. FlagsOK'
    BY <1>4 DEF OpenFails, Goto, flags, FlagsOK
  <2>2. StepsOK'
    BY <1>4 DEF OpenFails, Goto, flags, StepsOK, FlagsOK, Thread, Shell, Ended
  <2>3. FilesOK'
    BY <1>4 DEF OpenFails, Goto, flags, StepsOK, FilesOK, Content, Files, Recordings
  <2>4. Begun'
    BY <1>4 DEF OpenFails, Goto, flags, StepsOK, FilesOK, Begun, Content, Files, Thread, Shell
  <2>5. Alone'
    BY <1>4 DEF OpenFails, Goto, flags, StepsOK, Alone, Busy, Thread, Shell
  <2>6. Passed'
    BY <1>4 DEF OpenFails, Goto, flags, StepsOK, FilesOK, Begun, Alone, Passed, Whole, Busy, Content, Files, Thread, Shell
  <2>7. Settled'
    BY <1>4 DEF OpenFails, Goto, flags, FlagsOK, StepsOK, FilesOK, Begun, Alone, Passed, Settled, Whole, Busy, Coming, Thread, Shell
  <2>8. Owned'
    BY <1>4 DEF OpenFails, Goto, flags, StepsOK, FilesOK, Begun, Alone, Owned, Whole, Busy, Files, Thread, Shell
  <2> QED
    BY <2>1, <2>2, <2>3, <2>4, <2>5, <2>6, <2>7, <2>8
<1>5. ASSUME NEW r \in Recordings, WriteArchive(r) PROVE IInv'
  <2>1. FlagsOK'
    BY <1>5 DEF WriteArchive, Goto, flags, FlagsOK
  <2>2. StepsOK'
    BY <1>5 DEF WriteArchive, Goto, flags, StepsOK, FlagsOK, Thread, Shell, Ended
  <2>3. FilesOK'
    <3>1. PICK c \in {version, Cut} :
            IF r \in linked
            THEN /\ archive' = c
                 /\ held' = [q \in Recordings |-> IF q \in linked /\ held[q] = Cut THEN c ELSE held[q]]
            ELSE UNCHANGED <<archive, held>>
      BY <1>5 DEF WriteArchive
    <3>2. c \in Content
      BY <3>1 DEF FilesOK, Content
    <3>3. archive' \in Content /\ held' \in [Recordings -> Content]
      BY <3>1, <3>2 DEF FilesOK
    <3> QED
      BY <1>5, <3>3 DEF WriteArchive, flags, FilesOK
  <2>4. Begun'
    BY <1>5 DEF WriteArchive, Goto, flags, StepsOK, FilesOK, Begun, Content, Files, Thread, Shell
  <2>5. Alone'
    BY <1>5 DEF WriteArchive, Goto, flags, StepsOK, Alone, Busy, Thread, Shell
  <2>6. Passed'
    <3> SUFFICES ASSUME ~overlap, NEW q \in Recordings
                 PROVE  /\ pc'[q] \in {"unpack", "fill"} => \A f \in Files : f < at[q] => tree[f] = held'[q]
                        /\ pc'[q] = "fill" => writer[at[q]] = q
                        /\ pc'[q] \in {"rm", "mark"} => \E v \in Versions : Whole(v)
      BY <1>5 DEF WriteArchive, flags, Passed, Whole
    <3>1. pc'[q] = pc[q] \/ pc'[q] = "tar"
      BY <1>5 DEF WriteArchive, Goto, StepsOK
    <3>2. held'[q] = held[q] \/ held[q] = Cut
      BY <1>5 DEF WriteArchive, FilesOK
    <3>3. pc[q] \in {"unpack", "fill"} /\ held[q] = Cut => at[q] = 1
      BY DEF Begun, FilesOK, Cut
    <3> QED
      BY <3>1, <3>2, <3>3 DEF Passed, Files
  <2>7. Settled'
    BY <1>5 DEF WriteArchive, Goto, flags, FlagsOK, StepsOK, FilesOK, Begun, Alone, Passed, Settled, Whole, Busy, Coming, Thread, Shell
  <2>8. Owned'
    BY <1>5 DEF WriteArchive, Goto, flags, StepsOK, FilesOK, Begun, Alone, Owned, Whole, Busy, Files, Thread, Shell
  <2> QED
    BY <2>1, <2>2, <2>3, <2>4, <2>5, <2>6, <2>7, <2>8
<1>6. ASSUME NEW r \in Recordings, StartTar(r) PROVE IInv'
  <2>1. FlagsOK'
    BY <1>6 DEF StartTar, Goto, flags, Another, FlagsOK
  <2>2. StepsOK'
    BY <1>6 DEF StartTar, Goto, flags, Another, StepsOK, FlagsOK, Thread, Shell, Ended
  <2>3. FilesOK'
    BY <1>6 DEF StartTar, Goto, flags, Another, StepsOK, FilesOK, Content, Files, Recordings
  <2>4. Begun'
    BY <1>6 DEF StartTar, Goto, flags, Another, StepsOK, FilesOK, Begun, Content, Files, Thread, Shell
  <2>5. Alone'
    BY <1>6 DEF StartTar, Goto, flags, Another, StepsOK, Alone, Busy, Thread, Shell
  <2>6. Passed'
    <3> SUFFICES ASSUME ~overlap', NEW q \in Recordings
                 PROVE  /\ pc'[q] \in {"unpack", "fill"} => \A f \in Files : f < at[q] => tree[f] = held'[q]
                        /\ pc'[q] = "fill" => writer[at[q]] = q
                        /\ pc'[q] \in {"rm", "mark"} => \E v \in Versions : Whole(v)
      BY <1>6 DEF StartTar, flags, Passed, Whole
    <3>1. q # r => pc[q] \notin {"unpack", "fill", "rm", "mark"} /\ pc'[q] = pc[q]
      BY <1>6 DEF StartTar, Another, Goto, StepsOK
    <3>2. at[r] = 1 /\ pc'[r] = "unpack"
      BY <1>6 DEF StartTar, Goto, Begun, StepsOK
    <3> QED
      BY <3>1, <3>2 DEF Files
  <2>7. Settled'
    BY <1>6 DEF StartTar, Goto, flags, Another, FlagsOK, StepsOK, FilesOK, Begun, Alone, Passed, Settled, Whole, Busy, Coming, Thread, Shell
  <2>8. Owned'
    BY <1>6 DEF StartTar, Goto, flags, Another, StepsOK, FilesOK, Begun, Alone, Owned, Whole, Busy, Files, Thread, Shell
  <2> QED
    BY <2>1, <2>2, <2>3, <2>4, <2>5, <2>6, <2>7, <2>8
<1>7. ASSUME NEW r \in Recordings, CreateFile(r) PROVE IInv'
  <2>1. FlagsOK'
    BY <1>7 DEF CreateFile, Goto, flags, FlagsOK
  <2>2. StepsOK'
    BY <1>7 DEF CreateFile, Goto, flags, StepsOK, FlagsOK, Thread, Shell, Ended
  <2>3. FilesOK'
    BY <1>7 DEF CreateFile, Goto, flags, StepsOK, FilesOK, Content, Files, Recordings
  <2>4. Begun'
    BY <1>7 DEF CreateFile, Goto, flags, StepsOK, FilesOK, Begun, Content, Files, Thread, Shell
  <2>5. Alone'
    BY <1>7 DEF CreateFile, Goto, flags, StepsOK, Alone, Busy, Thread, Shell
  <2>6. Passed'
    BY <1>7 DEF CreateFile, Goto, flags, StepsOK, FilesOK, Begun, Alone, Passed, Whole, Busy, Content, Files, Thread, Shell
  <2>7. Settled'
    BY <1>7 DEF CreateFile, Goto, flags, FlagsOK, StepsOK, FilesOK, Begun, Alone, Passed, Settled, Whole, Busy, Coming, Thread, Shell
  <2>8. Owned'
    BY <1>7 DEF CreateFile, Goto, flags, StepsOK, FilesOK, Begun, Alone, Owned, Whole, Busy, Files, Thread, Shell
  <2> QED
    BY <2>1, <2>2, <2>3, <2>4, <2>5, <2>6, <2>7, <2>8
<1>8. ASSUME NEW r \in Recordings, FillFile(r) PROVE IInv'
  <2>1. FlagsOK'
    BY <1>8 DEF FillFile, Goto, flags, FlagsOK
  <2>2. StepsOK'
    BY <1>8 DEF FillFile, Goto, flags, StepsOK, FlagsOK, Thread, Shell, Ended
  <2>3. FilesOK'
    <3>1. at[r] \in Files /\ held[r] \in Versions
      BY <1>8 DEF FillFile, Goto, Begun
    <3>2. tree' \in [Files -> Content] /\ writer' \in [Files -> Recordings \cup {0}]
      BY <1>8, <3>1 DEF FillFile, FilesOK, Content
    <3>3. at' \in [Recordings -> 1..NFiles + 1]
      BY <1>8, <3>1 DEF FillFile, FilesOK, Files
    <3> QED
      BY <1>8, <3>2, <3>3 DEF FillFile, flags, FilesOK
  <2>4. Begun'
    BY <1>8 DEF FillFile, Goto, flags, StepsOK, FilesOK, Begun, Content, Files, Thread, Shell
  <2>5. Alone'
    BY <1>8 DEF FillFile, Goto, flags, StepsOK, Alone, Busy, Thread, Shell
  <2>6. Passed'
    BY <1>8 DEF FillFile, Goto, flags, StepsOK, FilesOK, Begun, Alone, Passed, Whole, Busy, Content, Files, Thread, Shell
  <2>7. Settled'
    BY <1>8 DEF FillFile, Goto, flags, FlagsOK, StepsOK, FilesOK, Begun, Alone, Passed, Settled, Whole, Busy, Coming, Thread, Shell
  <2>8. Owned'
    BY <1>8 DEF FillFile, Goto, flags, StepsOK, FilesOK, Begun, Alone, Owned, Whole, Busy, Files, Thread, Shell
  <2> QED
    BY <2>1, <2>2, <2>3, <2>4, <2>5, <2>6, <2>7, <2>8
<1>9. ASSUME NEW r \in Recordings, EndTar(r) PROVE IInv'
  <2>1. FlagsOK'
    BY <1>9 DEF EndTar, Goto, flags, FlagsOK
  <2>2. StepsOK'
    BY <1>9 DEF EndTar, Goto, flags, StepsOK, FlagsOK, Thread, Shell, Ended
  <2>3. FilesOK'
    BY <1>9 DEF EndTar, Goto, flags, StepsOK, FilesOK, Content, Files, Recordings
  <2>4. Begun'
    BY <1>9 DEF EndTar, Goto, flags, StepsOK, FilesOK, Begun, Content, Files, Thread, Shell
  <2>5. Alone'
    BY <1>9 DEF EndTar, Goto, flags, StepsOK, Alone, Busy, Thread, Shell
  <2>6. Passed'
    <3> SUFFICES ASSUME ~overlap, NEW q \in Recordings
                 PROVE  /\ pc'[q] \in {"unpack", "fill"} => \A f \in Files : f < at[q] => tree[f] = held[q]
                        /\ pc'[q] = "fill" => writer[at[q]] = q
                        /\ pc'[q] \in {"rm", "mark"} => \E v \in Versions : Whole(v)
      BY <1>9 DEF EndTar, flags, Passed, Whole
    <3>1. CASE q # r
      BY <1>9, <3>1 DEF EndTar, Goto, StepsOK, Passed
    <3>2. CASE q = r
      <4>1. at[r] > 1 /\ \A f \in Files : f < at[r]
        BY <1>9 DEF EndTar, Files
      <4>2. held[r] \in Versions /\ Whole(held[r])
        BY <1>9, <4>1 DEF EndTar, Goto, Begun, Passed, Whole
      <4> QED
        BY <1>9, <3>2, <4>2 DEF EndTar, Goto, StepsOK
    <3> QED
      BY <3>1, <3>2
  <2>7. Settled'
    BY <1>9 DEF EndTar, Goto, flags, FlagsOK, StepsOK, FilesOK, Begun, Alone, Passed, Settled, Whole, Busy, Coming, Thread, Shell
  <2>8. Owned'
    <3>1. /\ pc[r] = "unpack" /\ pc' = [pc EXCEPT ![r] = "rm"]
          /\ UNCHANGED <<archive, held, version, tree, orphans, overlap>>
      BY <1>9 DEF EndTar, Goto, flags
    <3>2. at[r] > 1 /\ \A f \in Files : f < at[r]
      BY <1>9 DEF EndTar, Files
    <3>3. ~overlap => held[r] \in Versions /\ Whole(held[r])
      BY <3>1, <3>2 DEF Begun, Passed, Whole
    <3>4. r \notin orphans => held[r] \in {Cut, version}
      BY <3>1 DEF Owned
    <3>5. Cut \notin Versions
      BY DEF Cut
    <3>6. r \notin orphans /\ ~overlap => Whole(version)
      BY <3>3, <3>4, <3>5
    <3>7. Whole(version)' <=> Whole(version)
      BY <3>1 DEF Whole
    <3> QED
      BY <3>1, <3>6, <3>7 DEF StepsOK, Owned
  <2> QED
    BY <2>1, <2>2, <2>3, <2>4, <2>5, <2>6, <2>7, <2>8
<1>10. ASSUME NEW r \in Recordings, TarFails(r) PROVE IInv'
  <2>1. FlagsOK'
    BY <1>10 DEF TarFails, ShellEnds, Goto, flags, FlagsOK
  <2>2. StepsOK'
    BY <1>10 DEF TarFails, ShellEnds, Goto, flags, StepsOK, FlagsOK, Thread, Shell, Ended
  <2>3. FilesOK'
    BY <1>10 DEF TarFails, ShellEnds, Goto, flags, StepsOK, FilesOK, Content, Files, Recordings
  <2>4. Begun'
    BY <1>10 DEF TarFails, ShellEnds, Goto, flags, StepsOK, FilesOK, Begun, Content, Files, Thread, Shell
  <2>5. Alone'
    BY <1>10 DEF TarFails, ShellEnds, Goto, flags, StepsOK, Alone, Busy, Thread, Shell
  <2>6. Passed'
    BY <1>10 DEF TarFails, ShellEnds, Goto, flags, StepsOK, FilesOK, Begun, Alone, Passed, Whole, Busy, Content, Files, Thread, Shell
  <2>7. Settled'
    BY <1>10 DEF TarFails, ShellEnds, Goto, flags, FlagsOK, StepsOK, FilesOK, Begun, Alone, Passed, Settled, Whole, Busy, Coming, Thread, Shell
  <2>8. Owned'
    BY <1>10 DEF TarFails, ShellEnds, Goto, flags, StepsOK, FilesOK, Begun, Alone, Owned, Whole, Busy, Files, Thread, Shell
  <2> QED
    BY <2>1, <2>2, <2>3, <2>4, <2>5, <2>6, <2>7, <2>8
<1>11. ASSUME NEW r \in Recordings, Remove(r) PROVE IInv'
  <2>1. FlagsOK'
    BY <1>11 DEF Remove, ShellEnds, Goto, flags, FlagsOK
  <2>2. StepsOK'
    <3>1. pc[r] = "rm" /\ orphans' = orphans \ {r}
      BY <1>11 DEF Remove, ShellEnds, Goto
    <3>2. pc' = [pc EXCEPT ![r] = IF r \in orphans THEN "lost" ELSE "mark"] /\ up' = up
      BY <1>11 DEF Remove, ShellEnds, Goto, flags
    <3>3. up \/ r \in orphans
      BY <3>1 DEF StepsOK, Shell
    <3> QED
      BY <3>1, <3>2, <3>3 DEF StepsOK, FlagsOK, Thread, Shell, Ended
  <2>3. FilesOK'
    BY <1>11 DEF Remove, ShellEnds, Goto, flags, StepsOK, FilesOK, Content, Files, Recordings
  <2>4. Begun'
    BY <1>11 DEF Remove, ShellEnds, Goto, flags, StepsOK, FilesOK, Begun, Content, Files, Thread, Shell
  <2>5. Alone'
    BY <1>11 DEF Remove, ShellEnds, Goto, flags, StepsOK, Alone, Busy, Thread, Shell
  <2>6. Passed'
    BY <1>11 DEF Remove, ShellEnds, Goto, flags, StepsOK, FilesOK, Begun, Alone, Passed, Whole, Busy, Content, Files, Thread, Shell
  <2>7. Settled'
    BY <1>11 DEF Remove, ShellEnds, Goto, flags, FlagsOK, StepsOK, FilesOK, Begun, Alone, Passed, Settled, Whole, Busy, Coming, Thread, Shell
  <2>8. Owned'
    BY <1>11 DEF Remove, ShellEnds, Goto, flags, StepsOK, FilesOK, Begun, Alone, Owned, Whole, Busy, Files, Thread, Shell
  <2> QED
    BY <2>1, <2>2, <2>3, <2>4, <2>5, <2>6, <2>7, <2>8
<1>12. ASSUME NEW r \in Recordings, RemoveFails(r) PROVE IInv'
  <2>1. FlagsOK'
    BY <1>12 DEF RemoveFails, ShellEnds, Goto, flags, FlagsOK
  <2>2. StepsOK'
    BY <1>12 DEF RemoveFails, ShellEnds, Goto, flags, StepsOK, FlagsOK, Thread, Shell, Ended
  <2>3. FilesOK'
    BY <1>12 DEF RemoveFails, ShellEnds, Goto, flags, StepsOK, FilesOK, Content, Files, Recordings
  <2>4. Begun'
    BY <1>12 DEF RemoveFails, ShellEnds, Goto, flags, StepsOK, FilesOK, Begun, Content, Files, Thread, Shell
  <2>5. Alone'
    BY <1>12 DEF RemoveFails, ShellEnds, Goto, flags, StepsOK, Alone, Busy, Thread, Shell
  <2>6. Passed'
    BY <1>12 DEF RemoveFails, ShellEnds, Goto, flags, StepsOK, FilesOK, Begun, Alone, Passed, Whole, Busy, Content, Files, Thread, Shell
  <2>7. Settled'
    BY <1>12 DEF RemoveFails, ShellEnds, Goto, flags, FlagsOK, StepsOK, FilesOK, Begun, Alone, Passed, Settled, Whole, Busy, Coming, Thread, Shell
  <2>8. Owned'
    BY <1>12 DEF RemoveFails, ShellEnds, Goto, flags, StepsOK, FilesOK, Begun, Alone, Owned, Whole, Busy, Files, Thread, Shell
  <2> QED
    BY <2>1, <2>2, <2>3, <2>4, <2>5, <2>6, <2>7, <2>8
<1>13. ASSUME NEW r \in Recordings, Mark(r) PROVE IInv'
  <2>1. FlagsOK'
    BY <1>13 DEF Mark, Goto, Another, FlagsOK
  <2>2. StepsOK'
    BY <1>13 DEF Mark, Goto, Another, StepsOK, FlagsOK, Thread, Shell, Ended
  <2>3. FilesOK'
    BY <1>13 DEF Mark, Goto, Another, StepsOK, FilesOK, Content, Files, Recordings
  <2>4. Begun'
    BY <1>13 DEF Mark, Goto, Another, StepsOK, FilesOK, Begun, Content, Files, Thread, Shell
  <2>5. Alone'
    BY <1>13 DEF Mark, Goto, Another, StepsOK, Alone, Busy, Thread, Shell
  <2>6. Passed'
    BY <1>13 DEF Mark, Goto, Another, StepsOK, FilesOK, Begun, Alone, Passed, Whole, Busy, Content, Files, Thread, Shell
  <2>7. Settled'
    BY <1>13 DEF Mark, Goto, Another, FlagsOK, StepsOK, FilesOK, Begun, Alone, Passed, Settled, Whole, Busy, Coming, Thread, Shell
  <2>8. Owned'
    BY <1>13 DEF Mark, Goto, Another, StepsOK, FilesOK, Begun, Alone, Owned, Whole, Busy, Files, Thread, Shell
  <2> QED
    BY <2>1, <2>2, <2>3, <2>4, <2>5, <2>6, <2>7, <2>8
<1>14. ASSUME NEW r \in Recordings, FindScript(r) PROVE IInv'
  <2>1. FlagsOK'
    BY <1>14 DEF FindScript, Goto, flags, FlagsOK
  <2>2. StepsOK'
    BY <1>14 DEF FindScript, Goto, flags, StepsOK, FlagsOK, Thread, Shell, Ended
  <2>3. FilesOK'
    BY <1>14 DEF FindScript, Goto, flags, StepsOK, FilesOK, Content, Files, Recordings
  <2>4. Begun'
    BY <1>14 DEF FindScript, Goto, flags, StepsOK, FilesOK, Begun, Content, Files, Thread, Shell
  <2>5. Alone'
    BY <1>14 DEF FindScript, Goto, flags, StepsOK, Alone, Busy, Thread, Shell
  <2>6. Passed'
    BY <1>14 DEF FindScript, Goto, flags, StepsOK, FilesOK, Begun, Alone, Passed, Whole, Busy, Content, Files, Thread, Shell
  <2>7. Settled'
    BY <1>14 DEF FindScript, Goto, flags, FlagsOK, StepsOK, FilesOK, Begun, Alone, Passed, Settled, Whole, Busy, Coming, Thread, Shell
  <2>8. Owned'
    BY <1>14 DEF FindScript, Goto, flags, StepsOK, FilesOK, Begun, Alone, Owned, Whole, Busy, Files, Thread, Shell
  <2> QED
    BY <2>1, <2>2, <2>3, <2>4, <2>5, <2>6, <2>7, <2>8
<1>15. ASSUME NEW r \in Recordings, RunScript(r) PROVE IInv'
  <2>1. FlagsOK'
    BY <1>15 DEF RunScript, Goto, flags, FlagsOK
  <2>2. StepsOK'
    BY <1>15 DEF RunScript, Goto, flags, StepsOK, FlagsOK, Thread, Shell, Ended
  <2>3. FilesOK'
    BY <1>15 DEF RunScript, Goto, flags, StepsOK, FilesOK, Content, Files, Recordings
  <2>4. Begun'
    BY <1>15 DEF RunScript, Goto, flags, StepsOK, FilesOK, Begun, Content, Files, Thread, Shell
  <2>5. Alone'
    BY <1>15 DEF RunScript, Goto, flags, StepsOK, Alone, Busy, Thread, Shell
  <2>6. Passed'
    BY <1>15 DEF RunScript, Goto, flags, StepsOK, FilesOK, Begun, Alone, Passed, Whole, Busy, Content, Files, Thread, Shell
  <2>7. Settled'
    BY <1>15 DEF RunScript, Goto, flags, FlagsOK, StepsOK, FilesOK, Begun, Alone, Passed, Settled, Whole, Busy, Coming, Thread, Shell
  <2>8. Owned'
    BY <1>15 DEF RunScript, Goto, flags, StepsOK, FilesOK, Begun, Alone, Owned, Whole, Busy, Files, Thread, Shell
  <2> QED
    BY <2>1, <2>2, <2>3, <2>4, <2>5, <2>6, <2>7, <2>8
<1>16. CASE Crash
  <2>1. FlagsOK'
    BY <1>16 DEF Crash, FlagsOK
  <2>2. StepsOK'
    BY <1>16 DEF Crash, StepsOK, FlagsOK, Thread, Shell, Ended
  <2>3. FilesOK'
    <3>1. crashes' \in 0..MaxCrashes
      BY <1>16 DEF Crash, FilesOK
    <3> QED
      BY <1>16, <3>1 DEF Crash, FilesOK
  <2>4. Begun'
    BY <1>16 DEF Crash, StepsOK, FilesOK, Begun, Content, Files, Thread, Shell
  <2>5. Alone'
    BY <1>16 DEF Crash, StepsOK, Alone, Busy, Thread, Shell
  <2>6. Passed'
    BY <1>16 DEF Crash, StepsOK, FilesOK, Begun, Alone, Passed, Whole, Busy, Content, Files, Thread, Shell
  <2>7. Settled'
    BY <1>16 DEF Crash, FlagsOK, StepsOK, FilesOK, Begun, Alone, Passed, Settled, Whole, Busy, Coming, Thread, Shell
  <2>8. Owned'
    BY <1>16 DEF Crash, StepsOK, FilesOK, Begun, Alone, Owned, Whole, Busy, Files, Thread, Shell
  <2> QED
    BY <2>1, <2>2, <2>3, <2>4, <2>5, <2>6, <2>7, <2>8
<1>17. CASE PowerLoss
  <2>1. FlagsOK'
    BY <1>17 DEF PowerLoss, FlagsOK
  <2>2. StepsOK'
    BY <1>17 DEF PowerLoss, StepsOK, FlagsOK, Thread, Shell, Ended
  <2>3. FilesOK'
    BY <1>17 DEF PowerLoss, StepsOK, FilesOK, Content, Files, Recordings
  <2>4. Begun'
    BY <1>17 DEF PowerLoss, StepsOK, FilesOK, Begun, Content, Files, Thread, Shell
  <2>5. Alone'
    BY <1>17 DEF PowerLoss, StepsOK, Alone, Busy, Thread, Shell
  <2>6. Passed'
    BY <1>17 DEF PowerLoss, StepsOK, FilesOK, Begun, Alone, Passed, Whole, Busy, Content, Files, Thread, Shell
  <2>7. Settled'
    BY <1>17 DEF PowerLoss, FlagsOK, StepsOK, FilesOK, Begun, Alone, Passed, Settled, Whole, Busy, Coming, Thread, Shell
  <2>8. Owned'
    BY <1>17 DEF PowerLoss, StepsOK, FilesOK, Begun, Alone, Owned, Whole, Busy, Files, Thread, Shell
  <2> QED
    BY <2>1, <2>2, <2>3, <2>4, <2>5, <2>6, <2>7, <2>8
<1>18. CASE Restart
  <2>1. FlagsOK'
    BY <1>18 DEF Restart, FlagsOK
  <2>2. StepsOK'
    BY <1>18 DEF Restart, StepsOK, FlagsOK, Thread, Shell, Ended
  <2>3. FilesOK'
    BY <1>18 DEF Restart, StepsOK, FilesOK, Content, Files, Recordings
  <2>4. Begun'
    BY <1>18 DEF Restart, StepsOK, FilesOK, Begun, Content, Files, Thread, Shell
  <2>5. Alone'
    BY <1>18 DEF Restart, StepsOK, Alone, Busy, Thread, Shell
  <2>6. Passed'
    BY <1>18 DEF Restart, StepsOK, FilesOK, Begun, Alone, Passed, Whole, Busy, Content, Files, Thread, Shell
  <2>7. Settled'
    BY <1>18 DEF Restart, FlagsOK, StepsOK, FilesOK, Begun, Alone, Passed, Settled, Whole, Busy, Coming, Thread, Shell
  <2>8. Owned'
    BY <1>18 DEF Restart, StepsOK, FilesOK, Begun, Alone, Owned, Whole, Busy, Files, Thread, Shell
  <2> QED
    BY <2>1, <2>2, <2>3, <2>4, <2>5, <2>6, <2>7, <2>8
<1> QED
  BY <1>1, <1>2, <1>3, <1>4, <1>5, <1>6, <1>7, <1>8, <1>9, <1>10, <1>11, <1>12, <1>13, <1>14, <1>15, <1>16, <1>17, <1>18 DEF Next, Extraction

\* The invariant holds of every behaviour.
THEOREM Invariance == Spec => []IInv
BY InitIInv, NextIInv, PTL DEF Spec

\* Every variable keeps its type; no thread is left when the server has ended,
\* and only shells outlive it.
THEOREM TypeCorrect == Spec => []TypeOK
BY Invariance, PTL DEF IInv

\* A recorder that the marker or the flag vouches for is whole and of one
\* version, unless two requests have unpacked at the same time.
THEOREM Vouched == Spec => []VouchedWhole
<1>1. IInv => VouchedWhole
  BY DEF IInv, Settled, VouchedWhole
<1> QED
  BY <1>1, Invariance, PTL

\* What a request has unpacked is its own program's recorder, all of it, unless
\* two requests have unpacked at the same time.
THEOREM OwnUnpacked == Spec => []UnpackedOwn
<1>1. IInv => UnpackedOwn
  BY DEF IInv, TypeOK, StepsOK, Shell, Owned, UnpackedOwn
<1> QED
  BY <1>1, Invariance, PTL
=============================================================================
