------------------------------ MODULE Recorder ------------------------------
(***************************************************************************)
(* The embedded TLS recorder, src/src/embedded_recorder.hpp: the bundle in  *)
(* the program is unpacked once under ~/.octane/tls-recorder, and every     *)
(* /prove request runs the recorder found there.                            *)
(*                                                                         *)
(* The requests run in threads of their own and take no lock here.  The     *)
(* archive is unpacked by a shell, `tar -xzf bundle.tar.gz && rm            *)
(* bundle.tar.gz`, which goes on when the server ends; the files outlive    *)
(* the server, and the program may be updated while it does not run.        *)
(***************************************************************************)
EXTENDS Integers, FiniteSets

CONSTANTS MaxRecordings, \* bound: requests that record
          MaxCrashes,    \* bound: times the server ends
          Versions,      \* versions of the program, each with its own bundle
          NFiles         \* files in a bundle; the first is the script that is run

Recordings == 1..MaxRecordings
Files == 1..NFiles
Absent == 0    \* no such file
Cut == -1      \* a file that is not, or not yet, as it should be

ASSUME RecorderAssumption ==
  /\ MaxRecordings \in Nat /\ MaxCrashes \in Nat /\ NFiles \in Nat \ {0}
  /\ Versions \subseteq Nat \ {0} /\ Versions # {}

VARIABLES up,        \* the server runs
          version,   \* the version of the program that runs, or ran last
          crashes,   \* times it has ended
          extracted, \* the flag of the one EmbeddedRecorder
          marker,    \* .extracted exists
          archive,   \* bundle.tar.gz
          linked,    \* the requests whose open archive is the present file
          tree,      \* the unpacked files
          writer,    \* the tar that created each of them last
          pc,        \* where each request is
          held,      \* what each request's tar reads in its archive
          at,        \* the file each request's tar has come to
          orphans,   \* the requests whose shell has outlived the server
          overlap    \* two requests have unpacked at the same time

flags == <<up, version, crashes, extracted, marker>>
vars == <<flags, archive, linked, tree, writer, pc, held, at, orphans, overlap>>

Thread == {"open", "write", "mark", "find", "run"}
Shell == {"tar", "unpack", "fill", "rm"}
Ended == {"done", "failed", "missing", "lost"}
Content == Versions \cup {Absent, Cut}

FlagsOK == up \in BOOLEAN /\ extracted \in BOOLEAN /\ marker \in BOOLEAN /\ overlap \in BOOLEAN

StepsOK ==
  /\ pc \in [Recordings -> {"idle"} \cup Thread \cup Shell \cup Ended]
  /\ orphans \in SUBSET Recordings
  /\ \A r \in Recordings : r \in orphans => pc[r] \in Shell
  /\ ~up => \A r \in Recordings : pc[r] \notin Thread /\ (pc[r] \in Shell => r \in orphans)

FilesOK ==
  /\ version \in Versions /\ crashes \in 0..MaxCrashes
  /\ archive \in Content /\ linked \in SUBSET Recordings
  /\ tree \in [Files -> Content] /\ writer \in [Files -> Recordings \cup {0}]
  /\ held \in [Recordings -> Content] /\ at \in [Recordings -> 1..NFiles + 1]

TypeOK == FlagsOK /\ StepsOK /\ FilesOK

Init ==
  /\ up = TRUE /\ version \in Versions /\ crashes = 0
  /\ extracted = FALSE /\ marker = FALSE
  /\ archive = Absent /\ linked = {}
  /\ tree = [f \in Files |-> Absent] /\ writer = [f \in Files |-> 0]
  /\ pc = [r \in Recordings |-> "idle"]
  /\ held = [r \in Recordings |-> Absent] /\ at = [r \in Recordings |-> 1]
  /\ orphans = {} /\ overlap = FALSE

Goto(r, from, to) == pc[r] = from /\ pc' = [pc EXCEPT ![r] = to]

\* The shell ends: its exit status goes to the request, if that is still there.
ShellEnds(r, from, to) ==
  /\ Goto(r, from, IF r \in orphans THEN "lost" ELSE to)
  /\ held' = [held EXCEPT ![r] = Absent] /\ at' = [at EXCEPT ![r] = 1]
  /\ orphans' = orphans \ {r}

-----------------------------------------------------------------------------
(* ensure_extracted.                                                       *)

\* Requests are numbered in the order they come.  The flag spares the look at
\* the marker; the marker does not say of which version it is.
Begin(r) ==
  /\ up /\ \A q \in Recordings : q < r => pc[q] # "idle"
  /\ Goto(r, "idle", IF extracted \/ marker THEN "find" ELSE "open")
  /\ extracted' = (extracted \/ marker)
  /\ UNCHANGED <<up, version, crashes, marker, archive, linked, tree, writer, held, at, orphans, overlap>>

\* Wrong on purpose: an archive that is already there is not written again.
OpenArchiveReused(r) ==
  /\ Goto(r, "open", IF archive = Absent THEN "write" ELSE "tar")
  /\ linked' = IF archive = Absent THEN {r} ELSE linked
  /\ archive' = IF archive = Absent THEN Cut ELSE archive
  /\ UNCHANGED <<flags, tree, writer, held, at, orphans, overlap>>

\* mkdir -p, whose result nobody asks for, then the archive is opened and cut.
OpenArchive(r) ==
  /\ Goto(r, "open", "write")
  /\ linked' = IF archive = Absent THEN {r} ELSE linked \cup {r}
  /\ archive' = Cut
  /\ UNCHANGED <<flags, tree, writer, held, at, orphans, overlap>>

OpenFails(r) ==
  /\ Goto(r, "open", "failed")
  /\ UNCHANGED <<flags, archive, linked, tree, writer, held, at, orphans, overlap>>

\* Nobody asks whether the archive was written in full.  A tar that has the
\* same file open reads on; an archive removed meanwhile stays removed.
WriteArchive(r) ==
  /\ Goto(r, "write", "tar")
  /\ \E c \in {version, Cut} :
       IF r \in linked
       THEN /\ archive' = c
            /\ held' = [q \in Recordings |-> IF q \in linked /\ held[q] = Cut THEN c ELSE held[q]]
       ELSE UNCHANGED <<archive, held>>
  /\ linked' = linked \ {r}
  /\ UNCHANGED <<flags, tree, writer, at, orphans, overlap>>

\* Another request is in one of these phases.
Another(r, phases) == \E q \in Recordings \ {r} : pc[q] \in phases

StartTar(r) ==
  /\ archive # Absent
  /\ Goto(r, "tar", "unpack")
  /\ held' = [held EXCEPT ![r] = archive]
  /\ linked' = linked \cup {r}
  /\ overlap' = (overlap \/ Another(r, {"unpack", "fill", "rm", "mark"}))
  /\ UNCHANGED <<flags, archive, tree, writer, at, orphans>>

\* tar replaces a file: it creates a new one, then fills it.
CreateFile(r) ==
  /\ at[r] \in Files /\ held[r] \in Versions
  /\ Goto(r, "unpack", "fill")
  /\ tree' = [tree EXCEPT ![at[r]] = Cut]
  /\ writer' = [writer EXCEPT ![at[r]] = r]
  /\ UNCHANGED <<flags, archive, linked, held, at, orphans, overlap>>

FillFile(r) ==
  /\ Goto(r, "fill", "unpack")
  /\ \/ writer[at[r]] # r /\ UNCHANGED <<tree, writer>>
     \/ /\ writer[at[r]] = r
        /\ tree' = [tree EXCEPT ![at[r]] = held[r]]
        /\ writer' = [writer EXCEPT ![at[r]] = 0]
  /\ at' = [at EXCEPT ![r] = @ + 1]
  /\ UNCHANGED <<flags, archive, linked, held, orphans, overlap>>

EndTar(r) ==
  /\ at[r] = NFiles + 1
  /\ Goto(r, "unpack", "rm")
  /\ linked' = linked \ {r}
  /\ UNCHANGED <<flags, archive, tree, writer, held, at, orphans, overlap>>

\* Wrong on purpose: the shell command goes on after a tar that failed.
TarFailsUnseen(r) ==
  /\ \E from \in {"tar", "unpack", "fill"} : Goto(r, from, "rm")
  /\ linked' = linked \ {r}
  /\ UNCHANGED <<flags, archive, tree, writer, held, at, orphans, overlap>>

\* Wrong on purpose: a failed extraction is tried again, for ever.
TarFailsAgain(r) ==
  /\ \E from \in {"tar", "unpack", "fill"} : ShellEnds(r, from, "open")
  /\ linked' = linked \ {r}
  /\ UNCHANGED <<flags, archive, tree, writer, overlap>>

\* tar stops: no archive, or none that it can read to the end, or the disk.
TarFails(r) ==
  /\ \E from \in {"tar", "unpack", "fill"} : ShellEnds(r, from, "failed")
  /\ linked' = linked \ {r}
  /\ UNCHANGED <<flags, archive, tree, writer, overlap>>

\* rm removes whatever archive is there by then, and fails if there is none.
Remove(r) ==
  /\ archive # Absent
  /\ ShellEnds(r, "rm", "mark")
  /\ archive' = Absent /\ linked' = {}
  /\ UNCHANGED <<flags, tree, writer, overlap>>

RemoveFails(r) ==
  /\ archive = Absent
  /\ ShellEnds(r, "rm", "failed")
  /\ UNCHANGED <<flags, archive, linked, tree, writer, overlap>>

\* Nobody asks whether the marker could be written.
Mark(r) ==
  /\ Goto(r, "mark", "find")
  /\ marker' \in {marker, TRUE}
  /\ extracted' = TRUE
  /\ overlap' = (overlap \/ Another(r, {"open", "write", "tar", "unpack", "fill"}))
  /\ UNCHANGED <<up, version, crashes, archive, linked, tree, writer, held, at, orphans>>

-----------------------------------------------------------------------------
(* record, and the server's life.                                          *)

FindScript(r) ==
  /\ Goto(r, "find", IF tree[1] = Absent THEN "missing" ELSE "run")
  /\ UNCHANGED <<flags, archive, linked, tree, writer, held, at, orphans, overlap>>

RunScript(r) ==
  /\ Goto(r, "run", "done")
  /\ UNCHANGED <<flags, archive, linked, tree, writer, held, at, orphans, overlap>>

\* Wrong on purpose: the threads do not end with the server.
CrashKeepsThreads ==
  /\ up /\ crashes < MaxCrashes
  /\ up' = FALSE /\ crashes' = crashes + 1 /\ extracted' = FALSE
  /\ UNCHANGED <<version, marker, archive, linked, tree, writer, pc, held, at, orphans, overlap>>

\* The server ends: the shells it has started do not.
Crash ==
  /\ up /\ crashes < MaxCrashes
  /\ up' = FALSE /\ crashes' = crashes + 1 /\ extracted' = FALSE
  /\ pc' = [r \in Recordings |-> IF pc[r] \in Thread THEN "lost" ELSE pc[r]]
  /\ orphans' = orphans \cup {r \in Recordings : pc[r] \in Shell}
  /\ linked' = {r \in linked : pc[r] \in Shell}
  /\ UNCHANGED <<version, marker, archive, tree, writer, held, at, overlap>>

\* The whole machine ends.
PowerLoss ==
  /\ up /\ crashes < MaxCrashes
  /\ up' = FALSE /\ crashes' = crashes + 1 /\ extracted' = FALSE
  /\ pc' = [r \in Recordings |-> IF pc[r] \in Thread \cup Shell THEN "lost" ELSE pc[r]]
  /\ linked' = {} /\ orphans' = {}
  /\ held' = [r \in Recordings |-> Absent] /\ at' = [r \in Recordings |-> 1]
  /\ UNCHANGED <<version, marker, archive, tree, writer, overlap>>

\* The server starts again, perhaps from a later version of the program.
Restart ==
  /\ ~up /\ up' = TRUE
  /\ version' \in {v \in Versions : v >= version}
  /\ UNCHANGED <<crashes, extracted, marker, archive, linked, tree, writer, pc, held, at, orphans, overlap>>

Extraction(r) ==
  \/ OpenArchive(r) \/ OpenFails(r) \/ WriteArchive(r)
  \/ StartTar(r) \/ CreateFile(r) \/ FillFile(r) \/ EndTar(r) \/ TarFails(r)
  \/ Remove(r) \/ RemoveFails(r) \/ Mark(r)

Next ==
  \/ \E r \in Recordings : Begin(r) \/ Extraction(r) \/ FindScript(r) \/ RunScript(r)
  \/ Crash \/ PowerLoss \/ Restart

Spec == Init /\ [][Next]_vars
\* The server's threads and tar get on.  The node process that records is another
\* matter: it talks to other machines, and popen and fgets wait for it without a
\* time limit, so nothing is assumed of RunScript.
LiveSpec == Spec /\ \A r \in Recordings : WF_vars(Extraction(r) \/ FindScript(r))

-----------------------------------------------------------------------------
(* Properties.                                                             *)

Whole(v) == \A f \in Files : tree[f] = v

\* When the marker or the flag vouches for the recorder, all its files are
\* there, whole and of one version, unless two requests were unpacking at the
\* same time and one of them got to its end.  Neither a crash between any two
\* steps and the shell that outlives it, nor an archive that was not written in
\* full or that another request cuts or removes, nor an update gets past this.
VouchedWhole == (marker \/ extracted) /\ ~overlap => \E v \in Versions : Whole(v)

\* What a request has unpacked, and is about to mark, is its own program's
\* recorder, all of it: an archive that an earlier version left behind, that was
\* not written in full, or that another request has cut, never gets into it, nor
\* does the shell of a server that has ended.  Two requests that unpack at the
\* same time are excepted.
UnpackedOwn == ~overlap => \A r \in Recordings : pc[r] = "mark" => Whole(version)

\* A request that begins to unpack comes to run the recorder, unless it ends with
\* an error or with the server.  How long the recorder then runs nothing in the
\* program bounds.
UnpackingEnds == \A r \in Recordings : pc[r] = "open" ~> pc[r] \in {"run"} \cup Ended
=============================================================================
