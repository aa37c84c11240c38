------------------------------ MODULE Pairing ------------------------------
(***************************************************************************)
(* POST /pair/export: generate_pairing_file and load_relay_config of        *)
(* src/src/relay_client.hpp, and start_relay_if_configured and the handler  *)
(* of src/main.cpp.                                                         *)
(*                                                                         *)
(* Each export runs in a connection thread of its own.  All of them write   *)
(* the same three files in place, one after the other, and replace the      *)
(* bridge in g_relay, without a lock.  The files outlive the process.  A    *)
(* pairing (room and key pair) is named by the export that made it; what a  *)
(* file holds is the pairing whose export wrote it last, since the content  *)
(* of a file has the same length in all pairings and goes out in one write. *)
(***************************************************************************)
EXTENDS Naturals, FiniteSets

CONSTANTS MaxExports,  \* bound: requests to /pair/export
          MaxCrashes,  \* bound: times the process ends
          Main,        \* the thread that starts the process
          NoFile,      \* a file that does not exist
          Empty,       \* a file that was truncated and not yet written
          None         \* g_relay holds no bridge

Exports == 1..MaxExports
Threads == Exports \cup {Main}

ASSUME PairingAssumption ==
  /\ MaxExports \in Nat /\ MaxCrashes \in Nat
  /\ Main \notin Nat /\ NoFile \notin Nat /\ Empty \notin Nat /\ None \notin Nat
  /\ NoFile # Empty

VARIABLES up,       \* the process runs
          crashes,  \* times it has ended
          pc,       \* where each export is
          tmp,      \* pairing_export.tmp
          linked,   \* the exports whose open file is the present tmp
          secret,   \* relay_secret.key
          conf,     \* relay.conf
          body,     \* what each export read back from tmp
          room,     \* what each export read back from relay.conf
          bridge,   \* the pairing of the bridge in g_relay
          host,     \* the bridge thread that each thread has started
          overlap,  \* the exports that ran at the same time as another
          opened    \* the exports that have come to relay_secret.key

files == <<tmp, linked, secret, conf>>
past == <<overlap, opened>>
vars == <<up, crashes, pc, files, body, room, bridge, host, past>>

File == Exports \cup {NoFile, Empty}
Working == {"writeExport", "openSecret", "writeSecret", "openConf", "writeConf",
            "readExport", "removeExport", "checkBridge", "resetBridge",
            "loadConf", "newBridge", "startBridge", "respond"}
\* An export is answered with the pairing ("done") or with an error: the
\* pairing file could not be opened ("refused"), or relay_secret.key ("noKey"),
\* or relay.conf ("noConf"), or the pairing file had gone when it was read
\* ("gone"); or the process ended ("lost").
Ended == {"done", "refused", "noKey", "noConf", "gone", "lost"}

TypeOK ==
  /\ up \in BOOLEAN /\ crashes \in 0..MaxCrashes
  /\ pc \in [Exports -> {"idle"} \cup Working \cup Ended]
  /\ tmp \in File /\ secret \in File /\ conf \in File
  /\ linked \in SUBSET {e \in Exports : pc[e] = "writeExport"}
  /\ (tmp = NoFile => linked = {})
  /\ body \in [Exports -> File]
  /\ room \in [Exports -> Exports \cup {None}]
  /\ bridge \in Exports \cup {None}
  /\ host \in [Threads -> {"none", "bound", "stale"}]
  /\ overlap \in SUBSET Exports /\ opened \in SUBSET Exports

Init ==
  /\ up = TRUE /\ crashes = 0
  /\ pc = [e \in Exports |-> "idle"]
  /\ tmp = NoFile /\ secret = NoFile /\ conf = NoFile /\ linked = {}
  /\ body = [e \in Exports |-> NoFile]
  /\ room = [e \in Exports |-> None]
  /\ bridge = None
  /\ host = [t \in Threads |-> "none"]
  /\ overlap = {} /\ opened = {}

-----------------------------------------------------------------------------
(* generate_pairing_file.                                                  *)

Goto(e, from, to) ==
  up /\ pc[e] = from /\ pc' = [pc EXCEPT ![e] = to]

\* A file cannot be opened: permissions, or no such directory.
OpenFails(e, at, how) ==
  /\ Goto(e, at, how)
  /\ UNCHANGED <<up, crashes, files, body, room, bridge, host, past>>

Concurrent(e) == {f \in Exports : pc[f] \in Working}

\* Exports are numbered in the order they open their file, which truncates
\* the one that is there.
OpenExport(e) ==
  /\ \A f \in Exports : f < e => pc[f] # "idle"
  /\ Goto(e, "idle", "writeExport")
  /\ tmp' = Empty
  /\ linked' = linked \cup {e}
  /\ overlap' = IF Concurrent(e) = {} THEN overlap
                ELSE overlap \cup Concurrent(e) \cup {e}
  /\ UNCHANGED <<up, crashes, secret, conf, body, room, bridge, host, opened>>

\* A file that was removed under the writer stays removed.
WriteExport(e) ==
  /\ Goto(e, "writeExport", "openSecret")
  /\ tmp' = IF e \in linked THEN e ELSE tmp
  /\ linked' = linked \ {e}
  /\ UNCHANGED <<up, crashes, secret, conf, body, room, bridge, host, past>>

OpenSecret(e) ==
  /\ Goto(e, "openSecret", "writeSecret")
  /\ secret' = Empty
  /\ opened' = opened \cup {e}
  /\ UNCHANGED <<up, crashes, tmp, linked, conf, body, room, bridge, host, overlap>>

WriteSecret(e) ==
  /\ Goto(e, "writeSecret", "openConf")
  /\ secret' = e
  /\ UNCHANGED <<up, crashes, tmp, linked, conf, body, room, bridge, host, past>>

OpenConf(e) ==
  /\ Goto(e, "openConf", "writeConf")
  /\ conf' = Empty
  /\ UNCHANGED <<up, crashes, tmp, linked, secret, body, room, bridge, host, past>>

WriteConf(e) ==
  /\ Goto(e, "writeConf", "readExport")
  /\ conf' = e
  /\ UNCHANGED <<up, crashes, tmp, linked, secret, body, room, bridge, host, past>>

Generate(e) ==
  \/ OpenExport(e) \/ WriteExport(e) \/ OpenSecret(e) \/ WriteSecret(e)
  \/ OpenConf(e) \/ WriteConf(e)
  \/ (\A f \in Exports : f < e => pc[f] # "idle") /\ OpenFails(e, "idle", "refused")
  \/ OpenFails(e, "openSecret", "noKey") \/ OpenFails(e, "openConf", "noConf")

-----------------------------------------------------------------------------
(* The rest of the handler.                                                *)

ReadExport(e) ==
  /\ IF tmp = NoFile
     THEN Goto(e, "readExport", "gone") /\ UNCHANGED body
     ELSE /\ Goto(e, "readExport", "removeExport")
          /\ body' = [body EXCEPT ![e] = tmp]
  /\ UNCHANGED <<up, crashes, files, room, bridge, host, past>>

\* Wrong on purpose: the file is left to the next export.
RemoveExportNot(e) ==
  /\ Goto(e, "removeExport", "checkBridge")
  /\ UNCHANGED <<up, crashes, files, body, room, bridge, host, past>>

RemoveExport(e) ==
  /\ Goto(e, "removeExport", "checkBridge")
  /\ tmp' = NoFile /\ linked' = {}
  /\ UNCHANGED <<up, crashes, secret, conf, body, room, bridge, host, past>>

CheckBridge(e) ==
  /\ Goto(e, "checkBridge", IF bridge = None THEN "loadConf" ELSE "resetBridge")
  /\ UNCHANGED <<up, crashes, files, body, room, bridge, host, past>>

\* The process ends, and every thread in it; the files stay.
Die ==
  /\ crashes < MaxCrashes
  /\ up' = FALSE /\ crashes' = crashes + 1
  /\ pc' = [e \in Exports |-> IF pc[e] \in Working THEN "lost" ELSE pc[e]]
  /\ linked' = {} /\ bridge' = None /\ host' = [t \in Threads |-> "none"]
  /\ UNCHANGED <<tmp, secret, conf, body, room, past>>

\* The bridge is destroyed, and the threads that run on it do not know.
Orphaned == [t \in Threads |-> IF host[t] = "bound" THEN "stale" ELSE host[t]]

\* g_relay->stop() and g_relay.reset(): another export may have been faster.
ResetBridge(e) ==
  IF bridge = None
  THEN up /\ pc[e] = "resetBridge" /\ Die
  ELSE /\ Goto(e, "resetBridge", "loadConf")
       /\ bridge' = None /\ host' = Orphaned
       /\ UNCHANGED <<up, crashes, files, body, room, past>>

\* Wrong on purpose: what the files hold is not looked at.
ConfiguredUnchecked == conf # NoFile /\ secret # NoFile

\* load_relay_config finds a room in relay.conf and a key in the other file.
Configured == conf \in Exports /\ secret \in Exports

LoadConf(e) ==
  /\ Goto(e, "loadConf", IF Configured THEN "newBridge" ELSE "respond")
  /\ room' = [room EXCEPT ![e] = IF Configured THEN conf ELSE None]
  /\ UNCHANGED <<up, crashes, files, body, bridge, host, past>>

\* make_unique: the new bridge may lie where a destroyed one lay, and the
\* thread of that one then runs on the new one.
NewBridge(e) ==
  /\ Goto(e, "newBridge", "startBridge")
  /\ bridge' = room[e]
  /\ \E reused \in SUBSET {t \in Threads : host[t] = "stale"} :
       /\ Cardinality(reused) <= 1
       /\ host' = [t \in Threads |-> IF t \in reused THEN "bound" ELSE Orphaned[t]]
  /\ UNCHANGED <<up, crashes, files, body, room, past>>

\* Wrong on purpose: the new bridge is not started.
StartBridgeNot(e) ==
  /\ Goto(e, "startBridge", "respond")
  /\ UNCHANGED <<up, crashes, files, body, room, bridge, host, past>>

StartBridge(e) ==
  IF bridge = None
  THEN up /\ pc[e] = "startBridge" /\ Die
  ELSE /\ Goto(e, "startBridge", "respond")
       /\ host' = [host EXCEPT ![e] = "bound"]
       /\ UNCHANGED <<up, crashes, files, body, room, bridge, past>>

Respond(e) ==
  /\ Goto(e, "respond", "done")
  /\ UNCHANGED <<up, crashes, files, body, room, bridge, host, past>>

Export(e) ==
  \/ Generate(e) \/ ReadExport(e) \/ RemoveExport(e) \/ CheckBridge(e)
  \/ ResetBridge(e) \/ LoadConf(e) \/ NewBridge(e) \/ StartBridge(e) \/ Respond(e)

-----------------------------------------------------------------------------
(* The process.                                                            *)

\* A bridge thread finds running_ cleared; what else it may find in the
\* destroyed bridge is in NewBridge and Crash.
HostEnds(t) ==
  /\ up /\ host[t] = "stale"
  /\ host' = [host EXCEPT ![t] = "none"]
  /\ UNCHANGED <<up, crashes, pc, files, body, room, bridge, past>>

Crash == up /\ Die

\* main: the bridge is started before the first connection is accepted.
Restart ==
  /\ ~up
  /\ up' = TRUE
  /\ bridge' = IF Configured THEN conf ELSE None
  /\ host' = IF Configured THEN [host EXCEPT ![Main] = "bound"] ELSE host
  /\ UNCHANGED <<crashes, pc, files, body, room, past>>

Next ==
  \/ \E e \in Exports : Export(e)
  \/ \E t \in Threads : HostEnds(t)
  \/ Crash \/ Restart

Spec == Init /\ [][Next]_vars

-----------------------------------------------------------------------------
(* Properties.                                                             *)

\* The pairing a wallet was given last is the one that is kept, whole: the
\* answer is the export's own, both files are of it and a bridge runs for its
\* room, across crashes and failed exports, until a later export has opened
\* relay_secret.key.  From there on nothing is kept: an export that fails at
\* relay.conf leaves its key beside the earlier room (src/main.cpp:246), and
\* one that the process ends in leaves whatever it had written
\* (src/src/relay_client.hpp:113).  It is about exports that had the handler to
\* themselves.
PairingKept ==
  \A e \in Exports :
    /\ pc[e] = "done" /\ e \notin overlap
    /\ \A f \in opened : f <= e
    => /\ body[e] = e /\ secret = e /\ conf = e
       /\ up => bridge = e /\ \E t \in Threads : host[t] = "bound"

\* An export that was answered from the pairing file, or found none, and is
\* followed by none that could open it, leaves no pairing file on disk,
\* however many were at it before: neither one that it outlived nor one that
\* was left by an export answered 500 after the file was written
\* (src/main.cpp:246) or by a crash.  Such a file, with room and public key,
\* stays until the next export removes it.
NoLeftover ==
  \A e \in Exports :
    /\ pc[e] \in {"done", "gone"}
    /\ \A f \in Exports : f > e => pc[f] \in {"idle", "refused"}
    => tmp = NoFile

\* Every export answers with the pairing it has generated.
OwnPairing == \A e \in Exports : pc[e] = "done" => body[e] = e

\* A bridge that is replaced is gone: one thread runs on the bridge, at least
\* where exports come one after the other.
OneHost ==
  overlap = {} => Cardinality({t \in Threads : host[t] = "bound"}) <= 1

=============================================================================
