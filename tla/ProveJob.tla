------------------------------ MODULE ProveJob ------------------------------
(***************************************************************************)
(* What the proving service promises its clients, with no threads, frames   *)
(* or mutex: a connection is opened, its request is read, it is answered    *)
(* once, and it is closed; one connection at a time has the prover, and     *)
(* gives it back before it closes; a connection is closed unanswered only   *)
(* if its client left or its request was never read.  The process may stop  *)
(* at any time, and then nothing happens any more.                          *)
(***************************************************************************)
CONSTANTS Conns, None

VARIABLES up,      \* the service runs
          prover,  \* the connection that has the prover, or None
          asked,   \* connections whose request was read
          gone,    \* connections whose client left
          phase    \* how far each connection is

vars == <<up, prover, asked, gone, phase>>

Init ==
  /\ up = TRUE
  /\ prover = None
  /\ asked = {}
  /\ gone = {}
  /\ phase = [c \in Conns |-> "idle"]

Open(c) ==
  /\ up /\ phase[c] = "idle"
  /\ phase' = [phase EXCEPT ![c] = "open"]
  /\ UNCHANGED <<up, prover, asked, gone>>

Ask(c) ==
  /\ up /\ phase[c] = "open" /\ c \notin asked
  /\ asked' = asked \cup {c}
  /\ UNCHANGED <<up, prover, gone, phase>>

Leave(c) ==
  /\ up /\ phase[c] # "idle"
  /\ gone' = gone \cup {c}
  /\ UNCHANGED <<up, prover, asked, phase>>

Enter(c) ==
  /\ up /\ phase[c] = "open" /\ c \in asked
  /\ prover = None
  /\ prover' = c
  /\ UNCHANGED <<up, asked, gone, phase>>

Exit(c) ==
  /\ up /\ prover = c
  /\ prover' = None
  /\ UNCHANGED <<up, asked, gone, phase>>

Answer(c) ==
  /\ up /\ phase[c] = "open" /\ c \in asked \ gone
  /\ phase' = [phase EXCEPT ![c] = "answered"]
  /\ UNCHANGED <<up, prover, asked, gone>>

Close(c) ==
  /\ up /\ phase[c] \in {"open", "answered"}
  /\ prover # c
  /\ phase[c] = "answered" \/ c \in gone \/ c \notin asked
  /\ phase' = [phase EXCEPT ![c] = "closed"]
  /\ UNCHANGED <<up, prover, asked, gone>>

\* Also on reading a request.
Crash(c) ==
  /\ up /\ phase[c] \in {"open", "answered"}
  /\ up' = FALSE
  /\ asked' \in {asked, asked \cup {c}}
  /\ UNCHANGED <<prover, gone, phase>>

Next == \E c \in Conns : Open(c) \/ Ask(c) \/ Leave(c) \/ Enter(c) \/ Exit(c)
                           \/ Answer(c) \/ Close(c) \/ Crash(c)

Spec == Init /\ [][Next]_vars
=============================================================================
