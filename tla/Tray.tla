-------------------------------- MODULE Tray --------------------------------
(***************************************************************************)
(* The macOS menu bar application, src/tray/main.m: it starts the server as *)
(* a child process, asks it for /health every five seconds and after a      *)
(* wake, and starts it again when it has died.                              *)
(*                                                                         *)
(* All the application's handlers run one at a time on its main queue; an   *)
(* answer to a health check is put there when it arrives and handled later, *)
(* so it may tell of a server that is no longer the one being watched.      *)
(***************************************************************************)
EXTENDS Naturals, FiniteSets

CONSTANTS Pids,      \* process ids the kernel gives out, again once reaped
          Checks,    \* health checks under way at the same time, at most
          None,      \* no process: serverPID is 0, or nobody has the port
          MaxEvents  \* bound: clicks, crashes, late answers and such, together

ASSUME TrayAssumption == None \notin Pids /\ MaxEvents \in Nat

VARIABLES running,   \* the application runs
          proc,      \* what has become of each process
          ours,      \* the children of the application that runs
          port,      \* the process that listens on 127.0.0.1:19876
          serverPID, \* the child the application watches
          menu,      \* the menu says Running and offers Restart, or Start
          delayed,   \* starts that Restart has put off by half a second
          check,     \* each health check: idle, asked, or its answer in the queue
          lookup,    \* the latest release is being looked up
          offer,     \* the menu offers an update
          canStart,  \* the server's program is there and can be spawned
          events,    \* what is used up of MaxEvents
          lost       \* live servers that the application has lost sight of

children == <<proc, ours, port, serverPID, lost>>
queue == <<delayed, check, lookup, offer>>
vars == <<running, children, menu, queue, canStart, events>>

FlagsOK ==
  /\ running \in BOOLEAN /\ menu \in BOOLEAN /\ canStart \in BOOLEAN
  /\ lookup \in BOOLEAN /\ offer \in BOOLEAN

ProcessesOK ==
  /\ proc \in [Pids -> {"free", "alive", "killed", "zombie"}]
  /\ ours \in SUBSET Pids /\ lost \in SUBSET Pids
  /\ port \in Pids \cup {None} /\ serverPID \in Pids \cup {None}
  /\ delayed \in 0..MaxEvents /\ events \in 0..MaxEvents
  /\ check \in [Checks -> {"idle", "asked", "up", "down"}]

TypeOK == FlagsOK /\ ProcessesOK

\* Nothing runs until the login item or the user starts the application.
Init ==
  /\ running = FALSE /\ menu = FALSE /\ canStart = TRUE
  /\ proc = [p \in Pids |-> "free"]
  /\ ours = {} /\ lost = {} /\ port = None /\ serverPID = None
  /\ delayed = 0 /\ events = 0
  /\ check = [c \in Checks |-> "idle"]
  /\ lookup = FALSE /\ offer = FALSE

Event == events < MaxEvents /\ events' = events + 1

-----------------------------------------------------------------------------
(* startServer and stopServer.                                             *)

\* startServer, with serverPID = pid and the processes as given by then.  The
\* new child is the one watched from now on, whether or not another one still
\* lives.  A start that fails leaves serverPID as it is.
StartServer(pid, procs, kids) ==
  \/ /\ canStart
     /\ \E p \in {q \in Pids : procs[q] = "free"} :
          /\ proc' = [procs EXCEPT ![p] = "alive"]
          /\ ours' = kids \cup {p}
          /\ serverPID' = p
     /\ menu' = TRUE
     /\ lost' = {p \in Pids : p \in lost \/ (p = pid /\ procs[p] = "alive")}
  \/ /\ ~canStart
     /\ proc' = procs /\ ours' = kids /\ serverPID' = pid
     /\ menu' = FALSE
     /\ UNCHANGED lost

\* stopServer: SIGTERM, then one look whether the child has died.  If it has
\* not died yet nobody asks again, and it stays a zombie.
StopServer ==
  /\ \/ serverPID = None /\ UNCHANGED <<proc, ours, port>>
     \/ /\ serverPID # None
        /\ proc' = [proc EXCEPT ![serverPID] = "free"]
        /\ ours' = ours \ {serverPID}
        /\ port' = IF port = serverPID THEN None ELSE port
     \/ /\ serverPID # None /\ proc[serverPID] = "alive"
        /\ proc' = [proc EXCEPT ![serverPID] = "killed"]
        /\ UNCHANGED <<ours, port>>
  /\ serverPID' = None /\ menu' = FALSE

-----------------------------------------------------------------------------
(* The handlers of the main queue.                                         *)

Handler == running /\ running' = running /\ UNCHANGED canStart

\* applicationDidFinishLaunching: rebuildMenu, startServer, fetchLatestVersion.
Launch ==
  /\ ~running /\ running' = TRUE
  /\ Event
  /\ StartServer(None, proc, {})
  /\ lookup' = TRUE
  /\ UNCHANGED <<port, delayed, check, offer, canStart>>

ClickStart ==
  /\ Handler /\ Event /\ ~menu
  /\ StartServer(serverPID, proc, ours)
  /\ UNCHANGED <<port, queue>>

\* restartServer stops the server now and starts one half a second later.
ClickRestart ==
  /\ Handler /\ Event /\ menu
  /\ StopServer
  /\ delayed' = delayed + 1
  /\ UNCHANGED <<lost, check, lookup, offer>>

\* Wrong on purpose: a start comes without a Restart before it.
DelayedStartAgain ==
  /\ Handler /\ delayed' = delayed - 1
  /\ StartServer(serverPID, proc, ours)
  /\ UNCHANGED <<port, check, lookup, offer, events>>

DelayedStart ==
  /\ Handler /\ delayed > 0
  /\ delayed' = delayed - 1
  /\ StartServer(serverPID, proc, ours)
  /\ UNCHANGED <<port, check, lookup, offer, events>>

ClickUpdate ==
  /\ Handler /\ Event /\ offer
  /\ lookup' = TRUE
  /\ UNCHANGED <<children, menu, delayed, check, offer>>

\* fetchLatestVersion's answer: the menu is rebuilt from serverPID, not from
\* what a health check has found.  An error changes nothing.
VersionFound ==
  /\ Handler /\ lookup
  /\ lookup' = FALSE
  /\ offer' \in BOOLEAN
  /\ menu' = (serverPID # None)
  /\ UNCHANGED <<children, delayed, check, events>>

VersionUnknown ==
  /\ Handler /\ lookup
  /\ lookup' = FALSE
  /\ UNCHANGED <<children, menu, delayed, check, offer, events>>

\* The timer, or handleWake: checkHealth asks on a queue of its own.
Ask(c) ==
  /\ Handler /\ check[c] = "idle"
  /\ check' = [check EXCEPT ![c] = "asked"]
  /\ UNCHANGED <<children, menu, delayed, lookup, offer, events>>

\* waitpid does not answer 0 for them: a child that has died, or no child.
Gone == {p \in Pids : proc[p] \in {"zombie", "free"}}

\* Wrong on purpose: serverPID is cleared only by a start that succeeds.
AnsweredKeepsPid(c) ==
  /\ Handler
  /\ check' = [check EXCEPT ![c] = "idle"]
  /\ \/ check[c] = "up" /\ menu' = TRUE /\ UNCHANGED children
     \/ /\ check[c] = "down"
        /\ serverPID \notin Gone
        /\ menu' = FALSE /\ UNCHANGED children
     \/ /\ check[c] = "down"
        /\ serverPID \in Gone
        /\ StartServer(serverPID, [proc EXCEPT ![serverPID] = "free"], ours \ {serverPID})
        /\ UNCHANGED port
  /\ UNCHANGED <<delayed, lookup, offer, events>>

\* Wrong on purpose: nobody asks waitpid whether the server has died.
AnsweredUnasked(c) ==
  /\ Handler
  /\ check' = [check EXCEPT ![c] = "idle"]
  /\ \/ check[c] = "up" /\ menu' = TRUE /\ UNCHANGED children
     \/ /\ check[c] = "down" /\ serverPID = None
        /\ menu' = FALSE /\ UNCHANGED children
     \/ /\ check[c] = "down" /\ serverPID # None
        /\ StartServer(None, proc, ours)
        /\ UNCHANGED port
  /\ UNCHANGED <<delayed, lookup, offer, events>>

\* Wrong on purpose: a server that has died is only shown as stopped.
AnsweredShown(c) ==
  /\ Handler
  /\ check' = [check EXCEPT ![c] = "idle"]
  /\ check[c] \in {"up", "down"} /\ menu' = (check[c] = "up")
  /\ UNCHANGED <<children, delayed, lookup, offer, events>>

\* Wrong on purpose: the menu is rebuilt only when it has something to say.
AnsweredQuietly(c) ==
  /\ Handler
  /\ check' = [check EXCEPT ![c] = "idle"]
  /\ \/ check[c] = "up" /\ UNCHANGED <<children, menu>>
     \/ check[c] = "down" /\ serverPID \notin Gone /\ UNCHANGED <<children, menu>>
     \/ /\ check[c] = "down"
        /\ serverPID \in Gone
        /\ StartServer(None, [proc EXCEPT ![serverPID] = "free"], ours \ {serverPID})
        /\ UNCHANGED port
  /\ UNCHANGED <<delayed, lookup, offer, events>>

\* checkHealth's answer reaches its handler.  Only a child that waitpid finds
\* dead is replaced, and serverPID is cleared before the new start.
Answered(c) ==
  /\ Handler
  /\ check' = [check EXCEPT ![c] = "idle"]
  /\ \/ check[c] = "up" /\ menu' = TRUE /\ UNCHANGED children
     \/ /\ check[c] = "down"
        /\ serverPID \notin Gone
        /\ menu' = FALSE /\ UNCHANGED children
     \/ /\ check[c] = "down"
        /\ serverPID \in Gone
        /\ StartServer(None, [proc EXCEPT ![serverPID] = "free"], ours \ {serverPID})
        /\ UNCHANGED port
  /\ UNCHANGED <<delayed, lookup, offer, events>>

\* When the application ends its children belong to launchd, which reaps those
\* that have died; what was queued is gone with it.
End(procs) ==
  /\ proc' = [p \in Pids |-> IF procs[p] = "zombie" THEN "free" ELSE procs[p]]
  /\ running' = FALSE
  /\ ours' = {}
  /\ delayed' = 0 /\ check' = [c \in Checks |-> "idle"]
  /\ lookup' = FALSE /\ offer' = FALSE
  /\ UNCHANGED canStart

\* quitApp, or a logout: applicationWillTerminate stops the server; a second
\* stopServer finds serverPID cleared.
Quit ==
  /\ running /\ Event
  /\ \/ serverPID = None /\ End(proc) /\ UNCHANGED port
     \/ /\ serverPID # None
        /\ \/ /\ End([proc EXCEPT ![serverPID] = "free"])
              /\ port' = IF port = serverPID THEN None ELSE port
           \/ /\ proc[serverPID] = "alive"
              /\ End([proc EXCEPT ![serverPID] = "killed"])
              /\ UNCHANGED port
  /\ serverPID' = None /\ menu' = FALSE
  /\ UNCHANGED lost

\* The application is killed, or crashes: its server lives on.
Killed ==
  /\ running /\ Event
  /\ End(proc)
  /\ serverPID' = None /\ menu' = FALSE
  /\ lost' = lost \cup {p \in ours : proc[p] = "alive"}
  /\ UNCHANGED port

-----------------------------------------------------------------------------
(* The servers, and what the health checks hear from them.                 *)

World == UNCHANGED <<running, serverPID, menu, delayed, lookup, offer>>

\* main binds the port, or ends at once when another process has it.
Bind(p) ==
  /\ World /\ proc[p] \in {"alive", "killed"} /\ port = None
  /\ port' = p
  /\ UNCHANGED <<proc, ours, lost, check, canStart, events>>

\* Process p ends: a child stays a zombie until waitpid asks for it.
Exit(p) ==
  /\ World
  /\ proc' = [proc EXCEPT ![p] = IF p \in ours THEN "zombie" ELSE "free"]
  /\ port' = IF port = p THEN None ELSE port
  /\ lost' = lost \ {p}
  /\ UNCHANGED <<ours, check, canStart>>

BindFails(p) == proc[p] = "alive" /\ port \notin {p, None} /\ Exit(p) /\ UNCHANGED events
Die(p) == proc[p] = "killed" /\ Exit(p) /\ UNCHANGED events
Crash(p) == proc[p] = "alive" /\ Event /\ Exit(p)

Healthy(c) ==
  /\ World /\ check[c] = "asked" /\ port # None
  /\ check' = [check EXCEPT ![c] = "up"]
  /\ UNCHANGED <<proc, ours, port, lost, canStart, events>>

\* Nobody listens: the connection is refused.
Refused(c) ==
  /\ World /\ check[c] = "asked" /\ port = None
  /\ check' = [check EXCEPT ![c] = "down"]
  /\ UNCHANGED <<proc, ours, port, lost, canStart, events>>

\* A server at work does not answer within two seconds.
TimesOut(c) ==
  /\ World /\ Event /\ check[c] = "asked" /\ port # None
  /\ check' = [check EXCEPT ![c] = "down"]
  /\ UNCHANGED <<proc, ours, port, lost, canStart>>

\* The program is moved away (an update, a cleaned cache) or put back.
Replace ==
  /\ World /\ Event
  /\ canStart' = ~canStart
  /\ UNCHANGED <<proc, ours, port, lost, check>>

Next ==
  \/ Launch \/ ClickStart \/ ClickRestart \/ DelayedStart \/ ClickUpdate
  \/ VersionFound \/ VersionUnknown \/ Quit \/ Killed \/ Replace
  \/ \E c \in Checks : Ask(c) \/ Answered(c) \/ Healthy(c) \/ Refused(c) \/ TimesOut(c)
  \/ \E p \in Pids : Bind(p) \/ BindFails(p) \/ Die(p) \/ Crash(p)

Spec == Init /\ [][Next]_vars

\* The kernel runs the processes and closes their sockets, every check is
\* answered or times out, the main queue is served in turn and the timer fires.
Fairness ==
  /\ WF_vars(DelayedStart) /\ WF_vars(VersionFound \/ VersionUnknown)
  /\ \A c \in Checks : /\ WF_vars(Ask(c)) /\ WF_vars(Answered(c))
                       /\ WF_vars(Healthy(c) \/ Refused(c))
  /\ \A p \in Pids : WF_vars(Bind(p) \/ BindFails(p)) /\ WF_vars(Die(p))

LiveSpec == Spec /\ Fairness

-----------------------------------------------------------------------------
(* Properties.                                                             *)

\* kill and waitpid only ever reach a child of this application that has not
\* been stopped or reaped before: with a pid that is out of date, stopServer
\* would send SIGTERM to whatever process has the number now.
PidIsOurs ==
  serverPID # None => /\ running
                      /\ serverPID \in ours
                      /\ proc[serverPID] \in {"alive", "zombie"}

\* A server that lives is the watched one, unless Start or a delayed start was
\* let loose while one lived, or the application was killed.  So a health check
\* that fails because the server is busy never leaves a second server behind,
\* and Quit leaves none.
NoServerLost ==
  \A p \in Pids : proc[p] = "alive" => p = serverPID \/ p \in lost

\* A watched server that has died is replaced, unless the start fails (after
\* which the menu says Stopped and nobody tries again) or the user quits.
DeadServerReplaced ==
  (running /\ serverPID # None /\ proc[serverPID] = "zombie" /\ port = None)
    ~> (port # None \/ ~running \/ (serverPID = None /\ ~menu))

\* Once nothing happens any more the menu tells the truth about the port.
MenuSettles == <>[](running => (menu <=> port # None))
=============================================================================
