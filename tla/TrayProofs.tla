----------------------------- MODULE TrayProofs -----------------------------
(***************************************************************************)
(* Proofs about Tray: for any number of processes, health checks and        *)
(* events, the application only ever signals and reaps a child of its own,  *)
(* and loses sight of a live server only when a start is let loose on it.   *)
(***************************************************************************)
EXTENDS Tray, TLAPS

\* A start is put off by a click, which is an event.
DelayedBounded == delayed <= events

IInv == TypeOK /\ DelayedBounded /\ PidIsOurs /\ NoServerLost

\* The invariant holds before the application is first started.
LEMMA InitIInv == Init => IInv
<1> SUFFICES ASSUME Init PROVE IInv
  OBVIOUS
<1>1. FlagsOK
  BY DEF Init, FlagsOK
<1>2. ProcessesOK
  BY TrayAssumption DEF Init, ProcessesOK
<1>3. DelayedBounded /\ PidIsOurs /\ NoServerLost
  BY TrayAssumption DEF Init, DelayedBounded, PidIsOurs, NoServerLost
<1> QED
  BY <1>1, <1>2, <1>3 DEF IInv, TypeOK

\* Every step keeps the invariant.
LEMMA NextIInv == IInv /\ [Next]_vars => IInv'
<1> SUFFICES ASSUME IInv, [Next]_vars PROVE IInv'
  OBVIOUS
<1> USE TrayAssumption DEF IInv, TypeOK
<1>1. CASE UNCHANGED vars
  BY <1>1 DEF vars, children, queue, FlagsOK, ProcessesOK, DelayedBounded, PidIsOurs, NoServerLost
<1>2. CASE Launch
  <2>1. FlagsOK'
    BY <1>2 DEF Launch, StartServer, Event, FlagsOK
  <2>2. ProcessesOK'
    BY <1>2 DEF Launch, StartServer, Event, ProcessesOK, DelayedBounded
  <2>3. DelayedBounded'
    BY <1>2 DEF Launch, StartServer, Event, ProcessesOK, DelayedBounded
  <2>4. PidIsOurs'
    BY <1>2 DEF Launch, StartServer, Event, ProcessesOK, PidIsOurs
  <2>5. NoServerLost'
    BY <1>2 DEF Launch, StartServer, Event, ProcessesOK, PidIsOurs, NoServerLost
  <2> QED
    BY <2>1, <2>2, <2>3, <2>4, <2>5
<1>3. CASE ClickStart
  <2>1. FlagsOK'
    BY <1>3 DEF ClickStart, Handler, StartServer, Event, queue, FlagsOK
  <2>2. ProcessesOK'
    BY <1>3 DEF ClickStart, Handler, StartServer, Event, queue, ProcessesOK, DelayedBounded
  <2>3. DelayedBounded'
    BY <1>3 DEF ClickStart, Handler, StartServer, Event, queue, ProcessesOK, DelayedBounded
  <2>4. PidIsOurs'
    BY <1>3 DEF ClickStart, Handler, StartServer, Event, queue, ProcessesOK, PidIsOurs
  <2>5. NoServerLost'
    BY <1>3 DEF ClickStart, Handler, StartServer, Event, queue, ProcessesOK, PidIsOurs, NoServerLost
  <2> QED
    BY <2>1, <2>2, <2>3, <2>4, <2>5
<1>4. CASE ClickRestart
  <2>1. FlagsOK'
    BY <1>4 DEF ClickRestart, Handler, StopServer, Event, FlagsOK
  <2>2. ProcessesOK'
    BY <1>4 DEF ClickRestart, Handler, StopServer, Event, ProcessesOK, DelayedBounded
  <2>3. DelayedBounded'
    BY <1>4 DEF ClickRestart, Handler, StopServer, Event, ProcessesOK, DelayedBounded
  <2>4. PidIsOurs'
    BY <1>4 DEF ClickRestart, Handler, StopServer, Event, ProcessesOK, PidIsOurs
  <2>5. NoServerLost'
    BY <1>4 DEF ClickRestart, Handler, StopServer, Event, ProcessesOK, PidIsOurs, NoServerLost
  <2> QED
    BY <2>1, <2>2, <2>3, <2>4, <2>5
<1>5. CASE DelayedStart
  <2>1. FlagsOK'
    BY <1>5 DEF DelayedStart, Handler, StartServer, FlagsOK
  <2>2. ProcessesOK'
    BY <1>5 DEF DelayedStart, Handler, StartServer, ProcessesOK, DelayedBounded
  <2>3. DelayedBounded'
    BY <1>5 DEF DelayedStart, Handler, StartServer, ProcessesOK, DelayedBounded
  <2>4. PidIsOurs'
    BY <1>5 DEF DelayedStart, Handler, StartServer, ProcessesOK, PidIsOurs
  <2>5. NoServerLost'
    BY <1>5 DEF DelayedStart, Handler, StartServer, ProcessesOK, PidIsOurs, NoServerLost
  <2> QED
    BY <2>1, <2>2, <2>3, <2>4, <2>5
<1>6. CASE ClickUpdate
  BY <1>6 DEF ClickUpdate, Handler, Event, children, FlagsOK, ProcessesOK, DelayedBounded, PidIsOurs, NoServerLost
<1>7. CASE VersionFound \/ VersionUnknown
  BY <1>7 DEF VersionFound, VersionUnknown, Handler, children, FlagsOK, ProcessesOK, DelayedBounded, PidIsOurs, NoServerLost
<1>8. CASE Quit
  <2>1. FlagsOK'
    BY <1>8 DEF Quit, End, Event, FlagsOK
  <2>2. ProcessesOK'
    BY <1>8 DEF Quit, End, Event, ProcessesOK, DelayedBounded
  <2>3. DelayedBounded'
    BY <1>8 DEF Quit, End, Event, ProcessesOK, DelayedBounded
  <2>4. PidIsOurs'
    BY <1>8 DEF Quit, End, Event, ProcessesOK, PidIsOurs
  <2>5. NoServerLost'
    BY <1>8 DEF Quit, End, Event, ProcessesOK, PidIsOurs, NoServerLost
  <2> QED
    BY <2>1, <2>2, <2>3, <2>4, <2>5
<1>9. CASE Killed
  <2>1. FlagsOK'
    BY <1>9 DEF Killed, End, Event, FlagsOK
  <2>2. ProcessesOK'
    BY <1>9 DEF Killed, End, Event, ProcessesOK, DelayedBounded
  <2>3. DelayedBounded'
    BY <1>9 DEF Killed, End, Event, ProcessesOK, DelayedBounded
  <2>4. PidIsOurs'
    BY <1>9 DEF Killed, End, Event, ProcessesOK, PidIsOurs
  <2>5. NoServerLost'
    BY <1>9 DEF Killed, End, Event, ProcessesOK, PidIsOurs, NoServerLost
  <2> QED
    BY <2>1, <2>2, <2>3, <2>4, <2>5
<1>10. CASE Replace
  BY <1>10 DEF Replace, World, Event, FlagsOK, ProcessesOK, DelayedBounded, PidIsOurs, NoServerLost
<1>11. ASSUME NEW c \in Checks, Ask(c) \/ Healthy(c) \/ Refused(c) \/ TimesOut(c)
       PROVE IInv'
  BY <1>11 DEF Ask, Healthy, Refused, TimesOut, Handler, World, Event, children, FlagsOK, ProcessesOK, DelayedBounded, PidIsOurs, NoServerLost
<1>12. ASSUME NEW c \in Checks, Answered(c) PROVE IInv'
  <2>1. FlagsOK'
    BY <1>12 DEF Answered, Gone, Handler, StartServer, children, FlagsOK
  <2>2. ProcessesOK'
    BY <1>12 DEF Answered, Gone, Handler, StartServer, children, ProcessesOK, DelayedBounded
  <2>3. DelayedBounded'
    BY <1>12 DEF Answered, Gone, Handler, StartServer, children, ProcessesOK, DelayedBounded
  <2>4. PidIsOurs'
    BY <1>12 DEF Answered, Gone, Handler, StartServer, children, ProcessesOK, PidIsOurs
  <2>5. NoServerLost'
    BY <1>12 DEF Answered, Gone, Handler, StartServer, children, ProcessesOK, PidIsOurs, NoServerLost
  <2> QED
    BY <2>1, <2>2, <2>3, <2>4, <2>5
<1>13. ASSUME NEW p \in Pids, Bind(p) PROVE IInv'
  BY <1>13 DEF Bind, World, FlagsOK, ProcessesOK, DelayedBounded, PidIsOurs, NoServerLost
<1>14. ASSUME NEW p \in Pids, BindFails(p) \/ Die(p) \/ Crash(p) PROVE IInv'
  <2>1. FlagsOK'
    BY <1>14 DEF BindFails, Die, Crash, Exit, World, Event, FlagsOK
  <2>2. ProcessesOK'
    BY <1>14 DEF BindFails, Die, Crash, Exit, World, Event, ProcessesOK, DelayedBounded
  <2>3. DelayedBounded'
    BY <1>14 DEF BindFails, Die, Crash, Exit, World, Event, ProcessesOK, DelayedBounded
  <2>4. PidIsOurs'
    BY <1>14 DEF BindFails, Die, Crash, Exit, World, Event, ProcessesOK, PidIsOurs
  <2>5. NoServerLost'
    BY <1>14 DEF BindFails, Die, Crash, Exit, World, Event, ProcessesOK, PidIsOurs, NoServerLost
  <2> QED
    BY <2>1, <2>2, <2>3, <2>4, <2>5
<1> QED
  BY <1>1, <1>2, <1>3, <1>4, <1>5, <1>6, <1>7, <1>8, <1>9, <1>10, <1>11, <1>12, <1>13, <1>14 DEF Next

\* The invariant holds of every behaviour.
THEOREM Invariance == Spec => []IInv
BY InitIInv, NextIInv, PTL DEF Spec

\* Every variable keeps its type.
THEOREM TypeCorrect == Spec => []TypeOK
BY Invariance, PTL DEF IInv

\* kill and waitpid only ever reach an unreaped child of the application.
THEOREM SignalsOwnChild == Spec => []PidIsOurs
BY Invariance, PTL DEF IInv

\* A server is lost sight of only by a start let loose on a live one, or with
\* the application.
THEOREM ServerWatched == Spec => []NoServerLost
BY Invariance, PTL DEF IInv
=============================================================================
