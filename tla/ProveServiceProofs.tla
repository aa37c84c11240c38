------------------------- MODULE ProveServiceProofs -------------------------
(***************************************************************************)
(* Proofs about ProveService, for any number of connections and any bounds. *)
(*                                                                         *)
(* The invariant Inv is TypeOK, the discipline of the mutex and the shape   *)
(* of the streams, strengthened by what each thread has still to run.       *)
(* StepCases sorts the actions: most only move a thread to its next         *)
(* decision point (Jump), and what such a move owes the invariant is shown  *)
(* once per action, in ThreadsJump, where the code each thread goes on to   *)
(* run is spelled out.                                                      *)
(***************************************************************************)
EXTENDS ProveService, TLAPS

Neutral == {"switch", "status", "head", "progress"}
Early == {"idle", "backlog", "header", "body", "wsRead"}

\* Straight-line code ends the request at most once, then only closes, and
\* releases the mutex at most once.
Tidy(s) ==
  \A i, j \in 1..Len(s) : i < j =>
    /\ s[i] \in Finals => s[j] \in {"close", "unlock"}
    /\ s[i] = "close" => s[j] = "unlock"
    /\ s[i] = "unlock" => s[j] # "unlock"

Fresh(c) ==
  /\ pc[c] = "idle" => peer[c] = "none"
  /\ pc[c] \in {"idle", "done"} => todo[c] = <<>>

Shape(c) ==
  /\ Tidy(todo[c])
  /\ pc[c] # "closing" => ~Has(todo[c], Items \ Neutral)
  /\ Answered(c) \/ Has(got[c], {"close"}) => pc[c] \in {"closing", "done"}
  /\ Answered(c) => ~Has(todo[c], Items \ {"close", "unlock"})
  /\ Has(got[c], {"close"}) => ~Has(todo[c], Items \ {"unlock"})

Told(c) ==
  /\ alive /\ pc[c] \in Early => c \notin asked
  /\ alive /\ pc[c] \notin Early \cup {"closing", "done"} => c \in asked
  /\ pc[c] \in {"closing", "done"} /\ c \in asked /\ ~Gone(c)
       => Answered(c) \/ Has(todo[c], Finals)
  /\ Has(todo[c], Finals) /\ ~Gone(c) => c \in asked

AllFresh == \A c \in Conns : Fresh(c)
AllShape == \A c \in Conns : Shape(c)
AllTold == \A c \in Conns : Told(c)

Inv ==
  /\ TypeOK
  /\ LockHeldExactlyInside
  /\ OneFinalFrame
  /\ AllFresh
  /\ AllShape
  /\ AllTold

\* What a client can send that makes the process end.
Fatal == {"mistyped", "zktls", "hugePing", "wrapping"}

\* The process runs, and no thread is where an exception would end it.
Steady ==
  /\ alive
  /\ \A c \in Conns : req[c] \in Requests /\ pc[c] \notin {"recording", "recorded"}

\* The thread of c moves to decision point p, with s to run before.
JumpTo(c, s, p) ==
  /\ s \in Seq(Items) /\ p \in Pcs \ {"idle", "done"}
  /\ alive
  /\ pc[c] \notin {"idle", "closing", "done"}
  /\ Continue(c, s, p)
  /\ UNCHANGED <<alive, lock, peer, req, sent, got>>
  /\ asked' \in {asked, asked \cup {c}}
  /\ Tidy(s)
  /\ p # "closing" => ~Has(s, Items \ Neutral)
  /\ InProver(c) <=> p \in LockedPcs \/ Has(s, {"unlock"})
  /\ p \in Early => asked' = asked /\ c \notin asked
  /\ p \notin Early \cup {"closing"} => c \in asked'
  /\ p = "closing" /\ c \in asked' /\ ~Gone(c) => Has(s, Finals)
  /\ p = "closing" /\ Has(s, Finals) /\ ~Gone(c) => c \in asked'

Jump(c) == \E s \in Seq(Items), p \in Pcs : JumpTo(c, s, p)

\* The actions that only decide what the thread runs next.
Decides(c) ==
  \/ Accept(c) \/ AnswerSimple(c) \/ StartBareBenchmark(c) \/ ReadHeader(c)
  \/ ReadBody(c) \/ RefuseMessage(c) \/ BadJson(c) \/ ReadJob(c)
  \/ Record(c) \/ Recorded(c) \/ InitFails(c) \/ Standalone(c) \/ Operate(c)
  \/ Operated(c) \/ Throw(c) \/ Decrypt(c) \/ BenchKeygen(c) \/ Benched(c)
  \/ BenchThrow(c)

\* The process ends in the thread of c, or for want of one for it.
Die(c) ==
  /\ alive /\ alive' = FALSE
  /\ pc[c] \in {"backlog", "wsRead", "recorded"} \cup LockedPcs
  /\ asked' \in {asked, asked \cup {c}}
  /\ UNCHANGED <<lock, pc, todo, peer, req, sent, got>>

Quiet(c) == ClientSend(c) \/ ClientStall(c) \/ ClientResume(c)

-----------------------------------------------------------------------------
(* Sequences.                                                              *)

\* Head and Tail by index.
LEMMA TailFacts ==
  ASSUME NEW S, NEW s \in Seq(S), s # <<>>
  PROVE  /\ Head(s) \in S
         /\ Head(s) = s[1]
         /\ Tail(s) \in Seq(S)
         /\ Len(s) \in Nat \ {0}
         /\ Len(Tail(s)) = Len(s) - 1
         /\ \A i \in 1..Len(s) - 1 : Tail(s)[i] = s[i + 1]
OBVIOUS

\* Something of F is in s, in front or behind.
LEMMA TailHas ==
  ASSUME NEW S, NEW s \in Seq(S), s # <<>>, NEW F
  PROVE  Has(s, F) <=> Head(s) \in F \/ Has(Tail(s), F)
<1>1. ASSUME Has(s, F), Head(s) \notin F
      PROVE  Has(Tail(s), F)
  <2>1. PICK i \in 1..Len(s) : s[i] \in F
    BY <1>1 DEF Has
  <2>2. i - 1 \in 1..Len(Tail(s)) /\ Tail(s)[i - 1] = s[i]
    BY <1>1, <2>1, TailFacts
  <2>. QED
    BY <2>1, <2>2 DEF Has
<1>2. ASSUME Has(Tail(s), F)
      PROVE  Has(s, F)
  <2>1. PICK i \in 1..Len(Tail(s)) : Tail(s)[i] \in F
    BY <1>2 DEF Has
  <2>2. i + 1 \in 1..Len(s) /\ s[i + 1] \in F
    BY <2>1, TailFacts
  <2>. QED
    BY <2>2 DEF Has
<1>3. ASSUME Head(s) \in F
      PROVE  Has(s, F)
  BY <1>3, TailFacts DEF Has
<1>. QED
  BY <1>1, <1>2, <1>3

\* Something of F is in Append(s, f) if it was in s or is f.
LEMMA AppendHas ==
  ASSUME NEW S, NEW s \in Seq(S), NEW f \in S, NEW F
  PROVE  Has(Append(s, f), F) <=> Has(s, F) \/ f \in F
<1>1. /\ Len(Append(s, f)) = Len(s) + 1
      /\ Append(s, f)[Len(s) + 1] = f
      /\ \A i \in 1..Len(s) : Append(s, f)[i] = s[i]
      /\ Len(s) \in Nat
  OBVIOUS
<1>2. ASSUME Has(Append(s, f), F), f \notin F
      PROVE  Has(s, F)
  <2>1. PICK i \in 1..Len(s) + 1 : Append(s, f)[i] \in F
    BY <1>1, <1>2 DEF Has
  <2>. QED
    BY <1>1, <1>2, <2>1 DEF Has
<1>3. ASSUME Has(s, F)
      PROVE  Has(Append(s, f), F)
  BY <1>1, <1>3 DEF Has
<1>4. ASSUME f \in F
      PROVE  Has(Append(s, f), F)
  BY <1>1, <1>4 DEF Has
<1>. QED
  BY <1>2, <1>3, <1>4

\* The rest of tidy code is tidy, and what its first item excludes is not in
\* it.
LEMMA TidyTail ==
  ASSUME NEW s \in Seq(Items), s # <<>>, Tidy(s)
  PROVE  /\ Tidy(Tail(s))
         /\ Head(s) \in Finals => ~Has(Tail(s), Items \ {"close", "unlock"})
         /\ Head(s) = "close" => ~Has(Tail(s), Items \ {"unlock"})
         /\ Head(s) = "unlock" => ~Has(Tail(s), {"unlock"})
<1>1. \A i \in 1..Len(Tail(s)) :
        i + 1 \in 1..Len(s) /\ 1 < i + 1 /\ Tail(s)[i] = s[i + 1]
  BY TailFacts
<1>2. 1 \in 1..Len(s) /\ Head(s) = s[1]
  BY TailFacts
<1>3. Tidy(Tail(s))
  <2>1. SUFFICES ASSUME NEW i \in 1..Len(Tail(s)), NEW j \in 1..Len(Tail(s)), i < j
                 PROVE  /\ Tail(s)[i] \in Finals => Tail(s)[j] \in {"close", "unlock"}
                        /\ Tail(s)[i] = "close" => Tail(s)[j] = "unlock"
                        /\ Tail(s)[i] = "unlock" => Tail(s)[j] # "unlock"
    BY DEF Tidy
  <2>2. i + 1 \in 1..Len(s) /\ j + 1 \in 1..Len(s) /\ i + 1 < j + 1
    BY <1>1, <2>1, TailFacts
  <2>. QED
    BY <1>1, <2>1, <2>2 DEF Tidy
<1>4. Head(s) \in Finals => ~Has(Tail(s), Items \ {"close", "unlock"})
  BY <1>1, <1>2 DEF Has, Tidy
<1>5. Head(s) = "close" => ~Has(Tail(s), Items \ {"unlock"})
  BY <1>1, <1>2 DEF Has, Tidy
<1>6. Head(s) = "unlock" => ~Has(Tail(s), {"unlock"})
  BY <1>1, <1>2 DEF Has, Tidy
<1>. QED
  BY <1>3, <1>4, <1>5, <1>6

-----------------------------------------------------------------------------
(* Typing.                                                                 *)

\* Statuses and progress lines are frames that neither answer nor unlock.
LEMMA Announcements ==
  ASSUME NEW n \in Nat
  PROVE  /\ Statuses(n) \in Seq(Items) /\ Progresses(n) \in Seq(Items)
         /\ Tidy(Statuses(n)) /\ Tidy(Progresses(n))
         /\ ~Has(Statuses(n), Items \ Neutral) /\ ~Has(Progresses(n), Items \ Neutral)
         /\ ~Has(Statuses(n), {"unlock"}) /\ ~Has(Progresses(n), {"unlock"})
BY DEF Statuses, Progresses, Items, Frames, Tidy, Has, Neutral, Finals

\* What a thread may have to run on its way to another decision point.
LEMMA Announcement ==
  ASSUME NEW f \in Neutral
  PROVE  /\ <<>> \in Seq(Items) /\ <<f>> \in Seq(Items)
         /\ Tidy(<<>>) /\ Tidy(<<f>>)
         /\ ~Has(<<>>, Items \ Neutral) /\ ~Has(<<f>>, Items \ Neutral)
         /\ ~Has(<<>>, {"unlock"}) /\ ~Has(<<f>>, {"unlock"})
         /\ ~Has(<<>>, Finals)
BY DEF Items, Frames, Tidy, Has, Neutral, Finals

\* The ways to answer outside the mutex.
LEMMA Answers ==
  /\ LET s == <<"response">> IN
       s \in Seq(Items) /\ Tidy(s) /\ Has(s, Finals) /\ ~Has(s, {"unlock"})
  /\ LET s == <<"error", "close">> IN
       s \in Seq(Items) /\ Tidy(s) /\ Has(s, Finals) /\ ~Has(s, {"unlock"})
  /\ LET s == <<"status", "result", "close">> IN
       s \in Seq(Items) /\ Tidy(s) /\ Has(s, Finals) /\ ~Has(s, {"unlock"})
BY DEF Items, Frames, Tidy, Has, Finals

\* The ways to answer a job that has the mutex.
LEMMA LockedAnswers ==
  ASSUME NEW s,
         s \in {<<"error", "close", "unlock">>, <<"unlock", "error", "close">>,
                <<"result", "close", "unlock">>, <<"result", "unlock", "close">>,
                <<"response", "unlock">>, <<"unlock", "response">>,
                <<"progress", "end", "unlock">>, <<"summary", "unlock", "end">>,
                <<"unlock", "summary", "end">>}
  PROVE  s \in Seq(Items) /\ Tidy(s) /\ Has(s, Finals) /\ Has(s, {"unlock"})
<1>. USE DEF Items, Frames, Tidy, Has, Finals
<1>1. CASE s = <<"error", "close", "unlock">>
  BY <1>1
<1>2. CASE s = <<"unlock", "error", "close">>
  BY <1>2
<1>3. CASE s = <<"result", "close", "unlock">>
  BY <1>3
<1>4. CASE s = <<"result", "unlock", "close">>
  BY <1>4
<1>5. CASE s = <<"response", "unlock">>
  BY <1>5
<1>6. CASE s = <<"unlock", "response">>
  BY <1>6
<1>7. CASE s = <<"progress", "end", "unlock">>
  BY <1>7
<1>8. CASE s = <<"summary", "unlock", "end">>
  BY <1>8
<1>9. CASE s = <<"unlock", "summary", "end">>
  BY <1>9
<1>. QED
  BY <1>1, <1>2, <1>3, <1>4, <1>5, <1>6, <1>7, <1>8, <1>9

-----------------------------------------------------------------------------
(* The steps.                                                              *)

\* The actions of a thread that only decide what to run next.
LEMMA ThreadsJump ==
  ASSUME TypeOK, AllTold, NEW c \in Conns,
         Decides(c)
  PROVE  Jump(c)
<1>0. ASSUME NEW s, NEW p, JumpTo(c, s, p)
      PROVE  Jump(c)
  BY <1>0 DEF Jump, JumpTo
<1>t. Told(c)
  BY DEF AllTold
<1>e. /\ <<>> \in Seq(Items) /\ Tidy(<<>>) /\ ~Has(<<>>, Items \ Neutral)
      /\ ~Has(<<>>, {"unlock"}) /\ ~Has(<<>>, Finals)
      /\ \A f \in Neutral : /\ <<f>> \in Seq(Items) /\ Tidy(<<f>>)
                            /\ ~Has(<<f>>, Items \ Neutral) /\ ~Has(<<f>>, {"unlock"})
  BY Announcement DEF Neutral
<1>n. /\ "switch" \in Neutral /\ "status" \in Neutral /\ "head" \in Neutral
      /\ "progress" \in Neutral
  BY DEF Neutral
<1>. USE DEF InProver, LockedPcs, Early, Pcs, JumpTo
<1>1. CASE Accept(c)
  BY <1>0, <1>1, <1>t, <1>e DEF Accept, At, Told
<1>2. CASE AnswerSimple(c) \/ StartBareBenchmark(c) \/ ReadHeader(c)
  <2>1. /\ c \notin asked /\ alive /\ pc[c] = "header"
        /\ sent[c] > 0 \/ Gone(c)
        /\ UNCHANGED <<alive, lock, peer, req, sent, got>>
    BY <1>2, <1>t DEF AnswerSimple, StartBareBenchmark, ReadHeader, At, Told
  <2>2. CASE AnswerSimple(c)
    <3>1. Return(c, <<"response">>) /\ asked' = asked \cup {c}
      BY <2>2 DEF AnswerSimple
    <3>. QED
      BY <1>0, <2>1, <3>1, Answers DEF Return
  <2>3. CASE StartBareBenchmark(c)
    <3>1. Continue(c, <<"head">>, "waitLock") /\ asked' = asked \cup {c}
      BY <2>3 DEF StartBareBenchmark
    <3>. QED
      BY <1>0, <1>e, <1>n, <2>1, <3>1
  <2>4. CASE ReadHeader(c)
    <3>1. UNCHANGED asked
      BY <2>4 DEF ReadHeader
    <3>2. ASSUME Return(c, <<>>)
          PROVE  Jump(c)
      BY <1>0, <1>e, <2>1, <3>1, <3>2 DEF Return
    <3>3. ASSUME Continue(c, <<>>, "body")
          PROVE  Jump(c)
      BY <1>0, <1>e, <2>1, <3>1, <3>3
    <3>4. ASSUME Continue(c, <<"switch">>, "wsRead")
          PROVE  Jump(c)
      BY <1>0, <1>e, <1>n, <2>1, <3>1, <3>4
    <3>5. ASSUME Return(c, <<"response">>), sent[c] = 0
          PROVE  Jump(c)
      <4> DEFINE s == <<"response">>
      <4>1. s \in Seq(Items) /\ Tidy(s) /\ Has(s, Finals) /\ ~Has(s, {"unlock"})
        BY Answers
      <4>2. Gone(c) /\ Continue(c, s, "closing")
        BY <2>1, <3>5 DEF Return
      <4> HIDE DEF s
      <4>3. JumpTo(c, s, "closing")
        BY <2>1, <3>1, <4>1, <4>2
      <4>. QED
        BY <1>0, <4>3
    <3>. QED
      BY <2>4, <3>2, <3>3, <3>4, <3>5 DEF ReadHeader
  <2>. QED
    BY <1>2, <2>2, <2>3, <2>4
<1>3. CASE ReadBody(c)
  <2>1. /\ alive /\ pc[c] = "body" /\ asked' = asked \cup {c}
        /\ UNCHANGED <<alive, lock, peer, req, sent, got>>
    BY <1>3 DEF ReadBody, At
  <2>2. ASSUME Return(c, <<"response">>)
        PROVE  Jump(c)
    BY <1>0, <2>1, <2>2, Answers DEF Return
  <2>3. ASSUME Continue(c, <<>>, "waitLock")
        PROVE  Jump(c)
    BY <1>0, <1>e, <2>1, <2>3
  <2>4. ASSUME Continue(c, <<"head">>, "waitLock")
        PROVE  Jump(c)
    BY <1>0, <1>e, <1>n, <2>1, <2>4
  <2>. QED
    BY <1>3, <2>2, <2>3, <2>4 DEF ReadBody
<1>4. CASE RefuseMessage(c) \/ BadJson(c) \/ ReadJob(c)
  <2>1. /\ alive /\ pc[c] = "wsRead" /\ c \notin asked
        /\ UNCHANGED <<alive, lock, peer, req, sent, got>>
    BY <1>4, <1>t DEF RefuseMessage, BadJson, ReadJob, At, Told
  <2>2. CASE RefuseMessage(c)
    <3>1. Return(c, <<>>) /\ UNCHANGED asked
      BY <2>2 DEF RefuseMessage
    <3>. QED
      BY <1>0, <1>e, <2>1, <3>1 DEF Return
  <2>3. ASSUME Return(c, <<"error", "close">>), asked' = asked \cup {c}
        PROVE  Jump(c)
    BY <1>0, <2>1, <2>3, Answers DEF Return
  <2>4. ASSUME Continue(c, <<"status">>, "recording"), asked' = asked \cup {c}
        PROVE  Jump(c)
    BY <1>0, <1>e, <1>n, <2>1, <2>4
  <2>5. ASSUME Continue(c, <<>>, "waitLock"), asked' = asked \cup {c}
        PROVE  Jump(c)
    BY <1>0, <1>e, <2>1, <2>5
  <2>. QED
    BY <1>4, <2>2, <2>3, <2>4, <2>5 DEF BadJson, ReadJob
<1>5. CASE Record(c)
  <2>1. /\ alive /\ pc[c] = "recording" /\ c \in asked
        /\ UNCHANGED <<alive, lock, peer, req, sent, asked, got>>
    BY <1>5, <1>t DEF Record, At, Told
  <2>2. PICK n \in 0..MaxRecorded : Continue(c, Statuses(n), "recorded")
    BY <1>5 DEF Record
  <2>3. n \in Nat
    BY ServiceAssumption
  <2>. QED
    BY <1>0, <2>1, <2>2, <2>3, Announcements
<1>6. CASE Recorded(c)
  <2>1. /\ alive /\ pc[c] = "recorded" /\ c \in asked
        /\ UNCHANGED <<alive, lock, peer, req, sent, asked, got>>
    BY <1>6, <1>t DEF Recorded, At, Told
  <2>2. \/ Return(c, <<"error", "close">>)
        \/ Return(c, <<"status", "result", "close">>)
    BY <1>6 DEF Recorded
  <2>. QED
    BY <1>0, <2>1, <2>2, Answers DEF Return
<1>7. ASSUME NEW s,
             s \in {<<"error", "close", "unlock">>, <<"unlock", "error", "close">>,
                    <<"result", "close", "unlock">>, <<"result", "unlock", "close">>,
                    <<"response", "unlock">>, <<"unlock", "response">>,
                    <<"progress", "end", "unlock">>, <<"summary", "unlock", "end">>,
                    <<"unlock", "summary", "end">>},
             alive, InProver(c), Return(c, s),
             UNCHANGED <<alive, lock, peer, req, sent, asked, got>>
      PROVE  Jump(c)
  <2>1. s \in Seq(Items) /\ Tidy(s) /\ Has(s, Finals) /\ Has(s, {"unlock"})
    BY <1>7, LockedAnswers
  <2>2. c \in asked
    BY <1>7, <1>t DEF Told
  <2>. QED
    BY <1>0, <1>7, <2>1, <2>2 DEF Return
<1>8. CASE Operate(c)
  <2>1. /\ alive /\ pc[c] = "initKeys" /\ c \in asked
        /\ UNCHANGED <<alive, lock, peer, req, sent, asked, got>>
    BY <1>8, <1>t DEF Operate, At, Told
  <2>2. Continue(c, Statuses(StatusCount[req[c]]), "operate")
    BY <1>8 DEF Operate
  <2>3. StatusCount[req[c]] \in Nat
    BY <1>8 DEF Operate, Staged, StatusCount
  <2>. QED
    BY <1>0, <2>1, <2>2, <2>3, Announcements
<1>9. CASE \/ InitFails(c) \/ Standalone(c) \/ Operated(c) \/ Throw(c)
           \/ Decrypt(c) \/ Benched(c) \/ BenchThrow(c)
  BY <1>7, <1>9 DEF InitFails, Standalone, Operated, Throw, Decrypt, Benched,
                    BenchThrow, At
<1>10. CASE BenchKeygen(c)
  <2>1. /\ alive /\ pc[c] = "benchKeygen" /\ c \in asked
        /\ UNCHANGED <<alive, lock, peer, req, sent, asked, got>>
    BY <1>10, <1>t DEF BenchKeygen, At, Told
  <2>2. ASSUME NEW n \in 1..MaxCount, Continue(c, Progresses(n + 1), "benching")
        PROVE  Jump(c)
    <3>1. n + 1 \in Nat
      BY ServiceAssumption
    <3>. QED
      BY <1>0, <2>1, <2>2, <3>1, Announcements
  <2>. QED
    BY <1>7, <1>10, <2>1, <2>2 DEF BenchKeygen
<1>. QED
  BY <1>1, <1>2, <1>3, <1>4, <1>5, <1>6, <1>8, <1>9, <1>10 DEF Decides

\* The steps that end the process outright.
Ends(c) == \/ Mistyped(c) \/ RecordedMistyped(c) \/ PingTooLong(c)
           \/ LengthWraps(c) \/ ThreadFails(c)

LEMMA ThreadsDie ==
  ASSUME NEW c \in Conns, Ends(c)
  PROVE  Die(c)
BY DEF Ends, Mistyped, RecordedMistyped, PingTooLong, LengthWraps, ThreadFails,
       Proving, Die, At, LockedPcs

\* Every step is one of nine kinds.
LEMMA StepCases ==
  ASSUME TypeOK, AllTold, [Next]_vars
  PROVE  \/ UNCHANGED vars
         \/ \E c \in Conns :
              \/ Connect(c) \/ Quiet(c) \/ ClientLeave(c)
              \/ Jump(c) \/ Die(c)
              \/ Acquire(c) \/ Unlock(c) \/ SendNext(c) \/ Finish(c)
<1>1. ASSUME NEW c \in Conns, Client(c)
      PROVE  Connect(c) \/ Quiet(c) \/ ClientLeave(c)
  BY <1>1 DEF Client, Quiet
<1>2. ASSUME NEW c \in Conns, Thread(c)
      PROVE  Jump(c) \/ Die(c) \/ Acquire(c) \/ Unlock(c) \/ SendNext(c) \/ Finish(c)
  <2>1. ASSUME Ends(c)
        PROVE  Die(c)
    BY <2>1, ThreadsDie
  <2>2. ASSUME Decides(c)
        PROVE  Jump(c)
    BY <2>2, ThreadsJump
  <2>. QED
    BY <1>2, <2>1, <2>2 DEF Thread, Compute, Decides, Ends
<1>. QED
  BY <1>1, <1>2 DEF Next, Stopped

\* Every step keeps the variables in their types.
LEMMA TypedSteps ==
  ASSUME TypeOK, AllTold, [Next]_vars
  PROVE  TypeOK'
<1>. USE DEF TypeOK
<1>1. CASE UNCHANGED vars
  BY <1>1 DEF vars
<1>2. ASSUME NEW c \in Conns, Connect(c) \/ Quiet(c) \/ ClientLeave(c)
      PROVE  TypeOK'
  <2>1. CASE Connect(c)
    BY <2>1 DEF Connect, Pcs
  <2>2. CASE ClientSend(c)
    BY <2>2 DEF ClientSend
  <2>3. CASE ClientStall(c) \/ ClientResume(c) \/ ClientLeave(c)
    BY <2>3 DEF ClientStall, ClientResume, ClientLeave
  <2>. QED
    BY <1>2, <2>1, <2>2, <2>3 DEF Quiet
<1>3. ASSUME NEW c \in Conns, Jump(c)
      PROVE  TypeOK'
  BY <1>3 DEF Jump, JumpTo, Continue
<1>4. ASSUME NEW c \in Conns, Die(c)
      PROVE  TypeOK'
  BY <1>4 DEF Die
<1>5. ASSUME NEW c \in Conns, Acquire(c)
      PROVE  TypeOK'
  <2>1. /\ <<>> \in Seq(Items) /\ <<"status">> \in Seq(Items)
        /\ <<"progress">> \in Seq(Items)
    BY DEF Items, Frames
  <2>2. lock' \in Conns
    BY <1>5 DEF Acquire
  <2>3. pc' \in [Conns -> Pcs]
    BY <1>5 DEF Acquire, Continue, Pcs, LockedPcs
  <2>4. todo' \in [Conns -> Seq(Items)]
    BY <1>5, <2>1 DEF Acquire, Continue
  <2>. QED
    BY <1>5, <2>2, <2>3, <2>4 DEF Acquire
<1>6. ASSUME NEW c \in Conns, Unlock(c)
      PROVE  TypeOK'
  <2>1. Tail(todo[c]) \in Seq(Items)
    BY <1>6, TailFacts DEF Unlock
  <2>. QED
    BY <1>6, <2>1 DEF Unlock
<1>7. ASSUME NEW c \in Conns, SendNext(c)
      PROVE  TypeOK'
  <2>1. todo[c] \in Seq(Items) /\ todo[c] # <<>> /\ Head(todo[c]) # "unlock"
    BY <1>7 DEF SendNext
  <2>2. Head(todo[c]) \in Frames /\ Tail(todo[c]) \in Seq(Items)
    BY <2>1, TailFacts DEF Items
  <2>3. todo' \in [Conns -> Seq(Items)]
    BY <1>7, <2>2 DEF SendNext
  <2>4. Append(got[c], Head(todo[c])) \in Seq(Frames)
    BY <2>2
  <2>5. got' \in [Conns -> Seq(Frames)]
    BY <1>7, <2>4 DEF SendNext, Send
  <2>6. peer' \in [Conns -> {"none", "open", "stalled", "left", "reset"}]
    BY <1>7 DEF SendNext, Send
  <2>7. alive' \in BOOLEAN
    BY <1>7 DEF SendNext, Send
  <2>. QED
    BY <1>7, <2>3, <2>5, <2>6, <2>7 DEF SendNext
<1>8. ASSUME NEW c \in Conns, Finish(c)
      PROVE  TypeOK'
  <2>1. <<>> \in Seq(Items)
    OBVIOUS
  <2>. QED
    BY <1>8, <2>1 DEF Finish, Continue, Pcs
<1>. QED
  BY <1>1, <1>2, <1>3, <1>4, <1>5, <1>6, <1>7, <1>8, StepCases

\* The mutex changes hands only where a thread enters or leaves its lock_guard.
LEMMA LockSteps ==
  ASSUME Inv, [Next]_vars
  PROVE  LockHeldExactlyInside'
<1>. USE DEF LockHeldExactlyInside, TypeOK
<1>0. TypeOK /\ AllTold /\ AllShape /\ LockHeldExactlyInside /\ AllFresh
  BY DEF Inv
<1>1. ASSUME UNCHANGED <<lock, pc, todo>>
      PROVE  LockHeldExactlyInside'
  BY <1>0, <1>1 DEF Critical, InProver
\* A step of the thread of c that leaves the mutex alone.
<1>2. ASSUME NEW c \in Conns, lock' = lock, Critical(c)' <=> Critical(c),
             \A d \in Conns \ {c} : pc'[d] = pc[d] /\ todo'[d] = todo[d]
      PROVE  LockHeldExactlyInside'
  BY <1>0, <1>2 DEF Critical, InProver
<1>3. ASSUME NEW c \in Conns, Connect(c)
      PROVE  LockHeldExactlyInside'
  <2>1. Critical(c)' <=> Critical(c)
    BY <1>0, <1>3 DEF Connect, Critical, InProver, LockedPcs
  <2>. QED
    BY <1>0, <1>2, <1>3, <2>1 DEF Connect
<1>4. ASSUME NEW c \in Conns, Quiet(c) \/ ClientLeave(c) \/ Die(c)
      PROVE  LockHeldExactlyInside'
  BY <1>1, <1>4 DEF Quiet, ClientSend, ClientStall, ClientResume, ClientLeave, Die
<1>5. ASSUME NEW c \in Conns, Jump(c)
      PROVE  LockHeldExactlyInside'
  <2>1. PICK s \in Seq(Items), p \in Pcs : JumpTo(c, s, p)
    BY <1>5 DEF Jump
  <2>2. ~Has(todo[c], {"unlock"})
    <3>1. pc[c] # "closing" /\ ~Has(todo[c], Items \ Neutral)
      BY <1>0, <2>1 DEF JumpTo, AllShape, Shape
    <3>. QED
      BY <3>1 DEF Has, Items, Neutral
  <2>3. Critical(c)' <=> Critical(c)
    BY <1>0, <2>1, <2>2 DEF JumpTo, Continue, Critical, InProver
  <2>. QED
    BY <1>0, <1>2, <2>1, <2>3 DEF JumpTo, Continue
<1>6. ASSUME NEW c \in Conns, Acquire(c)
      PROVE  LockHeldExactlyInside'
  <2>1. lock = None /\ None \notin Conns /\ lock' = c
    BY <1>6, ServiceAssumption DEF Acquire
  <2>2. \A d \in Conns : ~Critical(d)
    BY <1>0, <2>1
  <2>3. pc'[c] \in LockedPcs
    BY <1>0, <1>6 DEF Acquire, Continue, LockedPcs
  <2>4. \A d \in Conns \ {c} : pc'[d] = pc[d] /\ todo'[d] = todo[d]
    BY <1>0, <1>6 DEF Acquire, Continue
  <2>. QED
    BY <2>1, <2>2, <2>3, <2>4 DEF Critical, InProver
<1>7. ASSUME NEW c \in Conns, Unlock(c)
      PROVE  LockHeldExactlyInside'
  <2>1. /\ todo[c] \in Seq(Items) /\ todo[c] # <<>> /\ Head(todo[c]) = "unlock"
        /\ lock' = None /\ pc' = pc /\ todo'[c] = Tail(todo[c])
        /\ \A d \in Conns \ {c} : todo'[d] = todo[d]
    BY <1>0, <1>7 DEF Unlock
  <2>2. Has(todo[c], {"unlock"}) /\ lock = c
    BY <1>0, <2>1, TailHas DEF Critical
  <2>3. pc[c] = "closing"
    <3>1. Has(todo[c], Items \ Neutral)
      BY <2>2 DEF Has, Items, Neutral
    <3>. QED
      BY <1>0, <3>1 DEF AllShape, Shape
  <2>4. ~Has(Tail(todo[c]), {"unlock"})
    BY <1>0, <2>1, TidyTail DEF AllShape, Shape
  <2>5. ~Critical(c)'
    BY <2>1, <2>3, <2>4 DEF Critical, InProver, LockedPcs
  <2>. QED
    BY <1>0, <2>1, <2>2, <2>5, ServiceAssumption DEF Critical, InProver
<1>8. ASSUME NEW c \in Conns, SendNext(c)
      PROVE  LockHeldExactlyInside'
  <2>1. /\ todo[c] \in Seq(Items) /\ todo[c] # <<>> /\ Head(todo[c]) # "unlock"
        /\ lock' = lock /\ pc' = pc /\ todo'[c] = Tail(todo[c])
        /\ \A d \in Conns \ {c} : todo'[d] = todo[d]
    BY <1>0, <1>8 DEF SendNext
  <2>2. Critical(c)' <=> Critical(c)
    BY <2>1, TailHas DEF Critical, InProver
  <2>. QED
    BY <1>2, <2>1, <2>2
<1>9. ASSUME NEW c \in Conns, Finish(c)
      PROVE  LockHeldExactlyInside'
  <2>1. /\ pc[c] = "closing" /\ todo[c] = <<>> /\ todo'[c] = <<>> /\ pc'[c] = "done"
        /\ lock' = lock
    BY <1>0, <1>9 DEF Finish, At, Continue
  <2>2. Critical(c)' <=> Critical(c)
    BY <2>1 DEF Critical, InProver, LockedPcs
  <2>. QED
    BY <1>0, <1>2, <1>9, <2>1, <2>2 DEF Finish, Continue
<1>. QED
  BY <1>0, <1>1, <1>3, <1>4, <1>5, <1>6, <1>7, <1>8, <1>9, StepCases DEF vars

\* A thread that jumps has not ended the client's stream, and had only
\* neutral frames to send.
LEMMA BeforeJump ==
  ASSUME TypeOK, AllShape, NEW c \in Conns, pc[c] \notin {"closing", "done"}
  PROVE  /\ ~Answered(c) /\ ~Has(got[c], {"close"})
         /\ ~Has(todo[c], Items \ Neutral)
         /\ ~Has(todo[c], Finals) /\ ~Has(todo[c], {"unlock"})
<1>1. Shape(c)
  BY DEF AllShape
<1>2. ~Has(todo[c], Items \ Neutral)
  BY <1>1 DEF Shape
<1>. QED
  BY <1>1, <1>2 DEF Shape, Has, Items, Neutral, Frames, Finals

\* What a thread has still to run stays tidy, and stays silent once the client
\* was answered.
LEMMA ShapeSteps ==
  ASSUME Inv, [Next]_vars
  PROVE  AllShape'
<1>0. TypeOK /\ AllTold /\ AllShape /\ AllFresh
  BY DEF Inv
<1>. USE <1>0 DEF TypeOK
<1>1. ASSUME UNCHANGED <<pc, todo, got>>
      PROVE  AllShape'
  BY <1>1 DEF AllShape, Shape, Answered
\* Only the thread of c moves.
<1>2. ASSUME NEW c \in Conns, Shape(c)',
             \A d \in Conns \ {c} :
               pc'[d] = pc[d] /\ todo'[d] = todo[d] /\ got'[d] = got[d]
      PROVE  AllShape'
  BY <1>2 DEF AllShape, Shape, Answered
<1>3. ASSUME NEW c \in Conns, Connect(c)
      PROVE  AllShape'
  <2>1. /\ pc[c] = "idle" /\ pc'[c] = "backlog" /\ UNCHANGED <<todo, got>>
        /\ \A d \in Conns \ {c} : pc'[d] = pc[d]
    BY <1>3 DEF Connect
  <2>2. Shape(c)'
    BY <2>1 DEF AllShape, Shape, Answered
  <2>. QED
    BY <1>2, <2>1, <2>2
<1>4. ASSUME NEW c \in Conns, Quiet(c) \/ ClientLeave(c) \/ Die(c)
      PROVE  AllShape'
  BY <1>1, <1>4 DEF Quiet, ClientSend, ClientStall, ClientResume, ClientLeave, Die
<1>5. ASSUME NEW c \in Conns, Jump(c)
      PROVE  AllShape'
  <2>1. PICK s \in Seq(Items), p \in Pcs : JumpTo(c, s, p)
    BY <1>5 DEF Jump
  <2>2. ~Answered(c) /\ ~Has(got[c], {"close"})
    BY <2>1, BeforeJump DEF JumpTo
  <2>3. /\ pc'[c] = p /\ todo'[c] = s /\ got' = got
        /\ \A d \in Conns \ {c} : pc'[d] = pc[d] /\ todo'[d] = todo[d]
    BY <2>1 DEF JumpTo, Continue
  <2>4. Shape(c)'
    BY <2>1, <2>2, <2>3 DEF JumpTo, Shape, Answered
  <2>. QED
    BY <1>2, <2>3, <2>4
<1>6. ASSUME NEW c \in Conns, Acquire(c)
      PROVE  AllShape'
  <2>1. ~Answered(c) /\ ~Has(got[c], {"close"})
    BY <1>6, BeforeJump DEF Acquire, At
  <2>2. /\ pc'[c] # "closing" /\ got' = got
        /\ todo'[c] \in {<<>>, <<"status">>, <<"progress">>}
        /\ \A d \in Conns \ {c} : pc'[d] = pc[d] /\ todo'[d] = todo[d]
    BY <1>6 DEF Acquire, Continue
  <2>3. Tidy(todo'[c]) /\ ~Has(todo'[c], Items \ Neutral)
    BY <2>2, Announcement DEF Neutral
  <2>4. Shape(c)'
    BY <2>1, <2>2, <2>3 DEF Shape, Answered
  <2>. QED
    BY <1>2, <2>2, <2>4
<1>7. ASSUME NEW c \in Conns, Unlock(c)
      PROVE  AllShape'
  <2>1. /\ todo[c] \in Seq(Items) /\ todo[c] # <<>>
        /\ pc' = pc /\ got' = got /\ todo'[c] = Tail(todo[c])
        /\ \A d \in Conns \ {c} : todo'[d] = todo[d]
    BY <1>7 DEF Unlock
  <2>2. Shape(c) /\ Tidy(Tail(todo[c]))
    BY <2>1, TidyTail DEF AllShape, Shape
  <2>3. \A F : Has(Tail(todo[c]), F) => Has(todo[c], F)
    BY <2>1, TailHas
  <2>4. Shape(c)'
    BY <2>1, <2>2, <2>3 DEF Shape, Answered
  <2>. QED
    BY <1>2, <2>1, <2>4
<1>8. ASSUME NEW c \in Conns, SendNext(c)
      PROVE  AllShape'
  <2>. DEFINE f == Head(todo[c])
  <2>1. /\ todo[c] \in Seq(Items) /\ todo[c] # <<>> /\ f # "unlock"
        /\ pc' = pc /\ todo'[c] = Tail(todo[c])
        /\ \A d \in Conns \ {c} : todo'[d] = todo[d] /\ got'[d] = got[d]
    BY <1>8 DEF SendNext, Send
  <2>2. f \in Frames
    BY <2>1, TailFacts DEF Items
  <2>3. /\ Shape(c) /\ Tidy(Tail(todo[c]))
        /\ f \in Finals => ~Has(Tail(todo[c]), Items \ {"close", "unlock"})
        /\ f = "close" => ~Has(Tail(todo[c]), Items \ {"unlock"})
    BY <2>1, TidyTail DEF AllShape, Shape
  <2>4. /\ \A F : Has(Tail(todo[c]), F) => Has(todo[c], F)
        /\ \A F : f \in F => Has(todo[c], F)
    BY <2>1, TailHas
  <2>5. got'[c] = got[c] \/ got'[c] = Append(got[c], f)
    BY <1>8 DEF SendNext, Send
  <2>6. got[c] \in Seq(Frames)
    OBVIOUS
  <2>7. /\ Answered(c)' => Answered(c) \/ f \in Finals
        /\ Has(got'[c], {"close"}) => Has(got[c], {"close"}) \/ f = "close"
    <3>1. /\ Has(Append(got[c], f), Finals) => Has(got[c], Finals) \/ f \in Finals
          /\ Has(Append(got[c], f), {"close"})
               => Has(got[c], {"close"}) \/ f \in {"close"}
      BY <2>2, <2>6, AppendHas
    <3>. QED
      BY <2>5, <3>1 DEF Answered
  <2>8. f \in Finals \cup {"close"} => pc[c] = "closing"
    <3>1. f \in Items \ Neutral => Has(todo[c], Items \ Neutral)
      BY <2>4
    <3>. QED
      BY <2>3, <3>1 DEF Shape, Finals, Neutral, Items, Frames
  <2>9. Shape(c)'
    BY <2>1, <2>3, <2>4, <2>7, <2>8 DEF Shape, Answered
  <2>. QED
    BY <1>2, <2>1, <2>9
<1>9. ASSUME NEW c \in Conns, Finish(c)
      PROVE  AllShape'
  <2>1. /\ pc[c] = "closing" /\ todo'[c] = <<>> /\ pc'[c] = "done" /\ got' = got
        /\ \A d \in Conns \ {c} : pc'[d] = pc[d] /\ todo'[d] = todo[d]
    BY <1>9 DEF Finish, At, Continue
  <2>2. Tidy(<<>>) /\ \A F : ~Has(<<>>, F)
    BY DEF Tidy, Has
  <2>3. Shape(c)'
    BY <2>1, <2>2 DEF Shape, Answered
  <2>. QED
    BY <1>2, <2>1, <2>3
<1>. QED
  BY <1>1, <1>3, <1>4, <1>5, <1>6, <1>7, <1>8, <1>9, StepCases DEF vars

\* Nothing but the close frame follows the answer.
LEMMA StreamSteps ==
  ASSUME Inv, [Next]_vars
  PROVE  OneFinalFrame'
<1>0. TypeOK /\ AllTold /\ AllShape /\ OneFinalFrame
  BY DEF Inv
<1>1. CASE UNCHANGED got
  BY <1>0, <1>1 DEF OneFinalFrame
<1>2. CASE got' # got
  <2>0. ASSUME NEW c \in Conns,
               \/ Connect(c) \/ Quiet(c) \/ ClientLeave(c) \/ Jump(c) \/ Die(c)
               \/ Acquire(c) \/ Unlock(c) \/ Finish(c)
        PROVE  FALSE
    <3>1. ~Connect(c) /\ ~Quiet(c) /\ ~ClientLeave(c)
      BY <1>2 DEF Connect, Quiet, ClientSend, ClientStall, ClientResume, ClientLeave
    <3>2. ~Jump(c) /\ ~Die(c)
      BY <1>2 DEF Jump, JumpTo, Die
    <3>3. ~Acquire(c) /\ ~Unlock(c) /\ ~Finish(c)
      BY <1>2 DEF Acquire, Unlock, Finish
    <3>. QED
      BY <2>0, <3>1, <3>2, <3>3
  <2>1. PICK c \in Conns : SendNext(c)
    BY <1>0, <1>2, <2>0, StepCases DEF vars
  <2>. DEFINE f == Head(todo[c])
  <2>2. /\ got[c] \in Seq(Frames) /\ todo[c] \in Seq(Items) /\ todo[c] # <<>>
        /\ f \in Items \ {"unlock"} /\ f \in Frames
    BY <1>0, <2>1, TailFacts DEF SendNext, TypeOK, Items
  <2>3. \A d \in Conns : got'[d] = IF d = c THEN Append(got[c], f) ELSE got[d]
    BY <1>0, <1>2, <2>1 DEF SendNext, Send, TypeOK
  <2>4. \A F : f \in F => Has(todo[c], F)
    BY <2>2, TailHas
  <2>5. /\ Answered(c) => f = "close"
        /\ ~Has(got[c], {"close"})
    BY <1>0, <2>2, <2>4 DEF AllShape, Shape
  <2>6. \A i, j \in 1..Len(got'[c]) :
           i < j => /\ got'[c][i] \in Finals => got'[c][j] = "close"
                    /\ got'[c][i] # "close"
    <3>1. SUFFICES ASSUME NEW i \in 1..Len(got'[c]), NEW j \in 1..Len(got'[c]), i < j
                   PROVE  /\ got'[c][i] \in Finals => got'[c][j] = "close"
                          /\ got'[c][i] # "close"
      OBVIOUS
    <3>2. /\ Len(got'[c]) = Len(got[c]) + 1 /\ Len(got[c]) \in Nat
          /\ got'[c][Len(got[c]) + 1] = f
          /\ \A k \in 1..Len(got[c]) : got'[c][k] = got[c][k]
      <4>1. got'[c] = Append(got[c], f)
        BY <2>3
      <4>. QED
        BY <2>2, <4>1
    <3>3. i \in 1..Len(got[c])
      BY <3>1, <3>2
    <3>4. CASE j \in 1..Len(got[c])
      BY <1>0, <3>1, <3>2, <3>3, <3>4 DEF OneFinalFrame
    <3>5. CASE j = Len(got[c]) + 1
      BY <2>5, <3>2, <3>3, <3>5 DEF Answered, Has
    <3>. QED
      BY <3>1, <3>2, <3>4, <3>5
  <2>. QED
    BY <1>0, <2>3, <2>6 DEF OneFinalFrame
<1>. QED
  BY <1>1, <1>2

\* A connection that is not made yet, or is closed, has nothing to run, after each step.
LEMMA FreshSteps ==
  ASSUME Inv, [Next]_vars
  PROVE  AllFresh'
<1>0. TypeOK /\ AllTold /\ AllFresh
  BY DEF Inv
<1>. USE <1>0 DEF TypeOK, AllFresh, Fresh
<1>1. ASSUME NEW c \in Conns, Connect(c) \/ Quiet(c) \/ ClientLeave(c) \/ Die(c)
      PROVE  AllFresh'
  BY <1>1 DEF Connect, Quiet, ClientSend, ClientStall, ClientResume, ClientLeave, Die
<1>2. ASSUME NEW c \in Conns, Jump(c)
      PROVE  AllFresh'
  BY <1>2 DEF Jump, JumpTo, Continue
<1>3. ASSUME NEW c \in Conns, Acquire(c)
      PROVE  AllFresh'
  BY <1>3 DEF Acquire, At, Continue
<1>4. ASSUME NEW c \in Conns, Unlock(c)
      PROVE  AllFresh'
  BY <1>4 DEF Unlock
<1>5. ASSUME NEW c \in Conns, SendNext(c)
      PROVE  AllFresh'
  BY <1>5 DEF SendNext, Send
<1>6. ASSUME NEW c \in Conns, Finish(c)
      PROVE  AllFresh'
  BY <1>6 DEF Finish, At, Continue
<1>. QED
  BY <1>1, <1>2, <1>3, <1>4, <1>5, <1>6, StepCases DEF vars

\* A request that was read is answered before its thread is done, or its
\* client has left.
LEMMA ToldSteps ==
  ASSUME Inv, [Next]_vars
  PROVE  AllTold'
<1>0. TypeOK /\ AllTold /\ AllShape /\ AllFresh
  BY DEF Inv
<1>. USE <1>0 DEF TypeOK
\* Only the thread or the client of c moves.
<1>1. ASSUME NEW c \in Conns, Told(c)', alive' => alive,
             \A d \in Conns \ {c} :
               /\ pc'[d] = pc[d] /\ todo'[d] = todo[d] /\ got'[d] = got[d]
               /\ peer'[d] = peer[d] /\ (d \in asked' <=> d \in asked)
      PROVE  AllTold'
  <2>1. ASSUME NEW d \in Conns \ {c}
        PROVE  Told(d)'
    BY <1>1 DEF AllTold, Told, Gone, Answered
  <2>. QED
    BY <1>1, <2>1 DEF AllTold
<1>2. ASSUME NEW c \in Conns, Connect(c) \/ Quiet(c) \/ ClientLeave(c)
      PROVE  AllTold'
  <2>1. /\ UNCHANGED <<alive, todo, got, asked>>
        /\ pc'[c] = pc[c] \/ (pc[c] = "idle" /\ pc'[c] = "backlog")
        /\ Gone(c) => Gone(c)'
        /\ \A d \in Conns \ {c} : pc'[d] = pc[d] /\ peer'[d] = peer[d]
    BY <1>2 DEF Connect, Quiet, ClientSend, ClientStall, ClientResume,
                ClientLeave, AllFresh, Fresh, Gone
  <2>2. Told(c)'
    BY <2>1 DEF AllTold, Told, Answered, Early
  <2>. QED
    BY <1>1, <2>1, <2>2
<1>3. ASSUME NEW c \in Conns, Jump(c)
      PROVE  AllTold'
  <2>1. PICK s \in Seq(Items), p \in Pcs : JumpTo(c, s, p)
    BY <1>3 DEF Jump
  <2>2. /\ pc'[c] = p /\ todo'[c] = s /\ UNCHANGED <<alive, got, peer>>
        /\ \A d \in Conns \ {c} :
             pc'[d] = pc[d] /\ todo'[d] = todo[d] /\ (d \in asked' <=> d \in asked)
    BY <2>1 DEF JumpTo, Continue
  <2>3. Has(s, Finals) => Has(s, Items \ Neutral)
    BY <2>1 DEF JumpTo, Has, Finals, Items, Frames, Neutral
  <2>4. Told(c)'
    BY <2>1, <2>2, <2>3 DEF JumpTo, Told, Gone
  <2>. QED
    BY <1>1, <2>2, <2>4
<1>4. ASSUME NEW c \in Conns, Die(c)
      PROVE  AllTold'
  <2>1. /\ alive' = FALSE /\ pc[c] \notin {"idle", "closing", "done"}
        /\ UNCHANGED <<pc, todo, got, peer>>
        /\ \A d \in Conns \ {c} : d \in asked' <=> d \in asked
    BY <1>4 DEF Die, LockedPcs
  <2>2. ~Has(todo[c], Finals)
    BY <2>1, BeforeJump
  <2>3. Told(c)'
    BY <2>1, <2>2 DEF Told
  <2>. QED
    BY <1>1, <2>1, <2>3
<1>5. ASSUME NEW c \in Conns, Acquire(c)
      PROVE  AllTold'
  <2>1. /\ alive /\ pc[c] = "waitLock" /\ UNCHANGED <<alive, got, peer, asked>>
        /\ pc'[c] \in LockedPcs /\ todo'[c] \in {<<>>, <<"status">>, <<"progress">>}
        /\ \A d \in Conns \ {c} : pc'[d] = pc[d] /\ todo'[d] = todo[d]
    BY <1>5 DEF Acquire, At, Continue, LockedPcs
  <2>2. ~Has(todo'[c], Finals)
    BY <2>1 DEF Has, Finals
  <2>3. c \in asked
    BY <2>1 DEF AllTold, Told, Early
  <2>4. Told(c)'
    BY <2>1, <2>2, <2>3 DEF Told, Early, LockedPcs
  <2>. QED
    BY <1>1, <2>1, <2>4
<1>6. ASSUME NEW c \in Conns, Unlock(c)
      PROVE  AllTold'
  <2>1. /\ todo[c] \in Seq(Items) /\ todo[c] # <<>> /\ Head(todo[c]) = "unlock"
        /\ UNCHANGED <<alive, pc, got, peer, asked>> /\ todo'[c] = Tail(todo[c])
        /\ \A d \in Conns \ {c} : todo'[d] = todo[d]
    BY <1>6 DEF Unlock
  <2>2. Has(Tail(todo[c]), Finals) <=> Has(todo[c], Finals)
    BY <2>1, TailHas DEF Finals
  <2>3. Told(c)'
    BY <2>1, <2>2 DEF AllTold, Told, Gone, Answered
  <2>. QED
    BY <1>1, <2>1, <2>3
<1>7. ASSUME NEW c \in Conns, SendNext(c)
      PROVE  AllTold'
  <2>. DEFINE f == Head(todo[c])
  <2>1. /\ todo[c] \in Seq(Items) /\ todo[c] # <<>> /\ f # "unlock" /\ alive
        /\ UNCHANGED <<pc, asked>> /\ todo'[c] = Tail(todo[c])
        /\ \A d \in Conns \ {c} :
             todo'[d] = todo[d] /\ got'[d] = got[d] /\ peer'[d] = peer[d]
    BY <1>7 DEF SendNext, Send
  <2>2. f \in Frames /\ got[c] \in Seq(Frames)
    BY <2>1, TailFacts DEF Items
  <2>3. Has(todo[c], Finals) <=> f \in Finals \/ Has(Tail(todo[c]), Finals)
    BY <2>1, TailHas
  <2>4. \/ Gone(c)' /\ Gone(c) /\ got'[c] = got[c]
        \/ (Gone(c)' <=> Gone(c)) /\ got'[c] = Append(got[c], f)
    BY <1>7 DEF SendNext, Send, Gone
  <2>5. Has(Append(got[c], f), Finals) <=> Has(got[c], Finals) \/ f \in Finals
    BY <2>2, AppendHas
  <2>6. Told(c)'
    BY <2>1, <2>3, <2>4, <2>5 DEF AllTold, Told, Answered
  <2>. QED
    BY <1>1, <2>1, <2>6
<1>8. ASSUME NEW c \in Conns, Finish(c)
      PROVE  AllTold'
  <2>1. /\ pc[c] = "closing" /\ todo[c] = <<>> /\ todo'[c] = <<>> /\ pc'[c] = "done"
        /\ UNCHANGED <<alive, got, peer, asked>>
        /\ \A d \in Conns \ {c} : pc'[d] = pc[d] /\ todo'[d] = todo[d]
    BY <1>8 DEF Finish, At, Continue
  <2>2. Told(c)'
    BY <2>1 DEF AllTold, Told, Gone, Answered, Early
  <2>. QED
    BY <1>1, <2>1, <2>2
<1>9. CASE UNCHANGED vars
  BY <1>9 DEF vars, AllTold, Told, Gone, Answered
<1>. QED
  BY <1>2, <1>3, <1>4, <1>5, <1>6, <1>7, <1>8, <1>9, StepCases

-----------------------------------------------------------------------------
(* The theorems.                                                           *)

\* Before the first connection the invariant holds.
LEMMA InitInv == Init => Inv
<1>. SUFFICES ASSUME Init
              PROVE  Inv
  OBVIOUS
<1>1. TypeOK
  BY ServiceAssumption DEF Init, TypeOK, Pcs, LockedPcs
<1>2. Tidy(<<>>) /\ \A F : ~Has(<<>>, F)
  BY DEF Tidy, Has
<1>3. LockHeldExactlyInside
  BY <1>2, ServiceAssumption
     DEF Init, LockHeldExactlyInside, Critical, InProver, LockedPcs
<1>4. OneFinalFrame
  BY DEF Init, OneFinalFrame
<1>5. AllFresh
  BY DEF Init, AllFresh, Fresh
<1>6. AllShape
  BY <1>2 DEF Init, AllShape, Shape, Answered
<1>7. AllTold
  BY <1>2 DEF Init, AllTold, Told, Early
<1>. QED
  BY <1>1, <1>3, <1>4, <1>5, <1>6, <1>7 DEF Inv

\* Every step keeps it.
LEMMA NextInv == Inv /\ [Next]_vars => Inv'
BY TypedSteps, LockSteps, StreamSteps, FreshSteps, ShapeSteps, ToldSteps DEF Inv

\* The invariant holds of every behaviour of the service.
THEOREM Invariance == Spec => []Inv
BY InitInv, NextInv, PTL DEF Spec

\* Every variable keeps its type, for any number of connections.
THEOREM TypeCorrect == Spec => []TypeOK
<1>1. Inv => TypeOK
  BY DEF Inv
<1>. QED
  BY <1>1, Invariance, PTL

\* On every exit path of every handler, for any number of connections: the
\* mutex is held by the one thread that is inside its lock_guard's scope.
THEOREM MutexCorrect == Spec => []LockHeldExactlyInside
<1>1. Inv => LockHeldExactlyInside
  BY DEF Inv
<1>. QED
  BY <1>1, Invariance, PTL

\* No client is answered twice, or told anything but "close" after the answer.
THEOREM StreamCorrect == Spec => []OneFinalFrame
<1>1. Inv => OneFinalFrame
  BY DEF Inv
<1>. QED
  BY <1>1, Invariance, PTL

\* No handler closes the connection of a client that is still there without
\* having answered the request it read.
THEOREM AnswerBeforeClose == Spec => []NoSilentClose
<1>1. Inv => NoSilentClose
  <2>1. \A F : ~Has(<<>>, F)
    BY DEF Has
  <2>. QED
    BY <2>1 DEF Inv, NoSilentClose, AllTold, Told, AllFresh, Fresh, Ended, TypeOK
<1>. QED
  BY <1>1, Invariance, PTL

\* The process ends only for a send to a client that left, where that raises
\* SIGPIPE, a mistyped field, a length the frame reader trusts, or a thread that
\* cannot be started.
THEOREM DeathCorrect == Spec => DiesOnlyFor
<1>. DEFINE Cause(c) ==
       \/ SigPipe /\ peer[c] = "reset" /\ todo'[c] # todo[c]
       \/ req[c] = "mistyped" /\ c \in asked'
       \/ At(c, "recorded")
       \/ At(c, "wsRead") /\ sent[c] = 2 /\ req[c] \in {"hugePing", "wrapping"}
       \/ ThreadsShort /\ (pc[c] = "backlog" \/ Proving(c))
<1>1. ASSUME Inv, [Next]_vars
      PROVE  [~alive' => \E c \in Conns : Cause(c)]_alive
  <2>. SUFFICES ASSUME ~alive', alive' # alive
                PROVE  \E c \in Conns : Cause(c)
    OBVIOUS
  <2>0. TypeOK /\ alive /\ Next
    <3>1. alive \in BOOLEAN /\ alive' \in BOOLEAN /\ TypeOK
      BY <1>1, NextInv DEF Inv, TypeOK
    <3>2. alive
      BY <3>1
    <3>3. Next
      BY <1>1 DEF vars
    <3>. QED
      BY <3>1, <3>2, <3>3
  <2>1. ASSUME NEW c \in Conns, Client(c)
        PROVE  FALSE
    BY <2>0, <2>1 DEF Client, Connect, ClientSend, ClientStall, ClientResume, ClientLeave
  <2>2. ASSUME NEW c \in Conns, Thread(c)
        PROVE  SendNext(c) \/ Ends(c)
    BY <2>0, <2>2 DEF Thread, Compute, Accept, AnswerSimple, StartBareBenchmark,
                      ReadHeader, ReadBody, RefuseMessage, BadJson, ReadJob,
                      Record, Recorded, Acquire, InitFails, Standalone, Operate,
                      Operated, Throw, Decrypt, BenchKeygen, Benched, BenchThrow,
                      Unlock, Finish, Ends
  <2>3. ASSUME NEW c \in Conns, SendNext(c)
        PROVE  Cause(c)
    <3>1. peer[c] = "reset" /\ SigPipe
      BY <2>0, <2>3, ServiceAssumption DEF SendNext, Send
    <3>2. /\ todo[c] \in Seq(Items) /\ todo[c] # <<>> /\ todo'[c] = Tail(todo[c])
      BY <2>0, <2>3 DEF SendNext, TypeOK
    <3>3. Len(todo'[c]) = Len(todo[c]) - 1 /\ Len(todo[c]) \in Nat
      BY <3>2, TailFacts
    <3>4. todo'[c] # todo[c]
      BY <3>3
    <3>. QED
      BY <3>1, <3>4
  <2>4. ASSUME NEW c \in Conns, Ends(c)
        PROVE  Cause(c)
    BY <2>0, <2>4 DEF Ends, Mistyped, RecordedMistyped, PingTooLong, LengthWraps, ThreadFails
  <2>5. ~Stopped
    BY <2>0 DEF Stopped, vars
  <2>. QED
    BY <2>0, <2>1, <2>2, <2>3, <2>4, <2>5 DEF Next
<1>. QED
  BY <1>1, Invariance, PTL DEF Spec, DiesOnlyFor

\* Where sends raise no signal, threads start, and no client sends what the code
\* lets end the process, it stays up, whoever leaves.
LEMMA StaysUp ==
  ASSUME ~SigPipe, ~ThreadsShort, Requests \cap Fatal = {}
  PROVE  Spec => []Steady
<1>1. Init => Steady
  BY DEF Init, Steady
<1>2. ASSUME Inv, Steady, [Next]_vars
      PROVE  Steady'
  <2>. USE <1>2 DEF Steady
  <2>t. TypeOK
    BY DEF Inv
  <2>1. CASE UNCHANGED vars
    BY <2>1 DEF vars
  <2>2. ASSUME NEW c \in Conns, Client(c)
        PROVE  Steady'
    BY <2>2, <2>t DEF Client, Connect, ClientSend, ClientStall, ClientResume,
                      ClientLeave, TypeOK
  <2>3. ASSUME NEW c \in Conns, SendNext(c)
        PROVE  Steady'
    BY <2>3 DEF SendNext, Send
  <2>4. ASSUME NEW c \in Conns, Compute(c) \/ Record(c)
        PROVE  /\ alive' /\ req' = req
               /\ pc' = pc \/ \E p \in Pcs \ {"recording", "recorded"} :
                                pc' = [pc EXCEPT ![c] = p]
    <3>1. ~Ends(c) /\ ~Record(c) /\ ~Recorded(c)
      BY DEF Ends, Mistyped, RecordedMistyped, PingTooLong, LengthWraps, ThreadFails,
             Record, Recorded, At, Fatal
    <3>2. req[c] # "zktls"
      BY DEF Fatal
    <3>. QED
      BY <2>4, <3>1, <3>2
         DEF Ends, Compute, Accept, AnswerSimple, StartBareBenchmark, ReadHeader,
             ReadBody, RefuseMessage, BadJson, ReadJob, Acquire, InitFails,
             Standalone, Operate, Operated, Throw, Decrypt, BenchKeygen, Benched,
             BenchThrow, Unlock, Finish, Continue, Return, Pcs, LockedPcs
  <2>5. ASSUME NEW c \in Conns, Compute(c) \/ Record(c)
        PROVE  Steady'
    BY <2>4, <2>5, <2>t DEF TypeOK
  <2>. QED
    <3>1. \A c \in Conns : ~ThreadFails(c)
      BY DEF ThreadFails
    <3>. QED
      BY <2>1, <2>2, <2>3, <2>5, <3>1 DEF Next, Thread, Stopped
<1>. QED
  BY <1>1, <1>2, Invariance, PTL DEF Spec

\* There, no job of a client that stays is lost to the other clients, whether
\* they leave, stop reading, or send what is malformed, too long or no JSON: it is
\* answered before its connection closes, for any number of connections.
\* DeathCorrect says that nothing but the hypotheses ends the process.
\* The run service_sigpipe shows what becomes of it where sends raise SIGPIPE.
THEOREM NoJobLost ==
  ASSUME ~SigPipe, ~ThreadsShort, Requests \cap Fatal = {}
  PROVE  Spec => []NoLostJob
<1>1. Steady /\ NoSilentClose => NoLostJob
  BY DEF Steady, NoSilentClose, NoLostJob
<1>2. Spec => []Steady
  BY StaysUp
<1>. QED
  BY <1>1, <1>2, AnswerBeforeClose, PTL

-----------------------------------------------------------------------------
(* ProveService implements ProveJob.                                       *)

\* The abstract phase of a connection no step has to do with is unchanged.
LEMMA SamePhase ==
  ASSUME NEW c \in Conns,
         \A d \in Conns \ {c} : pc'[d] = pc[d] /\ got'[d] = got[d],
         NEW x, phase'[c] = x
  PROVE  phase' = [phase EXCEPT ![c] = x]
<1>1. \A d \in Conns \ {c} : phase'[d] = phase[d]
  BY DEF phase, Ended, Answered
<1>2. phase' = [d \in Conns |-> phase'[d]] /\ phase = [d \in Conns |-> phase[d]]
  BY DEF phase
<1>. QED
  BY <1>1, <1>2

\* A service with no connection is one with no job.
LEMMA InitImplements == Init => Job!Init
<1>1. ~Has(<<>>, Finals)
  BY DEF Has
<1>. QED
  BY <1>1 DEF Init, Job!Init, gone, phase, Gone, Answered, Ended

\* Every step of the service is a step of ProveJob or changes nothing there.
LEMMA NextImplements ==
  ASSUME Inv, [Next]_vars
  PROVE  [Job!Next]_(Job!vars)
<1>0. /\ TypeOK /\ AllTold /\ AllShape /\ AllFresh /\ LockHeldExactlyInside
      /\ TypeOK'
  BY NextInv DEF Inv
<1>. USE <1>0 DEF TypeOK
<1>u. ASSUME UNCHANGED <<alive, lock, asked, peer, pc, got>>
      PROVE  UNCHANGED Job!vars
  BY <1>u DEF Job!vars, gone, phase, Gone, Ended, Answered
<1>1. CASE UNCHANGED vars
  BY <1>1, <1>u DEF vars
<1>2. ASSUME NEW c \in Conns, Connect(c)
      PROVE  Job!Open(c)
  <2>1. /\ alive /\ pc[c] = "idle" /\ pc'[c] = "backlog" /\ peer[c] = "none"
        /\ peer'[c] = "open" /\ UNCHANGED <<alive, lock, asked, got>>
        /\ \A d \in Conns \ {c} : pc'[d] = pc[d] /\ peer'[d] = peer[d]
    BY <1>2 DEF Connect, AllFresh, Fresh
  <2>2. gone' = gone
    BY <2>1 DEF gone, Gone
  <2>3. phase[c] = "idle" /\ phase'[c] = "open"
    BY <2>1, BeforeJump DEF phase, Ended, Answered
  <2>4. phase' = [phase EXCEPT ![c] = "open"]
    BY <2>1, <2>3, SamePhase
  <2>. QED
    BY <2>1, <2>2, <2>3, <2>4 DEF Job!Open
<1>3. ASSUME NEW c \in Conns, Quiet(c)
      PROVE  UNCHANGED Job!vars
  <2>1. UNCHANGED <<alive, lock, asked, pc, got>> /\ gone' = gone
    BY <1>3 DEF Quiet, ClientSend, ClientStall, ClientResume, gone, Gone
  <2>. QED
    BY <2>1 DEF Job!vars, phase, Ended, Answered
<1>4. ASSUME NEW c \in Conns, ClientLeave(c)
      PROVE  Job!Leave(c)
  <2>1. /\ alive /\ UNCHANGED <<alive, lock, asked, pc, got>>
        /\ gone' = gone \cup {c} /\ pc[c] # "idle"
    BY <1>4 DEF ClientLeave, gone, Gone, AllFresh, Fresh
  <2>2. phase' = phase /\ phase[c] # "idle"
    BY <2>1 DEF phase, Ended, Answered
  <2>. QED
    BY <2>1, <2>2 DEF Job!Leave
<1>5. ASSUME NEW c \in Conns, Jump(c)
      PROVE  Job!Ask(c) \/ UNCHANGED Job!vars
  <2>1. PICK s \in Seq(Items), p \in Pcs : JumpTo(c, s, p)
    BY <1>5 DEF Jump
  <2>2. /\ alive /\ UNCHANGED <<alive, lock, peer, got>>
        /\ asked' \in {asked, asked \cup {c}}
        /\ pc[c] \notin {"idle", "closing", "done"} /\ pc'[c] \notin {"idle", "done"}
        /\ \A d \in Conns \ {c} : pc'[d] = pc[d]
    BY <2>1 DEF JumpTo, Continue
  <2>3. gone' = gone
    BY <2>2 DEF gone, Gone
  <2>4. phase[c] = "open" /\ phase' = phase
    <3>1. ~Answered(c)
      BY <2>2, BeforeJump
    <3>2. phase[c] = "open" /\ phase'[c] = "open"
      BY <2>2, <3>1 DEF phase, Ended, Answered
    <3>3. phase' = [phase EXCEPT ![c] = "open"]
      BY <2>2, <3>2, SamePhase
    <3>. QED
      BY <3>2, <3>3 DEF phase
  <2>. QED
    BY <2>2, <2>3, <2>4 DEF Job!Ask, Job!vars
<1>6. ASSUME NEW c \in Conns, Die(c)
      PROVE  Job!Crash(c)
  <2>1. /\ alive /\ alive' = FALSE /\ UNCHANGED <<lock, pc, peer, got>>
        /\ pc[c] \notin {"idle", "done"} /\ asked' \in {asked, asked \cup {c}}
    BY <1>6 DEF Die, LockedPcs
  <2>2. gone' = gone /\ phase' = phase
    BY <2>1 DEF gone, Gone, phase, Ended, Answered
  <2>3. phase[c] \in {"open", "answered"}
    BY <2>1 DEF phase, Ended
  <2>. QED
    BY <2>1, <2>2, <2>3 DEF Job!Crash
<1>7. ASSUME NEW c \in Conns, Acquire(c)
      PROVE  Job!Enter(c)
  <2>1. /\ alive /\ pc[c] = "waitLock" /\ lock = None /\ lock' = c
        /\ UNCHANGED <<alive, peer, got, asked>> /\ pc'[c] \in LockedPcs
        /\ \A d \in Conns \ {c} : pc'[d] = pc[d]
    BY <1>7 DEF Acquire, At, Continue, LockedPcs
  <2>2. ~Answered(c) /\ c \in asked
    BY <2>1, BeforeJump DEF AllTold, Told, Early
  <2>3. phase[c] = "open" /\ phase'[c] = "open"
    BY <2>1, <2>2 DEF phase, Ended, Answered, LockedPcs
  <2>4. phase' = [phase EXCEPT ![c] = "open"]
    BY <2>1, <2>3, SamePhase
  <2>5. phase' = phase
    BY <2>3, <2>4 DEF phase
  <2>6. gone' = gone
    BY <2>1 DEF gone, Gone
  <2>. QED
    BY <2>1, <2>2, <2>3, <2>5, <2>6 DEF Job!Enter
<1>8. ASSUME NEW c \in Conns, Unlock(c)
      PROVE  Job!Exit(c)
  <2>1. /\ todo[c] \in Seq(Items) /\ todo[c] # <<>> /\ Head(todo[c]) = "unlock"
        /\ alive /\ lock' = None /\ UNCHANGED <<alive, pc, got, peer, asked>>
    BY <1>8 DEF Unlock
  <2>2. lock = c
    BY <2>1, TailHas DEF LockHeldExactlyInside, Critical
  <2>3. gone' = gone /\ phase' = phase
    BY <2>1 DEF gone, Gone, phase, Ended, Answered
  <2>. QED
    BY <2>1, <2>2, <2>3 DEF Job!Exit
<1>9. ASSUME NEW c \in Conns, SendNext(c)
      PROVE  Job!Answer(c) \/ Job!Crash(c) \/ UNCHANGED Job!vars
  <2>. DEFINE f == Head(todo[c])
  <2>1. /\ todo[c] \in Seq(Items) /\ todo[c] # <<>> /\ f # "unlock" /\ alive
        /\ UNCHANGED <<pc, asked, lock>>
        /\ \A d \in Conns \ {c} : got'[d] = got[d]
    BY <1>9 DEF SendNext, Send
  <2>2. /\ f \in Frames /\ got[c] \in Seq(Frames)
        /\ \A F : f \in F => Has(todo[c], F)
    BY <2>1, TailFacts, TailHas DEF Items
  <2>3. pc[c] \notin {"idle", "done"}
    BY <2>1 DEF AllFresh, Fresh
  <2>4. gone' = gone
    BY <1>9 DEF SendNext, Send, gone, Gone
  <2>5. CASE got' = got
    <3>1. phase' = phase /\ phase[c] \in {"open", "answered"}
      BY <2>1, <2>3, <2>5 DEF phase, Ended, Answered
    <3>2. alive' = alive \/ alive' = FALSE
      BY <1>9, <2>1 DEF SendNext, Send
    <3>. QED
      BY <2>1, <2>4, <3>1, <3>2 DEF Job!Crash, Job!vars
  <2>6. CASE got' # got
    <3>1. ~Gone(c) /\ got'[c] = Append(got[c], f) /\ UNCHANGED alive
      BY <1>9, <2>6 DEF SendNext, Send, Gone
    <3>2. Answered(c)' <=> Answered(c) \/ f \in Finals
      <4>1. Has(Append(got[c], f), Finals) <=> Has(got[c], Finals) \/ f \in Finals
        BY <2>2, AppendHas
      <4>. QED
        BY <3>1, <4>1 DEF Answered
    <3>3. CASE f \in Finals /\ ~Answered(c)
      <4>1. c \in asked \ gone
        BY <2>2, <3>1, <3>3 DEF AllTold, Told, gone
      <4>2. phase[c] = "open" /\ phase'[c] = "answered"
        BY <2>1, <2>3, <3>2, <3>3 DEF phase, Ended, Answered
      <4>3. phase' = [phase EXCEPT ![c] = "answered"]
        BY <2>1, <4>2, SamePhase
      <4>. QED
        BY <2>1, <2>4, <3>1, <4>1, <4>2, <4>3 DEF Job!Answer
    <3>4. CASE f \notin Finals \/ Answered(c)
      <4>1. Answered(c)' <=> Answered(c)
        BY <3>2, <3>4
      <4>2. phase'[c] = phase[c]
        BY <2>1, <4>1 DEF phase, Ended, Answered
      <4>3. phase' = [phase EXCEPT ![c] = phase[c]]
        BY <2>1, <4>2, SamePhase
      <4>4. phase' = phase
        BY <4>3 DEF phase
      <4>. QED
        BY <2>1, <2>4, <3>1, <4>4 DEF Job!vars
    <3>. QED
      BY <3>3, <3>4
  <2>. QED
    BY <2>5, <2>6
<1>10. ASSUME NEW c \in Conns, Finish(c)
      PROVE  Job!Close(c)
  <2>1. /\ alive /\ pc[c] = "closing" /\ todo[c] = <<>> /\ pc'[c] = "done"
        /\ UNCHANGED <<alive, lock, got, peer, asked>>
        /\ \A d \in Conns \ {c} : pc'[d] = pc[d]
    BY <1>10 DEF Finish, At, Continue
  <2>2. \A F : ~Has(<<>>, F)
    BY DEF Has
  <2>3. lock # c
    BY <2>1, <2>2 DEF LockHeldExactlyInside, Critical, InProver, LockedPcs
  <2>4. Answered(c) \/ c \in gone \/ c \notin asked
    BY <2>1, <2>2 DEF AllTold, Told, gone
  <2>5. /\ phase[c] \in {"open", "answered"} /\ phase'[c] = "closed"
        /\ Answered(c) => phase[c] = "answered"
    BY <2>1 DEF phase, Ended
  <2>6. phase' = [phase EXCEPT ![c] = "closed"]
    BY <2>1, <2>5, SamePhase
  <2>7. gone' = gone
    BY <2>1 DEF gone, Gone
  <2>. QED
    BY <2>1, <2>3, <2>4, <2>5, <2>6, <2>7 DEF Job!Close
<1>. QED
  BY <1>1, <1>2, <1>3, <1>4, <1>5, <1>6, <1>7, <1>8, <1>9, <1>10, StepCases
     DEF Job!Next

\* The service, with its threads, frames and mutex, keeps what ProveJob
\* promises: one answer, one prover, no unanswered close.
THEOREM Implementation == Spec => ImplementsProveJob
<1>. QED
  BY InitImplements, NextImplements, Invariance, PTL
     DEF Spec, ImplementsProveJob, Job!Spec

=============================================================================
