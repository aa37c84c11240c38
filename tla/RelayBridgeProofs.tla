------------------------- MODULE RelayBridgeProofs -------------------------
(***************************************************************************)
(* Proofs about RelayBridge, for any number of requests and sessions.       *)
(*                                                                         *)
(* The properties are about what the bridge has finished with, so the       *)
(* invariant says what is still ahead: a request that is not yet sent, or   *)
(* is waiting on the link, has never been near the local server (Ahead),    *)
(* and waits there once (Distinct).                                         *)
(***************************************************************************)
EXTENDS RelayBridge, TLAPS

Waiting(q) == \E i \in 1..Len(inbox) : inbox[i] = q

\* Requests that have not been taken are unknown to the local server.
Ahead ==
  \A q \in Requests :
    /\ owner[q] = 0 => ~Waiting(q) /\ cur # q /\ phase[q] = "idle"
    /\ Waiting(q) => phase[q] = "idle" /\ cur # q
    /\ cur = q /\ pc = "connect" => phase[q] = "idle"

Distinct ==
  \A i, j \in 1..Len(inbox) : inbox[i] = inbox[j] /\ inbox[i] \in Requests => i = j

OwnersKnown == \A q \in Requests : owner[q] <= sessions
SessionKnown == session <= sessions

Inv ==
  /\ TypeOK
  /\ NoLeakedConnection
  /\ Ahead
  /\ Distinct
  /\ OwnersKnown
  /\ SessionKnown

\* The local connection is only closed once the wallet has its answer, unless
\* the link or the wallet is gone, or a message was over the limit.
AnswersGiven ==
  pc = "hangup" /\ link = "up" /\ session = owner[cur]
    => Answered(cur) \/ cur \in large

-----------------------------------------------------------------------------
(* The inbox.                                                              *)

\* The bridge, or the loss of the link, takes from either end of the inbox.
Shrinks ==
  \E d \in Nat : \A i \in 1..Len(inbox)' :
    i + d \in 1..Len(inbox) /\ inbox'[i] = inbox[i + d]

\* Taking the first message.
LEMMA TailShrinks ==
  ASSUME NEW S, inbox \in Seq(S), inbox # <<>>, inbox' = Tail(inbox)
  PROVE  /\ Shrinks /\ inbox' \in Seq(S)
         /\ 1 \in 1..Len(inbox) /\ Head(inbox) = inbox[1] /\ Head(inbox) \in S
         /\ \A i \in 1..Len(inbox)' : i + 1 \in 1..Len(inbox) /\ i + 1 # 1
                                     /\ inbox'[i] = inbox[i + 1]
<1>1. \A i \in 1..Len(inbox)' : i + 1 \in 1..Len(inbox) /\ i + 1 # 1
                              /\ inbox'[i] = inbox[i + 1]
  OBVIOUS
<1>2. Shrinks
  BY <1>1 DEF Shrinks
<1>. QED
  BY <1>1, <1>2

\* Losing the last messages of a link that breaks.
LEMMA PrefixShrinks ==
  ASSUME NEW S, inbox \in Seq(S), NEW n \in 0..Len(inbox),
         inbox' = SubSeq(inbox, 1, n)
  PROVE  Shrinks /\ inbox' \in Seq(S)
<1>1. \A i \in 1..Len(inbox)' : i + 0 \in 1..Len(inbox) /\ inbox'[i] = inbox[i + 0]
  OBVIOUS
<1>. QED
  BY <1>1 DEF Shrinks

\* Losing all of them.
LEMMA EmptyShrinks ==
  ASSUME inbox' = <<>>
  PROVE  Shrinks
BY DEF Shrinks

\* A message that arrives is the last.
LEMMA AppendGrows ==
  ASSUME NEW S, inbox \in Seq(S), NEW m \in S, inbox' = Append(inbox, m)
  PROVE  /\ inbox' \in Seq(S)
         /\ Len(inbox)' = Len(inbox) + 1 /\ Len(inbox) \in Nat
         /\ inbox'[Len(inbox) + 1] = m
         /\ \A i \in 1..Len(inbox) : inbox'[i] = inbox[i]
OBVIOUS

\* What was not waiting is not waiting when the inbox shrinks, and what was
\* there once is there at most once.
LEMMA ShrinkFacts ==
  ASSUME Shrinks
  PROVE  /\ \A q : Waiting(q)' => Waiting(q)
         /\ Distinct => Distinct'
<1>1. PICK d \in Nat : \A i \in 1..Len(inbox)' :
        i + d \in 1..Len(inbox) /\ inbox'[i] = inbox[i + d]
  BY DEF Shrinks
<1>2. \A q : Waiting(q)' => Waiting(q)
  BY <1>1 DEF Waiting
<1>3. ASSUME Distinct
      PROVE  Distinct'
  <2>1. SUFFICES ASSUME NEW i \in 1..Len(inbox)', NEW j \in 1..Len(inbox)',
                        inbox'[i] = inbox'[j], inbox'[i] \in Requests
                 PROVE  i = j
    BY DEF Distinct
  <2>2. i + d = j + d
    BY <1>1, <1>3, <2>1 DEF Distinct
  <2>. QED
    BY <2>2
<1>. QED
  BY <1>2, <1>3

-----------------------------------------------------------------------------
(* Typing.                                                                 *)

\* What a write to the relay leaves alone.
LEMMA Written ==
  ASSUME TypeOK, NEW kind \in Kinds, cur \in Requests, ToRelay(kind)
  PROVE  /\ link' \in Links
         /\ link' = "up" => link = "up"
         /\ got' \in Seq([to : Sessions, for : Requests, kind : Kinds])
         /\ up' \in BOOLEAN
<1>. USE DEF TypeOK, Links
<1>1. CASE link = "up" /\ session # 0
  <2>1. [to |-> session, for |-> cur, kind |-> kind]
          \in [to : Sessions, for : Requests, kind : Kinds]
    BY <1>1
  <2>2. \A S, x : got \in Seq(S) /\ x \in S => Append(got, x) \in Seq(S)
    OBVIOUS
  <2>3. got' = Append(got, [to |-> session, for |-> cur, kind |-> kind])
    BY <1>1 DEF ToRelay
  <2>. QED
    BY <1>1, <2>1, <2>2, <2>3 DEF ToRelay
<1>2. CASE link # "up" \/ session = 0
  BY <1>2, BridgeAssumption DEF ToRelay
<1>. QED
  BY <1>1, <1>2

\* The inbox after the relay has sent m.
LEMMA Sent ==
  ASSUME TypeOK, NEW m \in Messages, ToHost(m)
  PROVE  /\ inbox' \in Seq(Messages)
         /\ inbox' = inbox \/ inbox' = Append(inbox, m)
BY DEF TypeOK, ToHost

\* 0 stands for no request, nor does what completes no message.
LEMMA Control == More \notin Requests \cup {0} /\ \A q \in Requests : q # 0 /\ q \in Nat
BY BridgeAssumption DEF Requests

\* A bridge that was not started has values of these types.
LEMMA InitTyped == Init => TypeOK
BY BridgeAssumption DEF Init, Local!Init, TypeOK, Requests, Sessions, Forwarding, Messages,
   Links

\* Every step keeps the types.
LEMMA TypedSteps ==
  ASSUME TypeOK, [Next]_vars
  PROVE  TypeOK'
<1>. USE DEF TypeOK, localVars, walletVars, Messages, Links, Reading
<1>0. Requests \subseteq Nat /\ 0 \notin Requests
  BY Control
<1>1. CASE UNCHANGED vars
  BY <1>1 DEF vars
<1>2. CASE WalletJoins
  <2>1. sessions' \in Sessions /\ session' \in Sessions
    BY <1>2, BridgeAssumption DEF WalletJoins, Sessions
  <2>2. inbox' \in Seq(Messages)
    BY <1>2, Sent DEF WalletJoins
  <2>. QED
    BY <1>2, <2>1, <2>2 DEF WalletJoins
<1>3. CASE WalletLeaves
  <2>1. inbox' \in Seq(Messages)
    BY <1>3, Sent DEF WalletLeaves
  <2>. QED
    BY <1>3, <2>1 DEF WalletLeaves
<1>4. ASSUME NEW q \in Requests, WalletSends(q)
      PROVE  TypeOK'
  <2>1. inbox' \in Seq(Messages)
    BY <1>4, Sent DEF WalletSends
  <2>. QED
    BY <1>4, <2>1 DEF WalletSends
<1>5. CASE LinkLost
  <2>1. PICK n \in 0..Len(inbox) : inbox' = SubSeq(inbox, 1, n)
    BY <1>5 DEF LinkLost
  <2>2. inbox' \in Seq(Messages)
    BY <2>1, PrefixShrinks
  <2>. QED
    BY <1>5, <2>2 DEF LinkLost
<1>13. CASE RelayFrame
  <2>1. inbox' \in Seq(Messages)
    BY <1>13 DEF RelayFrame
  <2>. QED
    BY <1>13, <2>1 DEF RelayFrame
<1>6. CASE LinkReset \/ Dial \/ Backoff \/ Greet \/ AnswerTooLarge
  BY <1>6 DEF LinkReset, Dial, Backoff, Greet, AnswerTooLarge, Forwarding
<1>7. CASE ReadFails \/ RefuseRequest \/ Ping
  <2>1. CASE Hangup /\ pc \in Reading
    <3>1. inbox' \in Seq(Messages)
      BY <2>1 DEF Hangup
    <3>. QED
      BY <2>1, <3>1 DEF Hangup, Forwarding
  <2>2. CASE Ping /\ ~Hangup
    BY <2>2 DEF Ping
  <2>. QED
    BY <1>7, <2>1, <2>2 DEF ReadFails, RefuseRequest, Ping
<1>8. CASE SkipControl \/ ReadOn \/ TakeRequest
  <2>1. inbox' \in Seq(Messages)
    BY <1>8, TailShrinks DEF SkipControl, ReadOn, TakeRequest
  <2>2. CASE SkipControl \/ ReadOn
    BY <2>1, <2>2 DEF SkipControl, ReadOn, Forwarding
  <2>3. CASE TakeRequest
    <3>1. 0 \in 0..MaxStatus /\ cur' \in Requests /\ cur' # 0
      BY <1>0, <2>3, BridgeAssumption DEF TakeRequest
    <3>. QED
      BY <2>1, <2>3, <3>1 DEF TakeRequest, Forwarding
  <2>. QED
    BY <1>8, <2>2, <2>3
<1>9. CASE LocalUnavailable \/ GreetFails \/ RelayStatus \/ RelayFinal
  <2>1. cur \in Requests
    BY <1>9 DEF LocalUnavailable, GreetFails, RelayStatus, RelayFinal, Forwarding
  <2>2. CASE LocalUnavailable
    BY <2>1, <2>2, Written DEF LocalUnavailable, Served, Forwarding, Kinds
  <2>3. CASE GreetFails
    BY <2>1, <2>3, Written DEF GreetFails, Served, Forwarding, Kinds
  <2>4. CASE RelayStatus
    BY <2>1, <2>4, Written, BridgeAssumption DEF RelayStatus, Kinds
  <2>5. CASE RelayFinal
    BY <2>1, <2>5, Written DEF RelayFinal, Forwarding, Kinds
  <2>. QED
    BY <1>9, <2>2, <2>3, <2>4, <2>5
<1>10. CASE LocalConnect
  BY <1>10 DEF LocalConnect, Local!Open, Forwarding
<1>11. CASE LocalClose
  <2>1. cur \in Requests
    BY <1>11 DEF LocalClose, Forwarding
  <2>. QED
    BY <1>11, <2>1 DEF LocalClose, Local!Leave, Served, Forwarding
<1>12. ASSUME NEW q \in Requests, LocalServer(q)
       PROVE  TypeOK'
  BY <1>12 DEF LocalServer, LocalAsk, LocalEnd, Local!Ask, Local!Enter, Local!Exit,
               Local!Answer, Local!Close, Local!Crash
<1>. QED
  BY <1>1, <1>2, <1>3, <1>4, <1>5, <1>6, <1>7, <1>8, <1>9, <1>10, <1>11, <1>12, <1>13
     DEF Next, Environment, Bridge, Stopped

-----------------------------------------------------------------------------
(* The steps.                                                              *)

\* Most steps only take from the inbox, finish with cur or leave it alone, and
\* know no request the local server did not know before.
Calm ==
  /\ inbox' = inbox \/ Shrinks
  /\ owner' = owner
  /\ cur' = 0 \/ (cur' = cur /\ (pc' = pc \/ pc' # "connect"))
  /\ \A q \in Requests : phase[q] = "idle" => phase'[q] = "idle"

\* Every step is calm, or one of these.
LEMMA StepCases ==
  ASSUME TypeOK, [Next]_vars
  PROVE  \/ Calm
         \/ WalletJoins \/ WalletLeaves \/ \E q \in Requests : WalletSends(q)
         \/ RelayFrame \/ TakeRequest \/ LocalConnect
<1>. USE DEF TypeOK, localVars, walletVars
<1>1. CASE UNCHANGED vars
  BY <1>1 DEF vars, Calm
<1>2. CASE LinkLost
  BY <1>2, PrefixShrinks DEF LinkLost, Calm
<1>3. CASE LinkReset \/ Dial \/ Backoff \/ Greet \/ AnswerTooLarge
  BY <1>3 DEF LinkReset, Dial, Backoff, Greet, AnswerTooLarge, Calm
<1>4. CASE ReadFails \/ RefuseRequest \/ Ping
  BY <1>4, EmptyShrinks DEF ReadFails, RefuseRequest, Ping, Hangup, Calm
<1>5. CASE SkipControl \/ ReadOn
  BY <1>5, TailShrinks DEF SkipControl, ReadOn, Calm
<1>6. CASE LocalUnavailable \/ GreetFails \/ RelayStatus \/ RelayFinal
  BY <1>6 DEF LocalUnavailable, GreetFails, RelayStatus, RelayFinal, Served, Calm
<1>7. CASE LocalClose
  BY <1>7 DEF LocalClose, Local!Leave, Served, Calm
<1>8. ASSUME NEW q \in Requests, LocalServer(q)
      PROVE  Calm
  BY <1>8 DEF LocalServer, LocalAsk, LocalEnd, Local!Ask, Local!Enter, Local!Exit,
              Local!Answer, Local!Close, Local!Crash, Calm
<1>. QED
  BY <1>1, <1>2, <1>3, <1>4, <1>5, <1>6, <1>7, <1>8
     DEF Next, Environment, Bridge, Stopped

\* When messages are only taken, no request begins to wait, and none is there twice.
LEMMA CalmWaiting ==
  ASSUME inbox' = inbox \/ Shrinks
  PROVE  (\A q : Waiting(q)' => Waiting(q)) /\ (Distinct => Distinct')
<1>1. CASE inbox' = inbox
  BY <1>1 DEF Waiting, Distinct
<1>. QED
  BY <1>1, ShrinkFacts

\* A message of the relay waits at the end, and everything else as before.
LEMMA SentWaiting ==
  ASSUME TypeOK, NEW m \in Messages, inbox' = inbox \/ inbox' = Append(inbox, m),
         m \in Requests => ~Waiting(m)
  PROVE  /\ \A q : Waiting(q)' => Waiting(q) \/ q = m
         /\ Distinct => Distinct'
<1>1. CASE inbox' = inbox
  BY <1>1 DEF Waiting, Distinct
<1>2. CASE inbox' = Append(inbox, m)
  <2>1. /\ Len(inbox)' = Len(inbox) + 1 /\ Len(inbox) \in Nat
        /\ inbox'[Len(inbox) + 1] = m
        /\ \A i \in 1..Len(inbox) : inbox'[i] = inbox[i]
    BY <1>2, AppendGrows DEF TypeOK
  <2>2. \A q : Waiting(q)' => Waiting(q) \/ q = m
    BY <2>1 DEF Waiting
  <2>3. Distinct => Distinct'
    BY <2>1 DEF Waiting, Distinct
  <2>. QED
    BY <2>2, <2>3
<1>. QED
  BY <1>1, <1>2

\* A request is taken once, and before that nobody has heard of it.
LEMMA AheadSteps ==
  ASSUME TypeOK, Ahead, Distinct, [Next]_vars
  PROVE  Ahead' /\ Distinct'
<1>. USE DEF TypeOK, localVars, walletVars
<1>0. 0 \notin Requests /\ More \notin Requests
  BY Control
<1>1. CASE Calm
  BY <1>0, <1>1, CalmWaiting DEF Calm, Ahead
<1>2. CASE WalletJoins \/ WalletLeaves
  <2>1. (\A q : Waiting(q)' => Waiting(q) \/ q = 0) /\ Distinct'
    BY <1>0, <1>2, Sent, SentWaiting DEF WalletJoins, WalletLeaves, Messages
  <2>. QED
    BY <1>0, <1>2, <2>1 DEF WalletJoins, WalletLeaves, Ahead
<1>6. CASE RelayFrame
  <2>1. (\A q : Waiting(q)' => Waiting(q) \/ q = More) /\ Distinct'
    BY <1>0, <1>6, SentWaiting DEF RelayFrame, Messages
  <2>. QED
    BY <1>0, <1>6, <2>1 DEF RelayFrame, Ahead
<1>3. ASSUME NEW r \in Requests, WalletSends(r)
      PROVE  Ahead' /\ Distinct'
  <2>1. owner[r] = 0 /\ ~Waiting(r) /\ cur # r /\ phase[r] = "idle"
    BY <1>3 DEF WalletSends, Ahead
  <2>2. (\A q : Waiting(q)' => Waiting(q) \/ q = r) /\ Distinct'
    BY <1>3, <2>1, Sent, SentWaiting DEF WalletSends, Messages
  <2>3. /\ owner'[r] # 0 /\ \A q \in Requests \ {r} : owner'[q] = owner[q]
        /\ UNCHANGED <<cur, pc, phase>>
    BY <1>3 DEF WalletSends
  <2>. QED
    BY <2>1, <2>2, <2>3 DEF Ahead
<1>4. CASE TakeRequest
  <2>1. /\ inbox # <<>> /\ inbox' = Tail(inbox) /\ cur' = Head(inbox)
        /\ cur' \in Requests /\ pc' = "connect" /\ UNCHANGED <<owner, phase>>
    BY <1>4 DEF TakeRequest
  <2>2. /\ Shrinks /\ 1 \in 1..Len(inbox) /\ cur' = inbox[1]
        /\ \A i \in 1..Len(inbox)' : i + 1 \in 1..Len(inbox) /\ i + 1 # 1
                                    /\ inbox'[i] = inbox[i + 1]
    BY <2>1, TailShrinks
  <2>3. (\A q : Waiting(q)' => Waiting(q)) /\ Distinct'
    BY <2>2, ShrinkFacts
  <2>4. Waiting(cur')
    BY <2>2 DEF Waiting
  <2>5. ~Waiting(cur)'
    BY <1>0, <2>1, <2>2 DEF Waiting, Distinct
  <2>. QED
    BY <2>1, <2>3, <2>4, <2>5 DEF Ahead
<1>5. CASE LocalConnect
  <2>1. /\ UNCHANGED <<inbox, cur, owner>> /\ pc' = "greet"
        /\ \A q \in Requests \ {cur} : phase'[q] = phase[q]
    BY <1>5 DEF LocalConnect, Local!Open
  <2>. QED
    BY <2>1 DEF Ahead, Distinct, Waiting
<1>. QED
  BY <1>1, <1>2, <1>3, <1>4, <1>5, <1>6, StepCases

\* Every return of forward_to_local has closed its socket, or opened none.
LEMMA LeakSteps ==
  ASSUME TypeOK, Ahead, NoLeakedConnection, [Next]_vars
  PROVE  NoLeakedConnection'
<1>. USE DEF TypeOK, localVars, walletVars, NoLeakedConnection, Reading
<1>1. CASE UNCHANGED vars
  BY <1>1 DEF vars
<1>2. CASE WalletJoins \/ WalletLeaves \/ RelayFrame \/ LinkLost \/ LinkReset
  BY <1>2 DEF WalletJoins, WalletLeaves, RelayFrame, LinkLost, LinkReset
<1>3. ASSUME NEW q \in Requests, WalletSends(q)
      PROVE  NoLeakedConnection'
  BY <1>3 DEF WalletSends
<1>4. CASE Dial \/ Backoff \/ ReadFails \/ Ping \/ ReadOn \/ SkipControl \/ RefuseRequest
           \/ TakeRequest
  BY <1>4 DEF Dial, Backoff, ReadFails, Ping, ReadOn, SkipControl, RefuseRequest,
              TakeRequest, Hangup, Forwarding
<1>5. CASE LocalUnavailable
  BY <1>5 DEF LocalUnavailable, Served, Ahead
<1>6. CASE LocalConnect
  BY <1>6 DEF LocalConnect, Local!Open, Forwarding
<1>7. CASE GreetFails
  BY <1>7 DEF GreetFails, Served
<1>8. CASE Greet \/ RelayStatus \/ RelayFinal \/ AnswerTooLarge
  BY <1>8 DEF Greet, RelayStatus, RelayFinal, AnswerTooLarge, Forwarding
<1>9. CASE LocalClose
  BY <1>9 DEF LocalClose, Local!Leave, Served
<1>10. ASSUME NEW q \in Requests, LocalServer(q)
       PROVE  NoLeakedConnection'
  BY <1>10 DEF LocalServer, LocalAsk, LocalEnd, Local!Ask, Local!Enter, Local!Exit,
               Local!Answer, Local!Close, Local!Crash
<1>. QED
  BY <1>1, <1>2, <1>3, <1>4, <1>5, <1>6, <1>7, <1>8, <1>9, <1>10
     DEF Next, Environment, Bridge, Stopped

\* Sessions are numbered as they come.
LEMMA SessionSteps ==
  ASSUME TypeOK, OwnersKnown, SessionKnown, [Next]_vars
  PROVE  OwnersKnown' /\ SessionKnown'
<1>. USE DEF TypeOK, localVars, walletVars, OwnersKnown, SessionKnown
<1>0. sessions \in Nat /\ session \in Nat /\ \A q \in Requests : owner[q] \in Nat
  BY BridgeAssumption DEF Sessions
<1>1. CASE WalletJoins
  BY <1>0, <1>1 DEF WalletJoins
<1>2. CASE WalletLeaves
  BY <1>0, <1>2 DEF WalletLeaves
<1>3. ASSUME NEW q \in Requests, WalletSends(q)
      PROVE  OwnersKnown' /\ SessionKnown'
  BY <1>0, <1>3 DEF WalletSends
<1>4. CASE UNCHANGED <<owner, session, sessions>>
  BY <1>4
<1>. QED
  BY <1>1, <1>2, <1>3, <1>4
     DEF Next, Environment, Bridge, Stopped, vars, RelayFrame, LinkLost, LinkReset, LocalServer,
         Dial, Backoff, ReadFails, Ping, ReadOn, SkipControl, RefuseRequest, Hangup,
         TakeRequest, LocalUnavailable, LocalConnect, GreetFails, Greet,
         RelayStatus, RelayFinal, AnswerTooLarge, LocalClose

-----------------------------------------------------------------------------
(* The theorems.                                                           *)

\* Before the first dial the invariant holds.
LEMMA InitInv == Init => Inv
<1>. SUFFICES ASSUME Init
              PROVE  Inv
  OBVIOUS
<1>1. TypeOK
  BY InitTyped
<1>2. 0 \notin Requests /\ \A q \in Requests : ~Waiting(q)
  BY Control DEF Init, Waiting
<1>3. Distinct
  BY DEF Init, Distinct
<1>. QED
  BY <1>1, <1>2, <1>3 DEF Init, Local!Init, Inv, NoLeakedConnection, Ahead,
                          OwnersKnown, SessionKnown

\* Every step keeps it.
LEMMA NextInv == Inv /\ [Next]_vars => Inv'
BY TypedSteps, AheadSteps, LeakSteps, SessionSteps DEF Inv

\* The invariant holds in every state of the bridge.
THEOREM Invariance == Spec => []Inv
BY InitInv, NextInv, PTL DEF Spec

\* Every variable keeps its type, and cur is set exactly while the bridge
\* forwards, for any number of requests and sessions.
THEOREM TypeCorrect == Spec => []TypeOK
<1>1. Inv => TypeOK
  BY DEF Inv
<1>. QED
  BY <1>1, Invariance, PTL

\* No path through forward_to_local leaks the socket it opened.
THEOREM LocalSocketsClosed == Spec => []NoLeakedConnection
<1>1. Inv => NoLeakedConnection
  BY DEF Inv
<1>. QED
  BY <1>1, Invariance, PTL

\* What ws_client_send gives to a wallet that is there is its answer.
LEMMA FinalDelivered ==
  ASSUME TypeOK, NEW q \in Requests, cur = q, owner[q] # 0, session = owner[q],
         ToRelay("final"), link' = "up"
  PROVE  Answered(q)'
<1>1. got' = Append(got, [to |-> session, for |-> q, kind |-> "final"])
  BY DEF ToRelay
<1>2. /\ Len(got)' = Len(got) + 1 /\ Len(got) \in Nat
      /\ got'[Len(got) + 1] = [to |-> session, for |-> q, kind |-> "final"]
  BY <1>1 DEF TypeOK
<1>. QED
  BY <1>2 DEF Answered

\* A wallet keeps its answers.
LEMMA AnswersKept ==
  ASSUME TypeOK, NEW q \in Requests, Answered(q), NEW x,
         got' = got \/ got' = Append(got, x)
  PROVE  Answered(q)'
<1>1. /\ Len(got)' = Len(got) \/ Len(got)' = Len(got) + 1
      /\ Len(got) \in Nat
      /\ \A i \in 1..Len(got) : got'[i] = got[i]
  BY DEF TypeOK
<1>. QED
  BY <1>1 DEF Answered

\* The bridge closes a local connection that has answered only after it has
\* passed the answer on.
LEMMA AnswersSteps ==
  ASSUME Inv, AnswersGiven, [Next]_vars
  PROVE  AnswersGiven'
<1>. USE DEF TypeOK, localVars, walletVars, Reading
<1>0. TypeOK /\ TypeOK' /\ 0 \notin Requests
  BY NextInv, Control DEF Inv
<1>1. SUFFICES ASSUME pc' = "hangup", link' = "up", session' = owner'[cur']
               PROVE  Answered(cur)' \/ cur' \in large'
  BY DEF AnswersGiven
<1>2. CASE pc = "hangup" /\ UNCHANGED <<cur, got, link, session, owner, large>>
  BY <1>1, <1>2 DEF AnswersGiven, Answered
<1>3. cur' \in Requests
  BY <1>0, <1>1 DEF Forwarding
<1>4. CASE RelayFinal
  <2>1. cur' = cur /\ owner[cur] # 0 /\ session = owner[cur] /\ ToRelay("final")
    BY <1>1, <1>3, <1>4 DEF RelayFinal, Inv, Ahead
  <2>. QED
    BY <1>0, <1>1, <1>3, <2>1, FinalDelivered DEF Answered
<1>5. CASE WalletJoins
  <2>1. owner[cur] <= sessions /\ session' = sessions + 1 /\ UNCHANGED <<cur, owner>>
    BY <1>3, <1>5 DEF WalletJoins, Inv, OwnersKnown
  <2>2. sessions \in Nat /\ owner[cur] \in Nat
    BY <1>0, <1>3, <2>1, BridgeAssumption DEF Sessions
  <2>3. owner[cur] = sessions + 1
    BY <1>1, <2>1
  <2>. QED
    BY <2>1, <2>2, <2>3
<1>6. CASE WalletLeaves
  <2>1. owner[cur] # 0 /\ session' = 0 /\ UNCHANGED <<cur, owner>>
    BY <1>3, <1>6 DEF WalletLeaves, Inv, Ahead
  <2>. QED
    BY <1>1, <2>1
<1>7. ASSUME NEW q \in Requests, WalletSends(q)
      PROVE  Answered(cur)' \/ cur' \in large'
  <2>1. /\ UNCHANGED <<pc, link, cur, got, session>> /\ cur # q
        /\ large \subseteq large'
        /\ owner'[cur] = owner[cur]
    BY <1>0, <1>1, <1>3, <1>7 DEF WalletSends, Inv, Ahead
  <2>. QED
    BY <1>1, <2>1 DEF AnswersGiven, Answered
<1>8. CASE UNCHANGED vars
  BY <1>1, <1>2, <1>8 DEF vars
<1>9. CASE RelayFrame \/ LinkLost \/ LinkReset
  BY <1>1, <1>2, <1>9 DEF RelayFrame, LinkLost, LinkReset
<1>10. ASSUME NEW q \in Requests, LocalServer(q)
       PROVE  Answered(cur)' \/ cur' \in large'
  BY <1>1, <1>2, <1>10 DEF LocalServer
<1>. QED
  BY <1>1, <1>2, <1>4, <1>5, <1>6, <1>7, <1>8, <1>9, <1>10
     DEF Next, Environment, Bridge, Stopped, Dial, Backoff, ReadFails, Ping,
         ReadOn, SkipControl, RefuseRequest, Hangup, TakeRequest, LocalUnavailable,
         LocalConnect, GreetFails, Greet, RelayStatus, AnswerTooLarge, LocalClose,
         Served

\* No request of a wallet that stays over a link that stays is dropped without
\* an answer, whatever fails locally, if its messages are within the limits.
THEOREM NoneDropped == Spec => OnlyLargeDropped
<1>1. Init => AnswersGiven
  BY DEF Init, AnswersGiven
<1>2. Inv /\ AnswersGiven /\ [Next]_vars => AnswersGiven'
  BY AnswersSteps
<1>3. Inv /\ AnswersGiven /\ [Next]_vars =>
        [\A q \in Requests : TurnsFrom(q) => Answered(q)' \/ q \in large]_vars
  <2>. SUFFICES ASSUME Inv, AnswersGiven, Next, NEW q \in Requests,
                       cur = q, cur' = 0, link' = "up", session = owner[q]
                PROVE  Answered(q)' \/ q \in large
    BY DEF TurnsFrom
  <2>0. TypeOK /\ q # 0 /\ owner[q] # 0 /\ 0 \notin Requests
    BY Control DEF Inv, Ahead
  <2>1. CASE LocalUnavailable \/ GreetFails
    BY <2>0, <2>1, FinalDelivered DEF LocalUnavailable, GreetFails
  <2>2. CASE LocalClose
    BY <2>2 DEF LocalClose, AnswersGiven, Answered
  <2>3. \/ cur' = cur \/ cur' \in Requests
        \/ LocalUnavailable \/ GreetFails \/ LocalClose
    BY DEF Next, Environment, Bridge, Stopped, vars, walletVars, WalletJoins,
           WalletLeaves, RelayFrame, LinkLost, LinkReset, WalletSends, LocalServer, Dial,
           Backoff, ReadFails, Ping, ReadOn, SkipControl, RefuseRequest, Hangup,
           TakeRequest, LocalConnect, Greet, RelayStatus, RelayFinal,
           AnswerTooLarge
  <2>. QED
    BY <2>0, <2>1, <2>2, <2>3
<1>. QED
  BY <1>1, <1>2, <1>3, Invariance, PTL DEF Spec, OnlyLargeDropped

=============================================================================
