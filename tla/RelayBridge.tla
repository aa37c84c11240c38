---------------------------- MODULE RelayBridge ----------------------------
(***************************************************************************)
(* The relay bridge, class RelayBridge of src/src/relay_bridge.hpp: one     *)
(* thread that dials the relay as host, takes the requests of a remote      *)
(* wallet from there, has each of them served over a connection of its own  *)
(* to the local /prove, and hands what it reads there back to the relay.    *)
(*                                                                         *)
(* The local server is the abstract service ProveJob, whose connections are *)
(* here the requests; ProveService is shown to implement it.  The relay is  *)
(* external: it hands a message to the other party if that one is           *)
(* connected, and takes what is written to it.  stop() is only called when  *)
(* a pairing is replaced, and is not modelled here.                         *)
(***************************************************************************)
EXTENDS Naturals, Sequences

CONSTANTS MaxRequests,  \* bound: requests the wallets send
          MaxSessions,  \* bound: times a wallet connects to the room
          MaxStatus,    \* bound: status messages of one request
          BigMessages,  \* requests and results of more than 10 MB occur
          SigPipe,      \* POSIX build: a write to a reset link may raise SIGPIPE
          None,         \* nobody has the local prover
          More          \* what completes no message: a ping or a pong of the
                        \* relay, or the first part of a message

ASSUME BridgeAssumption ==
  /\ MaxRequests \in Nat /\ MaxSessions \in Nat /\ MaxStatus \in Nat
  /\ BigMessages \in BOOLEAN /\ SigPipe \in BOOLEAN
  /\ None \notin Nat /\ More \notin Nat

VARIABLES pc,        \* where the bridge thread is
          link,      \* its TLS connection to the relay
          inbox,     \* what the relay has sent on it: requests, 0 for a control
                     \* message (peer_connected, peer_disconnected), and More
          cur,       \* the request it forwards, or 0
          statuses,  \* status messages of that request
          session,   \* the wallet's connection to the room, or 0
          sessions,  \* wallet connections so far
          owner,     \* the session each request was sent in, 0 if not yet
          large,     \* the requests with a message of more than 10 MB
          got,       \* what the wallets received
          up, prover, asked, gone, phase  \* the local server: see ProveJob

localVars == <<up, prover, asked, gone, phase>>
walletVars == <<session, sessions, owner, large>>
vars == <<pc, link, inbox, cur, statuses, walletVars, got, localVars>>

Requests == 1..MaxRequests
Sessions == 1..MaxSessions
Kinds == {"status", "final"}

Local == INSTANCE ProveJob WITH Conns <- Requests

\* In select() of the serve loop, or in ws_client_read, which goes on reading
\* after what completes no message.
Reading == {"serve", "read"}
Forwarding == {"connect", "greet", "relaying", "hangup"}

\* The link is "shut" when the next read of it fails, and "reset" when writes
\* fail too.  It is "silent" when nothing comes any more and nobody is told,
\* and "unacked" when something was written to it since, which TCP gives up in
\* the end.
Links == {"none", "up", "shut", "silent", "unacked", "reset"}
Messages == Requests \cup {0, More}

TypeOK ==
  /\ pc \in {"dial", "handshake", "backoff"} \cup Reading \cup Forwarding
  /\ link \in Links
  /\ inbox \in Seq(Messages)
  /\ cur \in Requests \cup {0} /\ (cur # 0 <=> pc \in Forwarding)
  /\ statuses \in 0..MaxStatus
  /\ session \in Sessions \cup {0} /\ sessions \in Sessions \cup {0}
  /\ owner \in [Requests -> Sessions \cup {0}]
  /\ large \in SUBSET Requests
  /\ got \in Seq([to : Sessions, for : Requests, kind : Kinds])
  /\ up \in BOOLEAN
  /\ prover \in Requests \cup {None}
  /\ asked \in SUBSET Requests /\ gone \in SUBSET Requests
  /\ phase \in [Requests -> {"idle", "open", "answered", "closed"}]

Init ==
  /\ pc = "dial" /\ link = "none" /\ inbox = <<>> /\ cur = 0 /\ statuses = 0
  /\ session = 0 /\ sessions = 0 /\ large = {} /\ got = <<>>
  /\ owner = [q \in Requests |-> 0]
  /\ Local!Init

-----------------------------------------------------------------------------
(* The wallets, the relay and the network.                                 *)

\* The relay tells the host who comes and goes, and passes requests on.
ToHost(m) == inbox' = IF link = "up" THEN Append(inbox, m) ELSE inbox

WalletJoins ==
  /\ up /\ session = 0 /\ sessions < MaxSessions
  /\ sessions' = sessions + 1 /\ session' = sessions + 1
  /\ ToHost(0)
  /\ UNCHANGED <<pc, link, cur, statuses, owner, large, got, localVars>>

WalletLeaves ==
  /\ up /\ session # 0
  /\ session' = 0
  /\ ToHost(0)
  /\ UNCHANGED <<pc, link, cur, statuses, sessions, owner, large, got, localVars>>

\* Requests are numbered in the order they are sent.
WalletSends(q) ==
  /\ up /\ session # 0 /\ owner[q] = 0
  /\ \A r \in Requests : r < q => owner[r] # 0
  /\ owner' = [owner EXCEPT ![q] = session]
  /\ large' \in {large} \cup IF BigMessages THEN {large \cup {q}} ELSE {}
  /\ ToHost(q)
  /\ UNCHANGED <<pc, link, cur, statuses, session, sessions, got, localVars>>

\* A ping or a pong of the relay, or the first part of a message.  One that
\* comes while the bridge reads on, or beside another, would change nothing.
RelayFrame ==
  /\ up /\ link = "up" /\ pc # "read"
  /\ \A i \in 1..Len(inbox) : inbox[i] # More
  /\ inbox' = Append(inbox, More)
  /\ UNCHANGED <<pc, link, cur, statuses, walletVars, got, localVars>>

\* The relay or the network drops the link, and with it some of what was on
\* its way.
LinkLost ==
  /\ up /\ link = "up"
  /\ link' \in {"shut", "reset", "silent"}
  /\ \E n \in 0..Len(inbox) : inbox' = SubSeq(inbox, 1, n)
  /\ UNCHANGED <<pc, cur, statuses, walletVars, got, localVars>>

\* What was written is not acknowledged.
LinkReset ==
  /\ up /\ link = "unacked"
  /\ link' = "reset"
  /\ UNCHANGED <<pc, inbox, cur, statuses, walletVars, got, localVars>>

-----------------------------------------------------------------------------
(* The bridge thread.                                                      *)

\* connect_and_serve: TLS connect and WebSocket handshake.  Its reads have no
\* time limit: a peer that falls silent there keeps the thread for ever.
Dial ==
  /\ up /\ pc = "dial"
  /\ \/ pc' = "serve" /\ link' = "up"
     \/ pc' = "backoff" /\ UNCHANGED link
     \/ pc' = "handshake" /\ link' = "silent"
  /\ UNCHANGED <<inbox, cur, statuses, walletVars, got, localVars>>

\* run_loop: the pause before the next attempt.
Backoff ==
  /\ up /\ pc = "backoff"
  /\ pc' = "dial"
  /\ UNCHANGED <<link, inbox, cur, statuses, walletVars, got, localVars>>

\* Wrong on purpose: continue, where the code breaks.
HangupContinues ==
  /\ inbox' = <<>>
  /\ UNCHANGED <<pc, link, cur, statuses, walletVars, got, localVars>>

\* The serve loop ends: tls_close, and whatever was on the link is gone.
Hangup ==
  /\ pc' = "backoff" /\ link' = "none" /\ inbox' = <<>>
  /\ UNCHANGED <<cur, statuses, walletVars, got, localVars>>

ReadFails ==
  /\ up /\ pc \in Reading /\ inbox = <<>> /\ link \in {"shut", "reset"}
  /\ Hangup

\* The select() of the serve loop has timed out, and a ping is written to a link
\* that is down.
Ping ==
  /\ up /\ pc = "serve"
  /\ \/ /\ link \in {"silent", "shut"}
        /\ link' = IF link = "silent" THEN "unacked" ELSE "reset"
        /\ UNCHANGED <<pc, inbox, cur, statuses, walletVars, got, localVars>>
     \/ link = "reset" /\ Hangup
     \/ /\ link = "reset" /\ SigPipe /\ up' = FALSE
        /\ UNCHANGED <<pc, link, inbox, cur, statuses, walletVars, got, prover,
                       asked, gone, phase>>

\* ws_client_read takes it and waits for what follows, without a time limit
\* and without pings.
ReadOn ==
  /\ up /\ pc \in Reading /\ inbox # <<>> /\ Head(inbox) = More
  /\ pc' = "read" /\ inbox' = Tail(inbox)
  /\ UNCHANGED <<link, cur, statuses, walletVars, got, localVars>>

\* peer_connected and peer_disconnected are logged, and nothing else.
SkipControl ==
  /\ up /\ pc \in Reading /\ inbox # <<>> /\ Head(inbox) = 0
  /\ pc' = "serve" /\ inbox' = Tail(inbox)
  /\ UNCHANGED <<link, cur, statuses, walletVars, got, localVars>>

\* ws_client_read gives up on a message of more than 10 MB, which ends the
\* serve loop as a lost link does.
RefuseRequest ==
  /\ up /\ pc \in Reading /\ inbox # <<>> /\ Head(inbox) \in large
  /\ Hangup

\* Wrong on purpose: the bridge looks again until a wallet is in the room.
TakeRequestInRoom ==
  /\ up /\ pc \in Reading /\ inbox # <<>> /\ Head(inbox) \in Requests \ large
  /\ \/ session = 0 /\ UNCHANGED vars
     \/ /\ session # 0
        /\ pc' = "connect" /\ cur' = Head(inbox) /\ inbox' = Tail(inbox)
        /\ statuses' = 0
        /\ UNCHANGED <<link, walletVars, got, localVars>>

TakeRequest ==
  /\ up /\ pc \in Reading /\ inbox # <<>> /\ Head(inbox) \in Requests \ large
  /\ pc' = "connect" /\ cur' = Head(inbox) /\ inbox' = Tail(inbox)
  /\ statuses' = 0
  /\ UNCHANGED <<link, walletVars, got, localVars>>

\* ws_client_send of a message about cur.  What it returns is ignored; the
\* relay has nobody to give it to when no wallet is in the room, and gives it
\* to the one that is there, otherwise.
ToRelay(kind) ==
  \/ /\ link = "up"
     /\ got' = IF session = 0 THEN got
               ELSE Append(got, [to |-> session, for |-> cur, kind |-> kind])
     /\ UNCHANGED <<up, link>>
  \/ /\ link = "shut"
     /\ link' \in {"shut", "reset"}
     /\ UNCHANGED <<up, got>>
  \/ /\ link \in {"silent", "unacked"}
     /\ link' = "unacked"
     /\ UNCHANGED <<up, got>>
  \/ /\ link = "reset"
     /\ up' \in {TRUE, ~SigPipe}
     /\ UNCHANGED <<link, got>>

\* Wrong on purpose: the served request is remembered.
ServedStill == pc' = "serve" /\ UNCHANGED cur

\* Back to the serve loop.
Served == pc' = "serve" /\ cur' = 0

\* Wrong on purpose: the wallet is not told.
LocalUnavailableSilent ==
  /\ up /\ pc = "connect"
  /\ Served
  /\ UNCHANGED <<link, inbox, statuses, walletVars, got, localVars>>

\* forward_to_local: connect() fails, and the wallet is told.
LocalUnavailable ==
  /\ up /\ pc = "connect"
  /\ ToRelay("final")
  /\ Served
  /\ UNCHANGED <<inbox, statuses, walletVars, prover, asked, gone, phase>>

LocalConnect ==
  /\ up /\ pc = "connect"
  /\ Local!Open(cur)
  /\ pc' = "greet"
  /\ UNCHANGED <<link, inbox, cur, statuses, walletVars, got>>

\* Wrong on purpose: the socket stays open.
GreetFailsOpen ==
  /\ up /\ pc = "greet"
  /\ ToRelay("final")
  /\ Served
  /\ UNCHANGED <<inbox, statuses, walletVars, prover, asked, gone, phase>>

\* The WebSocket handshake or the send of the request fails: the socket is
\* closed and the wallet is told.
GreetFails ==
  /\ up /\ pc = "greet"
  /\ gone' = gone \cup {cur}
  /\ ToRelay("final")
  /\ Served
  /\ UNCHANGED <<inbox, statuses, walletVars, prover, asked, phase>>

Greet ==
  /\ up /\ pc = "greet"
  /\ pc' = "relaying"
  /\ UNCHANGED <<link, inbox, cur, statuses, walletVars, got, localVars>>

RelayStatus ==
  /\ up /\ pc = "relaying" /\ cur \in asked /\ statuses < MaxStatus
  /\ statuses' = statuses + 1
  /\ ToRelay("status")
  /\ UNCHANGED <<pc, inbox, cur, walletVars, prover, asked, gone, phase>>

\* The local server has sent the result or the error of cur.
AnswerReady == cur \in asked /\ phase[cur] \in {"answered", "closed"}

RelayFinal ==
  /\ up /\ pc = "relaying" /\ AnswerReady
  /\ pc' = "hangup"
  /\ ToRelay("final")
  /\ UNCHANGED <<inbox, cur, statuses, walletVars, prover, asked, gone, phase>>

\* local_ws_read gives up on a message of more than 10 MB; the wallet is not
\* told.
AnswerTooLarge ==
  /\ up /\ pc = "relaying" /\ AnswerReady /\ BigMessages
  /\ pc' = "hangup"
  /\ large' = large \cup {cur}
  /\ UNCHANGED <<link, inbox, cur, statuses, session, sessions, owner, got,
                 localVars>>

LocalClose ==
  /\ up /\ pc = "hangup"
  /\ Local!Leave(cur)
  /\ Served
  /\ UNCHANGED <<link, inbox, statuses, walletVars, got>>

-----------------------------------------------------------------------------
(* The local server, as ProveJob promises; it has read a request once the   *)
(* bridge has sent it, and does not refuse it.                              *)

LocalAsk(q) == cur = q /\ pc = "relaying" /\ Local!Ask(q)
LocalEnd(q) == q \in asked \cup gone /\ Local!Close(q)

LocalServer(q) ==
  /\ \/ LocalAsk(q) \/ Local!Enter(q) \/ Local!Exit(q) \/ Local!Answer(q)
     \/ LocalEnd(q) \/ Local!Crash(q)
  /\ UNCHANGED <<pc, link, inbox, cur, statuses, walletVars, got>>

Environment ==
  \/ WalletJoins \/ WalletLeaves \/ RelayFrame \/ LinkLost \/ LinkReset
  \/ \E q \in Requests : WalletSends(q) \/ LocalServer(q)

Bridge ==
  \/ Dial \/ Backoff \/ ReadFails \/ Ping \/ ReadOn \/ SkipControl
  \/ RefuseRequest \/ TakeRequest \/ LocalUnavailable \/ LocalConnect \/ GreetFails \/ Greet
  \/ RelayStatus \/ RelayFinal \/ AnswerTooLarge \/ LocalClose

\* The bridge waits for more of a message, or of the handshake, on a link that
\* has fallen silent: TCP has nothing to give up, and no ping is sent from there
\* (relay_bridge.hpp:162).
Deaf == link = "silent" /\ pc \in {"handshake", "read"} /\ inbox = <<>>

\* The bridge runs until its process dies, or it is deaf.
Stopped == (~up \/ Deaf) /\ UNCHANGED vars

Next == Environment \/ Bridge \/ Stopped

\* The bridge thread runs, and need not die; TCP gives up what a lost peer does
\* not acknowledge.  Of the local server no more is assumed than that it lets a
\* connection come to "relaying" or fail, for which a thread of its own suffices.
Fairness == WF_vars(Bridge /\ up') /\ WF_vars(LinkReset)

Spec == Init /\ [][Next]_vars /\ Fairness

-----------------------------------------------------------------------------
(* Properties.                                                             *)

Answered(q) == \E i \in 1..Len(got) : got[i].for = q /\ got[i].kind = "final"

\* Of the connections to the local server that the bridge opened, only the
\* one it is serving is not yet closed: no return of forward_to_local leaks a
\* socket, and no request is left behind in the local server.
NoLeakedConnection ==
  \A q \in Requests :
    phase[q] # "idle" /\ q \notin gone => cur = q /\ pc \in Forwarding

\* The bridge turns from a request whose wallet is still in the room, over a
\* link that is still up.
TurnsFrom(q) == cur = q /\ cur' = 0 /\ link' = "up" /\ session = owner[q]

\* It has then answered the request.
NoDroppedRequest ==
  [][\A q \in Requests : TurnsFrom(q) => Answered(q)']_vars

\* It has then answered the request, whatever failed on the way, unless a
\* message was over the limit.
OnlyLargeDropped ==
  [][\A q \in Requests : TurnsFrom(q) => Answered(q)' \/ q \in large]_vars

\* A wallet receives the frames of its own requests only.
NoForeignFrame == \A i \in 1..Len(got) : got[i].to = owner[got[i].for]

\* forward_to_local waits for a local server that has not answered: its job is
\* held up, in the cases that JobsAnswered of ProveService leaves out, or its
\* recorder hangs.  That read has no time limit (relay_bridge.hpp:377).
LocalWaits == pc = "relaying" /\ ~AnswerReady

\* A bridge that has lost the relay dials it again, whatever it was doing, unless
\* it is deaf, or the local server never answers it.
Reconnects ==
  \/ <>[]LocalWaits
  \/ link \notin {"none", "up"} ~> (pc = "dial" \/ ~up \/ Deaf)

\* What a link delivers is taken from it, or the link goes down, unless the
\* local server never answers.
InboxServed ==
  \/ <>[]LocalWaits
  \/ \A q \in Requests :
       (\E i \in 1..Len(inbox) : inbox[i] = q)
         ~> (~(\E i \in 1..Len(inbox) : inbox[i] = q) \/ ~up)

=============================================================================
