---------------------------- MODULE ProveService ----------------------------
(***************************************************************************)
(* The proving service: src/src/server.hpp (one detached thread per         *)
(* accepted connection) and the handlers of src/main.cpp, which share       *)
(* prover_mutex and one process.                                            *)
(*                                                                         *)
(* A thread is a program counter, pc[c], and the straight-line code it has  *)
(* still to run before pc[c] decides again, todo[c]: a sequence of frames   *)
(* to send and of "unlock" marks where the lock_guard of prover_mutex goes  *)
(* out of scope.  Where a handler sends under the mutex and where it sends  *)
(* after releasing it is thereby the order of the items in todo[c].         *)
(*                                                                         *)
(* Data is abstracted: what a message holds is the class of the request and *)
(* the choices made where the code inspects it.                             *)
(***************************************************************************)
EXTENDS Naturals, Sequences

CONSTANTS Conns,          \* the connections clients ever open
          None,           \* no thread holds prover_mutex
          Requests,       \* the request classes clients send
          SigPipe,        \* POSIX build: a send to a reset peer raises SIGPIPE
          ThreadsShort,   \* the system may have no thread left to start
          MaxRecorded,    \* bound: status lines of one TLS recording
          MaxCount        \* bound: range proofs of one benchmark (10 in code)

\* "malformed" has no request line, or upgrades without a Sec-WebSocket-Key.
\* Requests answered without a body and without the mutex: OPTIONS, /health,
\* /test/keygen, the 404 of every other path, the 400 of an empty /decrypt.
Simple == {"health"}
WithBody == {"decrypt", "benchmark"}
\* The operations that report progress, with their number of status messages
\* (unshield is stealth); "standalone" stands for decrypt, encrypt,
\* range_proof, zero_proof, commit and ct_sub, and for an unknown operation.
StatusCount == [shield |-> 3, stealth |-> 7, claim |-> 4]
Staged == {"shield", "stealth", "claim"}
ProverOps == Staged \cup {"standalone"}
\* "oversized" is a message ws_read_text refuses, "hugePing" a ping that
\* announces more than can be allocated, "wrapping" a fragment whose announced
\* length takes the length of the message past 2^64; "mistyped" is JSON that is
\* no object or has a field of the wrong type.
Misframed == {"oversized", "hugePing", "wrapping"}
WsRequests == ProverOps \cup Misframed \cup {"badJson", "mistyped", "zktls"}
AllRequests == {"malformed"} \cup Simple \cup WithBody \cup WsRequests

ASSUME ServiceAssumption ==
  /\ Requests \subseteq AllRequests
  /\ None \notin Conns
  /\ SigPipe \in BOOLEAN /\ ThreadsShort \in BOOLEAN
  /\ MaxRecorded \in Nat
  /\ MaxCount \in Nat \ {0}

VARIABLES alive,   \* the process runs
          lock,    \* the connection whose thread holds prover_mutex, or None
          pc,      \* where each connection's thread is
          todo,    \* the straight-line code the thread runs before that
          peer,    \* the client's end of each connection
          req,     \* the class of the client's request
          sent,    \* parts of the request the client has sent: header, message
          asked,   \* connections whose request a handler has read completely
          got      \* the frames handed to the client's connection

vars == <<alive, lock, pc, todo, peer, req, sent, asked, got>>

Frames == {"switch", "status", "result", "error", "close",
           "response", "head", "progress", "summary", "end"}
Items == Frames \cup {"unlock"}
\* The frames that tell the client how its request ended.
Finals == {"result", "error", "response", "end"}

LockedPcs == {"initKeys", "operate", "decrypting", "benchKeygen", "benching"}
Pcs == LockedPcs \cup {"idle", "backlog", "header", "wsRead", "body",
                       "waitLock", "recording", "recorded", "closing", "done"}

Has(s, F) == \E i \in 1..Len(s) : s[i] \in F
Statuses(n) == [i \in 1..n |-> "status"]
Progresses(n) == [i \in 1..n |-> "progress"]

Gone(c) == peer[c] \in {"left", "reset"}
Ended(c) == pc[c] = "done"
Answered(c) == Has(got[c], Finals)

TypeOK ==
  /\ alive \in BOOLEAN
  /\ lock \in Conns \cup {None}
  /\ pc \in [Conns -> Pcs]
  /\ todo \in [Conns -> Seq(Items)]
  /\ peer \in [Conns -> {"none", "open", "stalled", "left", "reset"}]
  /\ req \in [Conns -> AllRequests]
  /\ sent \in [Conns -> 0..2]
  /\ asked \in SUBSET Conns
  /\ got \in [Conns -> Seq(Frames)]

Init ==
  /\ alive = TRUE
  /\ lock = None
  /\ pc = [c \in Conns |-> "idle"]
  /\ todo = [c \in Conns |-> <<>>]
  /\ peer = [c \in Conns |-> "none"]
  /\ req \in [Conns -> Requests]
  /\ sent = [c \in Conns |-> 0]
  /\ asked = {}
  /\ got = [c \in Conns |-> <<>>]

-----------------------------------------------------------------------------
(* The clients: wallets, the relay bridge, the tray app.                   *)

Connect(c) ==
  /\ alive /\ pc[c] = "idle"
  /\ pc' = [pc EXCEPT ![c] = "backlog"]
  /\ peer' = [peer EXCEPT ![c] = "open"]
  /\ UNCHANGED <<alive, lock, todo, req, sent, asked, got>>

\* The header, and then the body or the WebSocket message; a WebSocket client
\* speaks once it has been told that the protocol was switched.
ClientSend(c) ==
  /\ alive /\ peer[c] = "open"
  /\ \/ sent[c] = 0
     \/ sent[c] = 1 /\ req[c] \in WithBody
     \/ sent[c] = 1 /\ req[c] \in WsRequests /\ Has(got[c], {"switch"})
  /\ sent' = [sent EXCEPT ![c] = @ + 1]
  /\ UNCHANGED <<alive, lock, pc, todo, peer, req, asked, got>>

\* The client stays connected but no longer drains its socket.
ClientStall(c) ==
  /\ alive /\ peer[c] = "open"
  /\ peer' = [peer EXCEPT ![c] = "stalled"]
  /\ UNCHANGED <<alive, lock, pc, todo, req, sent, asked, got>>

ClientResume(c) ==
  /\ alive /\ peer[c] = "stalled"
  /\ peer' = [peer EXCEPT ![c] = "open"]
  /\ UNCHANGED <<alive, lock, pc, todo, req, sent, asked, got>>

ClientLeave(c) ==
  /\ alive /\ peer[c] \in {"open", "stalled"}
  /\ peer' = [peer EXCEPT ![c] = "left"]
  /\ UNCHANGED <<alive, lock, pc, todo, req, sent, asked, got>>

-----------------------------------------------------------------------------
(* The connection threads.                                                 *)

\* The thread of c decides at p once its straight-line code has run.
At(c, p) == alive /\ pc[c] = p /\ todo[c] = <<>>

\* Run s, then decide at p.
Continue(c, s, p) ==
  /\ pc' = [pc EXCEPT ![c] = p]
  /\ todo' = [todo EXCEPT ![c] = s]

\* Run s, then return to handle_connection, which closes the socket.
Return(c, s) == Continue(c, s, "closing")

\* One send().  It goes through while the client is connected; the first one
\* after the client left is answered by a reset; a later one raises SIGPIPE,
\* whose default action ends the process, where the platform has that signal.
\* Every handler ignores what send() returns.
Send(c, f) ==
  \/ /\ peer[c] \in {"open", "stalled"}
     /\ got' = [got EXCEPT ![c] = Append(@, f)]
     /\ UNCHANGED <<alive, peer>>
  \/ /\ peer[c] = "left"
     /\ \E p \in {"left", "reset"} : peer' = [peer EXCEPT ![c] = p]
     /\ UNCHANGED <<alive, got>>
  \/ /\ peer[c] = "reset"
     /\ alive' = ~SigPipe
     /\ UNCHANGED <<peer, got>>

SendNext(c) ==
  /\ alive /\ todo[c] # <<>> /\ Head(todo[c]) # "unlock"
  /\ Send(c, Head(todo[c]))
  /\ todo' = [todo EXCEPT ![c] = Tail(@)]
  /\ UNCHANGED <<lock, pc, req, sent, asked>>

\* ~lock_guard
Unlock(c) ==
  /\ alive /\ todo[c] # <<>> /\ Head(todo[c]) = "unlock"
  /\ lock' = None
  /\ todo' = [todo EXCEPT ![c] = Tail(@)]
  /\ UNCHANGED <<alive, pc, peer, req, sent, asked, got>>

\* Server::run
Accept(c) ==
  /\ At(c, "backlog")
  /\ Continue(c, <<>>, "header")
  /\ UNCHANGED <<alive, lock, peer, req, sent, asked, got>>

\* Wrong on purpose: the simple endpoints, too, wait for the mutex.
AnswerSimpleLocked(c) ==
  /\ At(c, "header") /\ req[c] \in Simple /\ lock = None
  /\ sent[c] > 0 \/ Gone(c)
  /\ asked' = asked \cup {c}
  /\ Return(c, <<"response">>)
  /\ UNCHANGED <<alive, lock, peer, req, sent, got>>

\* handle_http: no body to read, no mutex to wait for.
AnswerSimple(c) ==
  /\ At(c, "header") /\ req[c] \in Simple
  /\ sent[c] > 0 \/ Gone(c)
  /\ asked' = asked \cup {c}
  /\ Return(c, <<"response">>)
  /\ UNCHANGED <<alive, lock, peer, req, sent, got>>

\* A benchmark request without Content-Length has no body.
StartBareBenchmark(c) ==
  /\ At(c, "header") /\ req[c] = "benchmark"
  /\ sent[c] > 0 \/ Gone(c)
  /\ asked' = asked \cup {c}
  /\ Continue(c, <<"head">>, "waitLock")
  /\ UNCHANGED <<alive, lock, peer, req, sent, got>>

\* handle_connection: the header decides the handler.  recv_http_header hands
\* over what it has when the client leaves in the middle of it: nothing, no
\* request line, or a request line with some of the headers (a /prove whose
\* Upgrade header was cut off is a 404; an upgrade without a key is dropped).
ReadHeader(c) ==
  /\ At(c, "header")
  /\ sent[c] > 0 \/ Gone(c)
  /\ \/ (sent[c] = 0 \/ req[c] = "malformed") /\ Return(c, <<>>)
     \/ req[c] \in WithBody /\ Continue(c, <<>>, "body")
     \/ req[c] \in WsRequests /\ Continue(c, <<"switch">>, "wsRead")
     \/ req[c] \in WsRequests /\ sent[c] = 0 /\ Return(c, <<"response">>)
  /\ UNCHANGED <<alive, lock, peer, req, sent, asked, got>>

\* recv_body, and what /decrypt and /benchmark do before they lock.  A body
\* that is missing, of a wrong length or too large reads as empty: 400 from
\* /decrypt, the default count for /benchmark.  A body /decrypt cannot parse
\* throws before the lock: 500.
ReadBody(c) ==
  /\ At(c, "body")
  /\ sent[c] = 2 \/ Gone(c)
  /\ asked' = asked \cup {c}
  /\ \/ req[c] = "decrypt" /\ Return(c, <<"response">>)
     \/ req[c] = "decrypt" /\ sent[c] = 2 /\ Continue(c, <<>>, "waitLock")
     \/ req[c] = "benchmark" /\ Continue(c, <<"head">>, "waitLock")
  /\ UNCHANGED <<alive, lock, peer, req, sent, got>>

\* ws_read_text fails: the client left before its message was complete, or
\* sent more than 20 MB or a close frame; or the sum of lengths has wrapped
\* round, and the read that follows fails.  handle_ws returns without a word.
RefuseMessage(c) ==
  /\ At(c, "wsRead")
  /\ (Gone(c) /\ sent[c] < 2) \/ (sent[c] = 2 /\ req[c] \in {"oversized", "wrapping"})
  /\ Return(c, <<>>)
  /\ UNCHANGED <<alive, lock, peer, req, sent, asked, got>>

\* The string for the payload of a ping is made as long as the ping says it is,
\* with no limit: the allocation throws, and nothing catches.
PingTooLong(c) ==
  /\ At(c, "wsRead") /\ sent[c] = 2 /\ req[c] = "hugePing"
  /\ alive' = FALSE
  /\ UNCHANGED <<lock, pc, todo, peer, req, sent, asked, got>>

\* The limit is tested on the sum of lengths modulo 2^64.  A sum that wraps
\* passes, the message is made shorter than it was, and what is received is
\* written behind its end: undefined, and here the end of the process.
LengthWraps(c) ==
  /\ At(c, "wsRead") /\ sent[c] = 2 /\ req[c] = "wrapping"
  /\ alive' = FALSE
  /\ UNCHANGED <<lock, pc, todo, peer, req, sent, asked, got>>

\* Wrong on purpose: json::parse outside the try block.
BadJsonUncaught(c) ==
  /\ At(c, "wsRead") /\ sent[c] = 2 /\ req[c] = "badJson"
  /\ asked' = asked \cup {c}
  /\ alive' = FALSE
  /\ UNCHANGED <<lock, pc, todo, peer, req, sent, got>>

BadJson(c) ==
  /\ At(c, "wsRead") /\ sent[c] = 2 /\ req[c] = "badJson"
  /\ asked' = asked \cup {c}
  /\ Return(c, <<"error", "close">>)
  /\ UNCHANGED <<alive, lock, peer, req, sent, got>>

\* req.value() throws, and nothing catches: std::terminate.
Mistyped(c) ==
  /\ At(c, "wsRead") /\ sent[c] = 2 /\ req[c] = "mistyped"
  /\ asked' = asked \cup {c}
  /\ alive' = FALSE
  /\ UNCHANGED <<lock, pc, todo, peer, req, sent, got>>

\* A job is on its way unless its url or its keys are missing.
ReadJob(c) ==
  /\ At(c, "wsRead") /\ sent[c] = 2
  /\ asked' = asked \cup {c}
  /\ \/ req[c] \in {"zktls"} \cup ProverOps /\ Return(c, <<"error", "close">>)
     \/ req[c] = "zktls" /\ Continue(c, <<"status">>, "recording")
     \/ req[c] \in ProverOps /\ Continue(c, <<>>, "waitLock")
  /\ UNCHANGED <<alive, lock, peer, req, sent, got>>

\* g_recorder.record: extraction and the recorder process, which reports n
\* steps; it holds no lock, and nothing bounds how long it takes.
Record(c) ==
  /\ At(c, "recording")
  /\ \E n \in 0..MaxRecorded : Continue(c, Statuses(n), "recorded")
  /\ UNCHANGED <<alive, lock, peer, req, sent, asked, got>>

\* What record() returned.
Recorded(c) ==
  /\ At(c, "recorded")
  /\ \/ Return(c, <<"error", "close">>)
     \/ Return(c, <<"status", "result", "close">>)
  /\ UNCHANGED <<alive, lock, peer, req, sent, asked, got>>

\* An "error" of the recorder that is no string throws outside any try block.
RecordedMistyped(c) ==
  /\ At(c, "recorded")
  /\ alive' = FALSE
  /\ UNCHANGED <<lock, pc, todo, peer, req, sent, asked, got>>

\* Wrong on purpose: the mutex is entered while another thread has it.
AcquireUnguarded(c) ==
  /\ At(c, "waitLock")
  /\ lock' = c
  /\ Continue(c, <<"status">>, "initKeys")
  /\ UNCHANGED <<alive, peer, req, sent, asked, got>>

\* Wrong on purpose: the mutex forgets its owner.
AcquireFlag(c) ==
  /\ At(c, "waitLock")
  /\ lock = None /\ lock' = TRUE
  /\ Continue(c, <<"status">>, "initKeys")
  /\ UNCHANGED <<alive, peer, req, sent, asked, got>>

\* std::lock_guard<std::mutex> lock(prover_mutex)
Acquire(c) ==
  /\ At(c, "waitLock")
  /\ lock = None
  /\ lock' = c
  /\ \/ req[c] \in ProverOps /\ Continue(c, <<"status">>, "initKeys")
     \/ req[c] = "decrypt" /\ Continue(c, <<>>, "decrypting")
     \/ req[c] = "benchmark" /\ Continue(c, <<"progress">>, "benchKeygen")
  /\ UNCHANGED <<alive, peer, req, sent, asked, got>>

\* Wrong on purpose: the client is not told.
InitFailsSilently(c) ==
  /\ At(c, "initKeys")
  /\ Return(c, <<"close", "unlock">>)
  /\ UNCHANGED <<alive, lock, peer, req, sent, asked, got>>

\* Wrong on purpose: the mutex is not released.
InitFailsLocked(c) ==
  /\ At(c, "initKeys")
  /\ Return(c, <<"error", "close">>)
  /\ UNCHANGED <<alive, lock, peer, req, sent, asked, got>>

\* "key init failed", a missing field, an unknown operation: these return from
\* inside the try block, so both frames go out under the mutex.
InitFails(c) ==
  /\ At(c, "initKeys")
  /\ Return(c, <<"error", "close", "unlock">>)
  /\ UNCHANGED <<alive, lock, peer, req, sent, asked, got>>

\* Wrong on purpose: no return after the result.
StandaloneFallsThrough(c) ==
  /\ At(c, "initKeys") /\ req[c] = "standalone"
  /\ Return(c, <<"result", "close", "result", "unlock", "close">>)
  /\ UNCHANGED <<alive, lock, peer, req, sent, asked, got>>

\* A standalone operation has its result, sent from inside the try block too.
Standalone(c) ==
  /\ At(c, "initKeys") /\ req[c] = "standalone"
  /\ Return(c, <<"result", "close", "unlock">>)
  /\ UNCHANGED <<alive, lock, peer, req, sent, asked, got>>

\* shield, stealth and claim announce each of their stages.
Operate(c) ==
  /\ At(c, "initKeys") /\ req[c] \in Staged
  /\ Continue(c, Statuses(StatusCount[req[c]]), "operate")
  /\ UNCHANGED <<alive, lock, peer, req, sent, asked, got>>

\* shield, stealth or claim is done: the result goes out under the mutex, the
\* close frame after the try block has released it.
Operated(c) ==
  /\ At(c, "operate")
  /\ Return(c, <<"result", "unlock", "close">>)
  /\ UNCHANGED <<alive, lock, peer, req, sent, asked, got>>

\* Wrong on purpose: an exception leaves the mutex locked.
ThrowLocked(c) ==
  /\ alive /\ pc[c] \in {"initKeys", "operate"}
  /\ Return(c, <<"error", "close">>)
  /\ UNCHANGED <<alive, lock, peer, req, sent, asked, got>>

\* Whatever the prover throws between two sends: unwinding releases the mutex
\* before the catch clause sends the error.
Throw(c) ==
  /\ alive /\ pc[c] \in {"initKeys", "operate"}
  /\ pc[c] = "initKeys" => todo[c] = <<>>
  /\ Return(c, <<"unlock", "error", "close">>)
  /\ UNCHANGED <<alive, lock, peer, req, sent, asked, got>>

\* /decrypt under the mutex: missing keys (400), key init failed (500) and the
\* value (200) are sent under it, an exception (500) after it.
Decrypt(c) ==
  /\ At(c, "decrypting")
  /\ \/ Return(c, <<"response", "unlock">>)
     \/ Return(c, <<"unlock", "response">>)
  /\ UNCHANGED <<alive, lock, peer, req, sent, asked, got>>

\* /benchmark: key generation may fail; then encryption and the range proofs,
\* each announced by a progress chunk.
BenchKeygen(c) ==
  /\ At(c, "benchKeygen")
  /\ \/ Return(c, <<"progress", "end", "unlock">>)
     \/ \E n \in 1..MaxCount : Continue(c, Progresses(n + 1), "benching")
  /\ UNCHANGED <<alive, lock, peer, req, sent, asked, got>>

Benched(c) ==
  /\ At(c, "benching")
  /\ Return(c, <<"summary", "unlock", "end">>)
  /\ UNCHANGED <<alive, lock, peer, req, sent, asked, got>>

BenchThrow(c) ==
  /\ alive /\ pc[c] \in {"benchKeygen", "benching"}
  /\ pc[c] = "benchKeygen" => todo[c] = <<>>
  /\ Return(c, <<"unlock", "summary", "end">>)
  /\ UNCHANGED <<alive, lock, peer, req, sent, asked, got>>

\* CLOSE_SOCKET and the end of the thread.
Finish(c) ==
  /\ At(c, "closing")
  /\ Continue(c, <<>>, "done")
  /\ UNCHANGED <<alive, lock, peer, req, sent, asked, got>>

\* The operations that prove ranges, which start threads of their own.
Proving(c) ==
  \/ pc[c] = "operate" /\ req[c] = "stealth"
  \/ pc[c] = "initKeys" /\ req[c] = "standalone" /\ todo[c] = <<>>
  \/ pc[c] = "benching"

\* std::thread throws: in the accept loop, where nothing catches it, or in a
\* range proof, whose threads that did start are destroyed unjoined.  Either
\* way std::terminate.  (When it is the first of a proof, that is a Throw.)
ThreadFails(c) ==
  /\ ThreadsShort /\ alive
  /\ pc[c] = "backlog" \/ Proving(c)
  /\ alive' = FALSE
  /\ UNCHANGED <<lock, pc, todo, peer, req, sent, asked, got>>

-----------------------------------------------------------------------------
Client(c) == Connect(c) \/ ClientSend(c) \/ ClientStall(c) \/ ClientResume(c)
               \/ ClientLeave(c)

\* The steps of a thread that wait for nobody but the mutex and the request.
Compute(c) ==
  \/ Accept(c) \/ AnswerSimple(c) \/ StartBareBenchmark(c) \/ ReadHeader(c)
  \/ ReadBody(c) \/ RefuseMessage(c) \/ PingTooLong(c) \/ LengthWraps(c)
  \/ BadJson(c) \/ Mistyped(c) \/ ReadJob(c)
  \/ Recorded(c) \/ RecordedMistyped(c) \/ Acquire(c) \/ InitFails(c)
  \/ Standalone(c) \/ Operate(c) \/ Operated(c) \/ Throw(c) \/ Decrypt(c)
  \/ BenchKeygen(c) \/ Benched(c) \/ BenchThrow(c) \/ Unlock(c) \/ Finish(c)

Thread(c) == Compute(c) \/ Record(c) \/ SendNext(c) \/ ThreadFails(c)

\* Every connection is closed, or the process is gone.
Stopped == (~alive \/ \A c \in Conns : Ended(c)) /\ UNCHANGED vars

Next == (\E c \in Conns : Client(c) \/ Thread(c)) \/ Stopped

\* A send to a client that does not drain its socket may block the thread.
Blocked(c) ==
  peer[c] = "stalled" /\ todo[c] # <<>> /\ Head(todo[c]) # "unlock"

\* A thread that is not blocked runs; the recorder process may never return.
FairStep(c) == ~Blocked(c) /\ (Compute(c) \/ SendNext(c))

Spec == Init /\ [][Next]_vars /\ \A c \in Conns : WF_vars(FairStep(c))

-----------------------------------------------------------------------------
(* Safety.                                                                 *)

InProver(c) == pc[c] \in LockedPcs
\* The thread of c is between the lock_guard's construction and destruction.
Critical(c) == InProver(c) \/ Has(todo[c], {"unlock"})

\* One prover at a time, and the mutex is held exactly by the thread that is
\* between constructing and destroying the lock_guard, on every exit path of
\* handle_ws and handle_http: early returns, results and exceptions.
LockHeldExactlyInside == \A c \in Conns : lock = c <=> Critical(c)

\* The stream a client sees: at most one frame ends the request, only the
\* close frame follows it, and nothing follows the close frame.
OneFinalFrame ==
  \A c \in Conns : \A i, j \in 1..Len(got[c]) :
    i < j => /\ got[c][i] \in Finals => got[c][j] = "close"
             /\ got[c][i] # "close"

\* While the process runs, a connection whose request was read and whose
\* client is still there is not closed before the client was told how the
\* request ended, whichever path the handler took.
NoSilentClose ==
  alive => \A c \in asked : Ended(c) /\ ~Gone(c) => Answered(c)

\* The same without the proviso: also when another connection brings the
\* process down (what tests/test_prove_e2e.py expects of a job).
NoLostJob ==
  \A c \in asked : (Ended(c) \/ ~alive) /\ ~Gone(c) => Answered(c)

\* The process ends for these reasons only: a frame sent to a client that left
\* (POSIX); a field of an unexpected type, in a request or in what the recorder
\* reports, outside a try block; the length of a ping or of a fragment that the
\* frame reader trusts; a thread that cannot be started.  No other request, and
\* no client that leaves or stops reading, takes the other jobs with it.
\* (Memory for messages within the limits is taken to be there, and the prover
\* to fail by exceptions only.)
DiesOnlyFor ==
  [][~alive' => \E c \in Conns :
       \/ SigPipe /\ peer[c] = "reset" /\ todo'[c] # todo[c]
       \/ req[c] = "mistyped" /\ c \in asked'
       \/ At(c, "recorded")
       \/ At(c, "wsRead") /\ sent[c] = 2 /\ req[c] \in {"hugePing", "wrapping"}
       \/ ThreadsShort /\ (pc[c] = "backlog" \/ Proving(c))]_alive

-----------------------------------------------------------------------------
(* The service implements ProveJob.                                        *)

gone == {c \in Conns : Gone(c)}
phase == [c \in Conns |-> IF pc[c] = "idle" THEN "idle"
                          ELSE IF Ended(c) THEN "closed"
                          ELSE IF Answered(c) THEN "answered" ELSE "open"]

Job == INSTANCE ProveJob WITH up <- alive, prover <- lock

\* Every step of the threads and the clients is a step of ProveJob or none.
ImplementsProveJob == Job!Spec

-----------------------------------------------------------------------------
(* Liveness.                                                               *)

\* The holder of the mutex waits for a client that does not read.
ProverStuck == \E c \in Conns : lock = c /\ peer[c] = "stalled"

\* A prover job whose client stays and reads is answered, unless the mutex is
\* stuck, for good or over and over, behind a client that does not read.
JobsAnswered ==
  \/ []<>ProverStuck
  \/ \A c \in Conns :
       (pc[c] = "waitLock") ~> (Answered(c) \/ peer[c] # "open" \/ ~alive)

\* The endpoints that take no mutex answer even then.
HealthAnswered ==
  \A c \in Conns :
    (req[c] \in Simple /\ sent[c] > 0)
      ~> (Answered(c) \/ peer[c] # "open" \/ ~alive)

=============================================================================
