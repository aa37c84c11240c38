# Verification of the Octane Accelerator

TLA+ specifications of the accelerator (`octane-accelerator`, C++), the TLC
configurations that check them on small instances, and TLAPS proofs about them.
Paths are relative to the repository.

    tlc -config MCProveService.cfg MCProveService      # one run
    tlc -config Library.cfg MCLibrary                  # the algorithms
    tlapm ProveServiceProofs.tla                       # one module of proofs

## 1. The system

The accelerator is a process on the user's machine that does a wallet's
zero-knowledge proving. It listens on `127.0.0.1:19876` and can also be reached
through a relay on the Internet.

    wallet (browser) --HTTP / WebSocket--> connection threads --prover_mutex--> prover (PVAC)
                                                 |                               recorder (child process)
    remote wallet --relay--> bridge thread --WebSocket, loopback--^
    tray application --/health, /pair/export, signals--^

| Part | Code | State it keeps | Operations |
|---|---|---|---|
| Connection server | `src/server.hpp` | listening socket; per connection a detached thread, its buffer, its socket | accept, header and body reads, WebSocket upgrade, `ws_read_text`, `ws_send_text`, `send_http`, close |
| Request handlers | `main.cpp` | `prover_mutex`, `g_relay`, `g_recorder` | `handle_ws` (shield, stealth, unshield, claim, decrypt, encrypt, range and zero proofs, commit, ct_sub, zkTLS), `handle_http` (/health, /decrypt, /test/keygen, /benchmark, /pair/export) |
| Prover | `src/prover.hpp` | key and cipher handles of one job | init, shield, stealth, claim, status callbacks |
| Relay bridge | `src/relay_bridge.hpp` | one detached thread, its TLS link, `running_` | dial, serve loop, ping, `forward_to_local`, back off, stop |
| Pairing | `src/relay_client.hpp`, `main.cpp` | `relay.conf`, `relay_secret.key`, `pairing_export.tmp` | `generate_pairing_file`, `load_relay_config`, `start_relay_if_configured` |
| Embedded recorder | `src/embedded_recorder.hpp` | unpacked bundle, its marker file, `extracted` | `ensure_extracted`, `record` |
| Tray applications | `tray/main.m`, `src/tray_win.hpp` | process id of the server, health timer | start, stop, restart, health check |
| PVAC library | `pvac/` | keys, ciphertexts, proofs; process-wide: rate table, generator table | encryption, arithmetic on ciphers, range and zero proofs, serialization, range coder |
| Base64 | `src/base64.hpp` | process-wide: decoding table | encode, decode |
| Not used by `main.cpp` | `src/jolt_bridge.hpp`, `src/tls_recorder.hpp` | | |
| Third party, build | `lib/`, `scripts/`, `.github/`, `Makefile`, `index.html` | | |

How they meet: all connection threads share one process (an uncaught exception
or a signal in one ends all) and one mutex around the prover; several frames
are sent while that mutex is held, so a client's reading speed reaches the
other clients. The bridge is a client of the server like any other. The
pairing endpoint writes files the next start of the process reads, and replaces
the bridge while its thread runs. The tray restarts the process.

What is hard here: the many exits of the handlers, each with its own order of
sending, unlocking and closing; clients that stall or leave in the middle of a
job; a link to the relay that fails under a job of minutes; a room whose wallet
changes under a request; three files written in place and shared by concurrent
handlers; objects that outlive or underlive their threads; a recorder cache
filled by several threads. `PROJECT.json` lists these hazards at their lines.

What makes each part correct:

- server and handlers: the mutex is held exactly inside its scope; a client that
  stays is answered, once; a job is not lost to another client; whoever waits for
  the mutex gets it unless a client stops reading;
- bridge: it dials again whatever happened; every request taken from the link is
  answered on it, unless the link or the wallet is gone; every local socket is
  closed; a wallet gets its own frames;
- pairing: the last pairing given to a wallet is the one served, room and key,
  after failures and crashes as well; an export answers with its own pairing,
  leaves no file behind and replaces the bridge by one bridge;
- recorder: the bundle is whole, and the running program's, when it is marked as
  unpacked;
- tray: a server that dies is started again, no live one is lost sight of by
  accident, and no signal reaches another process;
- frames, recorder output, base64, range coder, serialization: what is written
  is what is read, and what is damaged is refused;
- ciphers: they mean the amounts a client takes them for, through every
  operation; proofs about them can be made exactly for what is true;
- shared tables and workers: nobody uses an entry before it is there or after
  it is gone.

## 2. The modules

### The server, its clients and its files

**`ProveJob`** is what the proving service promises, with no threads, frames or
mutex: a connection is opened, asked, answered once and closed; one connection
at a time has the prover; nobody who stays is closed unanswered, unless the
whole service stops.

**`ProveService`** is `server.hpp` with the handlers of `main.cpp`. A connection
thread is a decision point `pc[c]` and the straight-line code `todo[c]` it runs
before that: frames to send, and `unlock` where a `lock_guard` goes out of scope.
So the order in which a path sends, unlocks and closes is data of the model and
each branch of a handler is one action (`InitFails`, `Standalone`, `Operated`,
`Throw`, ...) with the sequence the code runs. Sending is one step per frame
(`Send`): it goes through, or blocks while the client does not read, or meets a
client that has left, first answered by a reset and then by SIGPIPE. What ends the
process is `alive' = FALSE`: SIGPIPE, a mistyped field, a ping too long for memory
(`PingTooLong`), a length that wraps the size of a message (`LengthWraps`), a thread
that cannot be started (`ThreadFails`).
`ProveService` implements `ProveJob` under the mapping of its section "The
service implements ProveJob".

**`RelayBridge`** is the class of that name: `pc` is where the bridge thread is,
`link` its TLS connection, `inbox` what the relay has sent on it, `cur` the
request in `forward_to_local`. The local server is `ProveJob` with the requests
as connections: the bridge is checked and proved against what `ProveService` is
shown to implement, not against its details. The relay is not in the repository.
It is external, and assumed to pass a message of one party to the other if that
one is connected, to tell the host who comes and goes, and to take what is written
to it: that is what `relay_bridge.hpp` relies on. `More` in the inbox is what makes
`ws_client_read` read on: a ping, a pong, the first part of a message. There the bridge
is at `"read"`, with no time limit and no ping; on a link that has fallen silent it is
then `Deaf`. The local server need not answer (`LocalWaits`).

**`Pairing`** is `POST /pair/export`, step by step: each open of a file, which
truncates it, each write and close, the read back and the removal, then
`start_relay_if_configured` with its unlocked check, reset, load, allocation and
start. A pairing is named by the export that made it. `linked` says which
writers have open the file that now has the name `pairing_export.tmp`; `opened`, which
exports have come to `relay_secret.key`. The
bridge threads are detached and outlive their bridge (`host[t] = "stale"`);
what such a thread reads from the destroyed object is undefined behaviour, and
the model has three outcomes: it finds the flag cleared (`HostEnds`), it reads
the bridge that now lies there (`NewBridge`), or the process dies (`Crash`).

**`Recorder`** is `ensure_extracted` and `record` of `embedded_recorder.hpp` in
the threads of several requests, which take no lock. The archive is cut by its
opening and written in one step (in full or not: nobody asks); the shell command
`tar ... && rm ...` creates and fills the files of the bundle one by one (`at`),
from the file it has open, which another request may cut, rewrite or unlink
(`linked`, `held`). `writer` is the tar that created a file last: another one's
data go into a file that is no longer in the tree. The server may end at any
step and its shells go on (`orphans`); a power loss ends them too; a restart may
be one of a later version, whose bundle is another.

**`Tray`** is the supervision of the server by `tray/main.m`. The handlers of the
main queue are one action each; the health checks under way are `check`, and
their answers wait there until `Answered` takes one, whatever has happened
meanwhile. `proc` are the processes as the kernel sees them, with zombies and
with process ids that are given out again; `ours` are the children of the
application that runs. `port` is the listener. `lost` is a ghost: live servers
that a start was let loose on, or that were left by a killed application.

### The algorithms

`MCLibrary` puts these together for TLC. Widths (of bytes, words, limbs) and
limits are constants.

**`WsFrames`**: the frames that `ws_send_text`, the bridge's writer and a client
make, and the three readers (`ws_read_text`, `local_ws_read`, `ws_client_read`),
which differ in masks, control frames, fragments and limits. The exclusive or of two
bytes is a parameter (`XorBytes`), of which only is used that masking undoes masking.
**`RecorderOutput`**: what `record()` makes of the recorder's lines, the last
line and the exit code. **`Base64`** and **`RangeCoder`**: `base64.hpp` and
`pvac_compress.hpp`, with the predictor, carries and all, on words of narrow
bytes; an operation of encoder or decoder is a function on its states.
**`FieldLimbs`**: the two-limb arithmetic of `field.hpp`, each sum and product of
limbs cut to its width; powers and inverses go turn by turn, as the loops of
`fp_pow_u64` and `fp_inv_ct` do, the latter with its table and its windows of bits.
**`CipherBytes`**: the writers and readers of
`pvac_serialize.hpp` with the checks of the readers in their order; a reader is a
function of the stream. **`LibraryInputs`** has the properties of the algorithms
that have theorems for all inputs, and what is assumed of their parameters
(`LibraryAssumption`), apart from the inputs that TLC tries.

**`Ciphers`**: a cipher is its layers (a seed, or a product of two layers), its
edges and its constant; encryption, sum, difference, scaling, product,
`compact_edges`, `compact_layers`, the merge of equal edges and the repacking
after a product are those of `encrypt.hpp` and `arithmetic.hpp`, decryption that
of `decrypt.hpp`. Random choices are a parameter `noise`, the secret factors of
seeds a constant function. **`Balances`** is a client of them: it keeps ciphers
and has the server encrypt, subtract, and prove the ranges that shield, claim and
stealth prove (`prover.hpp`). It implements **`Amounts`**, in which a cipher is
the amount it decrypts to.

**`Circuit`** builds the circuit of a zero proof, `verify_zero_circuit.hpp` on
`gadgets.hpp`, once with the witness and once without, term by term. **`R1CS`** is
the proof system over it: `r1cs_prover.hpp`, `r1cs_verifier.hpp` and
`inner_product.hpp` with the transcript. A point of the group is its logarithm;
a challenge is a number that every message moves. So what is checked is the
algebra, the orders and the indices, not the hardness of logarithms.

**`LazyTables`**: the tables of `base64_decode` and of the coder's rates, which
threads fill on first use under a plain flag. That is a data race wherever no
lock protects it: the stores of the filling thread become visible in any order.
**`RangeWorkers`**: the threads of a range proof, their chunks of bits, and the
references they hold into the table of generators while others may grow it.

### Proofs and mutations

A module `XProofs` holds the theorems about `X`. Those about the algorithms are in
three: `CiphersProofs`, sums in the field of the ciphers and what the operations on
ciphers compute; `StreamProofs`, which extends it, the round trip of serialization and
that of frames; and `LibraryProofs`, which extends that, `Balances` with its refinement
and the modules beside it, one section each. Definitions under a comment
"Wrong on purpose" (`...Silent`, `...Locked`, `...Half`, `...Unguarded` and the
like) are variants of the definition below them. They are part of no
specification: they show that a property can fail.

## 3. The runs

| Run | Instance | Shows |
|---|---|---|
| `service_safety` | `MCProveService`, 2 connections, all request classes, SIGPIPE, threads that cannot be started | `TypeOK`, `LockHeldExactlyInside`, `OneFinalFrame`, `NoSilentClose`, `DiesOnlyFor`, and that the service implements `ProveJob` |
| `service_liveness` | 2 connections, SIGPIPE, threads that cannot be started | `JobsAnswered`, `HealthAnswered` |
| `service_sigpipe` | 2 prover jobs, SIGPIPE | finding: `NoLostJob` fails |
| `relay_bridge` | 2 requests, 2 wallet sessions, all message sizes, SIGPIPE, a local server that may never answer | `TypeOK`, `NoLeakedConnection`, `OnlyLargeDropped`, `Reconnects`, `InboxServed` |
| `relay_too_large` | 1 request of any size | finding: `NoDroppedRequest` fails |
| `relay_foreign` | 2 requests, 2 sessions | finding: `NoForeignFrame` fails |
| `pairing` | 3 exports, 2 crashes | `TypeOK`, `PairingKept`, `NoLeftover` |
| `pairing_race` | 2 exports | finding: `OwnPairing` fails |
| `pairing_hosts` | 2 exports | finding: `OneHost` fails |
| `recorder` | 3 requests, 1 crash, 2 versions, 2 files | `TypeOK`, `VouchedWhole`, `UnpackedOwn`, `UnpackingEnds` |
| `tray` | 3 process ids, 2 checks at a time, 4 events | `TypeOK`, `PidIsOurs`, `NoServerLost`, `DeadServerReplaced`, `MenuSettles` |
| `library` | `MCLibrary` | see below |

What `library` shows, and on what:

| Property | Inputs |
|---|---|
| `FramesArrive`: at each reader a message arrives whole, and the next frame begins where it ends; too long ones are refused | lengths around each change of the header's form and around both limits; one frame, or two fragments, at the bridge's reader with a ping or a pong between them |
| `RecorderAnswer`: which line becomes the answer, and which steps are shown | up to 3 lines of 8 kinds, each kind of last line, both exit codes |
| `KeysKept`: packed, written in base64, read and unpacked, a key is what it was | bytes of 4 bits; short strings, and uniform and periodic ones of 7 and 20 bytes |
| `FieldExact`: sums, differences, products, inverses and powers of limbs are those of numbers modulo p | all pairs of numbers modulo 127 (limbs of 4 bits, windows of 3), every exponent of one word, all pairs of words |
| `CiphersKept`, `CiphersSound`: round trips; every prefix is refused; with a byte changed, refused or layers that can be resolved | ciphers of 1 and 2 slots with both kinds of layers, range and zero proofs |
| `LedgerTypeOK`, `LedgerImplements`: operations keep the structure of a cipher, and its amount | all sequences of up to 3 ciphers of values 1 and 3, two noises, four ciphers from elsewhere |
| `ClaimsRight`: a range proof rests on true statements exactly if its value is the plaintext, that of a balance exactly if the balance is a word | the same, with amounts that wrap below zero |
| `CircuitComplete`: the witness satisfies the circuit exactly if the cipher decrypts to the amount; prover and verifier build the same circuit | encryptions, differences, products and ciphers from elsewhere, right and wrong amounts |
| `ProofsVerify`: a proof verifies exactly if the statement is true | three ciphers, with and without a commitment, right and wrong amounts |
| `DecodesRight`, `RatesRight`: no table is used half filled, except that of rates by or beside `/test/keygen` | 2 jobs, 1 `/test/keygen`, tables of 2 entries |
| `EachBitOnce`, `GeneratorsAlive`: the chunks cover each bit once; no reference into a freed vector | 5 bits, 4 cores |

*Bounds.* Threads of the service meet only in the mutex and in the death of the
process, so two connections show every pair of paths meeting; the proofs are for
any number. `MaxRecorded` and `MaxCount` bound the statuses of one
recording and the proofs of one benchmark; one of each is enough for the sends
to block or fail at the first, a middle and the last item. In the bridge two
requests are enough for one to be served while another waits, and two sessions
for the room to change under a request; one `More` on the link at a time is enough,
since a second one finds the bridge reading already. In `Pairing` three exports allow one
complete export between two others; two crashes allow one during the recovery
from another. In `Recorder` a third request comes after the first two have
unpacked one over the other, or after a crash; two files are the least a tree can
be a mixture of. In `Tray` a third process id is one that is given out again while
two servers are there; `MaxEvents` counts clicks, crashes, late answers and moves
of the program, and four of them are enough for a server to be started, lost,
replaced and lost again. The field of the ciphers has 7 elements and words of 2
bits, so that differences leave the words; 6 layers are the limit that
`RANGE_MAX_VALUE_LAYERS` stands for, and the edge budget of 14 is one that
the ledger's ciphers exceed. The group has 32749 elements: two different sums
meet by chance in one of so many cases, and the inputs are fixed ones for which
they do not. `Pairing`, `Recorder`, `Tray` and `MCLibrary` do not check for
deadlock, because they end: exports, requests, events and inputs are finitely
many. The other runs do.

*Fairness.* In `ProveService` a thread that is not blocked runs (`FairStep`):
the operating system schedules threads, and PVAC computations end. There is no
fairness on a send to a client that does not read, on the recorder, a child
process which may hang, or on any client; so `JobsAnswered` excepts behaviours
in which the holder of the mutex waits, again and again, for a client that does
not read. That exception is real (section 5). In `RelayBridge` the bridge thread
runs (its steps that leave the process alive, so that no property holds because
a fair step killed it), and TCP gives up on what a lost peer does not acknowledge
(`LinkReset`), which needs something that was written to it: a ping, when the bridge
waits in `select()`, or an answer. Nothing is assumed of the local server: its
prover may be held up, its recorder may hang. So both liveness properties except a
bridge that waits for it for ever (`<>[]LocalWaits`), and `Reconnects` one that is
`Deaf`: both exceptions are real (section 5). Nothing is assumed of wallets either, or
of the relay's availability. In `Recorder` threads and `tar` run; nothing is
assumed of the recorder's process, so that `UnpackingEnds` ends where that is
started, and nothing of restarts, so that a request may be lost with the server. In
`Tray` the main queue is served, the timer fires, checks
are answered or time out, and a process that is started binds the port or ends;
nothing is assumed of the user, or of crashes.

*Abstractions.* JSON and TLS are not modelled; in the modules of the server a
message is its class or the number of its request, and a proof is a step. A frame
is sent in one step. Pongs are not among the frames of `ProveService`: that a client has
sent a ping before its message changes nothing but a `send()` more. That a process ends
where the code has undefined behaviour (`LengthWraps`) is the worst case of it; the other
one in the model is that the read fails (`RefuseMessage`). Memory for messages within
the limits is there. One read of a file of a hundred bytes is one step. A write
of `Pairing` after a successful `open` succeeds. After a power loss `Recorder`
has the files as they were written: what a file system loses of them is not
modelled.

## 4. The proofs

For any number of connections, requests, sessions, exports, crashes, processes,
files, threads, bits and cores; for ciphers of any size over any field that meets
the assumptions below, limbs of any width, recordings of any length and any bytes:

| Module | Theorem | Says |
|---|---|---|
| `ProveServiceProofs` | `TypeCorrect`, `MutexCorrect`, `StreamCorrect`, `AnswerBeforeClose`, `DeathCorrect` | the safety properties of `service_safety` |
| | `NoJobLost` | `NoLostJob` where sends do not raise SIGPIPE, threads can be started, and no request is one of those that end the process (`Fatal`) |
| | `Implementation` | `Spec => Job!Spec`: the service implements `ProveJob` |
| `RelayBridgeProofs` | `TypeCorrect`, `LocalSocketsClosed` | the invariants of `relay_bridge` |
| | `NoneDropped` | `OnlyLargeDropped`: every failure but the size limit is told to the wallet |
| `PairingProofs` | `TypeCorrect`, `LastPairingKept`, `NothingLeft` | the invariants of `pairing` |
| `RecorderProofs` | `TypeCorrect`, `Vouched`, `OwnUnpacked` | the invariants of `recorder` |
| `TrayProofs` | `TypeCorrect`, `SignalsOwnChild`, `ServerWatched` | the invariants of `tray` |
| `CiphersProofs` | `SumLinear` | a sum of terms is linear: what scaling and adding rest on |
| | `MergeIs` | merging equal edges keeps what the edges of each layer add |
| | `CompactLayersIs` | dropping unused layers and renumbering the others keeps a cipher valid, and its plaintext |
| | `AddIs`, `SubIs`, `MulIs` | sum, difference and product of valid ciphers are valid and decrypt to those of the plaintexts |
| | `EncValueIs` | what is encrypted is what is decrypted, whatever was drawn |
| | `RangeIs` | the ciphers a range proof proves zero are all zero exactly if the word is the plaintext |
| `LibraryProofs` | `LedgerTyped` | `LedgerTypeOK`: every cipher handed out is one the server takes back |
| | `LedgerIsAmounts` | `LedgerImplements`: `Balances` implements `Amounts` |
| | `ClaimsAreRight` | `ClaimsRight` |
| | `DecodesSafely`, `RatesSafely` | `DecodesRight`, `RatesRight` |
| | `RatesSafelyUnderMutex` | without `/test/keygen` the rates are always there |
| | `BitsOnce`, `NoFreedGenerators` | `EachBitOnce`, `GeneratorsAlive` |
| | `FromWordsExact` | two words give the canonical limbs of their number modulo p |
| | `FieldIsExact` | sum, difference and product of canonical limbs are canonical, and those of the numbers |
| | `FieldDoesCompute` | `FieldExact`: powers by repeated squaring and inverses by windows too |
| | `OutputAnswered` | `RecorderAnswer`, for outputs of any number of lines |
| | `KeysAreKept` | `KeysKept`, for keys of any bytes up to `MaxKey` of them, and texts of any length |
| `StreamProofs` | `CiphersAreKept` | `CiphersKept`, for every cipher, proof of zero and range proof whose numbers fit the widths |
| | `ReadsOnlyResolvable` | whatever bytes are read, they are refused or give layers that can be resolved in their order |
| | `CiphersAreSound` | `CiphersSound`, for ciphers of any size |
| | `CipherFileIs` | the reader of ciphers does not look at what follows a cipher |
| | `FramesDoArrive` | `FramesArrive`, for messages of any bytes whose size fits in a length field, any masking key and any place where a message is cut in two |

They rest on the named assumptions on the constants only. Those of the algorithms with
theorems for all inputs are the four parts of `LibraryAssumption`, which TLC evaluates in
the run `library`:

- `WireSizes`: a word holds every count up to `MaxCount` and `MaxSigma`, a byte has more
  than three values;
- `KeySizes`: a byte of the coder has at most eight bits (base64 writes it in eight), the
  size field holds every size up to `MaxKey`;
- `FrameSizes`: the bits of FIN and MASK, the opcodes and the short lengths share a byte
  as they do in the code, the opcodes differ, a string of a short length can be made, and
  masking undoes masking;
- `FieldSizes`: a limb has more than one bit, a window fits in an element, and Fermat's
  little theorem holds modulo p, since 2^127 - 1 is prime. The proofs of powers
  (`PowIs`) do not use the last; that of inverses does.

Where a theorem also has a hypothesis on its input (`FieldInput`, `FramesInput`,
`StreamInputs`, a key's bytes and size), it says which inputs the code can be given: those of
the run meet it. Those about state come from an inductive invariant:

- *Service.* That the mutex is free where the model says so depends on the code
  a thread has still to run, so `Inv` says of `todo[c]` that it answers at most
  once, then only closes, and unlocks at most once (`Tidy`), that a thread which
  is still inside a handler owes an answer (`Told`), and what is there of both
  when it is about to close (`Shape`). Most actions only replace `todo[c]`
  (`Jump`); one lemma shows that such a jump keeps the invariant, another that each
  action is one. The refinement follows from the invariant, action by action.
  `NoJobLost` adds that the process stays up (`Steady`).
- *Bridge.* The properties are about requests the bridge has finished with. The
  invariant is about those ahead: a request that is not sent, or waits on the
  link, is unknown to the local server and waits there once (`Ahead`,
  `Distinct`). `OnlyLargeDropped` is a property of steps, and needs that a
  local connection is closed only after the answer was passed on (`AnswersGiven`).
- *Pairing.* An export that has the handler to itself knows what the files hold
  at each of its steps (`Along`); when it is done they still do, for as long as
  no later export has come to `relay_secret.key` (`Kept`). That nobody else is at work
  follows from how `overlap` grows (`OverlapKnown`). For `NoLeftover`: a pairing file
  that is there belongs to an export that has opened it and not removed it, or ended
  before it could, and no later export has got further (`LeftoverOwned`).
- *Recorder.* Unless two requests have unpacked at once, at most one is between
  the start of its tar and the marker (`Alone`); the files that tar has passed are
  those of the archive it has open (`Passed`); a request whose server still runs has
  unpacked that server's version (`Owned`); and once the recorder is vouched
  for, nobody is on the way to unpack it (`Settled`). A crash keeps these,
  since what it leaves behind is a shell at the same step.
- *Tray.* The watched process is a child that only `Answered` and `StopServer`
  reap, and both clear `serverPID` in the same handler; that delayed starts are
  bounded by the clicks is what typing needs.
- *Tables.* Who fills the decoding table has the mutex; who fills the rates
  either has it or serves `/test/keygen`. A filling thread has stored what it
  has not left to store.
- *Workers.* `Chunk * Threads >= Bits` is the one arithmetic fact; a worker's
  position in its chunk tells which bits it has stored, and the proof of the sum,
  which has more generators, begins after all workers were joined.

What the algorithms compute is proved by induction over the length of a sequence,
always of a set of numbers that contains 0 and with each number its successor:

- *Ciphers.* A plaintext is the constant plus the sum of the edges' terms over the
  factor of their layer. What a layer's factor is follows from the layers before it,
  so the factors are the one solution of the layers' equations (`FactorsUnique`).
  That makes operations on sequences statements on sums: an operation is right if
  it gives layers with a known solution, and edges that add the same over it.
  Compacting layers restricts the solution to those kept. Inside a product all
  layers that are made are in use, so compacting does nothing there until edges are
  merged. A word is the sum of its bits, which is why the proofs of the bits and of the
  rest say what a range proof claims.
- *Ledger.* `LedgerInv`: each cipher that is held is valid. With the lemmas above each
  handler is then a step of `Amounts`. `ClaimsRight` speaks of an answer after the
  step, so `ClaimInv` keeps what the answer was made from.
- *Limbs.* Each step of the code keeps the number that the limbs stand for, modulo p,
  when its carries are counted; two folds bring every product under 2p, and one
  subtraction to canonical form. Words are cut to their width in each sum.
- *Powers and inverses.* `PowTurnRaises`: a turn of `fp_pow_u64` keeps `r * x^e`, and
  halves `e`; after as many turns as a word has bits there is no exponent left
  (`ExponentsFit`). In `fp_inv_ct`, before the turn that begins at bit `pos`, `r` is the
  power whose exponent is the bits of p - 2 above `pos`; a zero bit doubles that exponent,
  a window of k bits multiplies it by 2^k and adds the window's bits, which the table
  has (`InvTurnIs`). At the end the exponent is p - 2, and a^(p-2) * a is 1 by Fermat.
- *Keys.* An output is one that an encoder may write (`WrittenIn`) if it goes on with the
  bytes written so far and the word after them lies in the encoder's interval. An
  output that may be written after a bit could be written before it, and its word there
  is on the side of the middle that the bit says (`EncodeBitIs`); what `Flush` writes may be
  written (`FlushIs`). So one induction over the bits, last to first, puts the whole output
  in every interval, and another, first to last, shows that a decoder that holds the
  encoder's interval, predictor and next word reads each bit and follows the encoder
  (`DecodeBitFollows`, `BytesAreRead`). The loop that shifts bytes out ends within four
  turns: while the bounds' first bytes agree they are at most a word's other three
  bytes apart, and each turn widens the gap by a byte (`EmitIs`). Base64 is three
  bytes to four letters and back (`GroupIs`), with its paddings.
- *Frames.* The number in a header is the length that was written there (`LengthIsRead`), a
  header's first byte is taken apart as it was put together (`FirstByte`), and a frame is
  read from where it is held in a stream, whatever surrounds it (`PlainHeld`, `HiddenHeld`).
  A turn of a reader therefore reads one frame (`PlainDataRead`, `HiddenDataRead`,
  `ControlRead`), and its turns end with the message, or with the frame that makes it too
  long. A sum of two sizes that fit in a length field may not; but the first part of a
  message that is read on was within the limit, so the sum, cut to its word, is over the
  limit exactly if the sum is (`InWordIs`, `SizeKept`).
- *Recorder's output.* The three folds over the lines (error, result, steps shown) are
  taken together, by induction over the lines read.
- *Readers.* A reader is good (`Good`) if it returns a value of its set or nothing, and
  does not look at what follows a value that it takes (`Steady`). Reading one thing and
  then what it calls for (`After`), a fixed number of things (`Repeat`), a counted list
  (`Enlist`) and only some things (`Filter`) makes good readers of good ones, and each undoes
  (`Undoes`) what is written in the same order. Every reader of `CipherBytes` is shown to be
  put together in that way, so the round trip follows from that of a number in little-endian
  bytes. That no beginning of a stream is read follows from `Steady`: the reader would read
  the same of the whole, and leave something. What a good reader returns has passed `Valid`;
  so its layers are in order, and by induction the factors of the first k can be computed.

The assumptions on constants are those of the code's own choices. Inverses exist since
p = 2^127 - 1 is prime; no factor is zero (`lpn.hpp:33` never gives zero, and
`prf_R` is a product of such); the powers of g repeat after B (`keygen.hpp` makes g
from a power with exponent (p - 1) / B, and B divides p - 1); 2^64 is below p. `IsNoise`
says what the generator of a noise gives. Two cases are left out of the model and so
of the theorems: an element of the field is a value there, with one form (that the code's
operations on limbs keep to one form is `FieldIsExact`), and a merge drops no edge:
the code drops one whose weights cancel if its selector bits, which are random,
all cancel too (`encrypt.hpp:603`).

Every invariant that a run checks has a theorem. Only model-checked, and why: liveness,
which is out of the prover's reach; the counterexamples; `ProofsVerify`, whose module
declares a recursive operator and which holds with the probability of a challenge and not
for every one; and `CircuitComplete`, which is stated beside it and rests on the
extended Euclidean algorithm, a recursion over pairs of numbers.

## 5. What the runs found

1. *A client that leaves ends the process* (`service_sigpipe`). Sends are plain
   `send()` and nothing ignores SIGPIPE: on macOS and Linux the second frame to a
   client that has left ends the process, and the jobs of all others.
2. *Answers over 10 MB vanish in the bridge* (`relay_too_large`): the bridge reads
   10 MB from the local server, the server allows 20, and this one failure of
   `forward_to_local` sends the wallet nothing.
3. *A wallet that reconnects gets another request's frames* (`relay_foreign`).
   The bridge ignores `peer_disconnected` and frames name no request.
4. *Concurrent exports mix their pairings* (`pairing_race`): all share one
   temporary file and take no lock.
5. *A replaced bridge is destroyed under its thread* (`pairing_hosts`), which
   may go on as a second host of the new room. This one is undefined behaviour;
   the run has the outcome in which the memory is reused.

Seen on the way, and part of the passing models:

- a client that stops reading holds up all prover jobs, since results and
  statuses are sent under the mutex (`main.cpp:477`; `ProverStuck` in
  `JobsAnswered`);
- fields of the wrong type end the process (`main.cpp:284`, `main.cpp:316`;
  allowed by `DiesOnlyFor`);
- so does a ping whose announced length no string can have (`server.hpp:235`), a thread
  that cannot be started (`server.hpp:371`), and it may a fragment whose length takes
  the sum that is compared with the limit past 2^64 (`server.hpp:259`; also
  `relay_bridge.hpp:266` and `relay_bridge.hpp:388`): `PingTooLong`, `ThreadFails`
  and `LengthWraps`, `Thrown` and `Overrun` in `WsFrames`;
- the bridge sends pings only from `select()`, "to keep connection alive"
  (`relay_bridge.hpp:479`): when the link falls silent in the middle of a message, or after a
  ping or pong, `ws_client_read` waits for ever and the relay is not dialled
  again (`Deaf`); the same when the local server never answers (`LocalWaits`);
- an export that fails at `relay.conf` has replaced the key, so that the room before
  is then served beside another pairing's key; a crash between the two files leaves
  the same, or a truncated `relay.conf` (`PairingKept` ends where a later export opens
  the key file);
- an export that is answered 500 after it wrote `pairing_export.tmp` leaves it on disk
  until the next one that succeeds (`main.cpp:246`; `NoLeftover` says when it is gone);
- two first recordings at once unpack over each other, and the marker may then
  vouch for half a bundle, for good (`overlap` in `VouchedWhole` and `UnpackedOwn`);
  an update of the program keeps the old recorder, although the comment at
  `embedded_recorder.hpp:65` has "already extracted and up-to-date": no property says
  that the vouched recorder is the running program's, and in the model it is not
  after a restart of a later version (`Begin` does not look at the version);
- a tray whose one start fails after a crash never tries again (`tray/main.m:209`;
  the exception in `DeadServerReplaced`); Start on a slow server loses sight of it
  (`tray/main.m:162`; `lost` in `NoServerLost`);
- `/test/keygen` shares the coder's rate table with jobs and takes no lock
  (`RatesRight`);
- the server's reader takes pings for unmasked ones, though a client must mask
  them (`server.hpp:226`), so that nothing is promised of what follows a client's ping:
  `FramesArrive` sends the server none, as browsers and the bridge send it none; the
  comment at `server.hpp:212` says 10 MB where the limit is 20;
- `pvac_dec_value` returns the low word of a decrypted balance, and 0 on an
  error: stealth on a balance that is no word makes range proofs that cannot
  verify (`ClaimsRight`);
- each transfer adds layers to the balance that none takes away: at
  `RANGE_MAX_VALUE_LAYERS` range proofs are refused. The ledger's three ciphers
  do not get there;
- `omega_B` is a power with an exponent cut to 64 bits (`crypto/keygen.hpp:106`), so it
  is no B-th root of one; nothing but the serialization of keys uses it;
- a reference into the generator table outlives the table's lock
  (`generators.hpp:89`): it is safe only as long as no larger proof runs beside
  the workers (`GeneratorsAlive`, and its variant `JoinFirst`), which `prover_mutex`
  and the join see to.

## 6. Not modelled

- *Of the modelled parts:* URL parsing, the syntax of HTTP headers, JSON and TLS;
  `Server::stop`, which is never called while the server runs; the ownership of
  PVAC handles on the paths of exceptions (a range proof that throws leaks those
  of its operation); two servers on one port, which Windows' `SO_REUSEADDR`
  allows; exceptions inside range proof workers, and memory that runs out within the
  limits, which end the process; writes to the relay that block; the tray's benchmark, export dialog, login item and installer.
- *Of PVAC:* key generation and the pseudo-random functions, hashes and AES
  behind it, which are functions without state whose quality is not a matter of
  states (the models take their results as parameters); the coordinates of the
  group in `ristretto255.hpp` (255-bit arithmetic; the group is modelled by
  logarithms); ciphers of more slots than one in arithmetic; aggregated range
  proofs, recryption, the CUDA path and its tests, and the readers of keys, which
  repeat the form of those modelled.
- *Third-party code*, `lib/`: the JSON parser there is nearly two thirds of the
  repository's lines of C++.
- *Not part of the program:* `jolt_bridge.hpp`, which it does not include, and
  `tls_recorder.hpp`, which only a test includes.
- *User interface:* `tray_win.hpp`, the menus and windows of `tray/main.m`, the
  web page.
- *Installers, CI and tests*, which have no protocol of their own.

What would come next: `Recorder` with the lock it lacks, proved without the
exception of `overlap`; the composition of `RelayBridge` with `ProveService` in
place of `ProveJob`; handle ownership in `Prover`; the witness of a zero proof's circuit
(`CircuitComplete`) as a theorem.
