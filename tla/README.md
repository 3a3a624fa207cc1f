# A verification of scpi-driver-core

scpi-driver-core is a Python library for talking to laboratory instruments: transports
(TCP, UDP, serial, VISA), a SCPI client, sessions with health and recovery, a registry of
sessions, retry, guards and tracing. Threads share almost all of it. This directory models
the parts whose correctness depends on the order of steps, checks them with TLC on small
instances and proves the central ones with TLAPS for all instances.

Paths below are relative to `src/src/scpi_driver_core/`.

## Inventory

| Part | State | Operations | What is hard | What makes it correct |
|---|---|---|---|---|
| `transport/state.py` | life-cycle state, operation lock, resource | close, invalidate, fault, refusal | state is read without the lock; failures and interruptions anywhere | the resource agrees with the state; operations never overlap |
| `transport/tcp.py` | socket, receive buffer | open, write, read, transact, flush | late and partial replies, deadlines, interruption | a reply answers its own request; one deadline per exchange; no leak |
| `transport/udp.py`, `serial.py`, `visa.py` | the resource, a drain flag for UDP, a local buffer for VISA | like TCP, and device clear, serial poll, trigger and local control for VISA | datagrams lost, duplicated, late, foreign; replies in chunks; no connection on a serial line | the same contract (`transport/base.py`); an answer is of its own query, whole and from the instrument |
| `transport/mock.py`, `simulation/scripted.py` | fed chunks, injections, delayed replies, histories, error queue | the transport operations, feeding, injecting, scripting | compound messages with strings and blocks; failures and delays that outlive their exchange; a test is only as good as its double | exact accounting; a failure belongs to its exchange; histories say what was sent |
| `scpi/client.py` | lock, listeners, error policy, pacing clock | write, query (with retry), block query, error checking | checks nested in queries; lock released between attempts | command and check are one operation; nothing sleeps with the lock |
| `scpi/errors.py` | none (the queue is the instrument's) | read_one, drain, raise_if_errors | entries are gone once popped | what is popped is reported; a silent success is a success |
| `scpi/binary_block.py` | none | encode, decode, read a block | framing lost half-way | all of the block or an invalid connection |
| `session/session.py`, `health.py` | identity, generation, health, remembered checks | open, recover, close, identity, check, health | recovery by another thread's retry; two locks | nothing of a former connection survives; unchecked connections are never usable |
| `session/registry.py` | sessions by alias, active alias | register, remove, get, set_active, disconnect(_all) | closing happens without the lock | every registration ends once; the active alias exists |
| `execution/retry.py`, `deadline.py`, `polling.py` | counters, clock | retry, deadline, poll | budget and delay edges | bounded, the budget means what it says |
| `execution/guards.py` | switch, epoch, thread-local scope | enable, disable, enabled, require_enabled | disable() racing an entry | unlocked exactly when confirmed and not revoked |
| `tracing/` | event number, losses, the commands that await an answer | events around transport calls | clients share a tracer and number their operations alike; delivery without a lock; observers that raise | no silent loss, a client's events in order, an answer redacted by its command |
| codec, parsers, engineering notation, redaction, JSONL files, value types | none, or a file | pure functions, file I/O | text and floating point | not a matter of interleaving; left to the tests |

How they interact: a session owns a client, a client owns a transport. A client operation
takes the client's lock, then the transport's; its outcome is reported to the session, which
takes its own lock for that. Session operations take the client's lock and then the
session's. The registry's, the guard's, the tracer's and the state locks are leaves. A
retried query calls back into `recover_if_faulted` between attempts, with no lock held.

`PROJECT.json` lists every component with its status, and every hazard at the line where it
bites.

## Modules

| Module | Models |
|---|---|
| `GuardContract` | abstract guard: a switch and windows that locking closes at once |
| `ConfirmationGuard` | `execution/guards.py`, refining `GuardContract` |
| `TransportStateMachine` | `transport/state.py`: lock, life cycle, release, fault |
| `TransportContract` | abstract transport (`transport/base.py`): serialized operations, the life cycle, and no open transport with a request unanswered behind it |
| `TcpTransport` | `transport/tcp.py` on the state machine, refining `TransportContract`; the instrument, and the block query of `scpi/client.py` and `scpi/binary_block.py` |
| `BackendExchange` | what `udp.py`, `serial.py` and `visa.py` share: opening, the exchange, the instrument |
| `UdpTransport`, `SerialTransport`, `VisaTransport` | each backend's own reads, flushes and control operations |
| `TransportBackends` | the three composed, one per behaviour, refining `TransportContract` |
| `ScpiSession` | `session/session.py`, `health.py`, the client's locking, notification and retry, over a transport seen as its state |
| `SessionRegistry` | `session/registry.py` |
| `ScpiErrorQueue` | `scpi/errors.py` and the error checking of `scpi/client.py` |
| `MockTransport` | `transport/mock.py` |
| `ProgramMessage` | the block format of `scpi/binary_block.py`; how `simulation/scripted.py` splits and completes what it receives |
| `ScriptedTransport` | the rest of `simulation/scripted.py`, on `MockTransport` |
| `Simulation` | a test program that drives the simulators |
| `Tracing` | `tracing/observer.py`, `tracing/instrumented.py` and the operation numbers of `scpi/client.py` |
| `ConfirmationGuardProofs`, `TcpTransportProofs`, `TransportBackendsProofs`, `ScpiSessionProofs`, `SessionRegistryProofs`, `ScpiErrorQueueProofs`, `TracingProofs`, `SimulationProofs` | the theorems about the module each is named after |
| `MC*` | constants for TLC |

Each action is a stretch of code between two points where the thread may block, or where
what it did becomes visible to threads that do not need the lock. The RLocks are their
owners: nested acquisitions by the owner change nothing. Operators named "Faulty variant" in
their comment are what a plausible mistake would make of the definition below them; each
breaks one property and no specification uses them.

**ConfirmationGuard.** `enabled`, `epoch` are the shared fields; `depth`, `localEpoch` the
`threading.local`; `entering` the epoch that `enabled()` has read and not yet stored (the two
halves are `ReadEpoch` and `StoreScope`). `live` and `revoked` count the open blocks by the
epoch their generator holds; which of the two a block is in is not in the code but is what the
properties are about. Blocks may be left in any order, as generators allow.

**TransportStateMachine and TcpTransport.** `resource`/`handles` are the reference and what
the operating system has open, so a leak is a handle without reference. A byte of a reply
is a record of the request it answers and of how many bytes follow: enough to tell a
terminator, a block header and a foreign byte, and nothing else of the data. `inbox`, `wire`
are the requests and bytes in flight. `left` counts the deadline down, `spent` the time since
the operation began. The instrument is external: it answers requests in order, once, with
any length, at any time or never. Callers use `write` for what has no reply, which is how the
client uses it. All failures of an exchange (timeout, peer gone, socket error, interruption,
oversize or malformed reply) are possible at every point of it. The exact reads of a block
are merged into two: the header, and what the header announces.

**ScpiSession.** `want` and `lockOf` are the two locks; `doing` what an exchange is for
(operation, probe, identity); `attempt` the retry counter. The transport is reduced to its
state: an exchange succeeds, fails, is interrupted, or is refused. `RefusalFaults` tells the
backends (a refused transact faults them) from the mock (it does not). `conn`, `checked`,
`heard` and `intent` are history.

**SessionRegistry.** `Key` is the normalization of aliases: case and blanks are spellings of
one key, and a blank name has none. Registrations are numbered so that one session
registered twice is not one registration.

**ScpiErrorQueue.** An operation is a command or a drain; `level` tells whether the
running drain is the caller's or that of a check inside it. Entries are numbered by the
command that caused them.

**BackendExchange and the three backends.** `backend` is chosen once and for all in `Init`, so one
run covers three machines that share opening, the exchange and the life cycle. A byte also carries
its place in the reply and whether it is a terminator, because serial and VISA can read a reply in
part and a reply may have two lines. `framed` tells whether replies are in step: on this resource
none was read in part (with exact and up-to-length reads the caller decides that), came twice or
was one to a query of an earlier resource. `pending` is what the contract calls awaiting. UDP:
`fixedPort` tells whether a late datagram can reach the next socket (`local_bind`); `air` and
`queue` are the network and the socket. Serial: the line has no connection, so a request is
answered to whoever has the port open, and what arrives while it is closed is gone. VISA: `part`
is the local of `_read_message_bounded`, `buffer` is `_buffer`; the instrument keeps to IEEE 488.2
and drops its response when a new message comes. Of a low-level read the model keeps how much is
asked for and how it ends.

**MockTransport, ScriptedTransport, Simulation.** Their calls hold one lock from start to
end, so each is a function on a record, and the actions of `Simulation` apply them. Only
`open`, `close` and `invalidate` of the scripted instrument are two steps, because they
clear the delayed replies in a second locked section. Which rule matches a command is an
input, `Scripts`: one or two rules, so that one failing command can follow another. The bytes
fed, and the failures armed, while the mock is not open are marked `late`.

**ProgramMessage.** Characters are model bytes, because this is a parser and the property is what
it makes of quotation marks, separators, hashes and colons. `Simulation` writes messages from
items whose meaning is known (`Meant`), independently of the parser. `Characters` is the alphabet:
it has the digits and everything the parser looks for, and may have more. The assumption on
`Messages` is that each is `WellFormed`: headers have no special character, and a block that is
cut short comes last. Exchanges send one or two queries (`Query`) and are items too. The loops of
the parser are functions on the segments of a message, one `NextSegment` each.

**Tracing.** `call` holds the events an operation has still to emit, in the order the code
emits them for each outcome. `emit` is three steps: `Correlate` and `Build`, one for each
locked section, and delivery. `answered`, `since` and `shared` are history for the
cases in which an answer cannot find its command.

## Runs

| Run | Shows | Distinct states |
|---|---|---|
| `guard` | the guard's invariants and its refinement of `GuardContract` | 50 thousand |
| `tcp` | no stale answers, one deadline, every call ends; implements `TransportContract`; the invariant the proofs rest on, which includes serialized operations and no leaks | 174 thousand |
| `backends` | UDP, serial and VISA: a query that returns has the answer to its own request, whole, never foreign; drained before asking after a recovery; no leftover in the buffer; every call ends; implement `TransportContract`; the invariant the proofs rest on | 572 thousand |
| `simulation` | the mock and the scripted instrument: accounting, failures and delays that belong to their exchange and connection, histories, blocks that round-trip | 389 thousand |
| `tracing` | no silent loss, order, answers that meet their commands, a bounded table of commands | 529 thousand |
| `session` | lock order, no sleeping with a lock, only checked connections are usable, identity, health and generation are about the present connection; the invariant the proofs rest on | 1.4 million |
| `session_live` | on the mock: every operation ends, recovery reopens only what is meant to be open | 693 thousand |
| `registry` | registrations end once, the active alias exists, all that is taken out is closed | 24 thousand |
| `error_queue` | a checked normal return means no error; the flag of nested checks; what a check pops is reported, within the drain's limit | 3.1 million |

Three more runs show where the code and its documents part. Their property is what the
document says.

- `session_reopen`: `transact` looks at the state inside `_faulting_io` (`transport/tcp.py`
  165-167, and alike in UDP, serial and VISA), so refusing a query on a transport that was
  never opened, or was closed, makes it FAULTED; a retry then connects it.
  `session/session.py` 150-151 says retry must never do that. The tests use the mock, which
  behaves otherwise.
- `session_budget`: a recovery whose probe times out closes the transport
  (`session/session.py` 169-174), and the next attempt gets `SessionClosedError`, which is not
  retryable. `execution/retry.py` 130-131 says the remaining budget is intact.
- `error_queue_nested`: entries popped by a drain are dropped when a check nested in one of
  its queries raises (`scpi/errors.py` 80). Line 72 says every popped entry is preserved on
  failure. A transport failure in the middle of a drain loses them too.

Some properties name the exceptions the code makes instead of hiding them:

- `AnswersOwnRequest` and `WholeReply` speak of the step with which a query returns, and of
  resources on which replies are in step. On a serial line, and on UDP with a fixed local port, a
  reply to a query of an earlier resource can answer a query of this one, and then its own
  answer comes to the next. UDP drains only after a fault, not after `close` and `open`; serial
  does not drain at all.
- `FailedExchangeLeavesNothing`: a scripted reply that disconnects feeds its data after the
  disconnection (`simulation/scripted.py` 528-531), so the next connection finds it. An oversize
  reply of the mock is an error that leaves it open, since only timeouts invalidate.
- `ScriptedFailureIsForItsExchange`: a failure armed by one command survives if the connection
  is dropped before it is read, by a later command of the message or by a delayed reply of a
  former exchange that is delivered first (exchanges of either kind are `crowded`). And a read on
  a connection that is already lost still delivers the replies that are due
  (`simulation/scripted.py` 286-293), so the failure of one of them is armed `late`.
- `AnswerMeetsItsCommand`: operation ids are unique to a client, not to a tracer, so
  with a shared tracer an answer may be redacted by another client's command or by none;
  and of a block query only the first read has a command, so a redaction rule that
  depends on the query does not see the payload.

### Bounds

Two threads suffice for the races in question: each hazard is between one thread and another, and
the threads are interchangeable. `MaxCalls` 2 or 3 per thread lets a thread fail, recover and go
on, so four to six operations happen in a behaviour. TCP: `MaxReply` 3 with `MaxSize` 2 makes
replies that are shorter, as long as, and longer than a read allows; `Timeout` 2 lets time pass
between write and read. The backends have one thread, since what interleaves with it is the
instrument and the network and the races between threads are those of the state machine that `tcp`
explores; four calls allow a failed query, a reopening and another query with one operation to
spare. Replies of one to three bytes against `MaxSize` and `Length` 2 and chunks of one byte reach
both sides of every size check; two queued datagrams against a drain budget of two exhaust it.
Simulation: two exchanges over two connections, messages chosen so that each has one difficulty of
the parser, a payload of ten bytes for a length of two digits, and limits of the binary history
that two or three blocks reach. Tracing: three calls by two threads on two clients and a table of
two commands, so ids collide and the table overflows. The guard: two epochs after the first and
two nested blocks per epoch. Session: three attempts, so that a recovery fails and another
follows. Registry: four registrations over two keys, three sessions, one alias spelled twice.
Errors: two per command and a drain limit of three, so the limit is reached and overrun by two
commands.

### Fairness

Weak fairness of `Step(t)`, of time passing for a thread blocked in a backend, or `Closing(t)`,
for every thread: a thread that can go on eventually does. Every blocking call of the code has a
timeout, back-off has a finite delay, and validators are taken to return. Python's RLock is not
fair, but callers are bounded, so a lock that is wanted eventually stays free for the one that
wants it and weak fairness is enough. Nothing is assumed of the instrument, and starting an
operation is never required.

## Proofs

For every set of threads and every value of the bounds:

- `GuardInvariant`, `GuardUnlockedIffConfirmed`, `GuardGrantsOnlyConfirmed` and
  `GuardImplementsContract`. That a thread is unlocked exactly if it has an unrevoked block is
  not inductive: one has to know that an entry in progress holds the current epoch or a revoked
  one, that a scope of the current epoch counts exactly the live blocks, and that no scope is
  newer than the guard. `GuardInv` says that. The refinement maps the windows of the contract
  to the depth of a scope of the current epoch; `Disable` maps to closing all of them,
  because the epoch moves.
- `TcpInvariant` and from it `TcpSerialized`, `TcpResourceMatchesState`,
  `TcpReplyMatchesRequest`, `TcpCleanWhenFree`, `TcpWithinTimeout`, `TcpSentOnlyWhenOpen`.
  `TcpInv` adds to the properties where a thread can be in which state (`PlaceOK`), that what
  is outstanding while a thread reads is its one request or the rest of the one reply, cut
  anywhere between buffer and stream (`LineOK`), and that the line is otherwise empty
  (`LineEmpty`). With these a terminator found in the buffer must be the last byte of the
  reply, so nothing is left over; and whatever fails goes through `Fault`, which
  empties the line with the connection. One lemma per conjunct, one step per action.
- `RegistryInvariant` and from it `RegistryActiveIsRegistered` and
  `RegistryRegistrationEndsOnce`. These need one more fact to be inductive: a thread that is not
  disconnecting has nothing left to close, so its next disconnection overwrites nothing.
- `TcpImplementsContract`: every step of the TCP transport is one of `TransportContract` or
  none. The contract's awaiting is determined by the lock: its owner awaits a reply from
  sending the request to having all of it, and by `LineOK` nothing is outstanding otherwise.
- `SessionInvariant` and from it `SessionNoWaitCycle`, `SessionNoLockAsleep`,
  `SessionCheckedWhenUsable`, `SessionIdentityIsCurrent`, `SessionHealthIsCurrent` and
  `SessionNeverSilentlyReopens`. That an open connection has been checked is not inductive: it is
  open before it is checked. `SessionInv` says that an unchecked connection is in
  the hands of the thread that checks it (`CheckedOrChecking`), and that this thread holds both
  locks, which follows from the locks each place calls for (`LocksOK`); that a check is over only
  if all of its parts are (`ChecksOK`); that the outcome a thread is about to report is still
  about the present connection (`OutcomeOK`), for which it must hold the client's lock until it
  has reported; and what a reader of health without locks can see (`HealthOK`).
  `SessionNeverSilentlyReopens` is for transports whose refusals do not fault them, like
  the mock; for the others it is false, as run `session_reopen` shows.
- `QueueInvariant` and from it `QueueFlagWhileChecking`, `QueueNormalReturnMeansNoError` and
  `QueueCheckReportsAll`. `QueueInv` follows an error from the instrument to the report: while
  its command is checked it is in the queue or in the hands of the check (`CausedOK`), what is
  popped is in the hands of a drain until it is reported (`PoppedOK`), and a check that saw the
  end of the queue left it empty (`EmptyOK`), because no other thread can issue a command
  between. Frames (`FrameOK`) keep the caller's drain apart from the one nested in it.
- `BackendsInvariant` and from it `BackendsAnswersOwnRequest`, `BackendsWholeReply`,
  `BackendsDrainedBeforeAsking`, `BackendsBufferEmptyWhenFree`, `BackendsResourceMatchesState`
  and `BackendsImplementsContract`. Each link needs its own reason why a reply is the right one. A
  serial line keeps the order, and since nothing else was outstanding the answer is the last thing
  on it (`LastOnLine`). Datagrams keep no order, but there is one for the running query, in one
  place (`OnceInAir`), and none of an earlier query of the resource. An IEEE 488.2
  instrument drops all else when it gets a query (`OnlyOnBus`), and the local buffer
  holds at most the end of a reply that was read in part (`BufferOK`). The lock admits one
  thread, so the lemmas are about that thread and the other threads' places are
  carried along by `PlaceOK`. Nothing is assumed about losses or when the instrument
  answers, and of chunk sizes only that they are positive.
- `TracerInvariant` and from it `TracerLosesNothingSilently`, `TracerAnswersMeetCommands`,
  `TracerCommandsAreAwaited` and `TracerKeepsClientOrder`. The order of a client's events
  needs only that an operation holds its client's lock and has the number handed out last
  (`CallsOK`, `EventsOK`). The accounting counts a finite set of events on
  their way (`LossStep`). `TableOK` says that every command kept, but those of writes, is of a
  call still to be answered. That the answer finds its command needs a bound on how far
  from the end of the table it can be, counted by `since` (`KeptOK`).
- `SimulationInvariant` and from it `SimulationTypes`, `ResourcesAccounted`,
  `FailedExchangesLeaveNothing`, `ScriptedFailures`, `DelayedReplies`, `BinaryHistoryBounded` and
  `PayloadsSurvive`. A failed exchange leaves nothing because of what may be in the receive
  buffer at all: bytes of exchanges that did not fail, or late ones (`Harmless`); when the
  connection is lost only late ones are left (`LostMeansLate`); and the replies still due are of
  exchanges that may yet be answered, on this connection (`Due`). An exchange that raises passes
  through `Drop`, which empties both, so its id can be added to the failed ones. The
  binary history needs the bytes of a sequence cut anywhere (`TotalBytesFacts`).
  `PayloadsSurvive` does not depend on the state: it holds of every payload that fits a block,
  by the arithmetic of the length field (`RoundTrip`). The parser is in these theorems
  only with the type of what it returns.
- `ParserReads`: for every message, of any number of commands, with headers of any length, each
  kind of argument and any payload, `SplitOutbound(Rendered(message))` is `Meant(message)`, or an
  error and no part if the last block is cut short. `Meant` is defined on the items and knows
  nothing of characters. The proof follows the parser. Each item stands at a known place of the
  stream (`Placed`, `LaidOut`), a separator within a string is quoted and all others are not,
  because the quotation marks before an item are even (`EvenMarks`), and a hash begins a block
  only where one was written (`HashAt`); so a step of the scan takes one item or the rest of the
  text (`StepItem`, `ScanReads`), a text is cut at the ends of its commands (`CutsAre`,
  `SplitReads`), and the branch of a completed header is the path the next one continues
  (`ParentIs`, `InheritReads`). The recursive functions of the parser, and of `Meant`, are bounded
  by the length of the message, which makes them definable without a predicate to induce on
  (`Induction`, over sets of indices, and `Iteration`).
- `HistoryInvariant` and from it `HistoriesSayWhatWasSent` and `BinaryHistoriesAreLatest`.
  `HistoryInv` is `SimulationInv`, the type of `expected` and the two properties. Everything but
  recording a part leaves both histories as they are (`Keeps`). Recording a part adds it to what
  is told, evicting the oldest blocks where a limit requires it (`RecordTells`); the loop over the
  parts of a message goes as far as the first rule that raises (`ReachedFacts`, `ServeAllTells`);
  and by `ParserReads` these parts are the commands of the message.

`TracerInv`, `QueueInv`, `SimulationInv` and `HistoryInv` are not listed in a run; what they imply
is.

The assumptions are the named ASSUMEs of the modules: `NoThread` is no thread, the bounds are
naturals, timeouts and sizes positive, and the messages of `Simulation` are `WellFormed` over an
alphabet with what the parser looks for. Threads and clients may be any sets.

Only model-checked:

- liveness (`CallsEnd` of `tcp` and `backends`, `OperationsEnd`, `TakenOutIsClosed`), since TLAPS
  has no rule for fairness;
- the three disagreements with the documents, which are counterexamples.

## Not modelled

- Text and number conversion (codec, parsers, engineering notation), redaction patterns,
  trace files and value types: pure functions on text and floating-point numbers, or file I/O.
- The delays of retry, pacing and polling: floating-point arithmetic. What a delay decides,
  to go on or to give up, is a choice in `ScpiSession`. Pacing sleeps under a lock the
  exchange holds anyway. Polling is a sequential loop over the caller's predicate.
- UP_TO_LENGTH and AVAILABLE reads of TCP; the read path of VISA for doubles that lack
  the low-level API; the operation log of the mock; the trace context; serial port settings.
- Program messages whose meaning the model does not define: malformed ones, except for a block cut
  short, blocks of indefinite length, and other strings and numbers than the one of each that
  `Argument` writes. The parser is modelled for them; `Messages` has none, in the run as in the
  proofs.
- Interruptions are modelled where a thread blocks, not between any two byte codes: the
  window between `_reopen_transport` and the `try` of `session.open` is left out.

## Plan

1. The two read modes that `TcpTransport` lacks, together with the lemmas about them.
2. Types and the remaining small invariants of the components whose main invariants are proved.
