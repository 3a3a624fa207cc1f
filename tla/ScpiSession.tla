----------------------------- MODULE ScpiSession -----------------------------
(***************************************************************************)
(* A session and its client, used by several threads: session/session.py,   *)
(* the locking, outcome notification and retry of scpi/client.py and        *)
(* execution/retry.py, and session/health.py, over a transport seen through *)
(* its life-cycle state.                                                    *)
(*                                                                         *)
(* Two reentrant locks: the client's serializes exchanges, the session's     *)
(* guards identity and health.  Session operations hold both; a client       *)
(* operation holds the first and takes the second to report its outcome;      *)
(* reading health takes the second alone.  A retried query holds nothing      *)
(* while it backs off, so anything may happen between two attempts.           *)
(*                                                                         *)
(* Each action runs from one place where the thread may block, or where what  *)
(* it did becomes visible to others, to the next.  Interruptions arrive while *)
(* the thread is blocked in the transport or in the caller's validator.       *)
(***************************************************************************)
EXTENDS Integers, Sequences

CONSTANTS
  Threads,        \* threads that use the session
  NoThread,       \* the owner of a free lock
  Attempts,       \* RetryPolicy.attempts
  MaxCalls,       \* bound on the operations a thread calls
  RefusalFaults   \* whether transact on a transport that is not open faults it:
                  \* TRUE for sockets, serial and VISA, FALSE for the mock

ASSUME SessionAssumption ==
  /\ NoThread \notin Threads
  /\ Attempts \in Nat \ {0}
  /\ MaxCalls \in Nat
  /\ RefusalFaults \in BOOLEAN

VARIABLES
  tstate,         \* transport.state
  lockOf,         \* the owner of each lock
  generation,     \* _generation
  identity,       \* _identity: the connection it was read on; NoIdentity is None
  communicationOk,\* _health.communication_ok; "unknown" is None
  lastError,      \* _health.last_error
  recoverChecks,  \* _probe_on_recover and _validate_identity
  pc,             \* where every thread is
  op,             \* the operation it is in, or called last
  want,           \* the locks it has yet to take
  doing,          \* what it does, or will do, with the locks
  checks,         \* the checks its open or recovery makes
  attempt,        \* number of the attempt of a retried query
  result,         \* how the operation, or its latest step, ended
  calls,          \* operations called so far
  conn,           \* history: connections the transport has made
  checked,        \* history: checks the present connection has passed
  heard,          \* history: connection and generation of the latest reply
  intent          \* history: what last decided whether the session is to be open

healthVars == <<communicationOk, lastError>>

historyVars == <<conn, checked, heard, intent>>

sharedVars == <<tstate, generation, identity, healthVars, recoverChecks, historyVars>>

frameVars == <<op, checks, doing, attempt>>

vars == <<sharedVars, lockOf, pc, frameVars, want, result, calls>>

Locks == {"client", "session"}

Checks == {"probe", "validate"}

NoIdentity == 0

SessionOps == {"open", "close", "identity", "check"}

ClientOps == {"query", "write", "retry"}

Operations == SessionOps \cup ClientOps \cup {"health"}

NoOperation == "none"

\* Faulty variant: the session's lock first.
LocksSessionFirst(o) ==
  CASE o \in SessionOps \cup {"recover"} -> <<"session", "client">>
    [] o \in ClientOps -> <<"client">>
    [] o = "health" -> <<"session">>

\* The locks an operation takes, in order (_session_operation, _lock).
LocksFor(o) ==
  CASE o \in SessionOps \cup {"recover"} -> <<"client", "session">>
    [] o \in ClientOps -> <<"client">>
    [] o = "health" -> <<"session">>

Init ==
  /\ tstate = "CREATED"
  /\ lockOf = [l \in Locks |-> NoThread]
  /\ generation = 0
  /\ identity = NoIdentity
  /\ communicationOk = "unknown"
  /\ lastError = "none"
  /\ recoverChecks = {}
  /\ pc = [t \in Threads |-> "idle"]
  /\ op = [t \in Threads |-> NoOperation]
  /\ want = [t \in Threads |-> <<>>]
  /\ doing = [t \in Threads |-> "operation"]
  /\ checks = [t \in Threads |-> {}]
  /\ attempt = [t \in Threads |-> 1]
  /\ result = [t \in Threads |-> "none"]
  /\ calls = [t \in Threads |-> 0]
  /\ conn = 0
  /\ checked = {}
  /\ heard = [conn |-> 0, generation |-> 0]
  /\ intent = "created"

------------------------------------------------------------------------------
\* Control.

Goto(t, place) == pc' = [pc EXCEPT ![t] = place]

Yields(t, r) == result' = [result EXCEPT ![t] = r]

\* Every `with` the thread is in ends.
ReleaseLocks(t) ==
  lockOf' = [l \in Locks |-> IF lockOf[l] = t THEN NoThread ELSE lockOf[l]]

\* The operation returns or raises, and its frame is gone.
Leave(t, r) ==
  /\ Goto(t, "idle")
  /\ ReleaseLocks(t)
  /\ Yields(t, r)
  /\ op' = [op EXCEPT ![t] = NoOperation]
  /\ checks' = [checks EXCEPT ![t] = {}]
  /\ doing' = [doing EXCEPT ![t] = "operation"]
  /\ attempt' = [attempt EXCEPT ![t] = 1]

\* The operation goes on, and what it holds and is doing stays as it is.
Continue(t, place) ==
  /\ Goto(t, place)
  /\ UNCHANGED <<lockOf, frameVars>>

\* Faulty variant: the client's lock spans the whole retry sequence.
RetryFailedHoldingLock(t, r) ==
  IF r = "TransportError" /\ attempt[t] < Attempts
    THEN Continue(t, "backoff") /\ Yields(t, r)
    ELSE Leave(t, r)

\* Faulty variant: one attempt too many.
RetryFailedOffByOne(t, r) ==
  IF r = "TransportError" /\ attempt[t] <= Attempts
    THEN Goto(t, "backoff") /\ ReleaseLocks(t) /\ Yields(t, r) /\ UNCHANGED frameVars
    ELSE Leave(t, r)

\* run_with_retry after a recovery or an attempt that raised: a TransportError
\* uses up the attempt, anything else propagates.
RetryFailed(t, r) ==
  IF r = "TransportError" /\ attempt[t] < Attempts
    THEN Goto(t, "backoff") /\ ReleaseLocks(t) /\ Yields(t, r) /\ UNCHANGED frameVars
    ELSE Leave(t, r)

\* The running operation, or the running attempt of it, raises r.
Fail(t, r) == IF op[t] = "retry" THEN RetryFailed(t, r) ELSE Leave(t, r)

Call(t, o, c) ==
  /\ pc[t] = "idle"
  /\ calls[t] < MaxCalls
  /\ Goto(t, "lock")
  /\ op' = [op EXCEPT ![t] = o]
  /\ checks' = [checks EXCEPT ![t] = c]
  /\ calls' = [calls EXCEPT ![t] = @ + 1]
  /\ want' = [want EXCEPT ![t] = LocksFor(o)]
  /\ doing' = [doing EXCEPT ![t] = "operation"]
  /\ attempt' = [attempt EXCEPT ![t] = 1]
  /\ Yields(t, "none")
  /\ UNCHANGED <<sharedVars, lockOf>>

\* The locks are reentrant.
Acquire(t) ==
  /\ pc[t] = "lock"
  /\ lockOf[Head(want[t])] \in {t, NoThread}
  /\ lockOf' = [lockOf EXCEPT ![Head(want[t])] = t]
  /\ want' = [want EXCEPT ![t] = Tail(@)]
  /\ Goto(t, IF Len(want[t]) = 1 THEN "begin" ELSE "lock")
  /\ UNCHANGED <<sharedVars, frameVars, result, calls>>

\* Faulty variant: the next attempt neither recovers nor counts.
BackoffForever(t) ==
  /\ pc[t] = "backoff"
  /\ Goto(t, "lock")
  /\ want' = [want EXCEPT ![t] = LocksFor("retry")]
  /\ doing' = [doing EXCEPT ![t] = "operation"]
  /\ UNCHANGED <<sharedVars, lockOf, op, checks, attempt, result, calls>>

\* The delay is over: the next attempt begins with before_retry.
Backoff(t) ==
  /\ pc[t] = "backoff"
  /\ Goto(t, "lock")
  /\ want' = [want EXCEPT ![t] = LocksFor("recover")]
  /\ doing' = [doing EXCEPT ![t] = "recover"]
  /\ attempt' = [attempt EXCEPT ![t] = @ + 1]
  /\ UNCHANGED <<sharedVars, lockOf, op, checks, result, calls>>

\* max_elapsed_s or an infinite delay forbids another attempt: the last error.
GiveUp(t) ==
  /\ pc[t] = "backoff"
  /\ Leave(t, result[t])
  /\ UNCHANGED <<sharedVars, want, calls>>

------------------------------------------------------------------------------
\* One exchange with the instrument (_execute), and the report of its outcome.

\* A transport that is not open refuses; the refusal of transact may fault it.
Refuse(t) ==
  /\ pc[t] = "exchange"
  /\ tstate # "OPEN"
  /\ tstate' = IF RefusalFaults /\ op[t] # "write" THEN "FAULTED" ELSE tstate
  /\ Yields(t, "TransportError")
  /\ Continue(t, "notify")
  /\ UNCHANGED <<generation, identity, healthVars, recoverChecks, historyVars, want, calls>>

\* Timeout, lost connection or any other failure of I/O.
ExchangeFails(t) ==
  /\ pc[t] = "exchange"
  /\ tstate = "OPEN"
  /\ tstate' = "FAULTED"
  /\ Yields(t, "TransportError")
  /\ Continue(t, "notify")
  /\ UNCHANGED <<generation, identity, healthVars, recoverChecks, historyVars, want, calls>>

\* An interruption faults the transport too, and no listener hears of it.
ExchangeInterrupted(t) ==
  /\ pc[t] = "exchange"
  /\ tstate = "OPEN"
  /\ tstate' = "FAULTED"
  /\ Yields(t, "interrupted")
  /\ Continue(t, "returned")
  /\ UNCHANGED <<generation, identity, healthVars, recoverChecks, historyVars, want, calls>>

\* What a caller can make of a reply: only an identity can fail as an identity,
\* and a write reads none.
Readings(t) ==
  CASE op[t] = "write" -> {"ok"}
    [] op[t] # "write" /\ doing[t] = "identify" -> {"ok", "ProtocolError", "IdentityError"}
    [] OTHER -> {"ok", "ProtocolError"}

\* Faulty variant: the client's lock is released before the outcome is reported.
ExchangeUnlocks(t) ==
  /\ pc[t] = "exchange"
  /\ tstate = "OPEN"
  /\ heard' = [conn |-> conn, generation |-> generation]
  /\ \E r \in Readings(t) : Yields(t, r)
  /\ Goto(t, "notify")
  /\ lockOf' = IF lockOf["session"] = t THEN lockOf ELSE [lockOf EXCEPT !["client"] = NoThread]
  /\ UNCHANGED <<tstate, generation, identity, healthVars, recoverChecks, conn, checked, intent,
                 frameVars, want, calls>>

ExchangeSucceeds(t) ==
  /\ pc[t] = "exchange"
  /\ tstate = "OPEN"
  /\ heard' = [conn |-> conn, generation |-> generation]
  /\ \E r \in Readings(t) : Yields(t, r)
  /\ Continue(t, "notify")
  /\ UNCHANGED <<tstate, generation, identity, healthVars, recoverChecks, conn, checked, intent,
                 want, calls>>

\* The three records of an outcome in health.py.
RecordSuccess == communicationOk' = "yes" /\ lastError' = "none"

RecordFailure == communicationOk' = "no" /\ lastError' = "transport"

\* It follows a recorded success, so it only adds the error.
RecordProtocolFailure == communicationOk' = "yes" /\ lastError' = "identity"

\* _notify_outcome and _on_outcome.  A reply that cannot be decoded is still a
\* successful exchange; get_identity goes on to record one that is no identity.
Notify(t) ==
  /\ pc[t] = "notify"
  /\ lockOf["session"] \in {t, NoThread}
  /\ CASE result[t] = "TransportError" -> RecordFailure
       [] result[t] = "IdentityError" -> RecordProtocolFailure
       [] OTHER -> RecordSuccess
  /\ Continue(t, "returned")
  /\ UNCHANGED <<tstate, generation, identity, recoverChecks, historyVars, want, result, calls>>

------------------------------------------------------------------------------
\* Client operations, check_communication, health and close.

Begins(t, ops) == pc[t] = "begin" /\ op[t] \in ops /\ doing[t] = "operation"

BeginExchange(t) ==
  /\ Begins(t, ClientOps \cup {"check"})
  /\ Continue(t, "exchange")
  /\ UNCHANGED <<sharedVars, want, result, calls>>

OperationSucceeds(t) ==
  /\ pc[t] = "returned"
  /\ doing[t] = "operation"
  /\ result[t] = "ok"
  /\ Leave(t, "ok")
  /\ UNCHANGED <<sharedVars, want, calls>>

\* check_communication turns every driver error into False.
OperationFails(t) ==
  /\ pc[t] = "returned"
  /\ doing[t] = "operation"
  /\ result[t] # "ok"
  /\ IF op[t] = "check" /\ result[t] # "interrupted"
       THEN Leave(t, "ok")
       ELSE Fail(t, result[t])
  /\ UNCHANGED <<sharedVars, want, calls>>

\* The snapshot changes nothing; what it may show is HealthIsCurrent below.
ReadHealth(t) ==
  /\ Begins(t, {"health"})
  /\ Leave(t, "ok")
  /\ UNCHANGED <<sharedVars, want, calls>>

\* The transport ends closed, and the finally clause runs, even if closing raises.
Close(t) ==
  /\ Begins(t, {"close"})
  /\ tstate' = IF tstate = "CREATED" THEN "CREATED" ELSE "CLOSED"
  /\ identity' = NoIdentity
  /\ intent' = "closed"
  /\ \E r \in {"ok", "TransportError"} : Leave(t, r)
  /\ UNCHANGED <<generation, healthVars, recoverChecks, conn, checked, heard, want, calls>>

------------------------------------------------------------------------------
\* open and recover_if_faulted.

\* The step that follows on an open connection: an exchange for the next check, or
\* none when all are made.
Proceed(t, left) ==
  LET step == CASE "probe" \in left -> "probe"
                [] left = {"validate"} -> "identify"
                [] OTHER -> doing[t]
  IN  /\ doing' = [doing EXCEPT ![t] = step]
      /\ Goto(t, IF left = {} THEN "ready" ELSE "exchange")

\* health.record_connected.
RecordConnected == communicationOk' = "unknown" /\ lastError' = "none"

\* Faulty variant: the identity of the former connection is kept.
ReopenKeepsIdentity(t, c) ==
  /\ conn' = IF tstate = "OPEN" THEN conn ELSE conn + 1
  /\ checked' = IF tstate = "OPEN" THEN checked ELSE {}
  /\ tstate' = "OPEN"
  /\ generation' = generation + 1
  /\ RecordConnected
  /\ checks' = [checks EXCEPT ![t] = c]
  /\ Proceed(t, c)
  /\ UNCHANGED <<identity, recoverChecks, heard, lockOf, op, calls, want, attempt, result>>

\* _reopen_transport when transport.open() succeeds.  An open transport is left as
\* it is, and the session starts a new generation all the same.
Reopen(t, c) ==
  /\ conn' = IF tstate = "OPEN" THEN conn ELSE conn + 1
  /\ checked' = IF tstate = "OPEN" THEN checked ELSE {}
  /\ tstate' = "OPEN"
  /\ generation' = generation + 1
  /\ identity' = NoIdentity
  /\ RecordConnected
  /\ checks' = [checks EXCEPT ![t] = c]
  /\ Proceed(t, c)
  /\ UNCHANGED <<recoverChecks, heard, lockOf, op, calls, want, attempt, result>>

\* transport.open() raises: the transport is faulted, or still opening when the
\* thread was interrupted, and nothing of the session has changed.
ReopenFails(t) ==
  /\ tstate # "OPEN"
  /\ \/ tstate' = "FAULTED" /\ Fail(t, "TransportError")
     \/ tstate' = "OPENING" /\ Fail(t, "interrupted")
  /\ UNCHANGED <<generation, identity, healthVars, recoverChecks, conn, checked, heard, want, calls>>

Open(t) ==
  /\ Begins(t, {"open"})
  /\ Reopen(t, checks[t]) \/ ReopenFails(t)
  /\ intent' = "open"

Recovering(t) == pc[t] = "begin" /\ doing[t] = "recover"

RecoverIdle(t) ==
  /\ Recovering(t)
  /\ tstate = "OPEN"
  /\ Continue(t, "ready")
  /\ UNCHANGED <<sharedVars, want, result, calls>>

RecoverRefused(t) ==
  /\ Recovering(t)
  /\ tstate \notin {"OPEN", "FAULTED"}
  /\ Fail(t, "SessionClosedError")
  /\ UNCHANGED <<sharedVars, want, calls>>

\* Faulty variant: every transport that is not open is reopened.
RecoverAny(t) ==
  /\ Recovering(t)
  /\ tstate # "OPEN"
  /\ Reopen(t, recoverChecks) \/ ReopenFails(t)
  /\ UNCHANGED intent

Recover(t) ==
  /\ Recovering(t)
  /\ tstate = "FAULTED"
  /\ Reopen(t, recoverChecks) \/ ReopenFails(t)
  /\ UNCHANGED intent

ProbeSucceeds(t) ==
  /\ pc[t] = "returned"
  /\ doing[t] = "probe"
  /\ result[t] = "ok"
  /\ checked' = checked \cup {"probe"}
  /\ Proceed(t, checks[t] \ {"probe"})
  /\ UNCHANGED <<tstate, generation, identity, healthVars, recoverChecks, conn, heard, intent,
                 lockOf, op, checks, attempt, want, result, calls>>

\* get_identity with a cached identity.
IdentityCached(t) ==
  /\ Begins(t, {"identity"})
  /\ identity # NoIdentity
  /\ Leave(t, "ok")
  /\ UNCHANGED <<sharedVars, want, calls>>

IdentityAsked(t) ==
  /\ Begins(t, {"identity"})
  /\ identity = NoIdentity
  /\ doing' = [doing EXCEPT ![t] = "identify"]
  /\ Goto(t, "exchange")
  /\ UNCHANGED <<sharedVars, lockOf, op, checks, attempt, want, result, calls>>

\* get_identity stores what identify returned; open and recovery show it to the
\* validator.
IdentitySucceeds(t) ==
  /\ pc[t] = "returned"
  /\ doing[t] = "identify"
  /\ result[t] = "ok"
  /\ identity' = heard.conn
  /\ IF op[t] = "identity"
       THEN Leave(t, "ok")
       ELSE Continue(t, "validate") /\ UNCHANGED result
  /\ UNCHANGED <<tstate, generation, healthVars, recoverChecks, historyVars, want, calls>>

ValidatorAccepts(t) ==
  /\ pc[t] = "validate"
  /\ checked' = checked \cup {"validate"}
  /\ Continue(t, "ready")
  /\ UNCHANGED <<tstate, generation, identity, healthVars, recoverChecks, conn, heard, intent,
                 want, result, calls>>

\* validate_identity raises, or is interrupted.
ValidatorRaises(t) ==
  /\ pc[t] = "validate"
  /\ \E r \in {"ValidationError", "interrupted"} : Yields(t, r)
  /\ Continue(t, "undo")
  /\ UNCHANGED <<sharedVars, want, calls>>

CheckFails(t) ==
  /\ pc[t] = "returned"
  /\ doing[t] \in {"probe", "identify"}
  /\ result[t] # "ok"
  /\ IF op[t] = "identity"
       THEN Leave(t, result[t])
       ELSE Continue(t, "undo") /\ UNCHANGED result
  /\ UNCHANGED <<sharedVars, want, calls>>

\* What took the session out of use when an open or a recovery is undone.
Undone(t) ==
  CASE op[t] = "open" -> "openUndone"
    [] op[t] # "open" /\ result[t] = "TransportError" -> "recoveryFailed"
    [] OTHER -> "recoveryRejected"

\* Faulty variant: an interruption leaves the unchecked connection open.
UndoOnlyErrors(t) ==
  /\ pc[t] = "undo"
  /\ tstate' = IF result[t] = "interrupted" THEN tstate ELSE "CLOSED"
  /\ identity' = NoIdentity
  /\ intent' = Undone(t)
  /\ Fail(t, result[t])
  /\ UNCHANGED <<generation, healthVars, recoverChecks, conn, checked, heard, want, calls>>

\* The except clauses of open and recover_if_faulted.
Undo(t) ==
  /\ pc[t] = "undo"
  /\ tstate' = "CLOSED"
  /\ identity' = NoIdentity
  /\ intent' = Undone(t)
  /\ Fail(t, result[t])
  /\ UNCHANGED <<generation, healthVars, recoverChecks, conn, checked, heard, want, calls>>

\* open() returns, and recoveries will repeat its checks.
OpenDone(t) ==
  /\ pc[t] = "ready"
  /\ op[t] = "open"
  /\ recoverChecks' = checks[t]
  /\ Leave(t, "ok")
  /\ UNCHANGED <<tstate, generation, identity, healthVars, historyVars, want, calls>>

\* Recovery lets go of the locks; the attempt that follows takes the client's again.
RecoverDone(t) ==
  /\ pc[t] = "ready"
  /\ op[t] = "retry"
  /\ ReleaseLocks(t)
  /\ Goto(t, "lock")
  /\ want' = [want EXCEPT ![t] = LocksFor("retry")]
  /\ doing' = [doing EXCEPT ![t] = "operation"]
  /\ UNCHANGED <<sharedVars, op, checks, attempt, result, calls>>

------------------------------------------------------------------------------

Exchange(t) ==
  Refuse(t) \/ ExchangeFails(t) \/ ExchangeInterrupted(t) \/ ExchangeSucceeds(t) \/ Notify(t)

Step(t) ==
  \/ Acquire(t) \/ Backoff(t) \/ GiveUp(t)
  \/ Exchange(t)
  \/ BeginExchange(t) \/ OperationSucceeds(t) \/ OperationFails(t)
  \/ ReadHealth(t) \/ Close(t)
  \/ Open(t) \/ RecoverIdle(t) \/ RecoverRefused(t) \/ Recover(t)
  \/ ProbeSucceeds(t) \/ IdentityCached(t) \/ IdentityAsked(t) \/ IdentitySucceeds(t)
  \/ ValidatorAccepts(t) \/ ValidatorRaises(t) \/ CheckFails(t)
  \/ Undo(t) \/ OpenDone(t) \/ RecoverDone(t)

Calling(t) ==
  \/ \E o \in Operations \ {"open"} : Call(t, o, {})
  \/ \E c \in SUBSET Checks : Call(t, "open", c)

\* Every thread has made its calls.
Finished ==
  /\ \A t \in Threads : pc[t] = "idle" /\ calls[t] = MaxCalls
  /\ UNCHANGED vars

Next == Finished \/ \E t \in Threads : Step(t) \/ Calling(t)

Spec == Init /\ [][Next]_vars

\* A thread inside an operation keeps running: exchanges are bounded by their
\* timeouts, backoff by its delay, and validators return.
FairSpec == Spec /\ \A t \in Threads : WF_vars(Step(t))

------------------------------------------------------------------------------
Places == {"idle", "lock", "begin", "exchange", "notify", "returned", "validate", "undo", "ready",
           "backoff"}

Doings == {"operation", "recover", "probe", "identify"}

Results == {"none", "ok", "TransportError", "ProtocolError", "IdentityError", "ValidationError",
            "SessionClosedError", "interrupted"}

SharedTypeOK ==
  /\ tstate \in {"CREATED", "OPENING", "OPEN", "FAULTED", "CLOSED"}
  /\ generation \in Nat
  /\ identity \in Nat
  /\ communicationOk \in {"unknown", "yes", "no"}
  /\ lastError \in {"none", "transport", "identity"}
  /\ recoverChecks \subseteq Checks
  /\ conn \in Nat
  /\ checked \subseteq Checks
  /\ heard \in [conn : Nat, generation : Nat]
  /\ intent \in {"created", "open", "closed", "openUndone", "recoveryFailed",
                "recoveryRejected"}

ThreadTypeOK ==
  /\ lockOf \in [Locks -> Threads \cup {NoThread}]
  /\ pc \in [Threads -> Places]
  /\ op \in [Threads -> Operations \cup {NoOperation}]
  /\ want \in [Threads -> Seq(Locks)]
  /\ doing \in [Threads -> Doings]
  /\ checks \in [Threads -> SUBSET Checks]
  /\ attempt \in [Threads -> 1..Attempts]
  /\ result \in [Threads -> Results]
  /\ calls \in [Threads -> Nat]

\* The types of the variables.
TypeOK == SharedTypeOK /\ ThreadTypeOK

Holds(t, l) == lockOf[l] = t

Waits(t, l) ==
  \/ pc[t] = "lock" /\ want[t] # <<>> /\ Head(want[t]) = l
  \/ pc[t] = "notify" /\ l = "session"

\* No two threads wait for each other: session operations, outcome listeners and
\* health readers take the locks in one order (session.py 107-111, 215-221).
NoWaitCycle ==
  ~ \E t, u \in Threads :
      /\ t # u
      /\ Holds(t, "client") /\ Waits(t, "session")
      /\ Holds(u, "session") /\ Waits(u, "client")

\* A thread that has left, or that sleeps between two attempts, holds no lock, so
\* shutdown and other callers are not held up by a retry budget (client.py 281-286).
NoLockAsleep ==
  \A t \in Threads, l \in Locks : pc[t] \in {"idle", "backoff"} => ~Holds(t, l)

\* Whenever a client operation can start on an open connection, that connection has
\* passed the probe and the validator the last successful open() asked for: neither
\* a failed or interrupted check nor a recovery in another thread's retry leaves an
\* unchecked instrument open (session.py 118-174).
CheckedWhenUsable ==
  tstate = "OPEN" /\ lockOf["client"] = NoThread => recoverChecks \subseteq checked

\* A cached identity was read on the present connection, never on one that a
\* recovery or an open() has replaced, and replies traced with the present generation
\* came on it too (session.py 140-145, 204-213, 227-235).
IdentityIsCurrent ==
  /\ identity # NoIdentity => identity = conn
  /\ heard.generation = generation /\ heard.conn # 0 => heard.conn = conn

\* What a reader of health can see is about the present connection: an open
\* connection is never shown with the failure of a former one, and success means a
\* reply of this connection.  An outcome reported late would break both.
HealthIsCurrent ==
  lockOf["session"] = NoThread =>
    /\ tstate = "OPEN" => communicationOk # "no"
    /\ communicationOk = "yes" => heard.conn = conn

\* Recovery reopens only a session that is meant to be open: "CREATED and CLOSED
\* represent caller intent, not a transient transport failure, so retry machinery
\* must never silently reopen them" (session.py 150-151).
NeverSilentlyReopens ==
  [][\A t \in Threads : Recovering(t) /\ conn' # conn => intent = "open"]_vars

\* A recovery that failed leaves the remaining attempts usable: "A retryable failure
\* from before_retry consumes that attempt and leaves the remaining budget intact"
\* (retry.py 130-131), so a later attempt is not refused because of it.
BudgetSurvivesRecovery ==
  [][\A t \in Threads :
       result'[t] = "SessionClosedError" /\ result[t] # "SessionClosedError"
         => intent # "recoveryFailed"]_vars

\* Every operation ends, a close() that meets running retries included.
OperationsEnd == \A t \in Threads : pc[t] # "idle" ~> pc[t] = "idle"

------------------------------------------------------------------------------
\* The inductive invariant behind the properties above.

Inside == {"begin", "exchange", "notify", "returned", "validate", "undo", "ready"}

\* What a thread has called, what it is doing and where it is fit together.
FrameOK(t) ==
  /\ pc[t] = "idle" <=> op[t] = NoOperation
  /\ pc[t] = "idle" => doing[t] = "operation"
  /\ pc[t] = "backoff" => op[t] = "retry" /\ attempt[t] < Attempts
  /\ doing[t] = "recover" => op[t] = "retry"
  /\ doing[t] = "probe" => op[t] \in {"open", "retry"}
  /\ doing[t] = "identify" => op[t] \in {"open", "retry", "identity"}
  /\ pc[t] \in {"lock", "begin"} => doing[t] \in {"operation", "recover"}
  /\ pc[t] \in {"exchange", "notify", "returned"} =>
       IF doing[t] = "operation" THEN op[t] \in ClientOps \cup {"check"} ELSE doing[t] # "recover"
  /\ pc[t] \in {"validate", "undo", "ready"} => op[t] \in {"open", "retry"}
  /\ pc[t] \in {"validate", "undo"} => doing[t] \in {"probe", "identify"}
  /\ pc[t] = "validate" => doing[t] = "identify"
  /\ pc[t] = "ready" /\ op[t] = "retry" => doing[t] # "operation"

\* Session operations and recoveries need both locks.
NeedsClient(t) == op[t] # "health"

NeedsSession(t) == op[t] \in SessionOps \cup {"health"} \/ doing[t] # "operation"

\* The locks a thread holds and those it waits for, by where it is.
LocksOK(t) ==
  /\ pc[t] \in {"idle", "backoff"} => ~Holds(t, "client") /\ ~Holds(t, "session")
  /\ pc[t] = "lock" =>
       /\ ~Holds(t, "session")
       /\ want[t] \in {<<"client", "session">>, <<"client">>, <<"session">>}
       /\ want[t] = <<"client", "session">> => ~Holds(t, "client") /\ NeedsClient(t) /\ NeedsSession(t)
       /\ want[t] = <<"client">> => ~Holds(t, "client") /\ NeedsClient(t) /\ ~NeedsSession(t)
       /\ want[t] = <<"session">> => (Holds(t, "client") <=> NeedsClient(t)) /\ NeedsSession(t)
  /\ pc[t] \in Inside =>
       /\ Holds(t, "client") <=> NeedsClient(t)
       /\ Holds(t, "session") <=> NeedsSession(t)

\* What an exchange has left behind while its outcome is reported and used.
OutcomeOK(t) ==
  /\ pc[t] = "notify" => result[t] \in {"ok", "ProtocolError", "IdentityError", "TransportError"}
  /\ pc[t] = "notify" /\ result[t] = "TransportError" => tstate # "OPEN"
  /\ pc[t] \in {"notify", "returned"} /\ result[t] \in {"ok", "ProtocolError", "IdentityError"} =>
       heard.conn = conn

\* An open or a recovery that has reopened the transport and not yet returned.
Checking(t) ==
  /\ pc[t] \in Inside \ {"begin"}
  /\ op[t] \in {"open", "retry"}
  /\ op[t] = "retry" => doing[t] # "operation"

\* A recovery makes the checks of the last open(), and they are made in order.
ChecksOK(t) ==
  Checking(t) =>
    /\ op[t] = "retry" /\ doing[t] # "recover" => checks[t] = recoverChecks
    /\ doing[t] = "identify" => checks[t] \subseteq checked \cup {"validate"}
    /\ pc[t] = "ready" => (IF op[t] = "open" THEN checks[t] ELSE recoverChecks) \subseteq checked

\* An unchecked connection is in the hands of the thread that checks it.
CheckedOrChecking ==
  tstate = "OPEN" => recoverChecks \subseteq checked \/ \E t \in Threads : Checking(t)

\* HealthIsCurrent for a reader that takes no lock.
HealthOK ==
  /\ tstate = "OPEN" => communicationOk # "no"
  /\ communicationOk = "yes" => heard.conn = conn

\* Without faults by refusal, a transport is open or faulted by the caller's intent.
IntentOK == ~RefusalFaults /\ tstate \in {"OPEN", "FAULTED"} => intent = "open"

\* Every thread holds exactly the locks its place in its operation calls for, knows
\* of its exchange only what is still true of the present connection, and leaves no
\* unchecked connection to others; retries never exceed the policy's attempts
\* (session.py 107-235, client.py 281-386, retry.py 134-186).
SessionInv ==
  /\ TypeOK
  /\ \A t \in Threads : FrameOK(t)
  /\ \A t \in Threads : LocksOK(t)
  /\ \A t \in Threads : OutcomeOK(t)
  /\ \A t \in Threads : ChecksOK(t)
  /\ CheckedOrChecking
  /\ heard.generation <= generation
  /\ IdentityIsCurrent
  /\ HealthOK
  /\ IntentOK
==============================================================================
