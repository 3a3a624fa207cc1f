-------------------------- MODULE ScpiSessionProofs --------------------------
(***************************************************************************)
(* Proofs about ScpiSession for any set of threads, any number of attempts   *)
(* and any number of calls.  SessionInv is inductive.  Its core is the lock  *)
(* discipline (LocksOK): a thread inside an operation of the client holds     *)
(* the client's lock, so while one is (Exclusive), no other thread changes    *)
(* the session or the transport (Quiet), and what the first has learnt from   *)
(* its exchange stays true until it has reported and used it.                 *)
(***************************************************************************)
EXTENDS ScpiSession, TLAPS

\* The sequences of locks an operation can still have to take.
LEMMA WantFacts ==
  /\ Head(<<"client", "session">>) = "client"
  /\ Tail(<<"client", "session">>) = <<"session">>
  /\ Len(<<"client", "session">>) = 2
  /\ Head(<<"client">>) = "client" /\ Tail(<<"client">>) = <<>> /\ Len(<<"client">>) = 1
  /\ Head(<<"session">>) = "session" /\ Tail(<<"session">>) = <<>> /\ Len(<<"session">>) = 1
  /\ <<"client", "session">> # <<"client">>
  /\ <<"client", "session">> # <<"session">>
  /\ <<"client">> # <<"session">>
  OBVIOUS

\* They are sequences of locks.
LEMMA WantTypes ==
  /\ <<"client", "session">> \in Seq(Locks)
  /\ <<"client">> \in Seq(Locks)
  /\ <<"session">> \in Seq(Locks)
  /\ <<>> \in Seq(Locks)
  BY DEF Locks

\* What a step of thread t leaves alone of thread u.
Alone(u) ==
  /\ pc'[u] = pc[u] /\ op'[u] = op[u] /\ want'[u] = want[u] /\ doing'[u] = doing[u]
  /\ checks'[u] = checks[u] /\ attempt'[u] = attempt[u] /\ result'[u] = result[u]
  /\ Holds(u, "client")' <=> Holds(u, "client")
  /\ Holds(u, "session")' <=> Holds(u, "session")

\* A step of one thread leaves the frame and the locks of every other alone.
LEMMA OthersAlone ==
  ASSUME ThreadTypeOK, NEW t \in Threads, Step(t), NEW u \in Threads, u # t
  PROVE  Alone(u)
<1> USE SessionAssumption DEF ThreadTypeOK, Locks, sharedVars, frameVars, Goto, Yields, Alone,
    Holds
<1>1. ASSUME Acquire(t) PROVE Alone(u)
  BY <1>1 DEF Acquire
<1>2. ASSUME Backoff(t) PROVE Alone(u)
  BY <1>2 DEF Backoff
<1>3. ASSUME GiveUp(t) PROVE Alone(u)
  BY <1>3 DEF GiveUp, Leave, ReleaseLocks
<1>4. ASSUME Refuse(t) PROVE Alone(u)
  BY <1>4 DEF Refuse, Continue
<1>5. ASSUME ExchangeFails(t) PROVE Alone(u)
  BY <1>5 DEF ExchangeFails, Continue
<1>6. ASSUME ExchangeInterrupted(t) PROVE Alone(u)
  BY <1>6 DEF ExchangeInterrupted, Continue
<1>7. ASSUME ExchangeSucceeds(t) PROVE Alone(u)
  BY <1>7 DEF ExchangeSucceeds, Continue
<1>8. ASSUME Notify(t) PROVE Alone(u)
  BY <1>8 DEF Notify, Continue, RecordSuccess, RecordProtocolFailure, RecordFailure
<1>9. ASSUME BeginExchange(t) PROVE Alone(u)
  BY <1>9 DEF BeginExchange, Continue, Begins
<1>10. ASSUME OperationSucceeds(t) PROVE Alone(u)
  BY <1>10 DEF OperationSucceeds, Leave, ReleaseLocks
<1>11. ASSUME OperationFails(t) PROVE Alone(u)
  BY <1>11 DEF OperationFails, Fail, Leave, ReleaseLocks, RetryFailed
<1>12. ASSUME ReadHealth(t) PROVE Alone(u)
  BY <1>12 DEF ReadHealth, Leave, ReleaseLocks, Begins
<1>13. ASSUME Close(t) PROVE Alone(u)
  BY <1>13 DEF Close, Leave, ReleaseLocks, Begins
<1>14. ASSUME Open(t) PROVE Alone(u)
  BY <1>14 DEF Open, ReopenFails, Fail, Leave, ReleaseLocks, RetryFailed, Reopen, Proceed,
      RecordConnected, Begins
<1>15. ASSUME RecoverIdle(t) PROVE Alone(u)
  BY <1>15 DEF RecoverIdle, Continue, Recovering
<1>16. ASSUME RecoverRefused(t) PROVE Alone(u)
  BY <1>16 DEF RecoverRefused, Fail, Leave, ReleaseLocks, RetryFailed, Recovering
<1>17. ASSUME Recover(t) PROVE Alone(u)
  BY <1>17 DEF Recover, ReopenFails, Fail, Leave, ReleaseLocks, RetryFailed, Reopen, Proceed,
      RecordConnected, Recovering
<1>18. ASSUME ProbeSucceeds(t) PROVE Alone(u)
  BY <1>18 DEF ProbeSucceeds, Proceed
<1>19. ASSUME IdentityCached(t) PROVE Alone(u)
  BY <1>19 DEF IdentityCached, Leave, ReleaseLocks, Begins
<1>20. ASSUME IdentityAsked(t) PROVE Alone(u)
  BY <1>20 DEF IdentityAsked, Begins
<1>21. ASSUME IdentitySucceeds(t) PROVE Alone(u)
  BY <1>21 DEF IdentitySucceeds, Continue, Leave, ReleaseLocks
<1>22. ASSUME ValidatorAccepts(t) PROVE Alone(u)
  BY <1>22 DEF ValidatorAccepts, Continue
<1>23. ASSUME ValidatorRaises(t) PROVE Alone(u)
  BY <1>23 DEF ValidatorRaises, Continue
<1>24. ASSUME CheckFails(t) PROVE Alone(u)
  BY <1>24 DEF CheckFails, Continue, Leave, ReleaseLocks
<1>25. ASSUME Undo(t) PROVE Alone(u)
  BY <1>25 DEF Undo, Fail, Leave, ReleaseLocks, RetryFailed
<1>26. ASSUME OpenDone(t) PROVE Alone(u)
  BY <1>26 DEF OpenDone, Leave, ReleaseLocks
<1>27. ASSUME RecoverDone(t) PROVE Alone(u)
  BY <1>27 DEF RecoverDone, ReleaseLocks
<1> QED BY <1>1, <1>2, <1>3, <1>4, <1>5, <1>6, <1>7, <1>8, <1>9, <1>10, <1>11, <1>12, <1>13,
    <1>14, <1>15, <1>16, <1>17, <1>18, <1>19, <1>20, <1>21, <1>22, <1>23, <1>24, <1>25, <1>26,
    <1>27 DEF Step, Exchange

\* An operation that ends leaves a thread with no lock and no frame.
LEMMA LeaveSafe ==
  ASSUME ThreadTypeOK, NEW t \in Threads, NEW r \in Results, Leave(t, r), UNCHANGED <<want,
      calls>>
  PROVE  ThreadTypeOK' /\ FrameOK(t)' /\ LocksOK(t)' /\ pc'[t] = "idle"
<1> USE DEF Leave, Goto, Yields, ReleaseLocks, ThreadTypeOK
<1>1. ThreadTypeOK'
  <2>1. (lockOf \in [Locks -> Threads \cup {NoThread}])'
    OBVIOUS
  <2>2. (pc \in [Threads -> Places])' /\ (op \in [Threads -> Operations \cup {NoOperation}])'
    BY DEF Places
  <2>3. (want \in [Threads -> Seq(Locks)])' /\ (calls \in [Threads -> Nat])'
    OBVIOUS
  <2>4. (doing \in [Threads -> Doings])' /\ (checks \in [Threads -> SUBSET Checks])'
    BY DEF Doings
  <2>5. (attempt \in [Threads -> 1..Attempts])'
    BY SessionAssumption
  <2>6. (result \in [Threads -> Results])'
    OBVIOUS
  <2> QED BY <2>1, <2>2, <2>3, <2>4, <2>5, <2>6
<1>2. FrameOK(t)'
  BY SessionAssumption DEF FrameOK, NoOperation
<1>3. LocksOK(t)'
  BY SessionAssumption DEF LocksOK, Holds, Locks, Inside
<1> QED BY <1>1, <1>2, <1>3

\* A failure ends the operation, or lets a retried query sleep without a lock.
LEMMA FailSafe ==
  ASSUME SessionInv, NEW t \in Threads, NEW r \in Results, Fail(t, r), UNCHANGED <<want, calls>>
  PROVE  ThreadTypeOK' /\ FrameOK(t)' /\ LocksOK(t)' /\ pc'[t] \in {"idle", "backoff"}
<1> USE DEF SessionInv, TypeOK
<1>1. CASE Leave(t, r)
  BY <1>1, LeaveSafe
<1>2. CASE /\ op[t] = "retry" /\ attempt[t] < Attempts
           /\ Goto(t, "backoff") /\ ReleaseLocks(t) /\ Yields(t, r) /\ UNCHANGED frameVars
  <2> USE <1>2 DEF ThreadTypeOK, Goto, Yields, ReleaseLocks, frameVars
  <2>1. ThreadTypeOK'
    <3>1. (lockOf \in [Locks -> Threads \cup {NoThread}])'
      OBVIOUS
    <3>2. (pc \in [Threads -> Places])'
      BY DEF Places
    <3>3. (result \in [Threads -> Results])'
      OBVIOUS
    <3> QED BY <3>1, <3>2, <3>3
  <2>2. FrameOK(t)'
    BY DEF FrameOK, NoOperation, ClientOps
  <2>3. LocksOK(t)'
    BY SessionAssumption DEF LocksOK, Holds, Locks, Inside
  <2> QED BY <2>1, <2>2, <2>3
<1> QED BY <1>1, <1>2 DEF Fail, RetryFailed

\* Proceeding to the next check, or past the last one.
LEMMA ProceedSafe ==
  ASSUME ThreadTypeOK, NEW t \in Threads, NEW left \in SUBSET Checks, Proceed(t, left),
         UNCHANGED <<lockOf, op, attempt, want, result, calls>>,
         checks' \in [Threads -> SUBSET Checks]
  PROVE  ThreadTypeOK'
<1>1. (pc \in [Threads -> Places])'
  BY DEF ThreadTypeOK, Proceed, Goto, Places
<1>2. (doing \in [Threads -> Doings])'
  <2>1. doing[t] \in Doings
    BY DEF ThreadTypeOK
  <2>2. (CASE "probe" \in left -> "probe" [] left = {"validate"} -> "identify" [] OTHER ->
      doing[t])
          \in Doings
    BY <2>1 DEF Doings
  <2> QED BY <2>2 DEF ThreadTypeOK, Proceed
<1> QED BY <1>1, <1>2 DEF ThreadTypeOK

\* Where the next check takes the thread.
LEMMA ProceedCases ==
  ASSUME ThreadTypeOK, NEW t \in Threads, NEW left \in SUBSET Checks, Proceed(t, left)
  PROVE  \/ left = {} /\ doing'[t] = doing[t] /\ pc'[t] = "ready"
         \/ "probe" \in left /\ doing'[t] = "probe" /\ pc'[t] = "exchange"
         \/ left = {"validate"} /\ doing'[t] = "identify" /\ pc'[t] = "exchange"
<1>1. left = {} \/ "probe" \in left \/ left = {"validate"}
  BY DEF Checks
<1>2. CASE left = {}
  BY <1>2 DEF Proceed, Goto, ThreadTypeOK
<1>3. CASE "probe" \in left
  BY <1>3 DEF Proceed, Goto, ThreadTypeOK
<1>4. CASE left = {"validate"}
  BY <1>4 DEF Proceed, Goto, ThreadTypeOK
<1> QED BY <1>1, <1>2, <1>3, <1>4

\* Every step keeps locks and frames in their types.
LEMMA ThreadTypeNext ==
  ASSUME SessionInv, NEW t \in Threads, Step(t)
  PROVE  ThreadTypeOK'
<1> USE SessionAssumption DEF SessionInv, TypeOK, ThreadTypeOK, sharedVars, frameVars, Goto,
    Yields, Continue, Begins
<1>1. CASE Acquire(t)
  <2>1. want[t] # <<>> /\ Head(want[t]) \in Locks /\ Tail(want[t]) \in Seq(Locks)
    BY <1>1, WantFacts, WantTypes DEF Acquire, LocksOK, Locks
  <2>2. (lockOf \in [Locks -> Threads \cup {NoThread}])'
    BY <1>1, <2>1 DEF Acquire
  <2>3. (want \in [Threads -> Seq(Locks)])'
    BY <1>1, <2>1 DEF Acquire
  <2>4. (pc \in [Threads -> Places])'
    BY <1>1 DEF Acquire, Places
  <2> QED BY <1>1, <2>2, <2>3, <2>4 DEF Acquire
<1>2. CASE Backoff(t)
  <2>1. (attempt \in [Threads -> 1..Attempts])'
    BY <1>2 DEF Backoff, FrameOK
  <2>2. (want \in [Threads -> Seq(Locks)])'
    BY <1>2, WantTypes DEF Backoff, LocksFor
  <2>3. (pc \in [Threads -> Places])' /\ (doing \in [Threads -> Doings])'
    BY <1>2 DEF Backoff, Places, Doings
  <2> QED BY <1>2, <2>1, <2>2, <2>3 DEF Backoff
<1>3. CASE GiveUp(t)
  BY <1>3, LeaveSafe DEF GiveUp
<1>4. CASE Refuse(t)
  BY <1>4 DEF Refuse, Places, Doings, Results
<1>5. CASE ExchangeFails(t)
  BY <1>5 DEF ExchangeFails, Places, Doings, Results
<1>6. CASE ExchangeInterrupted(t)
  BY <1>6 DEF ExchangeInterrupted, Places, Doings, Results
<1>7. CASE ExchangeSucceeds(t)
  <2>1. PICK r \in Readings(t) : Yields(t, r)
    BY <1>7 DEF ExchangeSucceeds
  <2>2. r \in Results
    BY <2>1 DEF Readings, Results
  <2> QED BY <1>7, <2>1, <2>2 DEF ExchangeSucceeds, Places
<1>8. CASE Notify(t)
  BY <1>8 DEF Notify, RecordSuccess, RecordProtocolFailure, RecordFailure, Places, Doings, Results
<1>9. CASE BeginExchange(t)
  BY <1>9 DEF BeginExchange, Places, Doings, Results
<1>10. CASE OperationSucceeds(t)
  BY <1>10, LeaveSafe DEF OperationSucceeds, Results
<1>11. CASE OperationFails(t)
  <2>1. "ok" \in Results /\ result[t] \in Results
    BY DEF Results
  <2> QED BY <1>11, <2>1, LeaveSafe, FailSafe DEF OperationFails
<1>12. CASE ReadHealth(t)
  BY <1>12, LeaveSafe DEF ReadHealth, Results
<1>13. CASE Close(t)
  BY <1>13, LeaveSafe DEF Close, Results
<1>14. CASE Open(t)
  <2>1. CASE Reopen(t, checks[t])
    <3>1. checks' \in [Threads -> SUBSET Checks]
      BY <2>1 DEF Reopen
    <3> QED BY <2>1, <3>1, ProceedSafe DEF Reopen
  <2>2. CASE ReopenFails(t)
    BY <2>2, FailSafe DEF ReopenFails, Results
  <2> QED BY <1>14, <2>1, <2>2 DEF Open
<1>15. CASE RecoverIdle(t)
  BY <1>15 DEF RecoverIdle, Recovering, Places, Doings, Results
<1>16. CASE RecoverRefused(t)
  BY <1>16, FailSafe DEF RecoverRefused, Results
<1>17. CASE Recover(t)
  <2>1. CASE Reopen(t, recoverChecks)
    <3>1. checks' \in [Threads -> SUBSET Checks]
      BY <2>1 DEF Reopen, SharedTypeOK
    <3> QED BY <2>1, <3>1, ProceedSafe DEF Reopen, SharedTypeOK
  <2>2. CASE ReopenFails(t)
    BY <2>2, FailSafe DEF ReopenFails, Results
  <2> QED BY <1>17, <2>1, <2>2 DEF Recover
<1>18. CASE ProbeSucceeds(t)
  BY <1>18, ProceedSafe DEF ProbeSucceeds
<1>19. CASE IdentityCached(t)
  BY <1>19, LeaveSafe DEF IdentityCached, Results
<1>20. CASE IdentityAsked(t)
  BY <1>20 DEF IdentityAsked, Places, Doings, Results
<1>21. CASE IdentitySucceeds(t)
  BY <1>21, LeaveSafe DEF IdentitySucceeds, Results, Places
<1>22. CASE ValidatorAccepts(t)
  BY <1>22 DEF ValidatorAccepts, Places, Doings, Results
<1>23. CASE ValidatorRaises(t)
  BY <1>23 DEF ValidatorRaises, Places, Doings, Results
<1>24. CASE CheckFails(t)
  BY <1>24, LeaveSafe DEF CheckFails, Places
<1>25. CASE Undo(t)
  BY <1>25, FailSafe DEF Undo
<1>26. CASE OpenDone(t)
  BY <1>26, LeaveSafe DEF OpenDone, Results
<1>27. CASE RecoverDone(t)
  <2>1. (want \in [Threads -> Seq(Locks)])'
    BY <1>27, WantTypes DEF RecoverDone, LocksFor, SessionOps, ClientOps
  <2> QED BY <1>27, <2>1 DEF RecoverDone, ReleaseLocks, Places, Doings
<1> QED BY <1>1, <1>2, <1>3, <1>4, <1>5, <1>6, <1>7, <1>8, <1>9, <1>10, <1>11, <1>12, <1>13,
    <1>14, <1>15, <1>16, <1>17, <1>18, <1>19, <1>20, <1>21, <1>22, <1>23, <1>24, <1>25, <1>26,
    <1>27 DEF Step, Exchange

\* Every step keeps what a thread called, what it does and where it is consistent.
LEMMA FrameNext ==
  ASSUME SessionInv, NEW t \in Threads, Step(t)
  PROVE  FrameOK(t)'
<1> USE SessionAssumption DEF SessionInv, TypeOK, ThreadTypeOK, sharedVars, frameVars, Goto,
    Yields, Continue, Begins
<1>1. CASE Acquire(t)
  BY <1>1 DEF Acquire, FrameOK, NoOperation, ClientOps, SessionOps, Operations, Doings
<1>2. CASE Backoff(t)
  BY <1>2 DEF Backoff, FrameOK, NoOperation, ClientOps, SessionOps, Operations, Doings
<1>3. CASE GiveUp(t)
  BY <1>3, LeaveSafe DEF GiveUp
<1>4. CASE Refuse(t)
  BY <1>4 DEF Refuse, FrameOK, NoOperation, ClientOps, SessionOps, Operations, Doings
<1>5. CASE ExchangeFails(t)
  BY <1>5 DEF ExchangeFails, FrameOK, NoOperation, ClientOps, SessionOps, Operations, Doings
<1>6. CASE ExchangeInterrupted(t)
  BY <1>6 DEF ExchangeInterrupted, FrameOK, NoOperation, ClientOps, SessionOps, Operations, Doings
<1>7. CASE ExchangeSucceeds(t)
  BY <1>7 DEF ExchangeSucceeds, FrameOK, NoOperation, ClientOps, SessionOps, Operations, Doings
<1>8. CASE Notify(t)
  BY <1>8 DEF Notify, RecordSuccess, RecordProtocolFailure, RecordFailure, FrameOK, NoOperation,
      ClientOps, SessionOps, Operations, Doings
<1>9. CASE BeginExchange(t)
  BY <1>9 DEF BeginExchange, FrameOK, NoOperation, ClientOps, SessionOps, Operations, Doings
<1>10. CASE OperationSucceeds(t)
  BY <1>10, LeaveSafe DEF OperationSucceeds, Results
<1>11. CASE OperationFails(t)
  <2>1. "ok" \in Results /\ result[t] \in Results
    BY DEF Results
  <2> QED BY <1>11, <2>1, LeaveSafe, FailSafe DEF OperationFails
<1>12. CASE ReadHealth(t)
  BY <1>12, LeaveSafe DEF ReadHealth, Results
<1>13. CASE Close(t)
  BY <1>13, LeaveSafe DEF Close, Results
<1>14. CASE Open(t)
  <2>1. CASE Reopen(t, checks[t])
    <3>1. checks[t] \in SUBSET Checks
      BY DEF SharedTypeOK
    <3>2. Proceed(t, checks[t])
      BY <2>1 DEF Reopen
    <3> QED BY <1>14, <2>1, <3>1, <3>2, ProceedCases DEF Open, Reopen, FrameOK, NoOperation,
        ClientOps, SessionOps, Operations, Doings
  <2>2. CASE ReopenFails(t)
    BY <2>2, FailSafe DEF ReopenFails, Results
  <2> QED BY <1>14, <2>1, <2>2 DEF Open
<1>15. CASE RecoverIdle(t)
  BY <1>15 DEF RecoverIdle, Recovering, FrameOK, NoOperation, ClientOps, SessionOps, Operations,
      Doings
<1>16. CASE RecoverRefused(t)
  BY <1>16, FailSafe DEF RecoverRefused, Results
<1>17. CASE Recover(t)
  <2>1. CASE Reopen(t, recoverChecks)
    <3>1. recoverChecks \in SUBSET Checks
      BY DEF SharedTypeOK
    <3>2. Proceed(t, recoverChecks)
      BY <2>1 DEF Reopen
    <3> QED BY <1>17, <2>1, <3>1, <3>2, ProceedCases DEF Recover, Reopen, FrameOK, NoOperation,
        ClientOps, SessionOps, Operations, Doings, Recovering
  <2>2. CASE ReopenFails(t)
    BY <2>2, FailSafe DEF ReopenFails, Results
  <2> QED BY <1>17, <2>1, <2>2 DEF Recover
<1>18. CASE ProbeSucceeds(t)
  BY <1>18 DEF ProbeSucceeds, Proceed, FrameOK, NoOperation, ClientOps, SessionOps, Operations,
      Doings
<1>19. CASE IdentityCached(t)
  BY <1>19, LeaveSafe DEF IdentityCached, Results
<1>20. CASE IdentityAsked(t)
  BY <1>20 DEF IdentityAsked, FrameOK, NoOperation, ClientOps, SessionOps, Operations, Doings
<1>21. CASE IdentitySucceeds(t)
  <2>1. CASE Leave(t, "ok")
    BY <1>21, <2>1, LeaveSafe DEF IdentitySucceeds, Results
  <2>2. CASE op[t] # "identity" /\ Continue(t, "validate")
    BY <1>21, <2>2 DEF IdentitySucceeds, FrameOK, NoOperation, ClientOps, SessionOps,
        Operations, Doings
  <2> QED BY <1>21, <2>1, <2>2 DEF IdentitySucceeds
<1>22. CASE ValidatorAccepts(t)
  BY <1>22 DEF ValidatorAccepts, FrameOK, NoOperation, ClientOps, SessionOps, Operations, Doings
<1>23. CASE ValidatorRaises(t)
  BY <1>23 DEF ValidatorRaises, FrameOK, NoOperation, ClientOps, SessionOps, Operations, Doings
<1>24. CASE CheckFails(t)
  <2>1. CASE Leave(t, result[t])
    BY <1>24, <2>1, LeaveSafe DEF CheckFails
  <2>2. CASE op[t] # "identity" /\ Continue(t, "undo")
    BY <1>24, <2>2 DEF CheckFails, FrameOK, NoOperation, ClientOps, SessionOps, Operations, Doings
  <2> QED BY <1>24, <2>1, <2>2 DEF CheckFails
<1>25. CASE Undo(t)
  BY <1>25, FailSafe DEF Undo
<1>26. CASE OpenDone(t)
  BY <1>26, LeaveSafe DEF OpenDone, Results
<1>27. CASE RecoverDone(t)
  BY <1>27 DEF RecoverDone, FrameOK, NoOperation, ClientOps, SessionOps, Operations, Doings
<1> QED BY <1>1, <1>2, <1>3, <1>4, <1>5, <1>6, <1>7, <1>8, <1>9, <1>10, <1>11, <1>12, <1>13,
    <1>14, <1>15, <1>16, <1>17, <1>18, <1>19, <1>20, <1>21, <1>22, <1>23, <1>24, <1>25, <1>26,
    <1>27 DEF Step, Exchange

\* Every step takes and releases the locks its place in the operation calls for.
LEMMA LocksNext ==
  ASSUME SessionInv, NEW t \in Threads, Step(t)
  PROVE  LocksOK(t)'
<1> USE SessionAssumption DEF SessionInv, TypeOK, ThreadTypeOK, sharedVars, frameVars, Goto,
    Yields, Continue, Begins
<1>1. CASE Acquire(t)
  <2> USE <1>1, WantFacts DEF Acquire, FrameOK, LocksOK, Inside, NeedsClient, NeedsSession,
      Holds, Locks, SessionOps, ClientOps, NoOperation
  <2>1. CASE want[t] = <<"client", "session">>
    BY <2>1
  <2>2. CASE want[t] = <<"client">>
    BY <2>2
  <2>3. CASE want[t] = <<"session">>
    BY <2>3
  <2> QED BY <2>1, <2>2, <2>3
<1>2. CASE Backoff(t)
  BY <1>2, WantFacts DEF Backoff, LocksFor, FrameOK, LocksOK, Inside, NeedsClient, NeedsSession,
      Holds, Locks, SessionOps, ClientOps, NoOperation
<1>3. CASE GiveUp(t)
  BY <1>3, LeaveSafe DEF GiveUp
<1>4. CASE Refuse(t)
  BY <1>4 DEF Refuse, FrameOK, LocksOK, Inside, NeedsClient, NeedsSession, Holds, Locks,
      SessionOps, ClientOps, NoOperation
<1>5. CASE ExchangeFails(t)
  BY <1>5 DEF ExchangeFails, FrameOK, LocksOK, Inside, NeedsClient, NeedsSession, Holds, Locks,
      SessionOps, ClientOps, NoOperation
<1>6. CASE ExchangeInterrupted(t)
  BY <1>6 DEF ExchangeInterrupted, FrameOK, LocksOK, Inside, NeedsClient, NeedsSession, Holds,
      Locks, SessionOps, ClientOps, NoOperation
<1>7. CASE ExchangeSucceeds(t)
  BY <1>7 DEF ExchangeSucceeds, FrameOK, LocksOK, Inside, NeedsClient, NeedsSession, Holds,
      Locks, SessionOps, ClientOps, NoOperation
<1>8. CASE Notify(t)
  BY <1>8 DEF Notify, RecordSuccess, RecordProtocolFailure, RecordFailure, FrameOK, LocksOK,
      Inside, NeedsClient, NeedsSession, Holds, Locks, SessionOps, ClientOps, NoOperation
<1>9. CASE BeginExchange(t)
  BY <1>9 DEF BeginExchange, FrameOK, LocksOK, Inside, NeedsClient, NeedsSession, Holds, Locks,
      SessionOps, ClientOps, NoOperation
<1>10. CASE OperationSucceeds(t)
  BY <1>10, LeaveSafe DEF OperationSucceeds, Results
<1>11. CASE OperationFails(t)
  <2>1. "ok" \in Results /\ result[t] \in Results
    BY DEF Results
  <2> QED BY <1>11, <2>1, LeaveSafe, FailSafe DEF OperationFails
<1>12. CASE ReadHealth(t)
  BY <1>12, LeaveSafe DEF ReadHealth, Results
<1>13. CASE Close(t)
  BY <1>13, LeaveSafe DEF Close, Results
<1>14. CASE Open(t)
  <2>1. CASE Reopen(t, checks[t])
    <3>1. checks[t] \in SUBSET Checks
      BY DEF SharedTypeOK
    <3>2. Proceed(t, checks[t])
      BY <2>1 DEF Reopen
    <3> QED BY <1>14, <2>1, <3>1, <3>2, ProceedCases DEF Open, Reopen, FrameOK, LocksOK, Inside,
        NeedsClient, NeedsSession, Holds, Locks, SessionOps, ClientOps, NoOperation
  <2>2. CASE ReopenFails(t)
    BY <2>2, FailSafe DEF ReopenFails, Results
  <2> QED BY <1>14, <2>1, <2>2 DEF Open
<1>15. CASE RecoverIdle(t)
  BY <1>15 DEF RecoverIdle, Recovering, FrameOK, LocksOK, Inside, NeedsClient, NeedsSession,
      Holds, Locks, SessionOps, ClientOps, NoOperation
<1>16. CASE RecoverRefused(t)
  BY <1>16, FailSafe DEF RecoverRefused, Results
<1>17. CASE Recover(t)
  <2>1. CASE Reopen(t, recoverChecks)
    <3>1. recoverChecks \in SUBSET Checks
      BY DEF SharedTypeOK
    <3>2. Proceed(t, recoverChecks)
      BY <2>1 DEF Reopen
    <3> QED BY <1>17, <2>1, <3>1, <3>2, ProceedCases DEF Recover, Reopen, FrameOK, LocksOK,
        Inside, NeedsClient, NeedsSession, Holds, Locks, SessionOps, ClientOps, NoOperation,
        Recovering
  <2>2. CASE ReopenFails(t)
    BY <2>2, FailSafe DEF ReopenFails, Results
  <2> QED BY <1>17, <2>1, <2>2 DEF Recover
<1>18. CASE ProbeSucceeds(t)
  BY <1>18 DEF ProbeSucceeds, Proceed, FrameOK, LocksOK, Inside, NeedsClient, NeedsSession,
      Holds, Locks, SessionOps, ClientOps, NoOperation
<1>19. CASE IdentityCached(t)
  BY <1>19, LeaveSafe DEF IdentityCached, Results
<1>20. CASE IdentityAsked(t)
  BY <1>20 DEF IdentityAsked, FrameOK, LocksOK, Inside, NeedsClient, NeedsSession, Holds, Locks,
      SessionOps, ClientOps, NoOperation
<1>21. CASE IdentitySucceeds(t)
  <2>1. CASE Leave(t, "ok")
    BY <1>21, <2>1, LeaveSafe DEF IdentitySucceeds, Results
  <2>2. CASE op[t] # "identity" /\ Continue(t, "validate")
    BY <1>21, <2>2 DEF IdentitySucceeds, FrameOK, LocksOK, Inside, NeedsClient, NeedsSession,
        Holds, Locks, SessionOps, ClientOps, NoOperation
  <2> QED BY <1>21, <2>1, <2>2 DEF IdentitySucceeds
<1>22. CASE ValidatorAccepts(t)
  BY <1>22 DEF ValidatorAccepts, FrameOK, LocksOK, Inside, NeedsClient, NeedsSession, Holds,
      Locks, SessionOps, ClientOps, NoOperation
<1>23. CASE ValidatorRaises(t)
  BY <1>23 DEF ValidatorRaises, FrameOK, LocksOK, Inside, NeedsClient, NeedsSession, Holds,
      Locks, SessionOps, ClientOps, NoOperation
<1>24. CASE CheckFails(t)
  <2>1. CASE Leave(t, result[t])
    BY <1>24, <2>1, LeaveSafe DEF CheckFails
  <2>2. CASE op[t] # "identity" /\ Continue(t, "undo")
    BY <1>24, <2>2 DEF CheckFails, FrameOK, LocksOK, Inside, NeedsClient, NeedsSession, Holds,
        Locks, SessionOps, ClientOps, NoOperation
  <2> QED BY <1>24, <2>1, <2>2 DEF CheckFails
<1>25. CASE Undo(t)
  BY <1>25, FailSafe DEF Undo
<1>26. CASE OpenDone(t)
  BY <1>26, LeaveSafe DEF OpenDone, Results
<1>27. CASE RecoverDone(t)
  BY <1>27, WantFacts DEF RecoverDone, ReleaseLocks, LocksFor, FrameOK, LocksOK, Inside,
      NeedsClient, NeedsSession, Holds, Locks, SessionOps, ClientOps, NoOperation
<1> QED BY <1>1, <1>2, <1>3, <1>4, <1>5, <1>6, <1>7, <1>8, <1>9, <1>10, <1>11, <1>12, <1>13,
    <1>14, <1>15, <1>16, <1>17, <1>18, <1>19, <1>20, <1>21, <1>22, <1>23, <1>24, <1>25, <1>26,
    <1>27 DEF Step, Exchange

\* The client's lock keeps two threads from being inside operations that use it.
LEMMA Exclusive ==
  ASSUME SessionInv, NEW t \in Threads, NEW u \in Threads, u # t,
         pc[t] \in Inside, op[t] # "health", pc[u] \in Inside
  PROVE  op[u] = "health"
  BY DEF SessionInv, LocksOK, NeedsClient, Holds

\* While a thread is inside an operation of the client, no other changes what the
\* session and the transport are.
LEMMA Quiet ==
  ASSUME SessionInv, NEW t \in Threads, Step(t),
         NEW u \in Threads, u # t, pc[u] \in Inside, op[u] # "health"
  PROVE  UNCHANGED sharedVars
<1>1. pc[t] \notin Inside \/ op[t] = "health"
  BY Exclusive
<1>2. CASE Acquire(t) \/ Backoff(t) \/ GiveUp(t) \/ ReadHealth(t)
  BY <1>2 DEF Acquire, Backoff, GiveUp, ReadHealth
<1>3. CASE ~(Acquire(t) \/ Backoff(t) \/ GiveUp(t) \/ ReadHealth(t))
  <2>1. pc[t] \in Inside
    BY <1>3 DEF Step, Exchange, Inside, Begins, Recovering, Refuse, ExchangeFails,
        ExchangeInterrupted, ExchangeSucceeds, Notify, BeginExchange, OperationSucceeds,
        OperationFails, Close, Open, RecoverIdle, RecoverRefused, Recover, ProbeSucceeds,
        IdentityCached, IdentityAsked, IdentitySucceeds, ValidatorAccepts, ValidatorRaises,
        CheckFails, Undo, OpenDone, RecoverDone
  <2>2. op[t] = "health"
    BY <1>1, <2>1
  <2>3. pc[t] = "begin" /\ doing[t] = "operation"
    BY <2>1, <2>2 DEF SessionInv, TypeOK, ThreadTypeOK, FrameOK, Inside, ClientOps, Doings
  <2> QED BY <1>3, <2>2, <2>3 DEF Step, Exchange, Begins, Recovering, ClientOps, Refuse,
      ExchangeFails, ExchangeInterrupted, ExchangeSucceeds, Notify, BeginExchange,
      OperationSucceeds, OperationFails, Close, Open, RecoverIdle, RecoverRefused, Recover,
      ProbeSucceeds, IdentityCached, IdentityAsked, IdentitySucceeds, ValidatorAccepts,
      ValidatorRaises, CheckFails, Undo, OpenDone, RecoverDone
<1> QED BY <1>2, <1>3

\* A step of one thread preserves what the invariant says of another.
LEMMA OthersNext ==
  ASSUME SessionInv, NEW t \in Threads, Step(t), NEW u \in Threads, u # t
  PROVE  FrameOK(u)' /\ LocksOK(u)' /\ OutcomeOK(u)' /\ ChecksOK(u)' /\ (Checking(u)' <=>
      Checking(u))
<1>1. Alone(u)
  BY OthersAlone DEF SessionInv, TypeOK
<1>2. FrameOK(u) /\ LocksOK(u) /\ OutcomeOK(u) /\ ChecksOK(u)
  BY DEF SessionInv
<1>3. FrameOK(u)' /\ (Checking(u)' <=> Checking(u))
  BY <1>1, <1>2 DEF Alone, FrameOK, Checking
<1>4. LocksOK(u)'
  BY <1>1, <1>2 DEF Alone, LocksOK, NeedsClient, NeedsSession
<1>5. CASE pc[u] \in Inside /\ op[u] # "health"
  <2>1. UNCHANGED sharedVars
    BY <1>5, Quiet
  <2> QED BY <1>1, <1>2, <1>3, <1>4, <2>1
        DEF Alone, OutcomeOK, ChecksOK, Checking, sharedVars, historyVars
<1>6. CASE pc[u] \notin Inside \/ op[u] = "health"
  <2>1. pc[u] \notin {"notify", "returned"} /\ ~Checking(u)
    BY <1>2, <1>6
       DEF SessionInv, TypeOK, ThreadTypeOK, FrameOK, Checking, ClientOps, Inside, Doings
  <2> QED BY <1>1, <1>3, <1>4, <2>1 DEF Alone, OutcomeOK, ChecksOK
<1> QED BY <1>5, <1>6

\* Every step keeps the state of session and transport in its types.
LEMMA SharedTypeNext ==
  ASSUME SessionInv, NEW t \in Threads, Step(t)
  PROVE  SharedTypeOK'
<1> USE DEF SessionInv, TypeOK, SharedTypeOK, sharedVars, healthVars, historyVars
<1>1. CASE Acquire(t)
  BY <1>1 DEF Acquire
<1>2. CASE Backoff(t)
  BY <1>2 DEF Backoff
<1>3. CASE GiveUp(t)
  BY <1>3 DEF GiveUp
<1>4. CASE Refuse(t)
  BY <1>4 DEF Refuse
<1>5. CASE ExchangeFails(t)
  BY <1>5 DEF ExchangeFails
<1>6. CASE ExchangeInterrupted(t)
  BY <1>6 DEF ExchangeInterrupted
<1>7. CASE ExchangeSucceeds(t)
  BY <1>7 DEF ExchangeSucceeds
<1>8. CASE Notify(t)
  BY <1>8 DEF Notify, RecordSuccess, RecordFailure, RecordProtocolFailure
<1>9. CASE BeginExchange(t)
  BY <1>9 DEF BeginExchange
<1>10. CASE OperationSucceeds(t)
  BY <1>10 DEF OperationSucceeds
<1>11. CASE OperationFails(t)
  BY <1>11 DEF OperationFails
<1>12. CASE ReadHealth(t)
  BY <1>12 DEF ReadHealth
<1>13. CASE Close(t)
  BY <1>13 DEF Close, NoIdentity
<1>14. CASE Open(t)
  <2>1. CASE Reopen(t, checks[t])
    BY <1>14, <2>1 DEF Open, Reopen, RecordConnected, NoIdentity
  <2>2. CASE ReopenFails(t)
    BY <1>14, <2>2 DEF Open, ReopenFails
  <2> QED BY <1>14, <2>1, <2>2 DEF Open
<1>15. CASE RecoverIdle(t)
  BY <1>15 DEF RecoverIdle
<1>16. CASE RecoverRefused(t)
  BY <1>16 DEF RecoverRefused
<1>17. CASE Recover(t)
  <2>1. CASE Reopen(t, recoverChecks)
    BY <1>17, <2>1 DEF Recover, Reopen, RecordConnected, NoIdentity
  <2>2. CASE ReopenFails(t)
    BY <1>17, <2>2 DEF Recover, ReopenFails
  <2> QED BY <1>17, <2>1, <2>2 DEF Recover
<1>18. CASE ProbeSucceeds(t)
  BY <1>18 DEF ProbeSucceeds, Checks
<1>19. CASE IdentityCached(t)
  BY <1>19 DEF IdentityCached
<1>20. CASE IdentityAsked(t)
  BY <1>20 DEF IdentityAsked
<1>21. CASE IdentitySucceeds(t)
  BY <1>21 DEF IdentitySucceeds
<1>22. CASE ValidatorAccepts(t)
  BY <1>22 DEF ValidatorAccepts, Checks
<1>23. CASE ValidatorRaises(t)
  BY <1>23 DEF ValidatorRaises
<1>24. CASE CheckFails(t)
  BY <1>24 DEF CheckFails
<1>25. CASE Undo(t)
  BY <1>25 DEF Undo, Undone, NoIdentity
<1>26. CASE OpenDone(t)
  BY <1>26 DEF OpenDone, ThreadTypeOK
<1>27. CASE RecoverDone(t)
  BY <1>27 DEF RecoverDone
<1> QED BY <1>1, <1>2, <1>3, <1>4, <1>5, <1>6, <1>7, <1>8, <1>9, <1>10, <1>11, <1>12, <1>13,
    <1>14, <1>15, <1>16, <1>17, <1>18, <1>19, <1>20, <1>21, <1>22, <1>23, <1>24, <1>25, <1>26,
    <1>27 DEF Step, Exchange

\* The steps that end an operation, or put a retried query to sleep.
Ending(t) ==
  \/ GiveUp(t) \/ OperationSucceeds(t) \/ OperationFails(t) \/ ReadHealth(t) \/ Close(t)
  \/ RecoverRefused(t) \/ IdentityCached(t) \/ Undo(t) \/ OpenDone(t)

\* Such a step leaves the thread idle or asleep.
LEMMA EndingLeaves ==
  ASSUME SessionInv, NEW t \in Threads, Ending(t)
  PROVE  pc'[t] \in {"idle", "backoff"}
<1> USE DEF SessionInv, TypeOK, ThreadTypeOK
<1>1. CASE GiveUp(t)
  BY <1>1, LeaveSafe DEF GiveUp
<1>2. CASE OperationSucceeds(t)
  BY <1>2, LeaveSafe DEF OperationSucceeds, Results
<1>3. CASE OperationFails(t)
  <2>1. "ok" \in Results /\ result[t] \in Results
    BY DEF Results
  <2> QED BY <1>3, <2>1, LeaveSafe, FailSafe DEF OperationFails
<1>4. CASE ReadHealth(t)
  BY <1>4, LeaveSafe DEF ReadHealth, Results
<1>5. CASE Close(t)
  BY <1>5, LeaveSafe DEF Close, Results
<1>6. CASE RecoverRefused(t)
  BY <1>6, FailSafe DEF RecoverRefused, Results
<1>7. CASE IdentityCached(t)
  BY <1>7, LeaveSafe DEF IdentityCached, Results
<1>8. CASE Undo(t)
  BY <1>8, FailSafe DEF Undo
<1>9. CASE OpenDone(t)
  BY <1>9, LeaveSafe DEF OpenDone, Results
<1> QED BY <1>1, <1>2, <1>3, <1>4, <1>5, <1>6, <1>7, <1>8, <1>9 DEF Ending

\* An exchange leaves a result that agrees with the transport's state and connection.
LEMMA OutcomeNext ==
  ASSUME SessionInv, NEW t \in Threads, Step(t)
  PROVE  OutcomeOK(t)'
<1> USE SessionAssumption DEF SessionInv, TypeOK, ThreadTypeOK, sharedVars, healthVars,
    historyVars, frameVars, Goto, Yields, Continue, Begins
<1>1. CASE Acquire(t)
  BY <1>1 DEF Acquire, OutcomeOK
<1>2. CASE Backoff(t)
  BY <1>2 DEF Backoff, OutcomeOK
<1>3. CASE GiveUp(t)
  BY <1>3, EndingLeaves DEF Ending, OutcomeOK
<1>4. CASE Refuse(t)
  BY <1>4 DEF Refuse, OutcomeOK
<1>5. CASE ExchangeFails(t)
  BY <1>5 DEF ExchangeFails, OutcomeOK
<1>6. CASE ExchangeInterrupted(t)
  BY <1>6 DEF ExchangeInterrupted, OutcomeOK
<1>7. CASE ExchangeSucceeds(t)
  <2>1. PICK r \in Readings(t) : Yields(t, r)
    BY <1>7 DEF ExchangeSucceeds
  <2>2. r \in {"ok", "ProtocolError", "IdentityError"}
    BY <2>1 DEF Readings
  <2> QED BY <1>7, <2>1, <2>2 DEF ExchangeSucceeds, OutcomeOK
<1>8. CASE Notify(t)
  BY <1>8 DEF Notify, RecordSuccess, RecordProtocolFailure, RecordFailure, OutcomeOK
<1>9. CASE BeginExchange(t)
  BY <1>9 DEF BeginExchange, OutcomeOK
<1>10. CASE OperationSucceeds(t)
  BY <1>10, EndingLeaves DEF Ending, OutcomeOK
<1>11. CASE OperationFails(t)
  BY <1>11, EndingLeaves DEF Ending, OutcomeOK
<1>12. CASE ReadHealth(t)
  BY <1>12, EndingLeaves DEF Ending, OutcomeOK
<1>13. CASE Close(t)
  BY <1>13, EndingLeaves DEF Ending, OutcomeOK
<1>14. CASE Open(t)
  <2>1. CASE Reopen(t, checks[t])
    <3>1. checks[t] \in SUBSET Checks
      BY DEF SharedTypeOK
    <3>2. Proceed(t, checks[t])
      BY <2>1 DEF Reopen
    <3> QED BY <1>14, <2>1, <3>1, <3>2, ProceedCases DEF Open, Reopen, OutcomeOK
  <2>2. CASE ReopenFails(t)
    <3>1. pc'[t] \in {"idle", "backoff"}
      BY <2>2, FailSafe DEF ReopenFails, Results
    <3> QED BY <3>1 DEF OutcomeOK
  <2> QED BY <1>14, <2>1, <2>2 DEF Open
<1>15. CASE RecoverIdle(t)
  BY <1>15 DEF RecoverIdle, Recovering, OutcomeOK
<1>16. CASE RecoverRefused(t)
  BY <1>16, EndingLeaves DEF Ending, OutcomeOK
<1>17. CASE Recover(t)
  <2>1. CASE Reopen(t, recoverChecks)
    <3>1. recoverChecks \in SUBSET Checks
      BY DEF SharedTypeOK
    <3>2. Proceed(t, recoverChecks)
      BY <2>1 DEF Reopen
    <3> QED BY <1>17, <2>1, <3>1, <3>2, ProceedCases DEF Recover, Reopen, OutcomeOK, Recovering
  <2>2. CASE ReopenFails(t)
    <3>1. pc'[t] \in {"idle", "backoff"}
      BY <2>2, FailSafe DEF ReopenFails, Results
    <3> QED BY <3>1 DEF OutcomeOK
  <2> QED BY <1>17, <2>1, <2>2 DEF Recover
<1>18. CASE ProbeSucceeds(t)
  <2>1. checks[t] \ {"probe"} \in SUBSET Checks
    OBVIOUS
  <2> QED BY <1>18, <2>1, ProceedCases DEF ProbeSucceeds, OutcomeOK
<1>19. CASE IdentityCached(t)
  BY <1>19, EndingLeaves DEF Ending, OutcomeOK
<1>20. CASE IdentityAsked(t)
  BY <1>20 DEF IdentityAsked, OutcomeOK
<1>21. CASE IdentitySucceeds(t)
  <2>1. CASE Leave(t, "ok")
    <3>1. pc'[t] = "idle"
      BY <1>21, <2>1, LeaveSafe DEF IdentitySucceeds, Results
    <3> QED BY <3>1 DEF OutcomeOK
  <2>2. CASE op[t] # "identity" /\ Continue(t, "validate")
    BY <1>21, <2>2 DEF IdentitySucceeds, OutcomeOK
  <2> QED BY <1>21, <2>1, <2>2 DEF IdentitySucceeds
<1>22. CASE ValidatorAccepts(t)
  BY <1>22 DEF ValidatorAccepts, OutcomeOK
<1>23. CASE ValidatorRaises(t)
  BY <1>23 DEF ValidatorRaises, OutcomeOK
<1>24. CASE CheckFails(t)
  <2>1. CASE Leave(t, result[t])
    <3>1. pc'[t] = "idle"
      BY <2>1 DEF Leave, Goto, ThreadTypeOK
    <3> QED BY <3>1 DEF OutcomeOK
  <2>2. CASE op[t] # "identity" /\ Continue(t, "undo")
    BY <1>24, <2>2 DEF CheckFails, OutcomeOK
  <2> QED BY <1>24, <2>1, <2>2 DEF CheckFails
<1>25. CASE Undo(t)
  BY <1>25, EndingLeaves DEF Ending, OutcomeOK
<1>26. CASE OpenDone(t)
  BY <1>26, EndingLeaves DEF Ending, OutcomeOK
<1>27. CASE RecoverDone(t)
  BY <1>27 DEF RecoverDone, OutcomeOK
<1> QED BY <1>1, <1>2, <1>3, <1>4, <1>5, <1>6, <1>7, <1>8, <1>9, <1>10, <1>11, <1>12, <1>13,
    <1>14, <1>15, <1>16, <1>17, <1>18, <1>19, <1>20, <1>21, <1>22, <1>23, <1>24, <1>25, <1>26,
    <1>27 DEF Step, Exchange

\* The checks of an open or a recovery are made in order, and are those of the last open().
LEMMA ChecksNext ==
  ASSUME SessionInv, NEW t \in Threads, Step(t)
  PROVE  ChecksOK(t)'
<1> USE SessionAssumption DEF SessionInv, TypeOK, ThreadTypeOK, sharedVars, healthVars,
    historyVars, frameVars, Goto, Yields, Continue, Begins
<1>1. CASE Acquire(t)
  BY <1>1 DEF Acquire, FrameOK, ChecksOK, Checking, Inside, ClientOps
<1>2. CASE Backoff(t)
  BY <1>2 DEF Backoff, FrameOK, ChecksOK, Checking, Inside, ClientOps
<1>3. CASE GiveUp(t)
  BY <1>3, EndingLeaves DEF Ending, FrameOK, ChecksOK, Checking, Inside, ClientOps
<1>4. CASE Refuse(t)
  BY <1>4 DEF Refuse, FrameOK, ChecksOK, Checking, Inside, ClientOps
<1>5. CASE ExchangeFails(t)
  BY <1>5 DEF ExchangeFails, FrameOK, ChecksOK, Checking, Inside, ClientOps
<1>6. CASE ExchangeInterrupted(t)
  BY <1>6 DEF ExchangeInterrupted, FrameOK, ChecksOK, Checking, Inside, ClientOps
<1>7. CASE ExchangeSucceeds(t)
  BY <1>7 DEF ExchangeSucceeds, FrameOK, ChecksOK, Checking, Inside, ClientOps
<1>8. CASE Notify(t)
  BY <1>8 DEF Notify, RecordSuccess, RecordProtocolFailure, RecordFailure, FrameOK, ChecksOK,
      Checking, Inside, ClientOps
<1>9. CASE BeginExchange(t)
  BY <1>9 DEF BeginExchange, FrameOK, ChecksOK, Checking, Inside, ClientOps
<1>10. CASE OperationSucceeds(t)
  BY <1>10, EndingLeaves DEF Ending, FrameOK, ChecksOK, Checking, Inside, ClientOps
<1>11. CASE OperationFails(t)
  BY <1>11, EndingLeaves DEF Ending, FrameOK, ChecksOK, Checking, Inside, ClientOps
<1>12. CASE ReadHealth(t)
  BY <1>12, EndingLeaves DEF Ending, FrameOK, ChecksOK, Checking, Inside, ClientOps
<1>13. CASE Close(t)
  BY <1>13, EndingLeaves DEF Ending, FrameOK, ChecksOK, Checking, Inside, ClientOps
<1>14. CASE Open(t)
  <2>1. CASE Reopen(t, checks[t])
    <3>1. checks[t] \in SUBSET Checks
      BY DEF SharedTypeOK
    <3>2. Proceed(t, checks[t])
      BY <2>1 DEF Reopen
    <3> QED BY <1>14, <2>1, <3>1, <3>2, ProceedCases DEF Open, Reopen, FrameOK, ChecksOK,
        Checking, Inside, ClientOps
  <2>2. CASE ReopenFails(t)
    <3>1. pc'[t] \in {"idle", "backoff"}
      BY <2>2, FailSafe DEF ReopenFails, Results
    <3> QED BY <3>1 DEF FrameOK, ChecksOK, Checking, Inside, ClientOps
  <2> QED BY <1>14, <2>1, <2>2 DEF Open
<1>15. CASE RecoverIdle(t)
  <2>1. \A u \in Threads : ~Checking(u)
    BY <1>15, Exclusive DEF RecoverIdle, Recovering, FrameOK, Checking, Inside
  <2>2. recoverChecks \subseteq checked
    BY <1>15, <2>1 DEF RecoverIdle, CheckedOrChecking
  <2> QED BY <1>15, <2>2 DEF RecoverIdle, Recovering, FrameOK, ChecksOK, Checking, Inside,
      ClientOps
<1>16. CASE RecoverRefused(t)
  BY <1>16, EndingLeaves DEF Ending, FrameOK, ChecksOK, Checking, Inside, ClientOps
<1>17. CASE Recover(t)
  <2>1. CASE Reopen(t, recoverChecks)
    <3>1. recoverChecks \in SUBSET Checks
      BY DEF SharedTypeOK
    <3>2. Proceed(t, recoverChecks)
      BY <2>1 DEF Reopen
    <3>3. /\ pc[t] = "begin" /\ op[t] = "retry" /\ doing[t] = "recover"
          /\ op' = op /\ recoverChecks' = recoverChecks /\ attempt' = attempt
          /\ checks'[t] = recoverChecks /\ checked' = {}
      BY <1>17, <2>1 DEF Recover, Reopen, Recovering, FrameOK
    <3>4. CASE recoverChecks = {} /\ doing'[t] = doing[t] /\ pc'[t] = "ready"
      BY <3>3, <3>4 DEF FrameOK, ChecksOK, Checking, Inside, ClientOps
    <3>5. CASE "probe" \in recoverChecks /\ doing'[t] = "probe" /\ pc'[t] = "exchange"
      BY <3>3, <3>5 DEF FrameOK, ChecksOK, Checking, Inside, ClientOps
    <3>6. CASE recoverChecks = {"validate"} /\ doing'[t] = "identify" /\ pc'[t] = "exchange"
      BY <3>3, <3>6 DEF FrameOK, ChecksOK, Checking, Inside, ClientOps
    <3> QED BY <3>1, <3>2, <3>4, <3>5, <3>6, ProceedCases
  <2>2. CASE ReopenFails(t)
    <3>1. pc'[t] \in {"idle", "backoff"}
      BY <2>2, FailSafe DEF ReopenFails, Results
    <3> QED BY <3>1 DEF FrameOK, ChecksOK, Checking, Inside, ClientOps
  <2> QED BY <1>17, <2>1, <2>2 DEF Recover
<1>18. CASE ProbeSucceeds(t)
  <2> DEFINE left == checks[t] \ {"probe"}
  <2>1. left \in SUBSET Checks /\ "probe" \notin left
    OBVIOUS
  <2>2. \/ left = {} /\ doing'[t] = "probe" /\ pc'[t] = "ready"
        \/ left = {"validate"} /\ doing'[t] = "identify" /\ pc'[t] = "exchange"
    BY <1>18, <2>1, ProceedCases DEF ProbeSucceeds
  <2>3. Checking(t) /\ op[t] \in {"open", "retry"} /\ (op[t] = "retry" => checks[t] =
      recoverChecks)
    BY <1>18 DEF ProbeSucceeds, FrameOK, ChecksOK, Checking, Inside, ClientOps
  <2>4. CASE left = {} /\ doing'[t] = "probe" /\ pc'[t] = "ready"
    <3>1. checks[t] \subseteq checked'
      BY <1>18, <2>4 DEF ProbeSucceeds
    <3> QED BY <1>18, <2>3, <2>4, <3>1 DEF ProbeSucceeds, ChecksOK
  <2>5. CASE left = {"validate"} /\ doing'[t] = "identify" /\ pc'[t] = "exchange"
    <3>1. checks[t] \subseteq checked' \cup {"validate"}
      BY <1>18, <2>5 DEF ProbeSucceeds
    <3> QED BY <1>18, <2>3, <2>5, <3>1 DEF ProbeSucceeds, ChecksOK
  <2> QED BY <2>2, <2>4, <2>5
<1>19. CASE IdentityCached(t)
  BY <1>19, EndingLeaves DEF Ending, FrameOK, ChecksOK, Checking, Inside, ClientOps
<1>20. CASE IdentityAsked(t)
  BY <1>20 DEF IdentityAsked, FrameOK, ChecksOK, Checking, Inside, ClientOps
<1>21. CASE IdentitySucceeds(t)
  <2>1. CASE Leave(t, "ok")
    <3>1. pc'[t] = "idle"
      BY <1>21, <2>1, LeaveSafe DEF IdentitySucceeds, Results
    <3> QED BY <3>1 DEF FrameOK, ChecksOK, Checking, Inside, ClientOps
  <2>2. CASE op[t] # "identity" /\ Continue(t, "validate")
    BY <1>21, <2>2 DEF IdentitySucceeds, FrameOK, ChecksOK, Checking, Inside, ClientOps
  <2> QED BY <1>21, <2>1, <2>2 DEF IdentitySucceeds
<1>22. CASE ValidatorAccepts(t)
  BY <1>22 DEF ValidatorAccepts, FrameOK, ChecksOK, Checking, Inside, ClientOps
<1>23. CASE ValidatorRaises(t)
  BY <1>23 DEF ValidatorRaises, FrameOK, ChecksOK, Checking, Inside, ClientOps
<1>24. CASE CheckFails(t)
  <2>1. CASE Leave(t, result[t])
    <3>1. pc'[t] = "idle"
      BY <2>1 DEF Leave, Goto, ThreadTypeOK
    <3> QED BY <3>1 DEF FrameOK, ChecksOK, Checking, Inside, ClientOps
  <2>2. CASE op[t] # "identity" /\ Continue(t, "undo")
    BY <1>24, <2>2 DEF CheckFails, FrameOK, ChecksOK, Checking, Inside, ClientOps
  <2> QED BY <1>24, <2>1, <2>2 DEF CheckFails
<1>25. CASE Undo(t)
  BY <1>25, EndingLeaves DEF Ending, FrameOK, ChecksOK, Checking, Inside, ClientOps
<1>26. CASE OpenDone(t)
  BY <1>26, EndingLeaves DEF Ending, FrameOK, ChecksOK, Checking, Inside, ClientOps
<1>27. CASE RecoverDone(t)
  BY <1>27 DEF RecoverDone, FrameOK, ChecksOK, Checking, Inside, ClientOps
<1> QED BY <1>1, <1>2, <1>3, <1>4, <1>5, <1>6, <1>7, <1>8, <1>9, <1>10, <1>11, <1>12, <1>13,
    <1>14, <1>15, <1>16, <1>17, <1>18, <1>19, <1>20, <1>21, <1>22, <1>23, <1>24, <1>25, <1>26,
    <1>27 DEF Step, Exchange

\* A step closes the connection, is part of checking it, finds it checked, or leaves it
\* as another thread had it.
LEMMA CheckedStep ==
  ASSUME SessionInv, NEW t \in Threads, Step(t)
  PROVE  \/ tstate' # "OPEN" \/ Checking(t)' \/ recoverChecks' \subseteq checked'
         \/ tstate = "OPEN" /\ recoverChecks' = recoverChecks /\ checked \subseteq checked' /\
             ~Checking(t)
<1> USE SessionAssumption DEF SessionInv, TypeOK, ThreadTypeOK, sharedVars, healthVars,
    historyVars, frameVars, Goto, Yields, Continue, Begins
<1>1. CASE Acquire(t)
  BY <1>1 DEF Acquire, FrameOK, Checking, Inside, ClientOps, Doings
<1>2. CASE Backoff(t)
  BY <1>2 DEF Backoff, FrameOK, Checking, Inside, ClientOps, Doings
<1>3. CASE GiveUp(t)
  BY <1>3 DEF GiveUp, FrameOK, Checking, Inside, ClientOps, Doings
<1>4. CASE Refuse(t)
  BY <1>4 DEF Refuse, FrameOK, Checking, Inside, ClientOps, Doings
<1>5. CASE ExchangeFails(t)
  BY <1>5 DEF ExchangeFails, FrameOK, Checking, Inside, ClientOps, Doings
<1>6. CASE ExchangeInterrupted(t)
  BY <1>6 DEF ExchangeInterrupted, FrameOK, Checking, Inside, ClientOps, Doings
<1>7. CASE ExchangeSucceeds(t)
  BY <1>7 DEF ExchangeSucceeds, FrameOK, Checking, Inside, ClientOps, Doings
<1>8. CASE Notify(t)
  BY <1>8 DEF Notify, RecordSuccess, RecordProtocolFailure, RecordFailure, FrameOK, Checking,
      Inside, ClientOps, Doings
<1>9. CASE BeginExchange(t)
  BY <1>9 DEF BeginExchange, FrameOK, Checking, Inside, ClientOps, Doings
<1>10. CASE OperationSucceeds(t)
  BY <1>10 DEF OperationSucceeds, FrameOK, Checking, Inside, ClientOps, Doings
<1>11. CASE OperationFails(t)
  BY <1>11 DEF OperationFails, FrameOK, Checking, Inside, ClientOps, Doings
<1>12. CASE ReadHealth(t)
  BY <1>12 DEF ReadHealth, FrameOK, Checking, Inside, ClientOps, Doings
<1>13. CASE Close(t)
  BY <1>13 DEF Close
<1>14. CASE Open(t)
  <2>1. CASE Reopen(t, checks[t])
    <3>1. pc'[t] \in {"ready", "exchange"} /\ (doing'[t] \in {doing[t], "probe", "identify"})
      BY <2>1, ProceedCases DEF Reopen, SharedTypeOK
    <3> QED BY <1>14, <2>1, <3>1 DEF Open, Reopen, FrameOK, Checking, Inside, ClientOps, Doings
  <2>2. CASE ReopenFails(t)
    BY <2>2 DEF ReopenFails
  <2> QED BY <1>14, <2>1, <2>2 DEF Open
<1>15. CASE RecoverIdle(t)
  BY <1>15 DEF RecoverIdle, Recovering, FrameOK, Checking, Inside, ClientOps, Doings
<1>16. CASE RecoverRefused(t)
  BY <1>16 DEF RecoverRefused, FrameOK, Checking, Inside, ClientOps, Doings, Recovering
<1>17. CASE Recover(t)
  <2>1. CASE Reopen(t, recoverChecks)
    <3>1. pc'[t] \in {"ready", "exchange"} /\ (doing'[t] \in {doing[t], "probe", "identify"})
      BY <2>1, ProceedCases DEF Reopen, SharedTypeOK
    <3> QED BY <1>17, <2>1, <3>1 DEF Recover, Reopen, FrameOK, Checking, Inside, ClientOps,
        Doings, Recovering
  <2>2. CASE ReopenFails(t)
    BY <2>2 DEF ReopenFails
  <2> QED BY <1>17, <2>1, <2>2 DEF Recover
<1>18. CASE ProbeSucceeds(t)
  <2>1. pc'[t] \in {"ready", "exchange"} /\ (doing'[t] \in {"probe", "identify"})
    <3>1. checks[t] \ {"probe"} \in SUBSET Checks
      OBVIOUS
    <3> QED BY <1>18, <3>1, ProceedCases DEF ProbeSucceeds
  <2> QED BY <1>18, <2>1 DEF ProbeSucceeds, FrameOK, Checking, Inside, ClientOps, Doings
<1>19. CASE IdentityCached(t)
  BY <1>19 DEF IdentityCached, FrameOK, Checking, Inside, ClientOps, Doings
<1>20. CASE IdentityAsked(t)
  BY <1>20 DEF IdentityAsked, FrameOK, Checking, Inside, ClientOps, Doings
<1>21. CASE IdentitySucceeds(t)
  BY <1>21 DEF IdentitySucceeds, FrameOK, Checking, Inside, ClientOps, Doings
<1>22. CASE ValidatorAccepts(t)
  BY <1>22 DEF ValidatorAccepts, FrameOK, Checking, Inside, ClientOps, Doings
<1>23. CASE ValidatorRaises(t)
  BY <1>23 DEF ValidatorRaises, FrameOK, Checking, Inside, ClientOps, Doings
<1>24. CASE CheckFails(t)
  BY <1>24 DEF CheckFails, FrameOK, Checking, Inside, ClientOps, Doings
<1>25. CASE Undo(t)
  BY <1>25 DEF Undo
<1>26. CASE OpenDone(t)
  BY <1>26 DEF OpenDone, ChecksOK, FrameOK, Checking, Inside, ClientOps, Doings
<1>27. CASE RecoverDone(t)
  BY <1>27 DEF RecoverDone, ChecksOK, FrameOK, Checking, Inside, ClientOps, Doings
<1> QED BY <1>1, <1>2, <1>3, <1>4, <1>5, <1>6, <1>7, <1>8, <1>9, <1>10, <1>11, <1>12, <1>13,
    <1>14, <1>15, <1>16, <1>17, <1>18, <1>19, <1>20, <1>21, <1>22, <1>23, <1>24, <1>25, <1>26,
    <1>27 DEF Step, Exchange

\* An unchecked connection stays in the hands of the thread that checks it.
LEMMA CheckedNext ==
  ASSUME SessionInv, NEW t \in Threads, Step(t)
  PROVE  CheckedOrChecking'
<1> SUFFICES ASSUME tstate' = "OPEN", ~(recoverChecks' \subseteq checked'), ~Checking(t)'
             PROVE  \E u \in Threads : Checking(u)'
  BY DEF CheckedOrChecking
<1>1. tstate = "OPEN" /\ recoverChecks' = recoverChecks /\ checked \subseteq checked' /\
    ~Checking(t)
  BY CheckedStep
<1>2. PICK u \in Threads : Checking(u)
  BY <1>1 DEF SessionInv, CheckedOrChecking
<1> QED BY <1>1, <1>2, OthersNext

\* Identity and generation follow every connection that is replaced.
LEMMA IdentityNext ==
  ASSUME SessionInv, NEW t \in Threads, Step(t)
  PROVE  (heard.generation <= generation /\ IdentityIsCurrent)'
<1> USE DEF SessionInv, TypeOK, SharedTypeOK, sharedVars, healthVars, historyVars,
    IdentityIsCurrent, NoIdentity
<1>1. CASE Acquire(t)
  BY <1>1 DEF Acquire
<1>2. CASE Backoff(t)
  BY <1>2 DEF Backoff
<1>3. CASE GiveUp(t)
  BY <1>3 DEF GiveUp
<1>4. CASE Refuse(t)
  BY <1>4 DEF Refuse
<1>5. CASE ExchangeFails(t)
  BY <1>5 DEF ExchangeFails
<1>6. CASE ExchangeInterrupted(t)
  BY <1>6 DEF ExchangeInterrupted
<1>7. CASE ExchangeSucceeds(t)
  BY <1>7 DEF ExchangeSucceeds
<1>8. CASE Notify(t)
  BY <1>8 DEF Notify
<1>9. CASE BeginExchange(t)
  BY <1>9 DEF BeginExchange
<1>10. CASE OperationSucceeds(t)
  BY <1>10 DEF OperationSucceeds
<1>11. CASE OperationFails(t)
  BY <1>11 DEF OperationFails
<1>12. CASE ReadHealth(t)
  BY <1>12 DEF ReadHealth
<1>13. CASE Close(t)
  BY <1>13 DEF Close
<1>14. CASE Open(t)
  <2>1. CASE Reopen(t, checks[t])
    BY <1>14, <2>1 DEF Open, Reopen, RecordConnected
  <2>2. CASE ReopenFails(t)
    BY <1>14, <2>2 DEF Open, ReopenFails
  <2> QED BY <1>14, <2>1, <2>2 DEF Open
<1>15. CASE RecoverIdle(t)
  BY <1>15 DEF RecoverIdle
<1>16. CASE RecoverRefused(t)
  BY <1>16 DEF RecoverRefused
<1>17. CASE Recover(t)
  <2>1. CASE Reopen(t, recoverChecks)
    BY <1>17, <2>1 DEF Recover, Reopen, RecordConnected
  <2>2. CASE ReopenFails(t)
    BY <1>17, <2>2 DEF Recover, ReopenFails
  <2> QED BY <1>17, <2>1, <2>2 DEF Recover
<1>18. CASE ProbeSucceeds(t)
  BY <1>18 DEF ProbeSucceeds
<1>19. CASE IdentityCached(t)
  BY <1>19 DEF IdentityCached
<1>20. CASE IdentityAsked(t)
  BY <1>20 DEF IdentityAsked
<1>21. CASE IdentitySucceeds(t)
  BY <1>21 DEF IdentitySucceeds, OutcomeOK
<1>22. CASE ValidatorAccepts(t)
  BY <1>22 DEF ValidatorAccepts
<1>23. CASE ValidatorRaises(t)
  BY <1>23 DEF ValidatorRaises
<1>24. CASE CheckFails(t)
  BY <1>24 DEF CheckFails
<1>25. CASE Undo(t)
  BY <1>25 DEF Undo
<1>26. CASE OpenDone(t)
  BY <1>26 DEF OpenDone
<1>27. CASE RecoverDone(t)
  BY <1>27 DEF RecoverDone
<1> QED BY <1>1, <1>2, <1>3, <1>4, <1>5, <1>6, <1>7, <1>8, <1>9, <1>10, <1>11, <1>12, <1>13,
    <1>14, <1>15, <1>16, <1>17, <1>18, <1>19, <1>20, <1>21, <1>22, <1>23, <1>24, <1>25, <1>26,
    <1>27 DEF Step, Exchange

\* An outcome is recorded on the connection it was obtained on.
LEMMA HealthNext ==
  ASSUME SessionInv, NEW t \in Threads, Step(t)
  PROVE  HealthOK'
<1> USE DEF SessionInv, TypeOK, SharedTypeOK, sharedVars, healthVars, historyVars, HealthOK
<1>1. CASE Acquire(t)
  BY <1>1 DEF Acquire
<1>2. CASE Backoff(t)
  BY <1>2 DEF Backoff
<1>3. CASE GiveUp(t)
  BY <1>3 DEF GiveUp
<1>4. CASE Refuse(t)
  BY <1>4 DEF Refuse
<1>5. CASE ExchangeFails(t)
  BY <1>5 DEF ExchangeFails
<1>6. CASE ExchangeInterrupted(t)
  BY <1>6 DEF ExchangeInterrupted
<1>7. CASE ExchangeSucceeds(t)
  BY <1>7 DEF ExchangeSucceeds
<1>8. CASE Notify(t)
  BY <1>8 DEF Notify, OutcomeOK, RecordSuccess, RecordFailure, RecordProtocolFailure
<1>9. CASE BeginExchange(t)
  BY <1>9 DEF BeginExchange
<1>10. CASE OperationSucceeds(t)
  BY <1>10 DEF OperationSucceeds
<1>11. CASE OperationFails(t)
  BY <1>11 DEF OperationFails
<1>12. CASE ReadHealth(t)
  BY <1>12 DEF ReadHealth
<1>13. CASE Close(t)
  BY <1>13 DEF Close
<1>14. CASE Open(t)
  <2>1. CASE Reopen(t, checks[t])
    BY <1>14, <2>1 DEF Open, Reopen, RecordConnected
  <2>2. CASE ReopenFails(t)
    BY <1>14, <2>2 DEF Open, ReopenFails
  <2> QED BY <1>14, <2>1, <2>2 DEF Open
<1>15. CASE RecoverIdle(t)
  BY <1>15 DEF RecoverIdle
<1>16. CASE RecoverRefused(t)
  BY <1>16 DEF RecoverRefused
<1>17. CASE Recover(t)
  <2>1. CASE Reopen(t, recoverChecks)
    BY <1>17, <2>1 DEF Recover, Reopen, RecordConnected
  <2>2. CASE ReopenFails(t)
    BY <1>17, <2>2 DEF Recover, ReopenFails
  <2> QED BY <1>17, <2>1, <2>2 DEF Recover
<1>18. CASE ProbeSucceeds(t)
  BY <1>18 DEF ProbeSucceeds
<1>19. CASE IdentityCached(t)
  BY <1>19 DEF IdentityCached
<1>20. CASE IdentityAsked(t)
  BY <1>20 DEF IdentityAsked
<1>21. CASE IdentitySucceeds(t)
  BY <1>21 DEF IdentitySucceeds
<1>22. CASE ValidatorAccepts(t)
  BY <1>22 DEF ValidatorAccepts
<1>23. CASE ValidatorRaises(t)
  BY <1>23 DEF ValidatorRaises
<1>24. CASE CheckFails(t)
  BY <1>24 DEF CheckFails
<1>25. CASE Undo(t)
  BY <1>25 DEF Undo
<1>26. CASE OpenDone(t)
  BY <1>26 DEF OpenDone
<1>27. CASE RecoverDone(t)
  BY <1>27 DEF RecoverDone
<1> QED BY <1>1, <1>2, <1>3, <1>4, <1>5, <1>6, <1>7, <1>8, <1>9, <1>10, <1>11, <1>12, <1>13,
    <1>14, <1>15, <1>16, <1>17, <1>18, <1>19, <1>20, <1>21, <1>22, <1>23, <1>24, <1>25, <1>26,
    <1>27 DEF Step, Exchange

\* Without faults by refusal, only the caller decides that a transport is open or faulted.
LEMMA IntentNext ==
  ASSUME SessionInv, NEW t \in Threads, Step(t)
  PROVE  IntentOK'
<1> USE DEF SessionInv, TypeOK, SharedTypeOK, sharedVars, healthVars, historyVars, IntentOK
<1>1. CASE Acquire(t)
  BY <1>1 DEF Acquire
<1>2. CASE Backoff(t)
  BY <1>2 DEF Backoff
<1>3. CASE GiveUp(t)
  BY <1>3 DEF GiveUp
<1>4. CASE Refuse(t)
  BY <1>4 DEF Refuse
<1>5. CASE ExchangeFails(t)
  BY <1>5 DEF ExchangeFails
<1>6. CASE ExchangeInterrupted(t)
  BY <1>6 DEF ExchangeInterrupted
<1>7. CASE ExchangeSucceeds(t)
  BY <1>7 DEF ExchangeSucceeds
<1>8. CASE Notify(t)
  BY <1>8 DEF Notify
<1>9. CASE BeginExchange(t)
  BY <1>9 DEF BeginExchange
<1>10. CASE OperationSucceeds(t)
  BY <1>10 DEF OperationSucceeds
<1>11. CASE OperationFails(t)
  BY <1>11 DEF OperationFails
<1>12. CASE ReadHealth(t)
  BY <1>12 DEF ReadHealth
<1>13. CASE Close(t)
  BY <1>13 DEF Close
<1>14. CASE Open(t)
  <2>1. CASE Reopen(t, checks[t])
    BY <1>14, <2>1 DEF Open, Reopen, RecordConnected
  <2>2. CASE ReopenFails(t)
    BY <1>14, <2>2 DEF Open, ReopenFails
  <2> QED BY <1>14, <2>1, <2>2 DEF Open
<1>15. CASE RecoverIdle(t)
  BY <1>15 DEF RecoverIdle
<1>16. CASE RecoverRefused(t)
  BY <1>16 DEF RecoverRefused
<1>17. CASE Recover(t)
  <2>1. CASE Reopen(t, recoverChecks)
    BY <1>17, <2>1 DEF Recover, Reopen, RecordConnected
  <2>2. CASE ReopenFails(t)
    BY <1>17, <2>2 DEF Recover, ReopenFails
  <2> QED BY <1>17, <2>1, <2>2 DEF Recover
<1>18. CASE ProbeSucceeds(t)
  BY <1>18 DEF ProbeSucceeds
<1>19. CASE IdentityCached(t)
  BY <1>19 DEF IdentityCached
<1>20. CASE IdentityAsked(t)
  BY <1>20 DEF IdentityAsked
<1>21. CASE IdentitySucceeds(t)
  BY <1>21 DEF IdentitySucceeds
<1>22. CASE ValidatorAccepts(t)
  BY <1>22 DEF ValidatorAccepts
<1>23. CASE ValidatorRaises(t)
  BY <1>23 DEF ValidatorRaises
<1>24. CASE CheckFails(t)
  BY <1>24 DEF CheckFails
<1>25. CASE Undo(t)
  BY <1>25 DEF Undo
<1>26. CASE OpenDone(t)
  BY <1>26 DEF OpenDone
<1>27. CASE RecoverDone(t)
  BY <1>27 DEF RecoverDone
<1> QED BY <1>1, <1>2, <1>3, <1>4, <1>5, <1>6, <1>7, <1>8, <1>9, <1>10, <1>11, <1>12, <1>13,
    <1>14, <1>15, <1>16, <1>17, <1>18, <1>19, <1>20, <1>21, <1>22, <1>23, <1>24, <1>25, <1>26,
    <1>27 DEF Step, Exchange

\* A call takes no lock yet, and touches nothing but the frame of its thread.
LEMMA CallNext ==
  ASSUME SessionInv, NEW t \in Threads, NEW o \in Operations, NEW c \in SUBSET Checks,
         c # {} => o = "open", Call(t, o, c)
  PROVE  SessionInv'
<1> USE DEF SessionInv, TypeOK
<1>1. UNCHANGED <<sharedVars, lockOf>>
  BY DEF Call
<1>2. LocksFor(o) \in Seq(Locks)
  BY WantTypes DEF LocksFor, Operations, SessionOps, ClientOps
<1>3. ThreadTypeOK'
  <2>1. (pc \in [Threads -> Places])' /\ (doing \in [Threads -> Doings])'
    BY DEF ThreadTypeOK, Call, Goto, Places, Doings
  <2>2. (op \in [Threads -> Operations \cup {NoOperation}])' /\ (checks \in [Threads -> SUBSET
      Checks])'
    BY DEF ThreadTypeOK, Call
  <2>3. (want \in [Threads -> Seq(Locks)])'
    BY <1>2 DEF ThreadTypeOK, Call
  <2>4. (attempt \in [Threads -> 1..Attempts])' /\ (calls \in [Threads -> Nat])'
    BY SessionAssumption DEF ThreadTypeOK, Call
  <2>5. (result \in [Threads -> Results])'
    BY DEF ThreadTypeOK, Call, Yields, Results
  <2> QED BY <1>1, <2>1, <2>2, <2>3, <2>4, <2>5 DEF ThreadTypeOK
<1>4. SharedTypeOK'
  BY <1>1 DEF SharedTypeOK, sharedVars, healthVars, historyVars
<1>5. pc'[t] = "lock" /\ op'[t] = o /\ doing'[t] = "operation" /\ want'[t] = LocksFor(o)
  BY DEF ThreadTypeOK, Call, Goto
<1>6. FrameOK(t)'
  BY <1>5 DEF FrameOK, Operations, SessionOps, ClientOps, NoOperation
<1>7. LocksOK(t)'
  <2>1. ~Holds(t, "client")' /\ ~Holds(t, "session")'
    BY <1>1 DEF LocksOK, Holds, Call
  <2> QED BY <1>5, <2>1, WantFacts
        DEF LocksOK, LocksFor, NeedsClient, NeedsSession, Inside, Operations, SessionOps,
            ClientOps
<1>8. OutcomeOK(t)' /\ ChecksOK(t)' /\ ~Checking(t) /\ ~Checking(t)'
  BY <1>5 DEF OutcomeOK, ChecksOK, Checking, Inside, Call
<1>9. ASSUME NEW u \in Threads, u # t
      PROVE  FrameOK(u)' /\ LocksOK(u)' /\ OutcomeOK(u)' /\ ChecksOK(u)' /\ (Checking(u)' <=>
          Checking(u))
  <2>1. Alone(u)
    BY <1>1, <1>9 DEF Alone, Call, ThreadTypeOK, Goto, Yields, Holds
  <2>2. FrameOK(u) /\ LocksOK(u) /\ OutcomeOK(u) /\ ChecksOK(u)
    BY <1>9
  <2>3. FrameOK(u)' /\ (Checking(u)' <=> Checking(u))
    BY <2>1, <2>2 DEF Alone, FrameOK, Checking
  <2>4. LocksOK(u)'
    BY <2>1, <2>2 DEF Alone, LocksOK, NeedsClient, NeedsSession
  <2>5. OutcomeOK(u)' /\ ChecksOK(u)'
    BY <1>1, <2>1, <2>2 DEF Alone, OutcomeOK, ChecksOK, Checking, sharedVars, historyVars
  <2> QED BY <2>3, <2>4, <2>5
<1>10. CheckedOrChecking'
  BY <1>1, <1>8, <1>9 DEF CheckedOrChecking, sharedVars, historyVars
<1>11. (heard.generation <= generation)' /\ IdentityIsCurrent' /\ HealthOK' /\ IntentOK'
  BY <1>1 DEF IdentityIsCurrent, HealthOK, IntentOK, sharedVars, healthVars, historyVars
<1> QED BY <1>3, <1>4, <1>6, <1>7, <1>8, <1>9, <1>10, <1>11

\* Every step of every thread preserves the invariant.
LEMMA SessionInvNext == SessionInv /\ [Next]_vars => SessionInv'
<1> SUFFICES ASSUME SessionInv, [Next]_vars PROVE SessionInv'
  OBVIOUS
<1>1. ASSUME NEW t \in Threads, Step(t) PROVE SessionInv'
  <2>1. SharedTypeOK' /\ ThreadTypeOK'
    BY <1>1, SharedTypeNext, ThreadTypeNext
  <2>2. FrameOK(t)' /\ LocksOK(t)' /\ OutcomeOK(t)' /\ ChecksOK(t)'
    BY <1>1, FrameNext, LocksNext, OutcomeNext, ChecksNext
  <2>3. \A u \in Threads : FrameOK(u)' /\ LocksOK(u)' /\ OutcomeOK(u)' /\ ChecksOK(u)'
    BY <1>1, <2>2, OthersNext
  <2>4. CheckedOrChecking' /\ (heard.generation <= generation)' /\ IdentityIsCurrent'
    BY <1>1, CheckedNext, IdentityNext
  <2>5. HealthOK' /\ IntentOK'
    BY <1>1, HealthNext, IntentNext
  <2> QED BY <2>1, <2>3, <2>4, <2>5 DEF SessionInv, TypeOK
<1>2. ASSUME NEW t \in Threads, Calling(t) PROVE SessionInv'
  <2>1. CASE \E o \in Operations \ {"open"} : Call(t, o, {})
    BY <2>1, CallNext
  <2>2. CASE \E c \in SUBSET Checks : Call(t, "open", c)
    BY <2>2, CallNext DEF Operations, SessionOps
  <2> QED BY <1>2, <2>1, <2>2 DEF Calling
<1>3. CASE UNCHANGED vars
  <2> USE <1>3 DEF vars, sharedVars, frameVars, healthVars, historyVars, SessionInv
  <2>1. TypeOK'
    BY DEF TypeOK, SharedTypeOK, ThreadTypeOK
  <2>2. \A t \in Threads : FrameOK(t)' /\ (Checking(t)' <=> Checking(t))
    BY DEF FrameOK, Checking
  <2>3. \A t \in Threads : LocksOK(t)'
    BY DEF LocksOK, Holds, NeedsClient, NeedsSession
  <2>4. \A t \in Threads : OutcomeOK(t)' /\ ChecksOK(t)'
    BY DEF OutcomeOK, ChecksOK, Checking
  <2>5. CheckedOrChecking'
    BY <2>2 DEF CheckedOrChecking
  <2>6. (heard.generation <= generation)' /\ IdentityIsCurrent' /\ HealthOK' /\ IntentOK'
    BY DEF IdentityIsCurrent, HealthOK, IntentOK
  <2> QED BY <2>1, <2>2, <2>3, <2>4, <2>5, <2>6
<1> QED BY <1>1, <1>2, <1>3 DEF Next, Finished

\* The invariant holds of a session just created.
LEMMA SessionInvInit == Init => SessionInv
<1> SUFFICES ASSUME Init PROVE SessionInv
  OBVIOUS
<1> USE SessionAssumption DEF Init
<1>1. TypeOK
  <2>1. SharedTypeOK
    BY DEF SharedTypeOK, NoIdentity
  <2>2. ThreadTypeOK
    BY WantTypes DEF ThreadTypeOK, Places, Doings, Results
  <2> QED BY <2>1, <2>2 DEF TypeOK
<1>2. \A t \in Threads : FrameOK(t) /\ ~Checking(t)
  BY DEF FrameOK, Checking, Inside
<1>3. \A t \in Threads : LocksOK(t)
  BY DEF LocksOK, Holds, Locks, Inside
<1>4. \A t \in Threads : OutcomeOK(t) /\ ChecksOK(t)
  BY <1>2 DEF OutcomeOK, ChecksOK
<1>5. CheckedOrChecking /\ heard.generation <= generation /\ IdentityIsCurrent /\ HealthOK /\
    IntentOK
  BY DEF CheckedOrChecking, IdentityIsCurrent, HealthOK, IntentOK, NoIdentity
<1> QED BY <1>1, <1>2, <1>3, <1>4, <1>5 DEF SessionInv

------------------------------------------------------------------------------
\* The locking discipline, the outcome each exchange leaves behind and the checks of
\* every reopened connection hold for any number of threads, attempts and calls.
THEOREM SessionInvariant == Spec => []SessionInv
  BY SessionInvInit, SessionInvNext, PTL DEF Spec

\* Session operations, client operations and readers of health never wait for each
\* other in a circle: whoever holds the session's lock is past waiting for the client's.
THEOREM SessionNoWaitCycle == Spec => []NoWaitCycle
<1>1. SessionInv => NoWaitCycle
  <2> SUFFICES ASSUME SessionInv, NEW u \in Threads, Holds(u, "session") PROVE ~Waits(u, "client")
    BY DEF NoWaitCycle
  <2> QED BY DEF SessionInv, LocksOK, Waits
<1> QED BY <1>1, SessionInvariant, PTL

\* No thread keeps a lock when its operation has ended or while a retry backs off.
THEOREM SessionNoLockAsleep == Spec => []NoLockAsleep
<1>1. SessionInv => NoLockAsleep
  BY DEF SessionInv, LocksOK, NoLockAsleep, Locks
<1> QED BY <1>1, SessionInvariant, PTL

\* Whoever takes the client's lock finds no open connection that has not passed the
\* checks of the last open(): the thread that would still check it holds that lock.
THEOREM SessionCheckedWhenUsable == Spec => []CheckedWhenUsable
<1>1. SessionInv => CheckedWhenUsable
  <2> SUFFICES ASSUME SessionInv, tstate = "OPEN", lockOf["client"] = NoThread
               PROVE  recoverChecks \subseteq checked
    BY DEF CheckedWhenUsable
  <2>1. \A t \in Threads : ~Checking(t)
    BY SessionAssumption DEF SessionInv, Checking, LocksOK, NeedsClient, Holds, Inside
  <2> QED BY <2>1 DEF SessionInv, CheckedOrChecking
<1> QED BY <1>1, SessionInvariant, PTL

\* The cached identity, and every reply traced with the present generation, belong to
\* the present connection, whatever recoveries and reopenings other threads make.
THEOREM SessionIdentityIsCurrent == Spec => []IdentityIsCurrent
<1>1. SessionInv => IdentityIsCurrent
  BY DEF SessionInv
<1> QED BY <1>1, SessionInvariant, PTL

\* A reader of health sees the present connection: no thread reports the outcome of an
\* exchange after another has replaced the connection the exchange was made on.
THEOREM SessionHealthIsCurrent == Spec => []HealthIsCurrent
<1>1. SessionInv => HealthIsCurrent
  BY DEF SessionInv, HealthOK, HealthIsCurrent
<1> QED BY <1>1, SessionInvariant, PTL

\* Over a transport whose refusals do not fault it, a recovery in a retry reopens
\* only a session its caller left open, never one closed or not yet opened.
THEOREM SessionNeverSilentlyReopens ==
  ASSUME ~RefusalFaults
  PROVE  Spec => NeverSilentlyReopens
<1> DEFINE A == \A t \in Threads : Recovering(t) /\ conn' # conn => intent = "open"
<1>1. SessionInv /\ [Next]_vars => [A]_vars
  <2> SUFFICES ASSUME SessionInv, Next, NEW t \in Threads, Recovering(t), conn' # conn
               PROVE  intent = "open"
    OBVIOUS
  <2>1. op[t] = "retry" /\ pc[t] = "begin" /\ doing[t] = "recover"
    BY DEF Recovering, SessionInv, FrameOK
  <2>2. ~UNCHANGED conn /\ ~Finished
    BY DEF Finished, vars, sharedVars, historyVars
  <2>3. ASSUME NEW u \in Threads, Calling(u) PROVE FALSE
    BY <2>2, <2>3 DEF Calling, Call, sharedVars, historyVars
  <2>4. PICK u \in Threads : Step(u)
    BY <2>2, <2>3 DEF Next
  <2>5. u = t
    BY <2>1, <2>2, <2>4, Quiet DEF sharedVars, historyVars, Inside
  <2>6. Recover(t)
    BY <2>1, <2>2, <2>4, <2>5 DEF Step, Exchange, Begins, Recovering, sharedVars, historyVars,
       Acquire, Backoff, GiveUp, Refuse, ExchangeFails, ExchangeInterrupted, ExchangeSucceeds,
           Notify, BeginExchange, OperationSucceeds, OperationFails, ReadHealth, Close, Open,
           RecoverIdle, RecoverRefused, ProbeSucceeds, IdentityCached, IdentityAsked,
           IdentitySucceeds, ValidatorAccepts, ValidatorRaises, CheckFails, Undo, OpenDone,
           RecoverDone
  <2> QED BY <2>6 DEF Recover, SessionInv, IntentOK
<1> QED BY <1>1, SessionInvariant, PTL DEF NeverSilentlyReopens, Spec

==============================================================================
