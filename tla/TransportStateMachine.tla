------------------------ MODULE TransportStateMachine ------------------------
(***************************************************************************)
(* The transport state machine of transport/state.py, shared by the socket, *)
(* serial and VISA backends: life-cycle state, the reentrant lock that       *)
(* serializes every operation, release of the backend resource, and the rule *)
(* that whatever escapes an exchange faults the transport.  A backend module *)
(* extends this one, adds its own state and says what opening, reading and   *)
(* writing do.                                                               *)
(*                                                                         *)
(* A thread calls an operation, waits for the lock, runs the body and leaves. *)
(* Nested acquisitions of the RLock by its owner change nothing, so the lock  *)
(* is its owner.  Each action below is a stretch of code that touches only    *)
(* state guarded by the lock, cut wherever `state` becomes visible to threads *)
(* that read it without the lock or wherever the thread may block.            *)
(***************************************************************************)
EXTENDS Integers

CONSTANTS
  Threads,      \* threads that use the transport
  NoThread,     \* the owner of a free lock
  MaxCalls      \* bound on the operations a thread calls

ASSUME TransportAssumption ==
  NoThread \notin Threads /\ MaxCalls \in Nat

VARIABLES
  state,        \* _state
  owner,        \* the thread that holds _lock
  resource,     \* the backend resource held (_socket), by number; NoResource is None
  handles,      \* resources the operating system has open for this transport
  opened,       \* resources acquired so far, each gets the next number
  pc,           \* where every thread is
  op,           \* the operation every thread is in, or called last
  outcome,      \* how it ended
  calls         \* operations called so far by every thread

machineVars == <<state, owner, resource, handles, opened, pc, op, outcome, calls>>

NoResource == 0

TransportStates == {"CREATED", "OPENING", "OPEN", "FAULTED", "CLOSING", "CLOSED"}

Operations == {"open", "close", "invalidate", "write", "read", "readMessage",
               "transact", "transactMessage", "block", "flushInput", "flushOutput"}

Places == {"idle", "acquire", "run", "connect", "closing", "fault",
           "send", "recv", "recvHeader", "recvBody", "drain"}

Outcomes == {"none", "done", "reply", "NotConnectedError",
             "UnsupportedOperationError", "failed"}

MachineInit ==
  /\ state = "CREATED"
  /\ owner = NoThread
  /\ resource = NoResource
  /\ handles = {}
  /\ opened = 0
  /\ pc = [t \in Threads |-> "idle"]
  /\ op = [t \in Threads |-> "close"]
  /\ outcome = [t \in Threads |-> "none"]
  /\ calls = [t \in Threads |-> 0]

Goto(t, place) == pc' = [pc EXCEPT ![t] = place]

\* The operation returns or raises: the outermost `with self._lock` ends.
Leave(t, result) ==
  /\ Goto(t, "idle")
  /\ owner' = NoThread
  /\ outcome' = [outcome EXCEPT ![t] = result]

\* An exception on its way to _faulting_io.
Raise(t, error) ==
  /\ Goto(t, "fault")
  /\ outcome' = [outcome EXCEPT ![t] = error]
  /\ UNCHANGED owner

Call(t, o) ==
  /\ pc[t] = "idle"
  /\ calls[t] < MaxCalls
  /\ Goto(t, "acquire")
  /\ op' = [op EXCEPT ![t] = o]
  /\ outcome' = [outcome EXCEPT ![t] = "none"]
  /\ calls' = [calls EXCEPT ![t] = @ + 1]
  /\ UNCHANGED <<state, owner, resource, handles, opened>>

Acquire(t) ==
  /\ pc[t] = "acquire"
  /\ owner = NoThread
  /\ owner' = t
  /\ Goto(t, "run")
  /\ UNCHANGED <<state, resource, handles, opened, op, outcome, calls>>

Running(t, o) == pc[t] = "run" /\ op[t] = o

\* _release_resource: the reference goes first and the handle is closed, whether
\* or not closing it raises; a second call finds nothing to release.
ReleaseResource ==
  /\ resource' = NoResource
  /\ handles' = handles \ {resource}

CloseIdle(t) ==
  /\ Running(t, "close")
  /\ state \in {"CREATED", "CLOSED"}
  /\ Leave(t, "done")
  /\ UNCHANGED <<state, resource, handles, opened, op, calls>>

CloseBegin(t) ==
  /\ Running(t, "close")
  /\ state \notin {"CREATED", "CLOSED"}
  /\ state' = "CLOSING"
  /\ Goto(t, "closing")
  /\ UNCHANGED <<owner, resource, handles, opened, op, outcome, calls>>

\* The finally clause: CLOSED is reached even when releasing raises.
CloseEnd(t) ==
  /\ pc[t] = "closing"
  /\ ReleaseResource
  /\ state' = "CLOSED"
  /\ \E result \in {"done", "failed"} : Leave(t, result)
  /\ UNCHANGED <<opened, op, calls>>

InvalidateIdle(t) ==
  /\ Running(t, "invalidate")
  /\ state # "OPEN"
  /\ Leave(t, "done")
  /\ UNCHANGED <<state, resource, handles, opened, op, calls>>

InvalidateOpen(t) ==
  /\ Running(t, "invalidate")
  /\ state = "OPEN"
  /\ Raise(t, "done")
  /\ UNCHANGED <<state, resource, handles, opened, op, calls>>

\* _fault, from _faulting_io or invalidate: whatever the state was.
Fault(t) ==
  /\ pc[t] = "fault"
  /\ ReleaseResource
  /\ state' = "FAULTED"
  /\ Leave(t, outcome[t])
  /\ UNCHANGED <<opened, op, calls>>

\* I/O on a transport that is not open, where _require_open is outside
\* _faulting_io: nothing is transmitted and the state stays.
RefuseIO(t) ==
  /\ pc[t] = "run"
  /\ op[t] \in {"write", "read", "readMessage", "block", "flushInput", "flushOutput"}
  /\ state # "OPEN"
  /\ Leave(t, "NotConnectedError")
  /\ UNCHANGED <<state, resource, handles, opened, op, calls>>

\* transact enters _faulting_io before write looks at the state, so the refusal
\* goes through _fault as well.
RefuseTransact(t) ==
  /\ pc[t] = "run"
  /\ op[t] \in {"transact", "transactMessage"}
  /\ state # "OPEN"
  /\ Raise(t, "NotConnectedError")
  /\ UNCHANGED <<state, resource, handles, opened, op, calls>>

------------------------------------------------------------------------------
\* The types of the machine's variables.
MachineTypeOK ==
  /\ state \in TransportStates
  /\ owner \in Threads \cup {NoThread}
  /\ resource \in Nat
  /\ handles \subseteq 1..opened
  /\ opened \in Nat
  /\ pc \in [Threads -> Places]
  /\ op \in [Threads -> Operations]
  /\ outcome \in [Threads -> Outcomes]
  /\ calls \in [Threads -> Nat]

Inside(t) == pc[t] \notin {"idle", "acquire"}

\* Only the owner of the lock is inside an operation, so exchanges never overlap
\* (transport/state.py _lock; base.py "all operations are finite-time and serialized").
Serialized == \A t \in Threads : Inside(t) <=> owner = t

\* The resource is held exactly while the transport is open or is being closed,
\* and no handle survives the reference to it: neither a failed open, a fault,
\* nor a close leaks a socket, and an OPEN transport always has one to use.
ResourceMatchesState ==
  /\ handles = (IF resource = NoResource THEN {} ELSE {resource})
  /\ state = "OPEN" => resource # NoResource
  /\ state \in {"CREATED", "OPENING", "FAULTED", "CLOSED"} => resource = NoResource
==============================================================================
