-------------------------- MODULE TransportContract --------------------------
(***************************************************************************)
(* What every backend promises (transport/base.py, the Transport protocol):  *)
(* operations are serialized, the state follows the life cycle, requests go   *)
(* out on an open transport only, and a request whose reply has not come back *)
(* never leaves the transport open behind it, so that no later query can meet *)
(* its answer.  Several backends implement this specification.                *)
(***************************************************************************)
CONSTANTS
  Threads,      \* threads that use the transport
  NoThread      \* the owner of a free lock

VARIABLES
  state,        \* the life-cycle state
  owner,        \* the thread whose operation runs
  awaiting      \* a request may have reached the instrument, its reply is not in

vars == <<state, owner, awaiting>>

Init == state = "CREATED" /\ owner = NoThread /\ awaiting = FALSE

Busy == owner \in Threads

\* An operation starts; only one at a time.
Start(t) == owner = NoThread /\ owner' = t /\ UNCHANGED <<state, awaiting>>

\* An operation ends and leaves the state as it is: nothing is awaited.
End == Busy /\ owner' = NoThread /\ awaiting' = FALSE /\ UNCHANGED state /\ ~awaiting

\* The reply is in; the operation that asked for it ends.
Answer == Busy /\ awaiting /\ awaiting' = FALSE /\ owner' = NoThread /\ UNCHANGED state

Opening == Busy /\ ~awaiting /\ state # "OPEN" /\ state' = "OPENING" /\ UNCHANGED <<owner, awaiting>>

\* Opening succeeds, or fails, and the call ends.
Opened ==
  /\ Busy
  /\ state = "OPENING"
  /\ state' \in {"OPEN", "FAULTED"}
  /\ owner' = NoThread
  /\ UNCHANGED awaiting

Ask == Busy /\ state = "OPEN" /\ ~awaiting /\ awaiting' = TRUE /\ UNCHANGED <<state, owner>>

\* Whatever escapes an exchange faults the transport.
Fault == Busy /\ state' = "FAULTED" /\ owner' = NoThread /\ awaiting' = FALSE

Closing ==
  /\ Busy
  /\ ~awaiting
  /\ state \notin {"CREATED", "CLOSED"}
  /\ state' = "CLOSING"
  /\ UNCHANGED <<owner, awaiting>>

Closed ==
  /\ Busy
  /\ state = "CLOSING"
  /\ state' = "CLOSED"
  /\ owner' = NoThread
  /\ UNCHANGED awaiting

Next ==
  \/ \E t \in Threads : Start(t)
  \/ End \/ Answer \/ Opening \/ Opened \/ Ask \/ Fault \/ Closing \/ Closed

Spec == Init /\ [][Next]_vars
==============================================================================
