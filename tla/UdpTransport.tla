---------------------------- MODULE UdpTransport -----------------------------
(***************************************************************************)
(* The UDP backend of transport/udp.py.  A reply is one datagram.  Datagrams  *)
(* are lost, duplicated, overtaken and late, and come from other senders too. *)
(* A late one reaches the next socket only if the local port is fixed; a       *)
(* transport recovered from a fault drains its socket before it asks.          *)
(***************************************************************************)
EXTENDS BackendExchange

CONSTANTS
  MaxQueue,     \* datagrams the operating system queues for a socket
  DrainBudget   \* _STALE_DRAIN_BUDGET

ASSUME UdpAssumption == MaxQueue \in Nat \ {0} /\ DrainBudget \in Nat \ {0}

VARIABLES
  fixedPort,       \* local_bind names a port, so every socket has the same one
  validateSource,  \* _validate_source
  drainFirst,      \* _drain_before_transact
  air,             \* datagrams on their way
  queue,           \* datagrams received by the socket
  drained,         \* datagrams discarded by the running drain
  old,             \* how many of the queue were there when the operation began
  flushed          \* flush(INPUT) has run on this socket

udpVars == <<fixedPort, validateSource, drainFirst, air, queue, drained, old, flushed>>

\* A datagram is a record [req, port, size]; one of one byte is not terminated, longer
\* ones are.  One of another sender answers no request.
Foreign == [req |-> 0, port |-> 0, size |-> 2]

UdpInit ==
  /\ fixedPort \in (IF backend = "udp" THEN BOOLEAN ELSE {FALSE})
  /\ validateSource \in (IF backend = "udp" THEN BOOLEAN ELSE {TRUE})
  /\ drainFirst = FALSE
  /\ air = {}
  /\ queue = <<>>
  /\ drained = 0
  /\ old = 0
  /\ flushed = FALSE

\* Faulty variant: the state is looked at after open() has changed it.
UdpOpenedReadsState(t) ==
  /\ Opened(t)
  /\ drainFirst' = (state = "FAULTED")
  /\ flushed' = FALSE
  /\ UNCHANGED <<fixedPort, validateSource, air, queue, drained, old>>

UdpOpened(t) ==
  /\ Opened(t)
  /\ drainFirst' = (previous = "FAULTED")
  /\ flushed' = FALSE
  /\ UNCHANGED <<fixedPort, validateSource, air, queue, drained, old>>

\* The payload exceeds maximum_datagram_size, which write() finds before it takes
\* the lock.
UdpOversize(t) ==
  /\ pc[t] = "acquire"
  /\ op[t] = "write"
  /\ Goto(t, "idle")
  /\ outcome' = [outcome EXCEPT ![t] = "failed"]
  /\ UNCHANGED <<state, owner, resource, handles, opened, op, calls, backendVars, udpVars>>

UdpSendBegin(t) ==
  /\ SendBegin(t, IF op[t] = "transact" /\ drainFirst THEN "drain" ELSE "send")
  /\ drained' = 0
  /\ old' = Len(queue)
  /\ UNCHANGED <<fixedPort, validateSource, drainFirst, air, queue, flushed>>

UdpSendDone(t) ==
  /\ SendDone(t)
  /\ inbox' = IF op[t] = "write" THEN inbox ELSE Append(inbox, Request(t))
  /\ UNCHANGED <<wire, udpVars>>

UdpSendFailed(t) ==
  /\ SendFailed(t)
  /\ inbox' \in {inbox} \cup (IF op[t] = "write" THEN {} ELSE {Append(inbox, Request(t))})
  /\ UNCHANGED udpVars

------------------------------------------------------------------------------
\* Draining: flush(INPUT), and the first transaction after a recovery.

UdpFlush(t) ==
  /\ Running(t, "flushInput")
  /\ state = "OPEN"
  /\ Goto(t, "drain")
  /\ drained' = 0
  /\ old' = Len(queue)
  /\ UNCHANGED <<state, owner, resource, handles, opened, op, outcome, calls, backendVars,
                 fixedPort, validateSource, drainFirst, air, queue, flushed>>

UdpFlushOutput(t) ==
  /\ Running(t, "flushOutput")
  /\ state = "OPEN"
  /\ Leave(t, "done")
  /\ UNCHANGED <<state, resource, handles, opened, op, calls, backendVars, udpVars>>

\* Faulty variant: nothing bounds the drain.
DrainUnbounded(t) ==
  /\ pc[t] = "drain"
  /\ queue # <<>>
  /\ queue' = Tail(queue)
  /\ old' = IF old = 0 THEN 0 ELSE old - 1
  /\ drained' = 0
  /\ UNCHANGED <<machineVars, backendVars, fixedPort, validateSource, drainFirst, air, flushed>>

\* _discard_stale_datagrams, one datagram.
Drain(t) ==
  /\ pc[t] = "drain"
  /\ queue # <<>>
  /\ drained < DrainBudget
  /\ queue' = Tail(queue)
  /\ old' = IF old = 0 THEN 0 ELSE old - 1
  /\ drained' = drained + 1
  /\ UNCHANGED <<machineVars, backendVars, fixedPort, validateSource, drainFirst, air, flushed>>

\* The socket would block, or the budget is used up.
DrainDone(t) ==
  /\ pc[t] = "drain"
  /\ queue = <<>> \/ drained = DrainBudget
  /\ drainFirst' = FALSE
  /\ flushed' = (flushed \/ op[t] = "flushInput")
  /\ \/ op[t] = "flushInput" /\ Leave(t, "done")
     \/ op[t] = "transact" /\ Goto(t, "send") /\ UNCHANGED <<owner, outcome>>
  /\ UNCHANGED <<state, resource, handles, opened, op, calls, backendVars,
                 fixedPort, validateSource, air, queue, drained, old>>

DrainFailed(t) ==
  /\ pc[t] = "drain"
  /\ Raise(t, "failed")
  /\ UNCHANGED <<state, resource, handles, opened, op, calls, backendVars, udpVars>>

------------------------------------------------------------------------------
\* Reading one datagram.

UdpSkips(d) == validateSource /\ d.req = 0

\* maximum_size and _apply_request.
UdpFits(d) ==
  /\ d.size <= MaxSize
  /\ mode = "exact" => d.size = Length
  /\ mode = "upTo" => d.size <= Length
  /\ mode = "line" => d.size > 1

\* A datagram of another sender is dropped, within the same deadline.
UdpSkip(t) ==
  /\ pc[t] = "recv"
  /\ spent < Timeout
  /\ queue # <<>>
  /\ UdpSkips(Head(queue))
  /\ queue' = Tail(queue)
  /\ UNCHANGED <<machineVars, backendVars, fixedPort, validateSource, drainFirst, air, drained, old, flushed>>

UdpRead(t) ==
  /\ pc[t] = "recv"
  /\ spent < Timeout
  /\ queue # <<>>
  /\ ~UdpSkips(Head(queue))
  /\ UdpFits(Head(queue))
  /\ Return(t, Reply(Head(queue).req, Head(queue).size, Head(queue).size))
  /\ queue' = Tail(queue)
  /\ UNCHANGED <<wire, buffer, fixedPort, validateSource, drainFirst, air, drained, old, flushed>>

UdpReadFailed(t) == ReadFailed(t) /\ UNCHANGED udpVars

------------------------------------------------------------------------------
\* The network and the instrument (external).

\* A datagram to a port that will not be bound again reaches nobody.
Reachable(port) == fixedPort \/ port = resource

UdpAnswers(n) ==
  /\ inbox # <<>>
  /\ inbox' = Tail(inbox)
  /\ Reachable(Head(inbox).port)
  /\ air' = air \cup {[req |-> Head(inbox).req, port |-> Head(inbox).port, size |-> n]}
  /\ UNCHANGED <<machineVars, backend, previous, base, pending, wire, part, buffer, exchangeVars,
                 fixedPort, validateSource, drainFirst, queue, drained, old, flushed>>

\* A datagram reaches the socket that is bound to its port now; one that is still on
\* its way afterwards arrives again.  A datagram that never arrives is lost.
UdpArrives(d, again) ==
  /\ resource # NoResource
  /\ Reachable(d.port)
  /\ Len(queue) < MaxQueue
  /\ queue' = Append(queue, d)
  /\ air' = IF again THEN air ELSE air \ {d}
  /\ framed' = (framed /\ ~again)
  /\ UNCHANGED <<machineVars, backend, previous, base, pending, lineVars, mode, requests, asked, answer,
                 spent, fixedPort, validateSource, drainFirst, drained, old, flushed>>

UdpForeign ==
  /\ resource # NoResource
  /\ Len(queue) < MaxQueue
  /\ queue' = Append(queue, Foreign)
  /\ UNCHANGED <<machineVars, backendVars, fixedPort, validateSource, drainFirst, air, drained, old, flushed>>

UdpNetwork ==
  \/ \E n \in MaxSize..MaxReply : UdpAnswers(n)
  \/ \E d \in air, again \in BOOLEAN : UdpArrives(d, again)
  \/ UdpForeign

------------------------------------------------------------------------------
\* The socket's queue goes with the socket, and a port that was not fixed too.
UdpLifecycle(t) ==
  /\ CommonStep(t)
  /\ queue' = IF resource' = resource THEN queue ELSE <<>>
  /\ air' = IF fixedPort \/ resource' = resource THEN air ELSE {}
  /\ UNCHANGED <<fixedPort, validateSource, drainFirst, drained, old, flushed>>

UdpStep(t) ==
  \/ UdpLifecycle(t)
  \/ UdpOpened(t) \/ UdpOversize(t)
  \/ UdpSendBegin(t) \/ UdpSendDone(t) \/ UdpSendFailed(t)
  \/ UdpFlush(t) \/ UdpFlushOutput(t) \/ Drain(t) \/ DrainDone(t) \/ DrainFailed(t)
  \/ UdpSkip(t) \/ UdpRead(t) \/ UdpReadFailed(t)
==============================================================================
