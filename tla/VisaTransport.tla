---------------------------- MODULE VisaTransport ----------------------------
(***************************************************************************)
(* The VISA backend of transport/visa.py: messages that end with END, read in *)
(* chunks through the low-level API, a local buffer for what a read has taken  *)
(* and not returned, and the bus operations (clear, serial poll, trigger, go   *)
(* to local).  The instrument follows IEEE 488.2: a new message discards the   *)
(* response to an earlier one.                                                 *)
(***************************************************************************)
EXTENDS BackendExchange

CONSTANT
  ChunkSize     \* _chunk_size

ASSUME VisaAssumption == ChunkSize \in Nat \ {0}

VARIABLE
  messageBased  \* message_based: the resource name has an END boundary

ControlOps == {"deviceClear", "statusByte", "trigger", "goToLocal", "goToLocalAddressed"}

VisaInit == messageBased \in (IF backend = "visa" THEN BOOLEAN ELSE {TRUE})

VisaOpened(t) == Opened(t) /\ UNCHANGED messageBased

VisaSendBegin(t) == SendBegin(t, "send") /\ UNCHANGED messageBased

\* The message the instrument has to answer once it has got this one.
Interrupts(t) == IF op[t] = "write" THEN <<>> ELSE <<Request(t)>>

VisaSendDone(t) ==
  /\ SendDone(t)
  /\ inbox' = Interrupts(t)
  /\ wire' = <<>>
  /\ UNCHANGED messageBased

VisaSendFailed(t) ==
  /\ SendFailed(t)
  /\ inbox' \in {inbox, Interrupts(t)}
  /\ UNCHANGED messageBased

------------------------------------------------------------------------------
\* Reading.

\* This check is inside _faulting_io, unlike that of the byte streams.
VisaUnsupported(t) ==
  /\ pc[t] = "recv"
  /\ mode = "message"
  /\ ~messageBased
  /\ Raise(t, "UnsupportedOperationError")
  /\ UNCHANGED <<state, resource, handles, opened, op, calls, backendVars, messageBased>>

LineEnd(bytes) == {i \in 1..Len(bytes) : bytes[i].eol}

\* How much of the message may be gathered before it is too long.
MessageRoom == MaxSize - Len(buffer)

VisaLimit == IF mode = "upTo" THEN Smaller(Length, MaxSize) ELSE MaxSize

\* Whether the buffer has to grow before the read can return.
VisaWaits ==
  CASE mode = "message" -> messageBased /\ buffer = <<>>
    [] mode = "line" -> LineEnd(buffer) = {} /\ Len(buffer) < MaxSize
    [] mode = "exact" -> Len(buffer) < Length
    [] mode \in {"upTo", "available"} -> buffer = <<>>

\* How much the next low-level read asks for: one byte more than fits a message,
\* never more than an exact read still needs.
VisaWant ==
  CASE mode \in {"message", "line"} -> Smaller(ChunkSize, MessageRoom + 1 - Len(part))
    [] mode = "exact" -> Smaller(ChunkSize, Length - Len(buffer))
    [] mode \in {"upTo", "available"} -> Smaller(ChunkSize, VisaLimit)

\* Faulty variant: a full chunk is taken for the end of the message.
MessageEndsWithChunk == part # <<>>

\* The message in part is complete: the last read ended with END, or it ended
\* short of what it asked for.
VisaMessageEnded == part # <<>> /\ part[Len(part)].more = 0

\* One low-level read: up to END, at most what was asked for.  A message is
\* gathered in a local of its own, other reads extend the buffer.
VisaReceive(t) ==
  /\ pc[t] = "recv"
  /\ VisaWaits
  /\ ~VisaMessageEnded
  /\ VisaWant > 0
  /\ spent < Timeout
  /\ wire # <<>>
  /\ LET n == Smaller(VisaWant, Head(wire).more + 1)
         chunk == SubSeq(wire, 1, n)
     IN /\ wire' = SubSeq(wire, n + 1, Len(wire))
        /\ IF mode \in {"message", "line"}
             THEN part' = part \o chunk /\ UNCHANGED buffer
             ELSE buffer' = buffer \o chunk /\ UNCHANGED part
  /\ UNCHANGED <<machineVars, backend, previous, base, pending, inbox, exchangeVars, messageBased>>

\* A terminated read adds the message to the buffer and looks again.
VisaExtend(t) ==
  /\ pc[t] = "recv"
  /\ mode = "line"
  /\ VisaMessageEnded
  /\ Len(part) <= MessageRoom
  /\ buffer' = buffer \o part
  /\ part' = <<>>
  /\ UNCHANGED <<machineVars, backend, previous, base, pending, inbox, wire, exchangeVars, messageBased>>

\* A message read that found the buffer empty returns the message itself.
VisaReturnMessage(t) ==
  /\ pc[t] = "recv"
  /\ mode = "message"
  /\ messageBased
  /\ VisaMessageEnded
  /\ Len(part) <= MaxSize
  /\ spent < Timeout
  /\ Return(t, part)
  /\ UNCHANGED <<wire, buffer, messageBased>>

\* How many bytes of the buffer the read returns.
VisaTake(n) ==
  CASE mode = "line" -> n \in LineEnd(buffer) /\ n <= MaxSize
                        /\ \A i \in LineEnd(buffer) : n <= i
    [] mode = "exact" -> n = Length
    [] mode = "message" -> n = Smaller(Len(buffer), MaxSize)
    [] mode \in {"upTo", "available"} -> n = Smaller(Len(buffer), VisaLimit)

VisaReturn(t, n) ==
  /\ pc[t] = "recv"
  /\ ~VisaWaits
  /\ mode = "message" => messageBased
  /\ VisaTake(n)
  /\ spent < Timeout
  /\ Return(t, SubSeq(buffer, 1, n))
  /\ buffer' = SubSeq(buffer, n + 1, Len(buffer))
  /\ UNCHANGED <<wire, messageBased>>

VisaReadFailed(t) == ReadFailed(t) /\ UNCHANGED messageBased

------------------------------------------------------------------------------
\* Flushing and the bus operations.

\* The local buffer goes; whether the driver can drop what it has received depends
\* on the resource, and a failure to do so is ignored.
VisaFlush(t) ==
  /\ pc[t] = "run"
  /\ op[t] \in {"flushInput", "flushOutput"}
  /\ state = "OPEN"
  /\ IF op[t] = "flushInput"
       THEN buffer' = <<>> /\ wire' \in {wire, <<>>}
       ELSE UNCHANGED <<buffer, wire>>
  /\ Leave(t, "done")
  /\ UNCHANGED <<state, resource, handles, opened, op, calls,
                 backend, previous, base, pending, inbox, part, exchangeVars, messageBased>>

RefuseControl(t) ==
  /\ pc[t] = "run"
  /\ op[t] \in ControlOps
  /\ state # "OPEN"
  /\ Leave(t, "NotConnectedError")
  /\ UNCHANGED <<state, resource, handles, opened, op, calls, backendVars, messageBased>>

\* The backend has no local control, or this is no GPIB instrument: refused
\* outside _faulting_io.
ControlUnsupported(t) ==
  /\ pc[t] = "run"
  /\ op[t] \in {"goToLocal", "goToLocalAddressed"}
  /\ state = "OPEN"
  /\ Leave(t, "UnsupportedOperationError")
  /\ UNCHANGED <<state, resource, handles, opened, op, calls, backendVars, messageBased>>

\* Device Clear empties the local buffer and the instrument's queues; the other
\* bus operations carry no data.
Control(t) ==
  /\ pc[t] = "run"
  /\ op[t] \in ControlOps
  /\ state = "OPEN"
  /\ IF op[t] = "deviceClear"
       THEN inbox' = <<>> /\ wire' = <<>> /\ buffer' = <<>>
       ELSE UNCHANGED <<inbox, wire, buffer>>
  /\ Leave(t, "done")
  /\ UNCHANGED <<state, resource, handles, opened, op, calls,
                 backend, previous, base, pending, part, exchangeVars, messageBased>>

ControlFailed(t) ==
  /\ pc[t] = "run"
  /\ op[t] \in ControlOps
  /\ state = "OPEN"
  /\ Raise(t, "failed")
  /\ UNCHANGED <<state, resource, handles, opened, op, calls, backendVars, messageBased>>

VisaStep(t) ==
  \/ CommonStep(t) /\ UNCHANGED messageBased
  \/ VisaOpened(t) \/ VisaSendBegin(t) \/ VisaSendDone(t) \/ VisaSendFailed(t)
  \/ VisaUnsupported(t) \/ VisaReceive(t) \/ VisaExtend(t) \/ VisaReturnMessage(t)
  \/ \E n \in 1..Len(buffer) : VisaReturn(t, n)
  \/ VisaReadFailed(t)
  \/ VisaFlush(t) \/ RefuseControl(t) \/ ControlUnsupported(t) \/ Control(t) \/ ControlFailed(t)
==============================================================================
