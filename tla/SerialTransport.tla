-------------------------- MODULE SerialTransport ----------------------------
(***************************************************************************)
(* The serial backend of transport/serial.py: a byte stream with no local     *)
(* buffer.  What a read has consumed when it fails is lost, and the line has   *)
(* no connection: a reply the instrument sends after the port was closed and   *)
(* opened again arrives at the new port.                                       *)
(***************************************************************************)
EXTENDS BackendExchange

SerialOpened(t) == Opened(t)

SerialSendBegin(t) == SendBegin(t, "send")

SerialSendDone(t) ==
  /\ SendDone(t)
  /\ inbox' = IF op[t] = "write" THEN inbox ELSE Append(inbox, Request(t))
  /\ UNCHANGED wire

SerialSendFailed(t) ==
  /\ SendFailed(t)
  /\ inbox' \in {inbox} \cup (IF op[t] = "write" THEN {} ELSE {Append(inbox, Request(t))})

\* A stream has no message boundary.  read() says so before _faulting_io, and
\* transact() has its own around it.
SerialUnsupported(t) ==
  /\ pc[t] = "recv"
  /\ mode = "message"
  /\ IF op[t] = "read" THEN Leave(t, "UnsupportedOperationError")
                       ELSE Raise(t, "UnsupportedOperationError")
  /\ UNCHANGED <<state, resource, handles, opened, op, calls, backendVars>>

\* Whether the bytes consumed so far end the read.
SerialEnough ==
  CASE mode = "line" -> part # <<>> /\ (part[Len(part)].eol \/ Len(part) = MaxSize)
    [] mode = "exact" -> Len(part) = Length
    [] mode \in {"upTo", "available"} -> part # <<>>
    [] mode = "message" -> FALSE

\* read() and read_until() consume the stream byte by byte, until the timeout
\* that was left when they started.
SerialReceive(t) ==
  /\ pc[t] = "recv"
  /\ mode # "message"
  /\ ~SerialEnough
  /\ spent < Timeout
  /\ wire # <<>>
  /\ part' = Append(part, Head(wire))
  /\ wire' = Tail(wire)
  /\ UNCHANGED <<machineVars, backend, previous, base, pending, inbox, buffer, exchangeVars>>

SerialLimit == IF mode = "upTo" THEN Smaller(Length, MaxSize) ELSE MaxSize

\* The read has what it wants and the deadline has not passed meanwhile.
SerialReturn(t) ==
  /\ pc[t] = "recv"
  /\ SerialEnough
  /\ spent < Timeout
  /\ LET waiting == IF mode \in {"upTo", "available"}
                      THEN Smaller(Len(wire), SerialLimit - 1) ELSE 0
     IN /\ mode = "line" => part[Len(part)].eol
        /\ Return(t, part \o SubSeq(wire, 1, waiting))
        /\ wire' = SubSeq(wire, waiting + 1, Len(wire))
  /\ UNCHANGED buffer

\* reset_input_buffer: what has arrived is dropped.
SerialFlush(t) ==
  /\ pc[t] = "run"
  /\ op[t] \in {"flushInput", "flushOutput"}
  /\ state = "OPEN"
  /\ wire' = IF op[t] = "flushInput" THEN <<>> ELSE wire
  /\ Leave(t, "done")
  /\ UNCHANGED <<state, resource, handles, opened, op, calls,
                 backend, previous, base, pending, inbox, part, buffer, exchangeVars>>

SerialFlushFailed(t) ==
  /\ pc[t] = "run"
  /\ op[t] \in {"flushInput", "flushOutput"}
  /\ state = "OPEN"
  /\ Raise(t, "failed")
  /\ UNCHANGED <<state, resource, handles, opened, op, calls, backendVars>>

SerialStep(t) ==
  \/ CommonStep(t) \/ SerialOpened(t)
  \/ SerialSendBegin(t) \/ SerialSendDone(t) \/ SerialSendFailed(t)
  \/ SerialUnsupported(t) \/ SerialReceive(t) \/ SerialReturn(t) \/ ReadFailed(t)
  \/ SerialFlush(t) \/ SerialFlushFailed(t)
==============================================================================
