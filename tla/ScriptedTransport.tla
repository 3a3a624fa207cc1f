-------------------------- MODULE ScriptedTransport --------------------------
(***************************************************************************)
(* ScriptedScpiTransport (simulation/scripted.py): the scripted instrument on  *)
(* top of a mock.  A call that holds the mock's operation lock throughout is    *)
(* one function from an instrument to an outcome [inst, error, data].          *)
(*                                                                         *)
(* An instrument is a record: mock; pending, the delayed replies (with the      *)
(* delay that remains); history; binary and binaryBytes, the binary history;    *)
(* errors, its SCPI error queue.  What a rule answers to a command is a         *)
(* parameter, a rule: of kind "unknown" (none matches), "silent" (None),         *)
(* "raises" (the handler fails), "error query" or "reply", with the scripted     *)
(* reply [id, size, ended, delay, raises, disconnect].                          *)
(***************************************************************************)
EXTENDS MockTransport, ProgramMessage

CONSTANTS Timeout,       \* default timeout, in units of delay
          MaxEntries,    \* 256: entries of the binary history
          MaxHistoryBytes  \* max_binary_history_bytes

ASSUME ScriptedAssumption == Timeout \in Nat /\ MaxEntries \in Nat \ {0} /\ MaxHistoryBytes \in Nat

NewInstrument(mock) ==
  [mock |-> mock, pending |-> <<>>, history |-> <<>>, binary |-> <<>>, binaryBytes |-> 0,
   errors |-> <<>>]

NoReply == [id |-> 0, size |-> 0, ended |-> FALSE, delay |-> 0, raises |-> FALSE, disconnect |-> FALSE]

Rule(kind, reply) == [kind |-> kind, reply |-> reply]

\* The rule for the k-th command: without one the header is undefined.
Matching(rules, k) == IF k \in DOMAIN rules THEN rules[k] ELSE Rule("unknown", NoReply)

\* Bytes of a reply as the mock is fed them now; the last one may be the terminator.
Bytes(mock, reply) ==
  [k \in 1..reply.size |->
     [id |-> reply.id, last |-> reply.ended /\ k = reply.size, late |-> mock.state # "OPEN"]]

\* _deliver: the data is fed whatever happened to the connection.
Deliver(inst, reply) ==
  LET failing == IF reply.raises
                   THEN [inst.mock EXCEPT !.failRead = Arm(inst.mock, "scripted", reply.disconnect, reply.id)]
                 ELSE IF reply.disconnect THEN SimulateDisconnect(inst.mock)
                 ELSE inst.mock
  IN [inst EXCEPT !.mock = IF reply.size = 0 THEN failing ELSE Feed(failing, Bytes(failing, reply))]

QueueReply(inst, reply) ==
  IF reply.delay > 0 THEN [inst EXCEPT !.pending = Append(@, reply)] ELSE Deliver(inst, reply)

\* _next_error_reply, through a reply that is fed at once.
AnswerErrorQuery(inst, reply) ==
  QueueReply([inst EXCEPT !.errors = IF @ = <<>> THEN @ ELSE Tail(@)],
             [reply EXCEPT !.delay = 0, !.raises = FALSE, !.disconnect = FALSE])

\* _resolve with _serve, and _serve_binary: what is left once the rule has answered.
Serve(inst, rule) ==
  CASE rule.kind = "unknown" -> [inst EXCEPT !.errors = Append(@, "undefined header")]
    [] rule.kind = "silent" -> inst
    [] rule.kind = "error query" -> AnswerErrorQuery(inst, rule.reply)
    [] rule.kind = "reply" -> QueueReply(inst, rule.reply)

\* Faulty variant: the discarded payload is still counted.
RecordBinaryLeaks(inst, part) ==
  LET kept == IF Len(inst.binary) >= MaxEntries THEN Tail(inst.binary) ELSE inst.binary IN
  [inst EXCEPT !.binary = Append(kept, part), !.binaryBytes = @ + Len(part.payload)]

TotalBytes(entries) == Len(FlattenSeq([k \in DOMAIN entries |-> entries[k].payload]))

\* _record_binary: the oldest entries make room, one at a time.
RecordBinary(inst, part) ==
  LET size == Len(part.payload)
      Rest(k) == SubSeq(inst.binary, k + 1, Len(inst.binary))
      Left(k) == inst.binaryBytes - TotalBytes(SubSeq(inst.binary, 1, k))
      dropped == Min({k \in 0..Len(inst.binary) :
                        \/ k = Len(inst.binary)
                        \/ Len(Rest(k)) < MaxEntries /\ Left(k) + size <= MaxHistoryBytes})
  IN IF MaxHistoryBytes = 0 \/ size > MaxHistoryBytes THEN inst
     ELSE [inst EXCEPT !.binary = Append(Rest(dropped), part), !.binaryBytes = Left(dropped) + size]

Record(inst, part) ==
  IF part.block THEN RecordBinary(inst, part) ELSE [inst EXCEPT !.history = Append(@, part.text)]

\* invalidate(), called with the lock held.
Drop(inst) == [inst EXCEPT !.mock = Invalidate(@), !.pending = <<>>]

Outcome(inst, error, data) == [inst |-> inst, error |-> error, data |-> data]

\* The commands of a message in turn, rules[k] answering the k-th; a handler that raises
\* stops the loop.
ServeAll(inst, parts, rules) ==
  LET failing == {k \in DOMAIN parts : Matching(rules, k).kind = "raises"}
      n == Min(failing \cup {Len(parts) + 1}) - 1
      served[k \in 0..n] ==
        IF k = 0 THEN inst ELSE Serve(Record(served[k - 1], parts[k]), Matching(rules, k))
  IN IF failing = {} THEN Outcome(served[n], "none", <<>>)
     ELSE Outcome(Record(served[n], parts[n + 1]), "handler", <<>>)

\* Whatever fails drops the connection.
DropOnError(end) == IF end.error = "none" THEN end ELSE [end EXCEPT !.inst = Drop(@)]

\* What write() does with a message that was handed to the mock and then split.
Received(inst, written, split, rules) ==
  LET sent == [inst EXCEPT !.mock = written.mock] IN
  IF written.error # "none" THEN Outcome(sent, written.error, <<>>)
  ELSE IF split.error # "none" THEN Outcome(sent, split.error, <<>>)
  ELSE ServeAll(sent, split.parts, rules)

ScriptedWrite(inst, data, rules) ==
  DropOnError(Received(inst, MockWrite(inst.mock), SplitOutbound(data), rules))

\* _deliver_pending: a delay longer than the timeout is waited for in part.
DeliverPending(inst) ==
  IF inst.pending = <<>> THEN inst
  ELSE LET reply == Head(inst.pending) IN
       IF reply.delay > Timeout THEN [inst EXCEPT !.pending[1].delay = @ - Timeout]
       ELSE Deliver([inst EXCEPT !.pending = Tail(@)], reply)

\* A read that lost the connection takes the delayed replies with it.
ReadEnded(inst, end) ==
  LET lost == end.error # "none" /\ end.mock.state = "FAULTED" IN
  Outcome([inst EXCEPT !.mock = end.mock, !.pending = IF lost THEN <<>> ELSE @],
          end.error, end.data)

ReadReady(inst, request) == ReadEnded(inst, MockRead(inst.mock, request))

ScriptedRead(inst, request) == ReadReady(DeliverPending(inst), request)

\* The read of an exchange whose write has ended.
ThenRead(written, request) ==
  IF written.error # "none" THEN written ELSE ScriptedRead(written.inst, request)

\* Faulty variant: the failure of the read phase is left to read().
ScriptedTransactReads(inst, data, rules, request) ==
  ThenRead(ScriptedWrite(inst, data, rules), request)

ScriptedTransact(inst, data, rules, request) ==
  DropOnError(ThenRead(ScriptedWrite(inst, data, rules), request))

\* flush(): the delayed replies go even if the mock then refuses the call.
ScriptedFlush(inst, input) ==
  LET end == MockFlush(inst.mock, input) IN
  Outcome([inst EXCEPT !.mock = end.mock, !.pending = IF input THEN <<>> ELSE @], end.error, <<>>)

ClearHistory(inst) == [inst EXCEPT !.history = <<>>, !.binary = <<>>, !.binaryBytes = 0]
==============================================================================
