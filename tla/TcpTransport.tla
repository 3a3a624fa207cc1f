---------------------------- MODULE TcpTransport -----------------------------
(***************************************************************************)
(* The TCP transport of transport/tcp.py on the shared state machine, with   *)
(* the instrument at the other end of the stream and the block query that    *)
(* ScpiClient builds from write and exact reads under operation_lock.         *)
(*                                                                         *)
(* A byte of a reply is the number of the request it answers and how many     *)
(* bytes of the reply follow it: the byte with none after it is the           *)
(* terminator, and the first byte of a block tells its length.  The stream    *)
(* keeps order; a read gets any non-empty part of what was sent, so replies   *)
(* arrive in arbitrary chunks, late, or never.                                *)
(*                                                                         *)
(* Callers keep one discipline: what they send with write expects no reply;   *)
(* a query goes through transact or the block query.                          *)
(***************************************************************************)
EXTENDS TransportStateMachine, Sequences

CONSTANTS
  MaxSize,      \* maximum_size of a read request
  MaxReply,     \* longest reply the instrument sends
  Timeout       \* the timeout of an operation, in ticks

ASSUME TcpAssumption ==
  MaxSize \in Nat \ {0} /\ MaxReply \in Nat \ {0} /\ Timeout \in Nat \ {0}

VARIABLES
  buffer,       \* _buffer: bytes received and not yet taken
  inbox,        \* requests on their way to the instrument or waiting there
  wire,         \* bytes the instrument has sent on this connection, unread
  requests,     \* requests numbered so far
  asked,        \* the request of the latest exchange of every thread
  answer,       \* the requests whose bytes that exchange returned
  need,         \* bytes the running exact read waits for
  left,         \* ticks before the deadline of the running write or read
  spent         \* ticks since the running operation got its deadline

tcpVars == <<buffer, inbox, wire, requests, asked, answer, need, left, spent>>

vars == <<machineVars, tcpVars>>

Byte == [req : Nat, more : Nat]

Reply(r, n) == [i \in 1..n |-> [req |-> r, more |-> n - i]]

Sending == {"write", "transact", "transactMessage", "block"}

Reading == {"recv", "recvHeader", "recvBody"}

Init ==
  /\ MachineInit
  /\ buffer = <<>>
  /\ inbox = <<>>
  /\ wire = <<>>
  /\ requests = 0
  /\ asked = [t \in Threads |-> 0]
  /\ answer = [t \in Threads |-> {}]
  /\ need = 0
  /\ left = 0
  /\ spent = 0

\* Releasing the socket ends the connection: what was on it is gone.
Disconnected == inbox' = <<>> /\ wire' = <<>>

\* _on_closed.
OnClosed == buffer' = <<>>

UnchangedExchange == UNCHANGED <<requests, asked, answer, need, left, spent>>

------------------------------------------------------------------------------
\* Opening.

OpenAlready(t) ==
  /\ Running(t, "open")
  /\ state = "OPEN"
  /\ Leave(t, "done")
  /\ UNCHANGED <<state, resource, handles, opened, op, calls, tcpVars>>

OpenBegin(t) ==
  /\ Running(t, "open")
  /\ state # "OPEN"
  /\ ReleaseResource
  /\ state' = "OPENING"
  /\ Goto(t, "connect")
  /\ UNCHANGED <<owner, opened, op, outcome, calls, tcpVars>>

Opened(t) ==
  /\ pc[t] = "connect"
  /\ opened' = opened + 1
  /\ resource' = opened + 1
  /\ handles' = handles \cup {opened + 1}
  /\ buffer' = <<>>
  /\ state' = "OPEN"
  /\ Leave(t, "done")
  /\ UNCHANGED <<op, calls, inbox, wire, requests, asked, answer, need, left, spent>>

\* The connection is refused, times out or cannot be configured.
OpenFailed(t) ==
  /\ pc[t] = "connect"
  /\ state' = "FAULTED"
  /\ Leave(t, "failed")
  /\ UNCHANGED <<resource, handles, opened, op, calls, tcpVars>>

\* KeyboardInterrupt while connecting is no OSError: the state stays OPENING.
OpenInterrupted(t) ==
  /\ pc[t] = "connect"
  /\ Leave(t, "failed")
  /\ UNCHANGED <<state, resource, handles, opened, op, calls, tcpVars>>

------------------------------------------------------------------------------
\* Sending.

\* An operation on an open transport gets its deadline, and a query its number.
SendBegin(t) ==
  /\ pc[t] = "run"
  /\ op[t] \in Sending
  /\ state = "OPEN"
  /\ Goto(t, "send")
  /\ left' = Timeout
  /\ spent' = 0
  /\ IF op[t] = "write"
       THEN UNCHANGED <<requests, asked, answer>>
       ELSE /\ requests' = requests + 1
            /\ asked' = [asked EXCEPT ![t] = requests + 1]
            /\ answer' = [answer EXCEPT ![t] = {}]
  /\ UNCHANGED <<state, owner, resource, handles, opened, op, outcome, calls,
                 buffer, inbox, wire, need>>

\* Faulty variant: the read that follows the write gets a timeout of its own.
SendDoneFreshTimeout(t) ==
  /\ pc[t] = "send"
  /\ left > 0
  /\ inbox' = IF op[t] = "write" THEN inbox ELSE Append(inbox, asked[t])
  /\ \/ op[t] = "write" /\ Leave(t, "done") /\ UNCHANGED left
     \/ /\ op[t] # "write"
        /\ left' = Timeout
        /\ Goto(t, IF op[t] = "block" THEN "recvHeader" ELSE "recv")
        /\ UNCHANGED <<owner, outcome>>
  /\ UNCHANGED <<state, resource, handles, opened, op, calls,
                 buffer, wire, requests, asked, answer, need, spent>>

\* The last byte is sent in time.  The read that follows gets what is left of
\* the deadline of the whole transaction.
SendDone(t) ==
  /\ pc[t] = "send"
  /\ left > 0
  /\ inbox' = IF op[t] = "write" THEN inbox ELSE Append(inbox, asked[t])
  /\ \/ /\ op[t] = "write"
        /\ Leave(t, "done")
        /\ UNCHANGED left
     \/ /\ op[t] \in {"transact", "block"}
        /\ left' = Timeout - spent
        /\ Goto(t, IF op[t] = "block" THEN "recvHeader" ELSE "recv")
        /\ UNCHANGED <<owner, outcome>>
     \/ /\ op[t] = "transactMessage"     \* a stream has no message boundary
        /\ Raise(t, "UnsupportedOperationError")
        /\ UNCHANGED left
  /\ UNCHANGED <<state, resource, handles, opened, op, calls,
                 buffer, wire, requests, asked, answer, need, spent>>

\* Timeout, peer gone, socket error or interruption; the instrument may have got
\* the whole request all the same.
SendFailed(t) ==
  /\ pc[t] = "send"
  /\ inbox' \in {inbox} \cup (IF op[t] = "write" THEN {} ELSE {Append(inbox, asked[t])})
  /\ Raise(t, "failed")
  /\ UNCHANGED <<state, resource, handles, opened, op, calls,
                 buffer, wire, requests, asked, answer, need, left, spent>>

------------------------------------------------------------------------------
\* Receiving.

ReadUnsupported(t) ==
  /\ Running(t, "readMessage")
  /\ state = "OPEN"
  /\ Leave(t, "UnsupportedOperationError")
  /\ UNCHANGED <<state, resource, handles, opened, op, calls, tcpVars>>

\* A bare read waits for bytes nobody has asked for.
ReadBegin(t) ==
  /\ Running(t, "read")
  /\ state = "OPEN"
  /\ Goto(t, "recv")
  /\ left' = Timeout
  /\ spent' = 0
  /\ asked' = [asked EXCEPT ![t] = 0]
  /\ answer' = [answer EXCEPT ![t] = {}]
  /\ UNCHANGED <<state, owner, resource, handles, opened, op, outcome, calls,
                 buffer, inbox, wire, requests, need>>

HasTerminator == \E i \in 1..Len(buffer) : buffer[i].more = 0

TerminatorAt(i) ==
  /\ i \in 1..Len(buffer)
  /\ buffer[i].more = 0
  /\ \A j \in 1..(i - 1) : buffer[j].more # 0

\* Whether the bytes in the buffer satisfy the read request of the thread.
Enough(t) ==
  CASE pc[t] = "recv" -> HasTerminator
    [] pc[t] = "recvHeader" -> Len(buffer) >= 1
    [] pc[t] = "recvBody" -> Len(buffer) >= need

\* How many bytes recv asks for: never beyond what the request still needs.
Wanted(t) ==
  CASE pc[t] = "recv" -> MaxSize - Len(buffer)
    [] pc[t] = "recvHeader" -> 1
    [] pc[t] = "recvBody" -> need - Len(buffer)

\* recv returns some of the bytes on the stream.
Receive(t, n) ==
  /\ pc[t] \in Reading
  /\ ~Enough(t)
  /\ left > 0
  /\ n <= Wanted(t)
  /\ buffer' = buffer \o SubSeq(wire, 1, n)
  /\ wire' = SubSeq(wire, n + 1, Len(wire))
  /\ UNCHANGED <<machineVars, inbox, requests, asked, answer, need, left, spent>>

\* _take: n bytes leave the buffer and are part of the result.
Take(t, n) ==
  /\ answer' = [answer EXCEPT ![t] = @ \cup {buffer[i].req : i \in 1..n}]
  /\ buffer' = SubSeq(buffer, n + 1, Len(buffer))
  /\ UNCHANGED <<inbox, wire, requests, asked, left, spent>>

ReadLine(t, n) ==
  /\ pc[t] = "recv"
  /\ TerminatorAt(n)
  /\ n <= MaxSize
  /\ Take(t, n)
  /\ Leave(t, "reply")
  /\ UNCHANGED <<state, resource, handles, opened, op, calls, need>>

\* The header of a block is taken and announces how many bytes follow: payload
\* and terminator.
ReadHeader(t) ==
  /\ pc[t] = "recvHeader"
  /\ Enough(t)
  /\ left > 0
  /\ buffer[1].more \in 1..MaxSize
  /\ need' = buffer[1].more
  /\ Take(t, 1)
  /\ Goto(t, "recvBody")
  /\ UNCHANGED <<state, owner, resource, handles, opened, op, outcome, calls>>

ReadBody(t) ==
  /\ pc[t] = "recvBody"
  /\ Enough(t)
  /\ left > 0
  /\ Take(t, need)
  /\ Leave(t, "reply")
  /\ UNCHANGED <<state, resource, handles, opened, op, calls, need>>

\* Faulty variant: a read that misses its deadline starts over.
ReadRetried(t) ==
  /\ pc[t] \in Reading
  /\ left = 0
  /\ left' = Timeout
  /\ spent' = 0
  /\ UNCHANGED <<machineVars, buffer, inbox, wire, requests, asked, answer, need>>

\* Faulty variant: a read that fails leaves the connection in use.
ReadFailedKeepsOpen(t) ==
  /\ pc[t] \in Reading
  /\ Leave(t, "failed")
  /\ UNCHANGED <<state, resource, handles, opened, op, calls, tcpVars>>

\* The deadline passed, the peer closed, the reply is longer than maximum_size,
\* a block header is malformed or too large, a socket error or an interruption.
\* The block query ends in invalidate(), whose effect is that of _fault.
ReadFailed(t) ==
  /\ pc[t] \in Reading
  /\ Raise(t, "failed")
  /\ UNCHANGED <<state, resource, handles, opened, op, calls, tcpVars>>

\* Time passes while the thread is blocked in send or recv.
Tick(t) ==
  /\ pc[t] \in Reading \cup {"send"}
  /\ left > 0
  /\ left' = left - 1
  /\ spent' = spent + 1
  /\ UNCHANGED <<machineVars, buffer, inbox, wire, requests, asked, answer, need>>

------------------------------------------------------------------------------
\* Flushing.

FlushOutput(t) ==
  /\ Running(t, "flushOutput")
  /\ state = "OPEN"
  /\ Leave(t, "done")
  /\ UNCHANGED <<state, resource, handles, opened, op, calls, tcpVars>>

FlushBegin(t) ==
  /\ Running(t, "flushInput")
  /\ state = "OPEN"
  /\ buffer' = <<>>
  /\ Goto(t, "drain")
  /\ UNCHANGED <<state, owner, resource, handles, opened, op, outcome, calls,
                 inbox, wire, requests, asked, answer, need, left, spent>>

\* The bytes that have arrived are discarded, up to the budget of a flush.
FlushDrained(t, n) ==
  /\ pc[t] = "drain"
  /\ wire' = SubSeq(wire, n + 1, Len(wire))
  /\ Leave(t, "done")
  /\ UNCHANGED <<state, resource, handles, opened, op, calls,
                 buffer, inbox, requests, asked, answer, need, left, spent>>

FlushFailed(t) ==
  /\ pc[t] = "drain"
  /\ Raise(t, "failed")
  /\ UNCHANGED <<state, resource, handles, opened, op, calls, tcpVars>>

------------------------------------------------------------------------------
\* The instrument (external): it answers requests in order, when it likes, with
\* one reply each, and may ignore a request.  One that drops the connection
\* answers nothing more; sends and reads may fail at any time.

DeviceAnswers(n) ==
  /\ inbox # <<>>
  /\ inbox' = Tail(inbox)
  /\ wire' = wire \o Reply(Head(inbox), n)
  /\ UNCHANGED <<machineVars, buffer, requests, asked, answer, need, left, spent>>

DeviceIgnores ==
  /\ inbox # <<>>
  /\ inbox' = Tail(inbox)
  /\ UNCHANGED <<machineVars, buffer, wire, requests, asked, answer, need, left, spent>>

------------------------------------------------------------------------------
\* The state machine's own steps, with what they do to the TCP transport.

Lifecycle(t) ==
  \/ /\ \/ Acquire(t) \/ CloseIdle(t) \/ CloseBegin(t)
        \/ InvalidateIdle(t) \/ InvalidateOpen(t) \/ RefuseIO(t) \/ RefuseTransact(t)
     /\ UNCHANGED tcpVars
  \/ /\ CloseEnd(t) \/ Fault(t)
     /\ OnClosed
     /\ Disconnected
     /\ UnchangedExchange

Step(t) ==
  \/ Lifecycle(t)
  \/ OpenAlready(t) \/ OpenBegin(t) \/ Opened(t) \/ OpenFailed(t) \/ OpenInterrupted(t)
  \/ SendBegin(t) \/ SendDone(t) \/ SendFailed(t)
  \/ ReadUnsupported(t) \/ ReadBegin(t)
  \/ \E n \in 1..Len(wire) : Receive(t, n)
  \/ \E n \in 1..Len(buffer) : ReadLine(t, n)
  \/ ReadHeader(t) \/ ReadBody(t) \/ ReadFailed(t)
  \/ Tick(t)
  \/ FlushOutput(t) \/ FlushBegin(t) \/ FlushFailed(t)
  \/ \E n \in 0..Len(wire) : FlushDrained(t, n)

Device ==
  \/ \E n \in 1..MaxReply : DeviceAnswers(n)
  \/ DeviceIgnores

\* Every thread has made its calls and nothing is left to do.
Finished ==
  /\ \A t \in Threads : pc[t] = "idle" /\ calls[t] = MaxCalls
  /\ UNCHANGED vars

Next ==
  \/ \E t \in Threads : Step(t) \/ \E o \in Operations : Call(t, o) /\ UNCHANGED tcpVars
  \/ Device
  \/ Finished

Spec == Init /\ [][Next]_vars

\* Threads that have started an operation are scheduled until it ends; nothing is
\* assumed of the instrument.
FairSpec == Spec /\ \A t \in Threads : WF_vars(Step(t))

------------------------------------------------------------------------------
\* The types of the transport's and the instrument's variables.
TypeOK ==
  /\ MachineTypeOK
  /\ buffer \in Seq(Byte)
  /\ inbox \in Seq(Nat)
  /\ wire \in Seq(Byte)
  /\ requests \in Nat
  /\ asked \in [Threads -> Nat]
  /\ answer \in [Threads -> SUBSET Nat]
  /\ need \in Nat
  /\ left \in Nat
  /\ spent \in Nat

\* What an exchange returns is made of bytes that answer its own request, and
\* a bare read never gets bytes of somebody else's reply: "a late response must
\* never be allowed to become the next query's answer" (base.py 85-87), whatever
\* timed out, failed, was interrupted, closed or reopened before.
ReplyMatchesRequest ==
  \A t \in Threads : outcome[t] = "reply" => answer[t] = {asked[t]}

\* A transport that is open and free has nothing outstanding: no byte buffered or
\* on the stream, no request the instrument could still answer.  An exchange that
\* could not be finished must therefore have ended the connection.
CleanWhenFree ==
  owner = NoThread /\ state = "OPEN" => buffer = <<>> /\ wire = <<>> /\ inbox = <<>>

\* An operation never outlives its timeout: the write, the read and every partial
\* receive of one transaction share one deadline (execution/deadline.py, tcp.py 166-168).
WithinTimeout == spent <= Timeout

\* A request reaches the stream only from an open transport, over the socket it
\* holds (base.py: "I/O while not OPEN fails before anything is transmitted").
SentOnlyWhenOpen ==
  [][Len(inbox') > Len(inbox) => state = "OPEN" /\ resource \in handles]_vars

\* Every call ends, close() of a busy transport included: blocking calls are
\* bounded by their deadline and every path releases the lock.
CallsEnd == \A t \in Threads : pc[t] # "idle" ~> pc[t] = "idle"

------------------------------------------------------------------------------
\* A query may have reached the instrument and its reply is not in.
Awaiting ==
  /\ state = "OPEN"
  /\ \/ \E t \in Threads : op[t] \in Sending \ {"write"} /\ pc[t] \in Reading \cup {"fault"}
     \/ owner = NoThread /\ ~(inbox = <<>> /\ wire = <<>> /\ buffer = <<>>)

Contract == INSTANCE TransportContract WITH awaiting <- Awaiting

\* The TCP transport implements the transport contract of base.py: it is never left
\* open behind a query that has not been answered.
ImplementsContract == Contract!Spec

------------------------------------------------------------------------------
\* The inductive invariant behind the properties above.

\* Where a thread is agrees with the state it put the transport in, and with the
\* result it has gathered so far.
PlaceOK(t) ==
  /\ pc[t] = "connect" => state = "OPENING"
  /\ pc[t] = "closing" => state = "CLOSING"
  /\ pc[t] \in Reading \cup {"send", "drain"} => state = "OPEN"
  /\ pc[t] # "idle" => outcome[t] # "reply"
  /\ pc[t] = "send" /\ op[t] # "write" => answer[t] = {}
  /\ pc[t] \in {"recv", "recvHeader"} => answer[t] = {}
  /\ pc[t] = "recvBody" => answer[t] = {asked[t]}
  /\ pc[t] \in Reading \cup {"send"} => left + spent = Timeout

\* While a thread reads, everything outstanding is the one request it sent, or
\* what is left of the one reply to it, cut anywhere between buffer and stream.
LineOK(t) ==
  pc[t] \in Reading =>
    /\ inbox = <<>> \/ (inbox = <<asked[t]>> /\ buffer = <<>> /\ wire = <<>>)
    /\ \A i \in 1..Len(buffer) :
         buffer[i].req = asked[t] /\ buffer[i].more = Len(buffer) + Len(wire) - i
    /\ \A i \in 1..Len(wire) :
         wire[i].req = asked[t] /\ wire[i].more = Len(wire) - i
    /\ pc[t] = "recvBody" => inbox = <<>> /\ need = Len(buffer) + Len(wire)

\* Outside a read, and outside the handling of a failure, the line is empty.
LineEmpty ==
  (\A t \in Threads : pc[t] \notin Reading \cup {"fault"}) =>
     buffer = <<>> /\ wire = <<>> /\ inbox = <<>>

TcpInv ==
  /\ TypeOK
  /\ Serialized
  /\ ResourceMatchesState
  /\ \A t \in Threads : PlaceOK(t)
  /\ \A t \in Threads : LineOK(t)
  /\ LineEmpty
  /\ ReplyMatchesRequest
  /\ WithinTimeout
==============================================================================
