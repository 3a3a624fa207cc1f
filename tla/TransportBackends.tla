-------------------------- MODULE TransportBackends --------------------------
(***************************************************************************)
(* The UDP, serial and VISA transports, one of them per behaviour, and what   *)
(* they have in common: the transport contract and the properties below.      *)
(***************************************************************************)
EXTENDS UdpTransport, SerialTransport, VisaTransport

vars == <<machineVars, backendVars, udpVars, messageBased>>

BackendOperations ==
  {"open", "close", "invalidate", "write", "read", "transact", "flushInput", "flushOutput"}
    \cup (IF backend = "visa" THEN ControlOps ELSE {})

Init == BackendInit /\ UdpInit /\ VisaInit

Step(t) ==
  \/ backend = "udp" /\ UdpStep(t) /\ UNCHANGED messageBased
  \/ backend = "serial" /\ SerialStep(t) /\ UNCHANGED <<udpVars, messageBased>>
  \/ backend = "visa" /\ VisaStep(t) /\ UNCHANGED udpVars

\* A thread calls an operation; what the last one returned is with its caller.
Called(t, o) ==
  /\ Call(t, o)
  /\ o = "transact" => requests < MaxRequests
  /\ answer' = [answer EXCEPT ![t] = <<>>]
  /\ IF owner = NoThread THEN mode' = "line" /\ spent' = 0 /\ drained' = 0 /\ old' = 0
                         ELSE UNCHANGED <<mode, spent, drained, old>>
  /\ UNCHANGED <<backend, previous, base, pending, lineVars, requests, asked, framed, fixedPort,
                 validateSource, drainFirst, air, queue, flushed, messageBased>>

\* Every thread has made its calls and nothing is left to do.
Finished ==
  /\ \A t \in Threads : pc[t] = "idle" /\ calls[t] = MaxCalls
  /\ UNCHANGED vars

Next ==
  \/ \E t \in Threads :
       \/ Step(t)
       \/ \E o \in BackendOperations : Called(t, o)
  \/ Device /\ UNCHANGED <<udpVars, messageBased>>
  \/ backend = "udp" /\ UdpNetwork /\ UNCHANGED messageBased
  \/ Finished

Spec == Init /\ [][Next]_vars

\* Threads inside an operation are scheduled, and time passes for a thread blocked
\* in the backend whatever else it receives; nothing is assumed of the instrument.
FairSpec ==
  /\ Spec
  /\ \A t \in Threads : WF_vars(Step(t)) /\ WF_vars(Tick(t) /\ UNCHANGED <<udpVars, messageBased>>)

------------------------------------------------------------------------------
\* A link on which the reply to a request can reach a resource opened later: the
\* serial line, and UDP with a fixed local port.
LinkOutlivesResource == backend = "serial" \/ fixedPort

\* A read of thread t returns, by itself or as the second half of a query.
Returns(t) == pc[t] = "recv" /\ pc'[t] = "idle" /\ outcome'[t] = "reply"

\* What a query returns answers that query, whatever failed, timed out, was flushed or
\* closed before (base.py 85-87), as long as replies are in step on this resource; where
\* the link can carry a reply to a later resource, the first reply out of step is one to
\* a query of an earlier resource.  Nothing of another sender is ever returned, unless
\* source validation is off.
AnswersOwnRequest ==
  [][\A t \in Threads : Returns(t) =>
       \A i \in 1..Len(answer'[t]) :
         validateSource =>
           /\ answer'[t][i].req # 0
           /\ op[t] = "transact" /\ framed =>
                \/ answer'[t][i].req = asked[t]
                \/ LinkOutlivesResource /\ answer'[t][i].req <= base]_vars

\* A terminated read that starts with a reply returns its first line, a message read
\* the whole of it, within maximum_size: chunk boundaries, partial receives and the
\* size limit never cut it short.
WholeReply ==
  [][\A t \in Threads :
       LET bytes == answer'[t] IN
       (Returns(t) /\ bytes[1].at = 1) =>
         /\ Len(bytes) <= MaxSize
         /\ mode = "message" => bytes[Len(bytes)].more = 0
         /\ mode = "line" => LineEnd(bytes) = {Len(bytes)}]_vars

\* The first query after a recovery goes out on a socket from which everything that
\* had arrived was discarded, up to the drain budget, unless the caller has flushed
\* the socket already (udp.py 124-127, 201-204).
DrainedBeforeAsking ==
  \A t \in Threads :
    (backend = "udp" /\ pc[t] = "send" /\ op[t] = "transact" /\ previous = "FAULTED"
       /\ asked[t] = base + 1 /\ ~flushed) => old = 0 \/ drained = DrainBudget

\* Nothing of an earlier exchange waits in the VISA buffer for the next read as long
\* as replies are read to their end, and never does the buffer survive the resource.
BufferEmptyWhenFree ==
  owner = NoThread /\ (framed \/ state # "OPEN") => buffer = <<>> /\ part = <<>>

\* Every call ends: a flood of datagrams keeps neither a drain nor a read going.
CallsEnd == \A t \in Threads : pc[t] # "idle" ~> pc[t] = "idle"

------------------------------------------------------------------------------
Contract == INSTANCE TransportContract WITH awaiting <- pending

\* Every backend implements the transport contract.
ImplementsContract == Contract!Spec

------------------------------------------------------------------------------
\* The invariant behind these properties.

Byte == {b \in [req : Nat \ {0}, at : Nat \ {0}, more : Nat, eol : BOOLEAN] : b.more = 0 => b.eol}

Datagram == [req : Nat, port : Nat, size : Nat \ {0}]

\* A byte that a read returned; those of another sender answer no request.
Received == [req : Nat, at : Nat \ {0}, more : Nat, eol : BOOLEAN]

\* The types of the variables.
TypeOK ==
  /\ state \in TransportStates
  /\ owner \in Threads \cup {NoThread}
  /\ resource \in Nat /\ opened \in Nat /\ handles \subseteq 1..opened
  /\ pc \in [Threads -> Places]
  /\ op \in [Threads -> Operations \cup ControlOps]
  /\ outcome \in [Threads -> Outcomes]
  /\ calls \in [Threads -> Nat]
  /\ backend \in {"udp", "serial", "visa"}
  /\ mode \in Modes
  /\ previous \in TransportStates
  /\ inbox \in Seq([req : Nat \ {0}, port : Nat \ {0}])
  /\ wire \in Seq(Byte) /\ part \in Seq(Byte) /\ buffer \in Seq(Byte)
  /\ requests \in Nat /\ base \in 0..requests /\ spent \in Nat
  /\ asked \in [Threads -> Nat] /\ answer \in [Threads -> Seq(Received)]
  /\ pending \in BOOLEAN /\ framed \in BOOLEAN
  /\ fixedPort \in BOOLEAN /\ validateSource \in BOOLEAN /\ messageBased \in BOOLEAN
  /\ drainFirst \in BOOLEAN /\ flushed \in BOOLEAN
  /\ air \subseteq Datagram /\ queue \in Seq(Datagram)
  /\ drained \in Nat /\ old \in Nat
  /\ backend # "udp" => ~fixedPort

\* Where a thread is inside its operation, and in which state the transport then is.
PlaceOK(t) ==
  /\ pc[t] = "connect" => state = "OPENING"
  /\ pc[t] = "closing" => state = "CLOSING"
  /\ pc[t] \in {"send", "recv", "drain"} => state = "OPEN"
  /\ pc[t] = "send" => op[t] \in {"write", "transact"}
  /\ pc[t] = "recv" => op[t] \in {"read", "transact"}
  /\ pc[t] = "drain" => op[t] \in {"flushInput", "transact"}
  /\ pc[t] \in {"send", "recv", "drain"} /\ op[t] = "transact" => asked[t] = requests /\ requests > base

\* A thread reads, and it reads the reply to its query.
Reads(t) == pc[t] = "recv"
Queries(t) == Reads(t) /\ op[t] = "transact"

\* A query is unanswered only while its operation runs on the open transport.
PendingOK ==
  pending => \E t \in Threads : owner = t /\ state = "OPEN" /\ op[t] = "transact"
                                /\ pc[t] \in {"recv", "fault"}

\* A socket opened after a fault is drained before its first query, or by the caller.
DrainOK ==
  /\ \A t \in Threads : pc[t] = "drain" => old <= Len(queue)
  /\ (backend = "udp" /\ state = "OPEN" /\ previous = "FAULTED" /\ ~flushed /\ requests = base)
       => drainFirst
  /\ DrainedBeforeAsking

\* The bytes of one reply that follow each other.
Chain(bytes) == \A i \in 2..Len(bytes) : bytes[i].at > 1 /\ bytes[i - 1].more > 0

\* What a VISA instrument has in its output queue is replies, the first perhaps begun.
WireOK ==
  \A i \in 1..Len(wire) :
    /\ i + wire[i].more <= Len(wire)
    /\ \A j \in i..(i + wire[i].more) : wire[j].more = wire[i].more - (j - i) /\ (j > i => wire[j].at > 1)

\* What the running read may have gathered.
PartShape ==
  /\ mode = "message" /\ (backend = "serial" \/ ~messageBased) => part = <<>>
  /\ backend = "serial" /\ mode = "line" =>
       Len(part) <= MaxSize /\ \A i \in 1..(Len(part) - 1) : ~part[i].eol
  /\ backend = "serial" /\ mode \in {"upTo", "available"} => Len(part) <= 1
  /\ backend = "visa" /\ part # <<>> =>
       /\ mode \in {"message", "line"} /\ buffer = <<>> /\ Chain(part)
       /\ part[Len(part)].more > 0 => wire # <<>> /\ wire[1].at > 1

PartOK ==
  /\ (\A t \in Threads : ~Reads(t)) => part = <<>>
  /\ PartShape

\* Between reads the VISA buffer holds the rest of a reply that was read in part.
Kept ==
  /\ \A i \in 1..Len(buffer) : buffer[i].at > 1
  /\ buffer # <<>> => buffer[Len(buffer)].eol
  /\ framed => buffer = <<>>

\* A read of the VISA transport extends it by what it asks for and no more.
Gathered ==
  CASE mode = "line" -> buffer # <<>> /\ buffer[Len(buffer)].eol /\ Chain(buffer)
    [] mode = "exact" -> Len(buffer) <= Length
    [] mode \in {"upTo", "available"} -> Len(buffer) <= VisaLimit
    [] mode = "message" -> FALSE

BufferOK ==
  /\ backend # "visa" \/ state \notin {"OPEN", "CLOSING"} => buffer = <<>>
  /\ state = "CLOSING" => \E t \in Threads : pc[t] = "closing"
  /\ Kept \/ \E t \in Threads : pc[t] = "fault" \/ (Reads(t) /\ Gathered)

------------------------------------------------------------------------------
\* What is on its way belongs to a request made, and to one of this resource only if it
\* left through it.
KnownOK ==
  /\ \A i \in 1..Len(inbox) : inbox[i].req <= requests /\ inbox[i].port <= opened
  /\ \A i \in 1..Len(wire) : wire[i].req <= requests
  /\ \A d \in air : d.req \in 1..requests
  /\ \A i \in 1..Len(queue) : queue[i].req <= requests
  /\ backend = "udp" => wire = <<>> /\ part = <<>>
  /\ backend # "udp" \/ resource = NoResource => queue = <<>>
  /\ backend # "udp" \/ (resource = NoResource /\ ~fixedPort) => air = {}
  /\ backend = "udp" /\ ~fixedPort =>
       /\ \A i \in 1..Len(inbox) : inbox[i].port = resource => inbox[i].req > base
       /\ \A d \in air : d.req > base
       /\ \A i \in 1..Len(queue) : queue[i].req = 0 \/ queue[i].req > base

\* While the instrument's replies are in step, what is on its way when nobody asks is
\* from before this resource.
Earlier ==
  /\ \A i \in 1..Len(inbox) : inbox[i].req <= base
  /\ \A i \in 1..Len(wire) : wire[i].req <= base
  /\ \A i \in 1..Len(part) : part[i].req <= base
  /\ \A d \in air : d.req <= base
  /\ \A i \in 1..Len(queue) : queue[i].req <= base

\* A serial line keeps the order: the answer to the running query comes last.
LastOnLine(t) ==
  /\ \A i \in 1..Len(inbox) :
       inbox[i].req <= base \/ (inbox[i].req = asked[t] /\ i = Len(inbox))
  /\ \A i \in 1..Len(wire) :
       \/ wire[i].req <= base
       \/ wire[i].req = asked[t] /\ inbox = <<>> /\ (wire[i].more = 0 => i = Len(wire))
  /\ \A i \in 1..Len(part) :
       \/ part[i].req <= base
       \/ part[i].req = asked[t] /\ inbox = <<>> /\ (part[i].more = 0 => wire = <<>>)

\* Datagrams do not, but there is one for the running query.
OnceInAir(t) ==
  /\ \A i \in 1..Len(inbox) :
       inbox[i].req <= base \/ (inbox[i].req = asked[t] /\ i = Len(inbox))
  /\ \A d \in air :
       \/ d.req <= base
       \/ /\ d.req = asked[t]
          /\ \A i \in 1..Len(inbox) : inbox[i].req <= base
          /\ \A e \in air : e.req <= base \/ e = d
  /\ \A i \in 1..Len(queue) :
       \/ queue[i].req <= base
       \/ /\ queue[i].req = asked[t]
          /\ \A j \in 1..Len(inbox) : inbox[j].req <= base
          /\ \A d \in air : d.req <= base
          /\ \A j \in 1..Len(queue) : queue[j].req <= base \/ j = i

\* A VISA instrument has dropped everything else when it gets a query.
OnlyOnBus(t) ==
  /\ \A i \in 1..Len(inbox) : inbox[i].req = asked[t]
  /\ \A i \in 1..Len(wire) : wire[i].req = asked[t]
  /\ \A i \in 1..Len(part) : part[i].req = asked[t]
  /\ framed => \A i \in 1..Len(buffer) : buffer[i].req = asked[t]

StepOK ==
  /\ backend = "visa" => \A t \in Threads : Queries(t) => OnlyOnBus(t)
  /\ backend # "visa" /\ framed /\ validateSource /\ state = "OPEN" =>
       /\ \A t \in Threads : Queries(t) => IF backend = "serial" THEN LastOnLine(t) ELSE OnceInAir(t)
       /\ (\A t \in Threads : pc[t] # "fault" /\ ~Queries(t)) => Earlier

\* The lock, the resource, the place of every thread, and where the replies to queries
\* are on each link, agree.
BackendsInv ==
  /\ TypeOK
  /\ Serialized
  /\ ResourceMatchesState
  /\ \A t \in Threads : PlaceOK(t)
  /\ PendingOK /\ DrainOK /\ PartOK /\ BufferOK /\ KnownOK /\ StepOK
  /\ backend = "visa" => WireOK
==============================================================================
