----------------------- MODULE TransportBackendsProofs ------------------------
(***************************************************************************)
(* Proofs about TransportBackends, for any set of threads and any value of    *)
(* the size limits, chunks, timeouts and budgets.                              *)
(*                                                                         *)
(* BackendsInv is inductive.  The lock lets one thread inside an operation, so  *)
(* every condition on replies is first restated for that thread (Here), shown    *)
(* for each of its steps, and then carried back (SoloNow, SoloThen).  That a      *)
(* query gets its own answer has another reason on each link: a serial line       *)
(* keeps the order (LastOnLine), one datagram answers one query (OnceInAir), and   *)
(* a VISA instrument drops its output when it gets a query (OnlyOnBus).             *)
(***************************************************************************)
EXTENDS TransportBackends, TLAPS

------------------------------------------------------------------------------
\* The steps of a thread, whatever the backend.

\* The socket's queue and the datagrams on their way, when an operation opens or ends.
CommonFrame ==
  /\ UNCHANGED <<fixedPort, validateSource, drainFirst, drained, old, flushed, messageBased>>
  /\ backend = "udp" => /\ queue' = (IF resource' = resource THEN queue ELSE <<>>)
                        /\ air' = (IF fixedPort \/ resource' = resource THEN air ELSE {})
  /\ backend # "udp" => UNCHANGED <<queue, air>>

\* Steps that change no data.
Refuses(t) ==
  /\ \/ backend = "udp" /\ (UdpOversize(t) \/ UdpFlushOutput(t) \/ DrainFailed(t))
     \/ backend = "serial" /\ (SerialUnsupported(t) \/ SerialFlushFailed(t))
     \/ backend = "visa" /\ (VisaUnsupported(t) \/ RefuseControl(t) \/ ControlUnsupported(t) \/ ControlFailed(t))
  /\ UNCHANGED <<udpVars, messageBased>>

OpenedStep(t) ==
  /\ Opened(t)
  /\ UNCHANGED <<fixedPort, validateSource, air, queue, drained, old, messageBased>>
  /\ IF backend = "udp" THEN drainFirst' = (previous = "FAULTED") /\ flushed' = FALSE
                        ELSE UNCHANGED <<drainFirst, flushed>>

SendBegins(t) ==
  /\ SendBegin(t, IF backend = "udp" /\ op[t] = "transact" /\ drainFirst THEN "drain" ELSE "send")
  /\ UNCHANGED <<fixedPort, validateSource, drainFirst, air, queue, flushed, messageBased>>
  /\ IF backend = "udp" THEN drained' = 0 /\ old' = Len(queue) ELSE UNCHANGED <<drained, old>>

SendEnds(t) ==
  /\ SendDone(t) \/ SendFailed(t)
  /\ IF backend = "visa"
       THEN IF SendDone(t) THEN inbox' = Interrupts(t) /\ wire' = <<>>
                           ELSE inbox' \in {inbox, Interrupts(t)} /\ UNCHANGED wire
       ELSE /\ inbox' \in {inbox} \cup (IF op[t] = "write" THEN {} ELSE {Append(inbox, Request(t))})
            /\ UNCHANGED wire
  /\ UNCHANGED <<udpVars, messageBased>>

UdpReads(t) ==
  /\ backend = "udp"
  /\ UdpFlush(t) \/ Drain(t) \/ DrainDone(t) \/ UdpSkip(t) \/ UdpRead(t)
  /\ UNCHANGED messageBased

SerialReads(t) ==
  /\ backend = "serial"
  /\ SerialReceive(t) \/ SerialReturn(t) \/ SerialFlush(t)
  /\ UNCHANGED <<udpVars, messageBased>>

VisaReads(t) ==
  /\ backend = "visa"
  /\ \/ VisaReceive(t) \/ VisaExtend(t) \/ VisaReturnMessage(t)
     \/ \E n \in 1..Len(buffer) : VisaReturn(t, n)
     \/ VisaFlush(t) \/ Control(t)
  /\ UNCHANGED <<udpVars, messageBased>>

\* These are all.
LEMMA StepCases ==
  ASSUME NEW t \in Threads, Step(t), TypeOK
  PROVE  \/ CommonStep(t) /\ CommonFrame
         \/ OpenedStep(t) \/ Refuses(t) \/ SendBegins(t) \/ SendEnds(t)
         \/ ReadFailed(t) /\ UNCHANGED <<udpVars, messageBased>>
         \/ UdpReads(t) \/ SerialReads(t) \/ VisaReads(t)
<1>1. CASE backend = "udp"
  <2>0. UdpStep(t) /\ UNCHANGED messageBased
    BY <1>1 DEF Step
  <2>1. CASE UdpLifecycle(t)
    BY <1>1, <2>0, <2>1 DEF UdpLifecycle, CommonFrame
  <2>2. CASE UdpOpened(t)
    BY <1>1, <2>0, <2>2 DEF UdpOpened, OpenedStep
  <2>3. CASE UdpOversize(t) \/ UdpFlushOutput(t) \/ DrainFailed(t)
    BY <1>1, <2>0, <2>3 DEF UdpOversize, UdpFlushOutput, DrainFailed, Refuses
  <2>4. CASE UdpSendBegin(t)
    BY <1>1, <2>0, <2>4 DEF UdpSendBegin, SendBegins
  <2>5. CASE UdpSendDone(t)
    BY <1>1, <2>0, <2>5 DEF UdpSendDone, SendEnds
  <2>6. CASE UdpSendFailed(t)
    BY <1>1, <2>0, <2>6 DEF UdpSendFailed, SendFailed, SendEnds
  <2>7. CASE UdpFlush(t) \/ Drain(t) \/ DrainDone(t) \/ UdpSkip(t) \/ UdpRead(t)
    BY <1>1, <2>0, <2>7 DEF UdpReads
  <2>8. CASE UdpReadFailed(t)
    BY <1>1, <2>0, <2>8 DEF UdpReadFailed
  <2> QED BY <2>0, <2>1, <2>2, <2>3, <2>4, <2>5, <2>6, <2>7, <2>8 DEF UdpStep
<1>2. CASE backend = "serial"
  <2>0. SerialStep(t) /\ UNCHANGED <<udpVars, messageBased>>
    BY <1>2 DEF Step
  <2>1. CASE CommonStep(t)
    BY <1>2, <2>0, <2>1 DEF CommonFrame, udpVars
  <2>2. CASE SerialOpened(t)
    BY <1>2, <2>0, <2>2 DEF SerialOpened, OpenedStep, udpVars
  <2>3. CASE SerialUnsupported(t) \/ SerialFlushFailed(t)
    BY <1>2, <2>0, <2>3 DEF Refuses
  <2>4. CASE SerialSendBegin(t)
    BY <1>2, <2>0, <2>4 DEF SerialSendBegin, SendBegins, udpVars
  <2>5. CASE SerialSendDone(t)
    BY <1>2, <2>0, <2>5 DEF SerialSendDone, SendEnds
  <2>6. CASE SerialSendFailed(t)
    BY <1>2, <2>0, <2>6 DEF SerialSendFailed, SendFailed, SendEnds
  <2>7. CASE SerialReceive(t) \/ SerialReturn(t) \/ SerialFlush(t)
    BY <1>2, <2>0, <2>7 DEF SerialReads
  <2> QED BY <2>0, <2>1, <2>2, <2>3, <2>4, <2>5, <2>6, <2>7 DEF SerialStep
<1>3. CASE backend = "visa"
  <2>0. VisaStep(t) /\ UNCHANGED udpVars
    BY <1>3 DEF Step
  <2>1. CASE CommonStep(t) /\ UNCHANGED messageBased
    BY <1>3, <2>0, <2>1 DEF CommonFrame, udpVars
  <2>2. CASE VisaOpened(t)
    BY <1>3, <2>0, <2>2 DEF VisaOpened, OpenedStep, udpVars
  <2>3. CASE VisaUnsupported(t) \/ RefuseControl(t) \/ ControlUnsupported(t) \/ ControlFailed(t)
    BY <1>3, <2>0, <2>3 DEF Refuses, VisaUnsupported, RefuseControl, ControlUnsupported,
       ControlFailed
  <2>4. CASE VisaSendBegin(t)
    BY <1>3, <2>0, <2>4 DEF VisaSendBegin, SendBegins, udpVars
  <2>5. CASE VisaSendDone(t)
    BY <1>3, <2>0, <2>5 DEF VisaSendDone, SendEnds
  <2>6. CASE VisaSendFailed(t)
    <3>1. /\ SendFailed(t) /\ inbox' \in {inbox, Interrupts(t)} /\ UNCHANGED messageBased
          /\ UNCHANGED wire
      BY <2>6 DEF VisaSendFailed, SendFailed
    <3>2. ~SendDone(t)
      BY <3>1 DEF SendFailed, SendDone, Raise, Leave, Goto, TypeOK
    <3> QED BY <1>3, <2>0, <3>1, <3>2 DEF SendEnds
  <2>7. CASE \/ VisaReceive(t) \/ VisaExtend(t) \/ VisaReturnMessage(t)
             \/ \E n \in 1..Len(buffer) : VisaReturn(t, n)
             \/ VisaFlush(t) \/ Control(t)
    BY <1>3, <2>0, <2>7 DEF VisaReads, VisaReceive, VisaExtend, VisaReturnMessage, VisaReturn,
       VisaFlush, Control
  <2>8. CASE VisaReadFailed(t)
    BY <1>3, <2>0, <2>8 DEF VisaReadFailed
  <2> QED BY <2>0, <2>1, <2>2, <2>3, <2>4, <2>5, <2>6, <2>7, <2>8 DEF VisaStep
<1> QED BY <1>1, <1>2, <1>3 DEF TypeOK

\* A step of one thread moves it alone, and the lock with it.
LEMMA Moves ==
  ASSUME TypeOK, NEW t \in Threads, Step(t)
  PROVE  /\ \A u \in Threads \ {t} : pc'[u] = pc[u] /\ asked'[u] = asked[u]
         /\ op' = op /\ calls' = calls
         /\ \/ Inside(t) /\ Inside(t)' /\ owner' = owner
            \/ Inside(t) /\ pc'[t] = "idle" /\ owner' = NoThread
            \/ pc[t] = "acquire" /\ pc'[t] = "run" /\ owner = NoThread /\ owner' = t
            \/ pc[t] = "acquire" /\ pc'[t] = "idle" /\ owner' = owner
<1> USE DEF TypeOK, Inside, Leave, Raise, Goto, Running
<1>1. CASE CommonStep(t)
  <2>1. CASE Lifecycle(t)
    BY <2>1 DEF Lifecycle, Acquire, CloseIdle, CloseBegin, InvalidateIdle, InvalidateOpen,
       RefuseIO,
       RefuseTransact, CloseEnd, Fault, backendVars, exchangeVars
  <2>2. CASE OpenAlready(t) \/ OpenUnavailable(t) \/ OpenBegin(t) \/ OpenFailed(t) \/ OpenInterrupted(t)
    BY <2>2 DEF OpenAlready, OpenUnavailable, OpenBegin, OpenFailed, OpenInterrupted,
       backendVars, exchangeVars
  <2>3. CASE ReadBegin(t) \/ Tick(t)
    BY <2>3 DEF ReadBegin, Tick, machineVars
  <2> QED BY <1>1, <2>1, <2>2, <2>3 DEF CommonStep
<1>2. CASE OpenedStep(t)
  BY <1>2 DEF OpenedStep, Opened
<1>3. CASE Refuses(t)
  BY <1>3 DEF Refuses, UdpOversize, UdpFlushOutput, DrainFailed, SerialUnsupported,
     SerialFlushFailed,
     VisaUnsupported, RefuseControl, ControlUnsupported, ControlFailed, backendVars, exchangeVars
<1>4. CASE SendBegins(t)
  BY <1>4 DEF SendBegins, SendBegin
<1>5. CASE SendEnds(t)
  BY <1>5 DEF SendEnds, SendDone, SendFailed, exchangeVars
<1>6. CASE ReadFailed(t)
  BY <1>6 DEF ReadFailed, exchangeVars
<1>7. CASE UdpReads(t)
  BY <1>7 DEF UdpReads, UdpFlush, Drain, DrainDone, UdpSkip, UdpRead, Return, machineVars,
     backendVars, exchangeVars
<1>8. CASE SerialReads(t)
  BY <1>8 DEF SerialReads, SerialReceive, SerialReturn, SerialFlush, Return, machineVars,
     exchangeVars
<1>9. CASE VisaReads(t)
  BY <1>9 DEF VisaReads, VisaReceive, VisaExtend, VisaReturnMessage, VisaReturn, VisaFlush,
     Control, Return,
     machineVars, exchangeVars
<1> QED BY <1>1, <1>2, <1>3, <1>4, <1>5, <1>6, <1>7, <1>8, <1>9, StepCases

\* While a thread is inside its operation, it owns the lock and no other is.
LEMMA OneInside ==
  ASSUME BackendsInv, NEW t \in Threads, Inside(t)
  PROVE  /\ owner = t
         /\ \A u \in Threads \ {t} : pc[u] \in {"idle", "acquire"}
  BY DEF BackendsInv, Serialized, Inside

\* Calls and steps outside the threads.
LEMMA CallFacts ==
  ASSUME TypeOK, NEW t \in Threads, NEW o \in BackendOperations, Called(t, o)
  PROVE  /\ pc[t] = "idle" /\ pc' = [pc EXCEPT ![t] = "acquire"]
         /\ op' = [op EXCEPT ![t] = o] /\ o \in Operations \cup ControlOps
         /\ UNCHANGED <<state, owner, resource, handles, opened, backend, previous, base, pending, inbox, wire,
                        part, buffer, requests, asked, framed, fixedPort, validateSource,
                        drainFirst, air,
                        queue, flushed, messageBased>>
         /\ UNCHANGED <<mode, spent, drained, old>> \/ (owner = NoThread /\ mode' = "line" /\ spent' = 0 /\ drained' = 0 /\ old' = 0)
  BY DEF Called, Call, Goto, lineVars, BackendOperations, Operations

\* What the instrument and the network do leaves the threads and most of the data alone.
LEMMA OutsideFacts ==
  ASSUME \/ Device /\ UNCHANGED <<udpVars, messageBased>>
         \/ backend = "udp" /\ UdpNetwork /\ UNCHANGED messageBased
  PROVE  UNCHANGED <<machineVars, backend, previous, base, pending, part, buffer, mode, requests, asked, answer, spent,
                     fixedPort, validateSource, drainFirst, drained, old, flushed, messageBased>>
<1>1. CASE Device /\ UNCHANGED <<udpVars, messageBased>>
  BY <1>1 DEF Device, DeviceAnswers, DeviceIgnores, exchangeVars, udpVars
<1>2. CASE UdpNetwork /\ UNCHANGED messageBased
  BY <1>2 DEF UdpNetwork, UdpAnswers, UdpArrives, UdpForeign, exchangeVars, lineVars, backendVars
<1> QED BY <1>1, <1>2

------------------------------------------------------------------------------
\* Types.

\* A reply is a chain of bytes.
LEMMA ReplyFacts ==
  ASSUME NEW r \in Nat \ {0}, NEW n \in Nat \ {0}, NEW cut \in Nat
  PROVE  /\ Reply(r, n, cut) \in Seq(Byte) /\ Len(Reply(r, n, cut)) = n
         /\ \A i \in 1..n : /\ Reply(r, n, cut)[i].req = r /\ Reply(r, n, cut)[i].at = i
                            /\ Reply(r, n, cut)[i].more = n - i
<1>1. ASSUME NEW i \in 1..n, NEW b,
             b = [req |-> r, at |-> i, more |-> n - i, eol |-> i \in {cut, n}]
      PROVE  b \in Byte
  <2>1. b \in [req : Nat \ {0}, at : Nat \ {0}, more : Nat, eol : BOOLEAN]
    BY <1>1
  <2>2. b.eol <=> i \in {cut, n}
    BY <1>1, Zenon
  <2>3. b.more = n - i
    BY <1>1
  <2>4. b.more = 0 => i = n
    BY <2>3
  <2>5. b.more = 0 => b.eol
    BY <2>2, <2>4, Zenon
  <2> QED BY <2>1, <2>5 DEF Byte
<1> DEFINE R == Reply(r, n, cut)
<1>2. R = [i \in 1..n |-> [req |-> r, at |-> i, more |-> n - i, eol |-> i \in {cut, n}]]
  BY DEF Reply
<1>3. R \in Seq(Byte) /\ Len(R) = n
  <2>1. \A i \in 1..n : R[i] \in Byte
    BY <1>1, <1>2, Zenon
  <2>2. R \in [1..n -> Byte]
    BY <1>2, <2>1
  <2> QED BY <2>2
<1>4. ASSUME NEW i \in 1..n
      PROVE  R[i].req = r /\ R[i].at = i /\ R[i].more = n - i
  BY <1>2
<1> QED BY <1>3, <1>4

\* It is a sequence of bytes that a read may return, also if it answers no request.
LEMMA ReplyType ==
  ASSUME NEW r \in Nat, NEW n \in Nat \ {0}, NEW cut
  PROVE  Reply(r, n, cut) \in Seq(Received)
<1> DEFINE R == Reply(r, n, cut)
<1>1. \A i \in 1..n : R[i] = [req |-> r, at |-> i, more |-> n - i, eol |-> i \in {cut, n}]
  BY DEF Reply
<1>2. ASSUME NEW i \in 1..n, NEW b,
             b = [req |-> r, at |-> i, more |-> n - i, eol |-> i \in {cut, n}]
      PROVE  b \in Received
  BY <1>2 DEF Received
<1>3. \A i \in 1..n : R[i] \in Received
  <2> HIDE DEF R
  <2> QED BY <1>1, <1>2, Zenon
<1>4. R \in [1..n -> Received]
  <2>1. R = [i \in 1..n |-> R[i]]
    BY DEF Reply
  <2> HIDE DEF R
  <2> QED BY <1>3, <2>1, Zenon
<1> HIDE DEF R
<1>5. R \in Seq(Received)
  BY <1>4
<1> QED BY <1>5 DEF R

\* The terminators in it.
LEMMA ReplyLines ==
  ASSUME NEW r, NEW n \in Nat \ {0}, NEW cut, NEW i \in 1..n
  PROVE  Reply(r, n, cut)[i].eol <=> i \in {cut, n}
<1> DEFINE R == Reply(r, n, cut)
<1>1. R[i] = [req |-> r, at |-> i, more |-> n - i, eol |-> i \in {cut, n}]
  BY Zenon DEF Reply
<1>2. ASSUME NEW b, b = [req |-> r, at |-> i, more |-> n - i, eol |-> i \in {cut, n}]
      PROVE  b.eol <=> i \in {cut, n}
  BY <1>2, Zenon
<1> HIDE DEF R
<1>3. R[i].eol <=> i \in {cut, n}
  BY <1>1, <1>2, Zenon
<1> QED BY <1>3 DEF R

\* A part of a sequence of bytes.
LEMMA Cut ==
  ASSUME NEW s \in Seq(Byte), NEW a \in 1..(Len(s) + 1), NEW b \in 0..Len(s), a <= b + 1
  PROVE  /\ SubSeq(s, a, b) \in Seq(Byte) /\ Len(SubSeq(s, a, b)) = b - a + 1
         /\ \A i \in 1..(b - a + 1) : SubSeq(s, a, b)[i] = s[a + i - 1]
<1> DEFINE q == SubSeq(s, a, b)
           n == b - a + 1
<1>1. n \in Nat /\ \A i \in 1..n : s[a + i - 1] \in Byte
  OBVIOUS
<1>2. q = [i \in 1..n |-> s[a + i - 1]]
  OBVIOUS
<1> HIDE DEF q, n
<1>3. q \in [1..n -> Byte] /\ \A i \in 1..n : q[i] = s[a + i - 1]
  BY <1>1, <1>2
<1>4. q \in Seq(Byte) /\ Len(q) = n
  BY <1>1, <1>3
<1> QED BY <1>3, <1>4 DEF q, n

\* Two sequences of bytes, one after the other.
LEMMA Join ==
  ASSUME NEW s \in Seq(Byte), NEW q \in Seq(Byte)
  PROVE  /\ s \o q \in Seq(Byte) /\ Len(s \o q) = Len(s) + Len(q)
         /\ \A i \in 1..Len(s) : (s \o q)[i] = s[i]
         /\ \A i \in 1..Len(q) : (s \o q)[Len(s) + i] = q[i]
         /\ \A i \in (Len(s) + 1)..(Len(s) + Len(q)) : (s \o q)[i] = q[i - Len(s)]
  OBVIOUS

\* Every step keeps the types of the machine's variables.
MachineType ==
  /\ state \in TransportStates
  /\ owner \in Threads \cup {NoThread}
  /\ resource \in Nat /\ opened \in Nat /\ handles \subseteq 1..opened
  /\ pc \in [Threads -> Places]
  /\ op \in [Threads -> Operations \cup ControlOps]
  /\ outcome \in [Threads -> Outcomes]
  /\ calls \in [Threads -> Nat]

\* No step breaks the types of the state machine's variables.
LEMMA MachineTypeNext ==
  ASSUME TypeOK, [Next]_vars
  PROVE  MachineType'
<1> USE DEF MachineType
<1>0. MachineType
  BY DEF TypeOK
<1>1. ASSUME NEW t \in Threads, Step(t) PROVE MachineType'
  <2> USE <1>0 DEF Leave, Raise, Goto, Running, Places, Outcomes
  <2>1. CASE CommonStep(t)
    <3>0. ASSUME ReleaseResource, UNCHANGED opened
          PROVE  resource' \in Nat /\ opened' \in Nat /\ handles' \subseteq 1..opened'
      BY <3>0 DEF ReleaseResource, NoResource
    <3>1. CASE Lifecycle(t)
      <4>1. CASE CloseEnd(t)
        BY <3>0, <4>1 DEF CloseEnd, TransportStates
      <4>2. CASE Fault(t)
        BY <3>0, <4>2 DEF Fault, TransportStates
      <4>3. CASE Acquire(t) \/ CloseIdle(t) \/ CloseBegin(t) \/ InvalidateIdle(t)
        BY <4>3 DEF Acquire, CloseIdle, CloseBegin, InvalidateIdle, TransportStates
      <4>4. CASE InvalidateOpen(t) \/ RefuseIO(t) \/ RefuseTransact(t)
        BY <4>4 DEF InvalidateOpen, RefuseIO, RefuseTransact
      <4> QED BY <3>1, <4>1, <4>2, <4>3, <4>4 DEF Lifecycle
    <3>2. CASE OpenAlready(t) \/ OpenUnavailable(t) \/ OpenBegin(t) \/ OpenFailed(t) \/ OpenInterrupted(t)
      <4>1. CASE OpenBegin(t)
        BY <3>0, <4>1 DEF OpenBegin, TransportStates
      <4>2. CASE OpenAlready(t) \/ OpenUnavailable(t) \/ OpenFailed(t) \/ OpenInterrupted(t)
        BY <4>2 DEF OpenAlready, OpenUnavailable, OpenFailed, OpenInterrupted, TransportStates
      <4> QED BY <3>2, <4>1, <4>2
    <3>3. CASE ReadBegin(t) \/ Tick(t)
      BY <3>3 DEF ReadBegin, Tick, machineVars
    <3> QED BY <2>1, <3>1, <3>2, <3>3 DEF CommonStep
  <2>2. CASE OpenedStep(t)
    BY <2>2 DEF OpenedStep, Opened, TransportStates
  <2>3. CASE Refuses(t)
    BY <2>3 DEF Refuses, UdpOversize, UdpFlushOutput, DrainFailed, SerialUnsupported,
       SerialFlushFailed,
       VisaUnsupported, RefuseControl, ControlUnsupported, ControlFailed
  <2>4. CASE SendBegins(t)
    BY <2>4 DEF SendBegins, SendBegin
  <2>5. CASE SendEnds(t)
    BY <2>5 DEF SendEnds, SendDone, SendFailed
  <2>6. CASE ReadFailed(t)
    BY <2>6 DEF ReadFailed
  <2>7. CASE UdpReads(t)
    BY <2>7 DEF UdpReads, UdpFlush, Drain, DrainDone, UdpSkip, UdpRead, Return, machineVars
  <2>8. CASE SerialReads(t)
    BY <2>8 DEF SerialReads, SerialReceive, SerialReturn, SerialFlush, Return, machineVars
  <2>9. CASE VisaReads(t)
    BY <2>9 DEF VisaReads, VisaReceive, VisaExtend, VisaReturnMessage, VisaReturn, VisaFlush,
       Control, Return,
       machineVars
  <2> QED BY <1>1, <2>1, <2>2, <2>3, <2>4, <2>5, <2>6, <2>7, <2>8, <2>9, StepCases
<1>2. ASSUME NEW t \in Threads, NEW o \in BackendOperations, Called(t, o) PROVE MachineType'
  BY <1>0, <1>2 DEF Called, Call, Goto, Places, Outcomes, BackendOperations, Operations
<1>3. ASSUME UNCHANGED machineVars PROVE MachineType'
  BY <1>0, <1>3 DEF machineVars
<1>4. CASE Finished \/ UNCHANGED vars
  BY <1>3, <1>4 DEF Finished, vars
<1>5. CASE \/ Device /\ UNCHANGED <<udpVars, messageBased>>
           \/ backend = "udp" /\ UdpNetwork /\ UNCHANGED messageBased
  BY <1>3, <1>5, OutsideFacts
<1> QED BY <1>1, <1>2, <1>4, <1>5 DEF Next

\* Every step keeps the types of what the backends add.
DataType ==
  /\ backend \in {"udp", "serial", "visa"}
  /\ mode \in Modes
  /\ previous \in TransportStates
  /\ requests \in Nat /\ base \in 0..requests /\ spent \in Nat
  /\ asked \in [Threads -> Nat]
  /\ pending \in BOOLEAN /\ framed \in BOOLEAN
  /\ fixedPort \in BOOLEAN /\ validateSource \in BOOLEAN /\ messageBased \in BOOLEAN
  /\ drainFirst \in BOOLEAN /\ flushed \in BOOLEAN
  /\ drained \in Nat /\ old \in Nat
  /\ backend # "udp" => ~fixedPort

\* No step breaks these types.
LEMMA DataTypeNext ==
  ASSUME TypeOK, [Next]_vars
  PROVE  DataType'
<1> USE DEF DataType
<1>0. DataType /\ state \in TransportStates /\ queue \in Seq(Datagram)
  BY DEF TypeOK
<1>1. ASSUME NEW t \in Threads, Step(t) PROVE DataType'
  <2> USE <1>0
  <2>1. CASE CommonStep(t) /\ CommonFrame
    <3> USE DEF CommonFrame
    <3>1. CASE Lifecycle(t)
      BY <2>1, <3>1 DEF Lifecycle, backendVars, exchangeVars
    <3>2. CASE OpenAlready(t) \/ OpenUnavailable(t) \/ OpenBegin(t) \/ OpenFailed(t) \/ OpenInterrupted(t)
      BY <2>1, <3>2 DEF OpenAlready, OpenUnavailable, OpenBegin, OpenFailed, OpenInterrupted,
         backendVars, exchangeVars
    <3>3. CASE ReadBegin(t) \/ Tick(t)
      BY <2>1, <3>3 DEF ReadBegin, Tick
    <3> QED BY <2>1, <3>1, <3>2, <3>3 DEF CommonStep
  <2>2. CASE OpenedStep(t)
    <3>1. drainFirst' \in BOOLEAN /\ flushed' \in BOOLEAN
      BY <2>2 DEF OpenedStep
    <3>2. framed' = TRUE /\ base' = requests
          /\ UNCHANGED <<backend, mode, previous, requests, spent, asked, pending>>
      BY <2>2 DEF OpenedStep, Opened
    <3> QED BY <2>2, <3>1, <3>2 DEF OpenedStep
  <2>3. CASE Refuses(t)
    BY <2>3 DEF Refuses, UdpOversize, UdpFlushOutput, DrainFailed, SerialUnsupported,
       SerialFlushFailed,
       VisaUnsupported, RefuseControl, ControlUnsupported, ControlFailed, backendVars,
       exchangeVars, udpVars
  <2>4. CASE SendBegins(t)
    BY <2>4 DEF SendBegins, SendBegin
  <2>5. CASE SendEnds(t)
    BY <2>5 DEF SendEnds, SendDone, SendFailed, exchangeVars, udpVars
  <2>6. CASE ReadFailed(t) /\ UNCHANGED <<udpVars, messageBased>>
    BY <2>6 DEF ReadFailed, exchangeVars, udpVars
  <2>7. CASE UdpReads(t)
    <3> USE <2>7 DEF UdpReads, backendVars, exchangeVars
    <3>1. CASE UdpFlush(t) \/ Drain(t) \/ UdpSkip(t)
      BY <3>1 DEF UdpFlush, Drain, UdpSkip
    <3>2. CASE DrainDone(t)
      BY <3>2 DEF DrainDone
    <3>3. CASE UdpRead(t)
      BY <3>3 DEF UdpRead, Return
    <3> QED BY <3>1, <3>2, <3>3
  <2>8. CASE SerialReads(t)
    BY <2>8 DEF SerialReads, SerialReceive, SerialReturn, SerialFlush, Return, exchangeVars,
       udpVars
  <2>9. CASE VisaReads(t)
    BY <2>9 DEF VisaReads, VisaReceive, VisaExtend, VisaReturnMessage, VisaReturn, VisaFlush,
       Control, Return,
       exchangeVars, udpVars
  <2> QED BY <1>1, <2>1, <2>2, <2>3, <2>4, <2>5, <2>6, <2>7, <2>8, <2>9, StepCases
<1>2. ASSUME NEW t \in Threads, NEW o \in BackendOperations, Called(t, o) PROVE DataType'
  BY <1>0, <1>2, CallFacts DEF Modes
<1>3. ASSUME UNCHANGED vars PROVE DataType'
  BY <1>0, <1>3 DEF vars, backendVars, exchangeVars, udpVars
<1>4. CASE Finished \/ UNCHANGED vars
  BY <1>3, <1>4 DEF Finished
<1>5. CASE \/ Device /\ UNCHANGED <<udpVars, messageBased>>
           \/ backend = "udp" /\ UdpNetwork /\ UNCHANGED messageBased
  <2>1. framed' \in BOOLEAN
    BY <1>0, <1>5 DEF Device, DeviceAnswers, DeviceIgnores, UdpNetwork, UdpAnswers, UdpArrives,
       UdpForeign, exchangeVars,
       backendVars
  <2> QED BY <1>0, <1>5, <2>1, OutsideFacts
<1> QED BY <1>1, <1>2, <1>4, <1>5 DEF Next

\* The first and the rest of a sequence.
LEMMA TailFacts ==
  ASSUME NEW S, NEW s \in Seq(S), s # <<>>
  PROVE  /\ 1 \in 1..Len(s) /\ Head(s) = s[1] /\ Head(s) \in S
         /\ Tail(s) \in Seq(S) /\ Len(Tail(s)) = Len(s) - 1
         /\ \A i \in 1..(Len(s) - 1) : Tail(s)[i] = s[i + 1]
  OBVIOUS

\* A sequence with one more.
LEMMA AppendFacts ==
  ASSUME NEW S, NEW s \in Seq(S), NEW e \in S
  PROVE  /\ Append(s, e) \in Seq(S) /\ Len(Append(s, e)) = Len(s) + 1
         /\ \A i \in 1..Len(s) : Append(s, e)[i] = s[i]
         /\ Append(s, e)[Len(s) + 1] = e
  OBVIOUS

------------------------------------------------------------------------------
\* What the reads of the byte streams do, in terms of positions.

\* A read of the serial line returns what it has gathered and some of what waits.
LEMMA SerialReturnFacts ==
  ASSUME TypeOK, NEW t \in Threads, SerialReturn(t)
  PROVE  /\ part # <<>>
         /\ mode = "line" => part[Len(part)].eol
         /\ \E w \in 0..Len(wire) :
              /\ Return(t, part \o SubSeq(wire, 1, w))
              /\ wire' = SubSeq(wire, w + 1, Len(wire))
              /\ mode \in {"line", "exact"} => w = 0
              /\ w < MaxSize
         /\ mode # "message" /\ (mode = "exact" => Len(part) = Length)
<1> USE BackendAssumption DEF TypeOK
<1>m. mode \in {"line", "exact", "upTo", "available", "message"}
  BY DEF Modes
<1>1. part # <<>> /\ mode # "message" /\ (mode = "exact" => Len(part) = Length)
  <2>0. SerialEnough
    BY DEF SerialReturn
  <2>1. CASE mode = "exact"
    BY <2>0, <2>1 DEF SerialEnough
  <2>2. CASE mode \in {"line", "upTo", "available"}
    BY <2>0, <2>2 DEF SerialEnough
  <2>3. CASE mode = "message"
    BY <2>0, <2>3 DEF SerialEnough
  <2> QED BY <1>m, <2>1, <2>2, <2>3
<1>2. SerialLimit \in 1..MaxSize
  BY DEF SerialLimit, Smaller
<1> DEFINE w == IF mode \in {"upTo", "available"} THEN Smaller(Len(wire), SerialLimit - 1) ELSE 0
<1>3. w \in 0..Len(wire) /\ (mode \in {"line", "exact"} => w = 0) /\ w < MaxSize
  BY <1>2 DEF Smaller
<1>4. /\ mode = "line" => part[Len(part)].eol
      /\ Return(t, part \o SubSeq(wire, 1, w))
      /\ wire' = SubSeq(wire, w + 1, Len(wire))
  BY DEF SerialReturn
<1> HIDE DEF w
<1> QED BY <1>1, <1>3, <1>4

\* A low-level VISA read takes some bytes of the first reply.
LEMMA VisaReceiveFacts ==
  ASSUME TypeOK, WireOK, NEW t \in Threads, VisaReceive(t)
  PROVE  \E n \in 1..Len(wire) :
           /\ n <= wire[1].more + 1
           /\ wire' = SubSeq(wire, n + 1, Len(wire))
           /\ \/ /\ mode \in {"message", "line"}
                 /\ part' = part \o SubSeq(wire, 1, n) /\ UNCHANGED buffer
              \/ /\ mode \in {"exact", "upTo", "available"}
                 /\ buffer' = buffer \o SubSeq(wire, 1, n) /\ UNCHANGED part
                 /\ mode = "exact" => Len(buffer) + n <= Length
                 /\ mode # "exact" => buffer = <<>> /\ n <= VisaLimit
<1> USE BackendAssumption, VisaAssumption DEF TypeOK
<1>1. wire # <<>> /\ VisaWant > 0 /\ VisaWaits
  BY DEF VisaReceive
<1>2. 1 \in 1..Len(wire) /\ Head(wire) = wire[1] /\ wire[1].more \in Nat
  <2>1. 1 \in 1..Len(wire) /\ Head(wire) = wire[1] /\ wire[1] \in Byte
    BY <1>1, TailFacts
  <2> QED BY <2>1 DEF Byte
<1>3. 1 + wire[1].more <= Len(wire)
  BY <1>2 DEF WireOK
<1>4. VisaWant \in Int /\ VisaLimit \in Nat
  <2>0. VisaLimit \in Nat
    BY DEF VisaLimit, Smaller
  <2>1. CASE mode \in {"message", "line"}
    <3>1. VisaWant = Smaller(ChunkSize, MaxSize - Len(buffer) + 1 - Len(part))
      BY <2>1 DEF VisaWant, MessageRoom
    <3> QED BY <2>0, <3>1 DEF Smaller
  <2>2. CASE mode = "exact"
    <3>1. VisaWant = Smaller(ChunkSize, Length - Len(buffer))
      BY <2>2 DEF VisaWant
    <3> QED BY <2>0, <3>1 DEF Smaller
  <2>3. CASE mode \in {"upTo", "available"}
    BY <2>0, <2>3 DEF VisaWant, Smaller
  <2> QED BY <2>0, <2>1, <2>2, <2>3 DEF Modes
<1> DEFINE n == Smaller(VisaWant, Head(wire).more + 1)
<1>5. n \in 1..Len(wire) /\ n <= wire[1].more + 1 /\ n <= VisaWant
  BY <1>1, <1>2, <1>3, <1>4, SMTT(20) DEF Smaller
<1>6. /\ wire' = SubSeq(wire, n + 1, Len(wire))
      /\ IF mode \in {"message", "line"}
           THEN part' = part \o SubSeq(wire, 1, n) /\ UNCHANGED buffer
           ELSE buffer' = buffer \o SubSeq(wire, 1, n) /\ UNCHANGED part
  BY DEF VisaReceive
<1>7. mode = "exact" => VisaWant <= Length - Len(buffer)
  <2> SUFFICES ASSUME mode = "exact" PROVE VisaWant <= Length - Len(buffer)
    OBVIOUS
  <2>1. VisaWant = Smaller(ChunkSize, Length - Len(buffer))
    BY DEF VisaWant
  <2> QED BY <2>1 DEF Smaller
<1>8. mode \in {"upTo", "available"} => VisaWant <= VisaLimit /\ buffer = <<>>
  <2> SUFFICES ASSUME mode \in {"upTo", "available"} PROVE VisaWant <= VisaLimit /\ buffer = <<>>
    OBVIOUS
  <2>1. VisaWant = Smaller(ChunkSize, VisaLimit)
    BY DEF VisaWant
  <2>2. buffer = <<>>
    BY <1>1 DEF VisaWaits
  <2> QED BY <1>4, <2>1, <2>2 DEF Smaller
<1> HIDE DEF n
<1>9. mode \in {"message", "line", "exact", "upTo", "available"}
  BY DEF Modes
<1>10. mode = "exact" => Len(buffer) + n <= Length
  BY <1>4, <1>5, <1>7
<1>11. mode \in {"upTo", "available"} => n <= VisaLimit
  BY <1>4, <1>5, <1>8
<1> QED BY <1>5, <1>6, <1>8, <1>9, <1>10, <1>11

------------------------------------------------------------------------------
\* Types of what is on its way.
Requested == [req : Nat \ {0}, port : Nat \ {0}]

LineType ==
  /\ inbox \in Seq(Requested)
  /\ wire \in Seq(Byte) /\ part \in Seq(Byte) /\ buffer \in Seq(Byte)
  /\ air \subseteq Datagram /\ queue \in Seq(Datagram)

\* Every step keeps them.
LEMMA LineTypeNext ==
  ASSUME BackendsInv, [Next]_vars
  PROVE  LineType'
<1>0. LineType /\ TypeOK
  BY DEF BackendsInv, TypeOK, LineType, Requested
<1> USE <1>0 DEF LineType
<1>a. ASSUME UNCHANGED <<inbox, wire, part, buffer, air, queue>> PROVE LineType'
  BY <1>a
<1>b. <<>> \in Seq(Byte) /\ <<>> \in Seq(Datagram) /\ <<>> \in Seq(Requested)
  OBVIOUS
<1>1. ASSUME NEW t \in Threads, Step(t) PROVE LineType'
  <2>1. CASE CommonStep(t) /\ CommonFrame
    <3>1. queue' \in Seq(Datagram) /\ air' \subseteq Datagram
      BY <1>b, <2>1 DEF CommonFrame
    <3>2. ASSUME UNCHANGED lineVars PROVE LineType'
      BY <3>1, <3>2 DEF lineVars
    <3>3. CASE Lifecycle(t)
      BY <1>b, <3>1, <3>2, <3>3 DEF Lifecycle, Released, backendVars
    <3>4. CASE OpenAlready(t) \/ OpenUnavailable(t) \/ OpenFailed(t) \/ OpenInterrupted(t)
      BY <3>2, <3>4 DEF OpenAlready, OpenUnavailable, OpenFailed, OpenInterrupted, backendVars
    <3>5. CASE OpenBegin(t)
      BY <1>b, <3>1, <3>5 DEF OpenBegin
    <3>6. CASE ReadBegin(t) \/ Tick(t)
      BY <3>2, <3>6 DEF ReadBegin, Tick
    <3> QED BY <2>1, <3>3, <3>4, <3>5, <3>6 DEF CommonStep
  <2>2. CASE OpenedStep(t)
    BY <2>2, <1>a DEF OpenedStep, Opened, lineVars
  <2>3. CASE Refuses(t)
    BY <2>3, <1>a DEF Refuses, UdpOversize, UdpFlushOutput, DrainFailed, SerialUnsupported,
       SerialFlushFailed,
       VisaUnsupported, RefuseControl, ControlUnsupported, ControlFailed, backendVars, lineVars,
       udpVars
  <2>4. CASE SendBegins(t)
    BY <2>4, <1>a DEF SendBegins, SendBegin, lineVars
  <2>5. CASE SendEnds(t)
    <3>1. op[t] = "transact" => Request(t) \in Requested
      BY <2>5 DEF SendEnds, SendDone, SendFailed, BackendsInv, PlaceOK, ResourceMatchesState,
         NoResource, Request, Requested, TypeOK
    <3>2. op[t] \in {"write", "transact"}
      BY <2>5 DEF SendEnds, SendDone, SendFailed, BackendsInv, PlaceOK
    <3>3. inbox' \in Seq(Requested) /\ wire' \in Seq(Byte)
      <4>1. op[t] = "transact" => Append(inbox, Request(t)) \in Seq(Requested) /\ <<Request(t)>> \in Seq(Requested)
        BY <3>1
      <4>2. Interrupts(t) \in Seq(Requested)
        BY <1>b, <3>2, <4>1 DEF Interrupts
      <4>3. inbox' \in Seq(Requested)
        BY <2>5, <3>2, <4>1, <4>2 DEF SendEnds
      <4>4. wire' \in Seq(Byte)
        BY <1>b, <2>5 DEF SendEnds
      <4> QED BY <4>3, <4>4
    <3>4. UNCHANGED <<part, buffer, air, queue>>
      BY <2>5 DEF SendEnds, SendDone, SendFailed, udpVars
    <3> QED BY <3>3, <3>4
  <2>6. CASE ReadFailed(t) /\ UNCHANGED <<udpVars, messageBased>>
    BY <2>6, <1>b DEF ReadFailed, udpVars
  <2>7. CASE UdpReads(t)
    <3> USE <2>7 DEF UdpReads, backendVars, lineVars
    <3>1. CASE UdpFlush(t) \/ DrainDone(t)
      BY <1>a, <3>1 DEF UdpFlush, DrainDone
    <3>2. CASE Drain(t) \/ UdpSkip(t)
      <4>1. queue # <<>> /\ queue' = Tail(queue) /\ UNCHANGED <<inbox, wire, part, buffer, air>>
        BY <3>2 DEF Drain, UdpSkip
      <4> QED BY <4>1, TailFacts
    <3>3. CASE UdpRead(t)
      BY <1>b, <3>3 DEF UdpRead, Return
    <3> QED BY <3>1, <3>2, <3>3
  <2>8. CASE SerialReads(t)
    <3> USE <2>8 DEF SerialReads, udpVars
    <3>1. CASE SerialReceive(t)
      BY <3>1 DEF SerialReceive
    <3>2. CASE SerialReturn(t)
      <4>1. PICK w \in 0..Len(wire) : Return(t, part \o SubSeq(wire, 1, w)) /\ wire' = SubSeq(wire, w + 1, Len(wire))
        BY <3>2, SerialReturnFacts
      <4>2. wire' \in Seq(Byte)
        BY <4>1, Cut
      <4> QED BY <1>b, <3>2, <4>1, <4>2 DEF Return, SerialReturn
    <3>3. CASE SerialFlush(t)
      BY <1>b, <3>3 DEF SerialFlush
    <3> QED BY <3>1, <3>2, <3>3
  <2>9. CASE VisaReads(t)
    <3> USE <2>9 DEF VisaReads, udpVars
    <3>1. CASE VisaReceive(t)
      <4>1. PICK n \in 1..Len(wire) :
              /\ wire' = SubSeq(wire, n + 1, Len(wire))
              /\ \/ part' = part \o SubSeq(wire, 1, n) /\ UNCHANGED buffer
                 \/ buffer' = buffer \o SubSeq(wire, 1, n) /\ UNCHANGED part
        BY <3>1, VisaReceiveFacts DEF BackendsInv
      <4>2. wire' \in Seq(Byte) /\ SubSeq(wire, 1, n) \in Seq(Byte)
        BY <4>1, Cut
      <4>3. part' \in Seq(Byte) /\ buffer' \in Seq(Byte)
        BY <4>1, <4>2, Join
      <4> QED BY <3>1, <4>2, <4>3 DEF VisaReceive
    <3>2. CASE VisaExtend(t)
      <4>1. buffer' \in Seq(Byte)
        BY <3>2, Join DEF VisaExtend
      <4> QED BY <1>b, <3>2, <4>1 DEF VisaExtend
    <3>3. CASE VisaReturnMessage(t)
      BY <1>b, <3>3 DEF VisaReturnMessage, Return
    <3>4. ASSUME NEW n \in 1..Len(buffer), VisaReturn(t, n) PROVE LineType'
      <4>1. buffer' \in Seq(Byte)
        BY <3>4, Cut DEF VisaReturn
      <4> QED BY <1>b, <3>4, <4>1 DEF VisaReturn, Return
    <3>5. CASE VisaFlush(t) \/ Control(t)
      BY <1>b, <3>5 DEF VisaFlush, Control
    <3> QED BY <3>1, <3>2, <3>3, <3>4, <3>5
  <2> QED BY <1>1, <2>1, <2>2, <2>3, <2>4, <2>5, <2>6, <2>7, <2>8, <2>9, StepCases
<1>2. ASSUME NEW t \in Threads, NEW o \in BackendOperations, Called(t, o) PROVE LineType'
  BY <1>2, <1>a, CallFacts
<1>3. CASE Finished \/ UNCHANGED vars
  BY <1>a, <1>3 DEF Finished, vars, backendVars, lineVars, udpVars
<1>4. CASE Device /\ UNCHANGED <<udpVars, messageBased>>
  <2>1. ASSUME NEW n \in 1..MaxReply, NEW cut \in {1, n}, DeviceAnswers(n, cut) PROVE LineType'
    <3>1. inbox # <<>> /\ Head(inbox).req \in Nat \ {0} /\ inbox' \in Seq(Requested)
      <4>1. inbox # <<>> /\ inbox' = Tail(inbox)
        BY <2>1 DEF DeviceAnswers
      <4>2. Head(inbox) \in Requested /\ inbox' \in Seq(Requested)
        BY <4>1, TailFacts
      <4> QED BY <4>1, <4>2 DEF Requested
    <3>2. Reply(Head(inbox).req, n, cut) \in Seq(Byte)
      <4>1. n \in Nat \ {0} /\ cut \in Nat
        BY BackendAssumption
      <4>2. Head(inbox).req \in Nat \ {0}
        BY <3>1
      <4>3. \A r \in Nat \ {0}, m \in Nat \ {0}, c \in Nat : Reply(r, m, c) \in Seq(Byte)
        BY ReplyFacts
      <4> QED BY <4>1, <4>2, <4>3
    <3>3. wire' \in Seq(Byte)
      BY <2>1, <3>2, Join DEF DeviceAnswers
    <3> QED BY <1>4, <2>1, <3>1, <3>3 DEF DeviceAnswers, udpVars
  <2>2. CASE DeviceIgnores
    BY <1>4, <2>2 DEF DeviceIgnores, udpVars
  <2> QED BY <1>4, <2>1, <2>2 DEF Device
<1>5. CASE UdpNetwork
  <2>1. ASSUME NEW n \in MaxSize..MaxReply, UdpAnswers(n) PROVE LineType'
    <3>1. inbox # <<>> /\ Head(inbox) \in Requested /\ inbox' \in Seq(Requested)
      BY <2>1 DEF UdpAnswers
    <3>2. air' \subseteq Datagram
      BY <2>1, <3>1, BackendAssumption DEF UdpAnswers, Requested, Datagram
    <3> QED BY <2>1, <3>1, <3>2 DEF UdpAnswers
  <2>2. ASSUME NEW d \in air, NEW again \in BOOLEAN, UdpArrives(d, again) PROVE LineType'
    BY <2>2 DEF UdpArrives, lineVars
  <2>3. CASE UdpForeign
    BY <2>3 DEF UdpForeign, Foreign, Datagram, lineVars, backendVars
  <2> QED BY <1>5, <2>1, <2>2, <2>3 DEF UdpNetwork
<1> QED BY <1>1, <1>2, <1>3, <1>4, <1>5 DEF Next

\* What a read returns is bytes.
LEMMA AnswerTypeNext ==
  ASSUME BackendsInv, [Next]_vars
  PROVE  answer' \in [Threads -> Seq(Received)]
<1> DEFINE T(a) == a \in [Threads -> Seq(Received)]
<1>0. TypeOK /\ T(answer)
  BY DEF BackendsInv, TypeOK
<1>a. <<>> \in Seq(Received)
  OBVIOUS
<1>b. ASSUME NEW s \in Seq(Byte) PROVE s \in Seq(Received)
  <2>1. \A b \in Byte : b \in [req : Nat \ {0}, at : Nat \ {0}, more : Nat, eol : BOOLEAN]
    BY Zenon DEF Byte
  <2>2. \A b \in [req : Nat \ {0}, at : Nat \ {0}, more : Nat, eol : BOOLEAN] : b \in Received
    BY DEF Received
  <2>3. Byte \subseteq Received
    BY <2>1, <2>2, Zenon
  <2> QED BY <2>3
<1>c. ASSUME NEW t \in Threads, NEW s \in Seq(Received), Return(t, s) PROVE T(answer')
  BY <1>0, <1>c DEF Return
<1>1. ASSUME NEW t \in Threads, Step(t) PROVE T(answer')
  <2>1. CASE CommonStep(t)
    <3>1. CASE Lifecycle(t)
      BY <1>0, <3>1 DEF Lifecycle, backendVars, exchangeVars
    <3>2. CASE OpenAlready(t) \/ OpenUnavailable(t) \/ OpenBegin(t) \/ OpenFailed(t) \/ OpenInterrupted(t)
      BY <1>0, <3>2 DEF OpenAlready, OpenUnavailable, OpenBegin, OpenFailed, OpenInterrupted,
         backendVars, exchangeVars
    <3>3. CASE ReadBegin(t) \/ Tick(t)
      BY <1>0, <1>a, <3>3 DEF ReadBegin, Tick
    <3> QED BY <2>1, <3>1, <3>2, <3>3 DEF CommonStep
  <2>2. CASE OpenedStep(t) \/ SendBegins(t)
    BY <1>0, <1>a, <2>2 DEF OpenedStep, Opened, SendBegins, SendBegin
  <2>3. CASE Refuses(t)
    BY <1>0, <2>3 DEF Refuses, UdpOversize, UdpFlushOutput, DrainFailed, SerialUnsupported,
       SerialFlushFailed,
       VisaUnsupported, RefuseControl, ControlUnsupported, ControlFailed, backendVars,
       exchangeVars
  <2>4. CASE SendEnds(t) \/ ReadFailed(t)
    BY <1>0, <2>4 DEF SendEnds, SendDone, SendFailed, ReadFailed, exchangeVars
  <2>5. CASE UdpReads(t)
    <3>1. CASE UdpFlush(t) \/ Drain(t) \/ DrainDone(t) \/ UdpSkip(t)
      BY <1>0, <3>1 DEF UdpFlush, Drain, DrainDone, UdpSkip, backendVars, exchangeVars
    <3>2. CASE UdpRead(t)
      <4> DEFINE d == Head(queue)
      <4>1. d \in Datagram
        BY <1>0, <3>2, TailFacts DEF UdpRead, TypeOK
      <4>2. d.req \in Nat /\ d.size \in Nat \ {0}
        BY <4>1 DEF Datagram
      <4> HIDE DEF d
      <4>3. Reply(d.req, d.size, d.size) \in Seq(Received)
        BY <4>2, ReplyType
      <4> QED BY <1>c, <3>2, <4>3 DEF UdpRead, d
    <3> QED BY <2>5, <3>1, <3>2 DEF UdpReads
  <2>6. CASE SerialReads(t)
    <3>1. CASE SerialReceive(t) \/ SerialFlush(t)
      BY <1>0, <3>1 DEF SerialReceive, SerialFlush, exchangeVars
    <3>2. CASE SerialReturn(t)
      <4>1. PICK w \in 0..Len(wire) : Return(t, part \o SubSeq(wire, 1, w))
        BY <1>0, <3>2, SerialReturnFacts
      <4>2. wire \in Seq(Byte) /\ part \in Seq(Byte)
        BY <1>0 DEF TypeOK
      <4>3. SubSeq(wire, 1, w) \in Seq(Byte)
        BY <4>2, Cut
      <4>4. part \o SubSeq(wire, 1, w) \in Seq(Byte)
        BY <4>2, <4>3, Join
      <4> QED BY <1>b, <1>c, <4>1, <4>4
    <3> QED BY <2>6, <3>1, <3>2 DEF SerialReads
  <2>7. CASE VisaReads(t)
    <3>0. buffer \in Seq(Byte) /\ part \in Seq(Byte)
      BY <1>0 DEF TypeOK
    <3>1. CASE VisaReceive(t) \/ VisaExtend(t) \/ VisaFlush(t) \/ Control(t)
      BY <1>0, <3>1 DEF VisaReceive, VisaExtend, VisaFlush, Control, exchangeVars
    <3>2. CASE VisaReturnMessage(t)
      BY <1>b, <1>c, <3>0, <3>2 DEF VisaReturnMessage
    <3>3. ASSUME NEW n \in 1..Len(buffer), VisaReturn(t, n) PROVE T(answer')
      <4>1. SubSeq(buffer, 1, n) \in Seq(Byte)
        BY <3>0, Cut
      <4> QED BY <1>b, <1>c, <3>3, <4>1 DEF VisaReturn
    <3> QED BY <2>7, <3>1, <3>2, <3>3 DEF VisaReads
  <2> QED BY <1>0, <1>1, <2>1, <2>2, <2>3, <2>4, <2>5, <2>6, <2>7, StepCases
<1>2. ASSUME NEW t \in Threads, NEW o \in BackendOperations, Called(t, o) PROVE T(answer')
  BY <1>0, <1>a, <1>2 DEF Called
<1>3. CASE UNCHANGED vars
  BY <1>0, <1>3 DEF vars, backendVars, exchangeVars
<1>4. CASE \/ Device /\ UNCHANGED <<udpVars, messageBased>>
           \/ backend = "udp" /\ UdpNetwork /\ UNCHANGED messageBased
  BY <1>0, <1>4, OutsideFacts
<1> QED BY <1>1, <1>2, <1>3, <1>4 DEF Next, Finished

\* Every step keeps the types of all variables.
LEMMA TypeNext ==
  ASSUME BackendsInv, [Next]_vars
  PROVE  TypeOK'
<1>1. MachineType' /\ DataType' /\ LineType' /\ answer' \in [Threads -> Seq(Received)]
  BY MachineTypeNext, DataTypeNext, LineTypeNext, AnswerTypeNext DEF BackendsInv
<1> QED BY <1>1 DEF TypeOK, MachineType, DataType, LineType, Requested

------------------------------------------------------------------------------
\* Control.

Data == <<state, resource, handles, opened, op, calls, backendVars, udpVars, messageBased>>

\* A thread that waits for the lock touches nothing but the lock.
LEMMA Waiting ==
  ASSUME TypeOK, NEW t \in Threads, Step(t), ~Inside(t)
  PROVE  pc[t] = "acquire" /\ UNCHANGED Data
<1> USE DEF TypeOK, Inside, Running
<1>1. CASE CommonStep(t) /\ CommonFrame
  <2>1. Acquire(t) /\ UNCHANGED backendVars
    BY <1>1 DEF CommonStep, Lifecycle, CloseIdle, CloseBegin, InvalidateIdle, InvalidateOpen,
       RefuseIO, RefuseTransact,
       CloseEnd, Fault, OpenAlready, OpenUnavailable, OpenBegin, OpenFailed, OpenInterrupted,
       ReadBegin, Tick
  <2>2. UNCHANGED <<udpVars, messageBased>>
    BY <1>1, <2>1 DEF CommonFrame, Acquire, udpVars
  <2> QED BY <2>1, <2>2 DEF Acquire, Data
<1>2. CASE OpenedStep(t) \/ SendBegins(t) \/ SendEnds(t) \/ ReadFailed(t)
  BY <1>2 DEF OpenedStep, Opened, SendBegins, SendBegin, SendEnds, SendDone, SendFailed,
     ReadFailed
<1>3. CASE Refuses(t)
  BY <1>3 DEF Refuses, UdpOversize, UdpFlushOutput, DrainFailed, SerialUnsupported,
     SerialFlushFailed,
     VisaUnsupported, RefuseControl, ControlUnsupported, ControlFailed, Data
<1>4. CASE UdpReads(t) \/ SerialReads(t)
  BY <1>4 DEF UdpReads, UdpFlush, Drain, DrainDone, UdpSkip, UdpRead, SerialReads, SerialReceive,
     SerialReturn, SerialFlush
<1>5. CASE VisaReads(t)
  BY <1>5 DEF VisaReads, VisaReceive, VisaExtend, VisaReturnMessage, VisaReturn, VisaFlush,
     Control
<1> QED BY <1>1, <1>2, <1>3, <1>4, <1>5, StepCases

\* The steps that change the state of the transport or its resource.
LifeStep(t) ==
  /\ CloseBegin(t) \/ CloseEnd(t) \/ Fault(t) \/ OpenBegin(t) \/ OpenFailed(t)
  /\ CommonStep(t)
  /\ CommonFrame

\* All others keep them.
LEMMA LifeSteps ==
  ASSUME TypeOK, NEW t \in Threads, Step(t)
  PROVE  LifeStep(t) \/ OpenedStep(t) \/ UNCHANGED <<state, resource, handles, opened, previous, base>>
<1>1. CASE CommonStep(t) /\ CommonFrame
  BY <1>1 DEF CommonStep, LifeStep, Lifecycle, Acquire, CloseIdle, InvalidateIdle,
     InvalidateOpen, RefuseIO, RefuseTransact,
     OpenAlready, OpenUnavailable, OpenInterrupted, ReadBegin, Tick, backendVars, machineVars
<1>2. CASE SendBegins(t) \/ SendEnds(t) \/ ReadFailed(t)
  BY <1>2 DEF SendBegins, SendBegin, SendEnds, SendDone, SendFailed, ReadFailed
<1>3. CASE Refuses(t)
  BY <1>3 DEF Refuses, UdpOversize, UdpFlushOutput, DrainFailed, SerialUnsupported,
     SerialFlushFailed,
     VisaUnsupported, RefuseControl, ControlUnsupported, ControlFailed, backendVars
<1>4. CASE UdpReads(t) \/ SerialReads(t)
  BY <1>4 DEF UdpReads, UdpFlush, Drain, DrainDone, UdpSkip, UdpRead, SerialReads, SerialReceive,
     SerialReturn, SerialFlush,
     Return, machineVars, backendVars
<1>5. CASE VisaReads(t)
  BY <1>5 DEF VisaReads, VisaReceive, VisaExtend, VisaReturnMessage, VisaReturn, VisaFlush,
     Control, Return, machineVars
<1> QED BY <1>1, <1>2, <1>3, <1>4, <1>5, StepCases

\* The lock stays with the one thread inside.
LEMMA SerializedNext ==
  ASSUME BackendsInv, [Next]_vars
  PROVE  Serialized'
<1> USE TransportAssumption DEF BackendsInv, Serialized, Inside
<1>1. ASSUME NEW t \in Threads, Step(t) PROVE Serialized'
  <2>1. pc' \in [Threads -> Places]
    BY TypeNext DEF TypeOK
  <2>2. /\ \A u \in Threads \ {t} : pc'[u] = pc[u]
        /\ \/ Inside(t) /\ Inside(t)' /\ owner' = owner
           \/ Inside(t) /\ pc'[t] = "idle" /\ owner' = NoThread
           \/ pc[t] = "acquire" /\ pc'[t] = "run" /\ owner = NoThread /\ owner' = t
           \/ pc[t] = "acquire" /\ pc'[t] = "idle" /\ owner' = owner
    BY <1>1, Moves
  <2> QED BY <2>1, <2>2
<1>2. ASSUME NEW t \in Threads, NEW o \in BackendOperations, Called(t, o) PROVE Serialized'
  <2>1. pc[t] = "idle" /\ pc' = [pc EXCEPT ![t] = "acquire"] /\ UNCHANGED owner
    BY <1>2, CallFacts
  <2> QED BY <2>1 DEF TypeOK
<1>3. CASE UNCHANGED machineVars
  BY <1>3 DEF machineVars
<1> QED BY <1>1, <1>2, <1>3, OutsideFacts DEF Next, Finished, vars

\* No handle is leaked and an open transport has one.
LEMMA ResourceNext ==
  ASSUME BackendsInv, [Next]_vars
  PROVE  ResourceMatchesState'
<1> USE DEF BackendsInv, ResourceMatchesState
<1>a. ASSUME UNCHANGED <<state, resource, handles>> PROVE ResourceMatchesState'
  BY <1>a
<1>1. ASSUME NEW t \in Threads, Step(t) PROVE ResourceMatchesState'
  <2>1. CASE OpenedStep(t)
    <3>1. state = "OPENING" /\ opened \in Nat
      BY <2>1 DEF OpenedStep, Opened, PlaceOK, TypeOK
    <3>2. handles = {}
      BY <3>1
    <3> QED BY <2>1, <3>1, <3>2 DEF OpenedStep, Opened, NoResource
  <2>2. CASE CloseBegin(t)
    BY <2>2 DEF CloseBegin
  <2>3. CASE CloseEnd(t) \/ Fault(t) \/ OpenBegin(t)
    BY <2>3 DEF CloseEnd, Fault, OpenBegin, ReleaseResource
  <2>4. CASE OpenFailed(t)
    BY <2>4 DEF OpenFailed, PlaceOK
  <2> QED BY <1>1, <1>a, <2>1, <2>2, <2>3, <2>4, LifeSteps DEF LifeStep
<1>2. ASSUME NEW t \in Threads, NEW o \in BackendOperations,
             Called(t, o) PROVE ResourceMatchesState'
  BY <1>2, <1>a, CallFacts
<1>3. CASE UNCHANGED machineVars
  BY <1>3, <1>a DEF machineVars
<1> QED BY <1>1, <1>2, <1>3, OutsideFacts DEF Next, Finished, vars

\* Where a thread stands agrees with the state.
LEMMA PlaceNext ==
  ASSUME BackendsInv, [Next]_vars, NEW u \in Threads
  PROVE  PlaceOK(u)'
<1>0. TypeOK /\ PlaceOK(u) /\ pc' \in [Threads -> Places]
  BY TypeNext DEF BackendsInv, TypeOK
<1> USE <1>0 DEF PlaceOK
<1>a. ASSUME pc'[u] \in {"idle", "acquire", "run", "fault"} PROVE PlaceOK(u)'
  BY <1>a
<1>b. ASSUME pc'[u] = pc[u], op'[u] = op[u], asked'[u] = asked[u],
             UNCHANGED <<state, requests, base>>
      PROVE  PlaceOK(u)'
  BY <1>b
<1>1. ASSUME NEW t \in Threads, Step(t), t # u PROVE PlaceOK(u)'
  <2>1. pc'[u] = pc[u] /\ asked'[u] = asked[u] /\ op' = op
    BY <1>1, Moves
  <2>2. CASE Inside(u)
    <3>1. ~Inside(t)
      BY <1>1, <2>2, OneInside DEF Inside
    <3> QED BY <1>1, <1>b, <2>1, <3>1, Waiting DEF Data, backendVars, exchangeVars
  <2>3. CASE ~Inside(u)
    BY <1>a, <2>1, <2>3 DEF Inside
  <2> QED BY <2>2, <2>3
<1>2. ASSUME Step(u) PROVE PlaceOK(u)'
  <2> USE DEF TypeOK, Leave, Raise, Goto, Running
  <2>1. CASE CommonStep(u)
    <3>1. CASE Lifecycle(u)
      BY <3>1 DEF Lifecycle, Acquire, CloseIdle, CloseBegin, InvalidateIdle, InvalidateOpen,
         RefuseIO,
         RefuseTransact, CloseEnd, Fault
    <3>2. CASE OpenAlready(u) \/ OpenUnavailable(u) \/ OpenBegin(u) \/ OpenFailed(u) \/ OpenInterrupted(u)
      BY <3>2 DEF OpenAlready, OpenUnavailable, OpenBegin, OpenFailed, OpenInterrupted
    <3>3. CASE ReadBegin(u)
      BY <3>3 DEF ReadBegin
    <3>4. CASE Tick(u)
      BY <1>b, <3>4 DEF Tick, machineVars
    <3> QED BY <2>1, <3>1, <3>2, <3>3, <3>4 DEF CommonStep
  <2>2. CASE OpenedStep(u) \/ Refuses(u) \/ ReadFailed(u)
    BY <1>a, <2>2 DEF OpenedStep, Opened, Refuses, UdpOversize, UdpFlushOutput, DrainFailed,
       SerialUnsupported,
       SerialFlushFailed, VisaUnsupported, RefuseControl, ControlUnsupported, ControlFailed,
       ReadFailed
  <2>3. CASE SendBegins(u)
    <3>1. CASE op[u] = "write"
      BY <2>3, <3>1 DEF SendBegins, SendBegin
    <3>2. CASE op[u] # "write"
      BY <2>3, <3>2 DEF SendBegins, SendBegin
    <3> QED BY <3>1, <3>2
  <2>4. CASE SendEnds(u)
    BY <2>4 DEF SendEnds, SendDone, SendFailed, exchangeVars
  <2>5. CASE UdpReads(u)
    BY <2>5 DEF UdpReads, UdpFlush, Drain, DrainDone, UdpSkip, UdpRead, Return, machineVars,
       backendVars, exchangeVars
  <2>6. CASE SerialReads(u)
    BY <2>6 DEF SerialReads, SerialReceive, SerialReturn, SerialFlush, Return, machineVars,
       exchangeVars
  <2>7. CASE VisaReads(u)
    BY <2>7 DEF VisaReads, VisaReceive, VisaExtend, VisaReturnMessage, VisaReturn, VisaFlush,
       Control, Return,
       machineVars, exchangeVars
  <2> QED BY <1>2, <2>1, <2>2, <2>3, <2>4, <2>5, <2>6, <2>7, StepCases
<1>3. ASSUME NEW t \in Threads, NEW o \in BackendOperations, Called(t, o) PROVE PlaceOK(u)'
  <2>1. pc[t] = "idle" /\ pc' = [pc EXCEPT ![t] = "acquire"] /\ op' = [op EXCEPT ![t] = o]
        /\ UNCHANGED <<state, requests, base, asked>>
    BY <1>3, CallFacts
  <2> QED BY <1>a, <1>b, <2>1 DEF TypeOK
<1>4. CASE \/ Device /\ UNCHANGED <<udpVars, messageBased>>
           \/ backend = "udp" /\ UdpNetwork /\ UNCHANGED messageBased
  BY <1>4, <1>b, OutsideFacts DEF machineVars
<1>5. CASE UNCHANGED vars
  BY <1>5, <1>b DEF vars, machineVars, backendVars, exchangeVars
<1> QED BY <1>1, <1>2, <1>3, <1>4, <1>5 DEF Next, Finished

\* A query stays unanswered only inside its operation.
LEMMA PendingNext ==
  ASSUME BackendsInv, [Next]_vars
  PROVE  PendingOK'
<1>0. TypeOK /\ pc' \in [Threads -> Places]
  BY TypeNext DEF BackendsInv, TypeOK
<1>p. pending => \E t \in Threads : owner = t /\ state = "OPEN" /\ op[t] = "transact" /\ pc[t] \in {"recv", "fault"}
  BY DEF BackendsInv, PendingOK
<1>a. ASSUME ~pending' PROVE PendingOK'
  BY <1>a DEF PendingOK
<1>1. ASSUME NEW t \in Threads, Step(t), ~Inside(t) PROVE PendingOK'
  <2>1. pc[t] = "acquire" /\ UNCHANGED <<pending, state, op>>
    BY <1>0, <1>1, Waiting DEF Data, backendVars
  <2>2. CASE pending
    <3>1. PICK u \in Threads : owner = u /\ state = "OPEN" /\ op[u] = "transact" /\ pc[u] \in {"recv", "fault"}
      BY <1>p, <2>2
    <3>2. u # t /\ owner # NoThread
      BY <2>1, <3>1, TransportAssumption
    <3>3. pc'[u] = pc[u] /\ owner' = owner
      BY <1>0, <1>1, <3>2, Moves DEF Inside
    <3> QED BY <2>1, <3>1, <3>3 DEF PendingOK
  <2> QED BY <1>a, <2>1, <2>2
<1>2. ASSUME NEW t \in Threads, Step(t), Inside(t) PROVE PendingOK'
  <2>1. owner = t
    BY <1>2, OneInside
  <2>2. pending => state = "OPEN" /\ op[t] = "transact" /\ pc[t] \in {"recv", "fault"}
    BY <1>p, <2>1
  <2>3. ASSUME ~pending, pending' = pending PROVE PendingOK'
    BY <1>a, <2>3
  <2>4. ASSUME owner' = owner, state = "OPEN", UNCHANGED state, op' = op, op[t] = "transact",
               pc'[t] \in {"recv", "fault"}
        PROVE  PendingOK'
    BY <2>1, <2>4 DEF PendingOK
  <2>5. ASSUME UNCHANGED <<pending, state, owner, op>>, pc[t] = "recv",
               pc'[t] \in {"recv", "fault"}
        PROVE  PendingOK'
    BY <2>2, <2>3, <2>4, <2>5
  <2> USE <1>0 DEF TypeOK, Leave, Raise, Goto, Running
  <2>6. CASE CommonStep(t)
    <3>1. CASE Lifecycle(t)
      BY <1>2, <1>a, <2>2, <3>1 DEF Lifecycle, Acquire, CloseIdle, CloseBegin, InvalidateIdle,
         InvalidateOpen, RefuseIO,
         RefuseTransact, CloseEnd, Fault, backendVars, Inside
    <3>2. CASE OpenAlready(t) \/ OpenUnavailable(t) \/ OpenBegin(t) \/ OpenFailed(t) \/ OpenInterrupted(t) \/ ReadBegin(t)
      BY <2>2, <1>a, <3>2 DEF OpenAlready, OpenUnavailable, OpenBegin, OpenFailed,
         OpenInterrupted, ReadBegin, backendVars
    <3>3. CASE Tick(t)
      <4>1. CASE pc[t] = "recv"
        BY <2>5, <3>3, <4>1 DEF Tick, machineVars
      <4>2. CASE pc[t] = "send"
        BY <2>2, <1>a, <3>3, <4>2 DEF Tick
      <4> QED BY <3>3, <4>1, <4>2 DEF Tick
    <3> QED BY <2>6, <3>1, <3>2, <3>3 DEF CommonStep
  <2>7. CASE OpenedStep(t) \/ SendBegins(t)
    BY <2>2, <1>a, <2>7 DEF OpenedStep, Opened, SendBegins, SendBegin
  <2>8. CASE Refuses(t)
    <3>1. CASE SerialUnsupported(t)
      <4>1. CASE op[t] = "read"
        BY <2>2, <1>a, <3>1, <4>1 DEF SerialUnsupported, backendVars
      <4>2. CASE op[t] # "read"
        BY <2>5, <3>1, <4>2 DEF SerialUnsupported, backendVars
      <4> QED BY <4>1, <4>2
    <3>2. CASE VisaUnsupported(t)
      BY <2>5, <3>2 DEF VisaUnsupported, backendVars
    <3>3. CASE UdpOversize(t) \/ UdpFlushOutput(t) \/ DrainFailed(t) \/ SerialFlushFailed(t) \/ RefuseControl(t)
               \/ ControlUnsupported(t) \/ ControlFailed(t)
      BY <2>2, <1>a, <3>3 DEF UdpOversize, UdpFlushOutput, DrainFailed, SerialFlushFailed,
         RefuseControl,
         ControlUnsupported, ControlFailed, Running, backendVars
    <3> QED BY <2>8, <3>1, <3>2, <3>3 DEF Refuses
  <2>9. CASE SendEnds(t)
    <3>1. state = "OPEN" /\ op[t] \in {"write", "transact"}
      BY <2>9 DEF SendEnds, SendDone, SendFailed, BackendsInv, PlaceOK
    <3> QED BY <1>a, <2>4, <2>9, <3>1 DEF SendEnds, SendDone, SendFailed
  <2>10. CASE ReadFailed(t)
    BY <2>5, <2>10 DEF ReadFailed
  <2>11. CASE UdpReads(t)
    <3>1. CASE UdpFlush(t) \/ Drain(t) \/ DrainDone(t)
      BY <2>2, <1>a, <3>1 DEF UdpFlush, Drain, DrainDone, backendVars
    <3>2. CASE UdpSkip(t)
      BY <2>5, <3>2 DEF UdpSkip, machineVars, backendVars
    <3>3. CASE UdpRead(t)
      BY <1>a, <3>3 DEF UdpRead, Return
    <3> QED BY <2>11, <3>1, <3>2, <3>3 DEF UdpReads
  <2>12. CASE SerialReads(t)
    <3>1. CASE SerialFlush(t)
      BY <2>2, <1>a, <3>1 DEF SerialFlush
    <3>2. CASE SerialReceive(t)
      BY <2>5, <3>2 DEF SerialReceive, machineVars
    <3>3. CASE SerialReturn(t)
      BY <1>a, <3>3 DEF SerialReturn, Return
    <3> QED BY <2>12, <3>1, <3>2, <3>3 DEF SerialReads
  <2>13. CASE VisaReads(t)
    <3>1. CASE VisaFlush(t) \/ Control(t)
      BY <2>2, <1>a, <3>1 DEF VisaFlush, Control
    <3>2. CASE VisaReceive(t) \/ VisaExtend(t)
      BY <2>5, <3>2 DEF VisaReceive, VisaExtend, machineVars
    <3>3. CASE VisaReturnMessage(t) \/ \E n \in 1..Len(buffer) : VisaReturn(t, n)
      BY <1>a, <3>3 DEF VisaReturnMessage, VisaReturn, Return
    <3> QED BY <2>13, <3>1, <3>2, <3>3 DEF VisaReads
  <2> QED BY <1>0, <1>2, <2>6, <2>7, <2>8, <2>9, <2>10, <2>11, <2>12, <2>13, StepCases
<1>3. ASSUME NEW t \in Threads, NEW o \in BackendOperations, Called(t, o) PROVE PendingOK'
  <2>1. pc[t] = "idle" /\ pc' = [pc EXCEPT ![t] = "acquire"] /\ op' = [op EXCEPT ![t] = o]
        /\ UNCHANGED <<state, owner, pending>>
    BY <1>0, <1>3, CallFacts
  <2> QED BY <1>0, <1>p, <2>1 DEF TypeOK, PendingOK
<1>4. ASSUME UNCHANGED <<machineVars, pending>> PROVE PendingOK'
  BY <1>p, <1>4 DEF machineVars, PendingOK
<1> QED BY <1>1, <1>2, <1>3, <1>4, OutsideFacts DEF Next, Finished, vars, backendVars

\* A socket opened after a fault is drained before it is asked.
LEMMA DrainNext ==
  ASSUME BackendsInv, [Next]_vars
  PROVE  DrainOK'
<1>0. TypeOK /\ pc' \in [Threads -> Places] /\ queue' \in Seq(Datagram)
  BY TypeNext DEF BackendsInv, TypeOK
<1>d. DrainOK /\ DrainedBeforeAsking
  BY DEF BackendsInv, DrainOK
\* Nobody drains or is about to send, and the socket is as drained as it was.
<1>a. ASSUME \A u \in Threads : pc'[u] \notin {"drain", "send"},
             state' = "OPEN" => state = "OPEN" /\ UNCHANGED <<backend, previous, flushed, base, drainFirst, requests>>
      PROVE  DrainOK'
  BY <1>a, <1>d DEF DrainOK, DrainedBeforeAsking
\* Those that do go on.
<1>b. ASSUME \A u \in Threads : pc'[u] \in {"drain", "send"} => pc'[u] = pc[u] /\ op'[u] = op[u] /\ asked'[u] = asked[u],
             UNCHANGED <<state, backend, previous, flushed, base, drainFirst, requests, drained, old>>,
             Len(queue') >= Len(queue)
      PROVE  DrainOK'
  <2>1. ASSUME NEW u \in Threads, pc'[u] = "drain" PROVE old' <= Len(queue')
    <3>1. old <= Len(queue) /\ old \in Nat
      BY <1>0, <1>b, <1>d, <2>1 DEF DrainOK, TypeOK
    <3>2. queue \in Seq(Datagram)
      BY <1>0 DEF TypeOK
    <3>3. Len(queue) \in Nat /\ Len(queue') \in Nat
      BY <1>0, <3>2
    <3> QED BY <1>b, <3>1, <3>3
  <2>2. DrainedBeforeAsking'
    BY <1>b, <1>d DEF DrainedBeforeAsking
  <2> QED BY <1>b, <1>d, <2>1, <2>2 DEF DrainOK
<1>1. ASSUME NEW t \in Threads, Step(t), ~Inside(t) PROVE DrainOK'
  <2>1. pc[t] = "acquire" /\ UNCHANGED Data
    BY <1>0, <1>1, Waiting
  <2>2. /\ \A u \in Threads \ {t} : pc'[u] = pc[u]
        /\ pc'[t] \in {"idle", "run"}
    BY <1>0, <1>1, Moves
  <2>3. \A u \in Threads : pc'[u] \in {"drain", "send"} => pc'[u] = pc[u]
    BY <2>2
  <2>4. Len(queue') >= Len(queue)
    BY <1>0, <2>1 DEF TypeOK, Data, udpVars
  <2> QED BY <1>b, <2>1, <2>3, <2>4 DEF Data, backendVars, exchangeVars, udpVars
<1>2. ASSUME NEW t \in Threads, Step(t), Inside(t) PROVE DrainOK'
  <2>1. \A u \in Threads \ {t} : pc'[u] \in {"idle", "acquire"}
    BY <1>0, <1>2, OneInside, Moves
  <2>2. ASSUME pc'[t] \notin {"drain", "send"}, UNCHANGED <<backend, requests>>,
               state' = "OPEN" => state = "OPEN" /\ UNCHANGED <<previous, flushed, base, drainFirst>>
        PROVE  DrainOK'
    BY <1>a, <2>1, <2>2
  <2> USE <1>0 DEF TypeOK, Leave, Raise, Goto, Running
  <2>3. CASE CommonStep(t) /\ CommonFrame
    <3>1. CASE Lifecycle(t)
      BY <2>2, <2>3, <3>1 DEF Lifecycle, Acquire, CloseIdle, CloseBegin, InvalidateIdle,
         InvalidateOpen, RefuseIO,
         RefuseTransact, CloseEnd, Fault, backendVars, exchangeVars, CommonFrame
    <3>2. CASE OpenAlready(t) \/ OpenUnavailable(t) \/ OpenBegin(t) \/ OpenFailed(t) \/ OpenInterrupted(t) \/ ReadBegin(t)
      BY <2>2, <2>3, <3>2 DEF OpenAlready, OpenUnavailable, OpenBegin, OpenFailed,
         OpenInterrupted, ReadBegin, backendVars,
         exchangeVars, CommonFrame
    <3>3. CASE Tick(t)
      <4>1. UNCHANGED <<pc, op, asked, state, resource, backend, previous, base, requests>>
        BY <3>3 DEF Tick, machineVars
      <4>2. UNCHANGED <<queue, drained, old, flushed, drainFirst>>
        BY <2>3, <4>1 DEF CommonFrame
      <4>3. Len(queue') >= Len(queue)
        BY <4>2
      <4> QED BY <1>b, <4>1, <4>2, <4>3
    <3> QED BY <2>3, <3>1, <3>2, <3>3 DEF CommonStep
  <2>4. CASE OpenedStep(t)
    <3>1. pc'[t] = "idle" /\ UNCHANGED <<backend, previous>>
      BY <2>4 DEF OpenedStep, Opened
    <3>2. backend = "udp" /\ previous = "FAULTED" => drainFirst' = TRUE
      BY <2>4 DEF OpenedStep
    <3> QED BY <2>1, <3>1, <3>2 DEF DrainOK, DrainedBeforeAsking
  <2>5. CASE Refuses(t)
    BY <2>2, <2>5 DEF Refuses, UdpOversize, UdpFlushOutput, DrainFailed, SerialUnsupported,
       SerialFlushFailed,
       VisaUnsupported, RefuseControl, ControlUnsupported, ControlFailed, backendVars,
       exchangeVars, udpVars
  <2>6. CASE SendBegins(t)
    <3>0. state = "OPEN" /\ op[t] \in {"write", "transact"}
          /\ UNCHANGED <<state, backend, previous, base, flushed, drainFirst, op, queue>>
      BY <2>6 DEF SendBegins, SendBegin
    <3>1. CASE op[t] = "write"
      <4>1. pc'[t] = "send" /\ UNCHANGED requests
        BY <2>6, <3>1 DEF SendBegins, SendBegin
      <4> QED BY <1>d, <2>1, <3>0, <3>1, <4>1 DEF DrainOK, DrainedBeforeAsking
    <3>2. CASE op[t] = "transact" /\ backend = "udp" /\ drainFirst
      <4>1. pc'[t] = "drain" /\ requests' = requests + 1 /\ old' = Len(queue)
        BY <2>6, <3>2 DEF SendBegins, SendBegin
      <4>2. requests' # base'
        BY <3>0, <4>1
      <4>3. old' <= Len(queue')
        BY <3>0, <4>1
      <4> QED BY <2>1, <3>0, <4>1, <4>2, <4>3 DEF DrainOK, DrainedBeforeAsking
    <3>3. CASE op[t] = "transact" /\ ~(backend = "udp" /\ drainFirst)
      <4>1. pc'[t] = "send" /\ requests' = requests + 1 /\ asked'[t] = requests + 1
        BY <2>6, <3>3 DEF SendBegins, SendBegin
      <4>2. requests' # base'
        BY <3>0, <4>1
      <4>3. backend = "udp" /\ previous = "FAULTED" /\ ~flushed => requests # base
        BY <1>d, <3>0, <3>3 DEF DrainOK
      <4>4. asked'[t] = base' + 1 => requests = base
        BY <3>0, <4>1
      <4> QED BY <2>1, <3>0, <4>1, <4>2, <4>3, <4>4 DEF DrainOK, DrainedBeforeAsking
    <3> QED BY <3>0, <3>1, <3>2, <3>3
  <2>7. CASE SendEnds(t)
    BY <2>2, <2>7 DEF SendEnds, SendDone, SendFailed, exchangeVars, udpVars
  <2>8. CASE ReadFailed(t) /\ UNCHANGED <<udpVars, messageBased>>
    BY <2>2, <2>8 DEF ReadFailed, exchangeVars, udpVars
  <2>9. CASE UdpReads(t)
    <3> USE DEF backendVars, exchangeVars
    <3>1. CASE UdpFlush(t)
      <4>1. /\ pc'[t] = "drain" /\ old' = Len(queue) /\ op'[t] = "flushInput"
            /\ UNCHANGED <<state, backend, previous, base, flushed, drainFirst, requests, queue>>
        BY <3>1 DEF UdpFlush
      <4>2. old' <= Len(queue')
        BY <4>1
      <4> QED BY <1>d, <2>1, <4>1, <4>2 DEF DrainOK, DrainedBeforeAsking
    <3>2. CASE Drain(t)
      <4>1. /\ pc[t] = "drain" /\ pc' = pc /\ queue # <<>> /\ queue' = Tail(queue)
            /\ old' = (IF old = 0 THEN 0 ELSE old - 1)
            /\ UNCHANGED <<state, backend, previous, base, flushed, drainFirst, requests>>
        BY <3>2 DEF Drain, machineVars
      <4>2. old <= Len(queue)
        BY <1>d, <4>1 DEF DrainOK
      <4>3. Len(queue') = Len(queue) - 1 /\ Len(queue) \in Nat \ {0}
        BY <4>1, TailFacts
      <4>4. old' <= Len(queue')
        BY <4>1, <4>2, <4>3
      <4> QED BY <1>d, <2>1, <4>1, <4>4 DEF DrainOK, DrainedBeforeAsking
    <3>3. CASE DrainDone(t)
      <4>1. /\ pc[t] = "drain"
            /\ queue = <<>> \/ drained = DrainBudget
            /\ flushed' = (flushed \/ op[t] = "flushInput")
            /\ UNCHANGED <<state, backend, previous, base, requests, op, drained, old>>
        BY <3>3 DEF DrainDone
      <4>2. old = 0 \/ drained = DrainBudget
        <5>1. old <= Len(queue)
          BY <1>d, <4>1 DEF DrainOK
        <5> QED BY <4>1, <5>1
      <4>3. CASE op[t] = "flushInput"
        <5>1. pc'[t] = "idle" /\ flushed' = TRUE
          BY <3>3, <4>1, <4>3 DEF DrainDone
        <5> QED BY <2>1, <5>1 DEF DrainOK, DrainedBeforeAsking
      <4>4. CASE op[t] = "transact"
        <5>1. pc'[t] = "send"
          BY <3>3, <4>4 DEF DrainDone
        <5>2. requests > base
          BY <4>1, <4>4 DEF BackendsInv, PlaceOK
        <5>3. requests' # base'
          BY <4>1, <5>2
        <5> QED BY <2>1, <4>1, <4>2, <5>1, <5>3 DEF DrainOK, DrainedBeforeAsking
      <4> QED BY <3>3, <4>3, <4>4 DEF DrainDone
    <3>4. CASE UdpSkip(t) \/ UdpRead(t)
      BY <2>2, <3>4 DEF UdpSkip, UdpRead, Return, machineVars
    <3> QED BY <2>9, <3>1, <3>2, <3>3, <3>4 DEF UdpReads
  <2>10. CASE SerialReads(t)
    BY <2>2, <2>10 DEF SerialReads, SerialFlush, SerialReceive, SerialReturn, Return,
       machineVars, exchangeVars, udpVars
  <2>11. CASE VisaReads(t)
    BY <2>2, <2>11 DEF VisaReads, VisaReceive, VisaExtend, VisaReturnMessage, VisaReturn,
       VisaFlush, Control, Return,
       machineVars, exchangeVars, udpVars
  <2> QED BY <1>0, <1>2, <2>3, <2>4, <2>5, <2>6, <2>7, <2>8, <2>9, <2>10, <2>11, StepCases
<1>3. ASSUME NEW t \in Threads, NEW o \in BackendOperations, Called(t, o) PROVE DrainOK'
  <2>1. /\ pc[t] = "idle" /\ pc' = [pc EXCEPT ![t] = "acquire"] /\ op' = [op EXCEPT ![t] = o]
        /\ UNCHANGED <<state, owner, asked, backend, previous, flushed, base, drainFirst, requests, queue>>
        /\ UNCHANGED <<drained, old>> \/ owner = NoThread
    BY <1>0, <1>3, CallFacts
  <2>2. CASE UNCHANGED <<drained, old>>
    <3>1. Len(queue') >= Len(queue)
      BY <1>0, <2>1 DEF TypeOK
    <3> QED BY <1>0, <1>b, <2>1, <2>2, <3>1 DEF TypeOK
  <2>3. CASE owner = NoThread
    <3>1. \A u \in Threads : pc[u] \in {"idle", "acquire"}
      BY <2>3, TransportAssumption DEF BackendsInv, Serialized, Inside
    <3> QED BY <1>0, <1>a, <2>1, <3>1 DEF TypeOK
  <2> QED BY <2>1, <2>2, <2>3
<1>4. CASE \/ Device /\ UNCHANGED <<udpVars, messageBased>>
           \/ backend = "udp" /\ UdpNetwork /\ UNCHANGED messageBased
  <2>1. UNCHANGED <<pc, op, asked, state, backend, previous, flushed, base, drainFirst, requests, drained, old>>
    BY <1>4, OutsideFacts DEF machineVars
  <2>2. queue' = queue \/ \E d \in Datagram : queue' = Append(queue, d)
    <3>1. Foreign \in Datagram /\ air \subseteq Datagram
      BY <1>0 DEF TypeOK, Foreign, Datagram
    <3> QED BY <1>4, <3>1 DEF udpVars, UdpNetwork, UdpAnswers, UdpArrives, UdpForeign
  <2>3. Len(queue') >= Len(queue)
    BY <1>0, <2>2 DEF TypeOK
  <2> QED BY <1>b, <2>1, <2>3
<1>5. CASE UNCHANGED vars
  <2>1. Len(queue') >= Len(queue)
    BY <1>0, <1>5 DEF TypeOK, vars, udpVars
  <2> QED BY <1>5, <1>b, <2>1 DEF vars, machineVars, backendVars, exchangeVars, udpVars
<1> QED BY <1>1, <1>2, <1>3, <1>4, <1>5 DEF Next, Finished

------------------------------------------------------------------------------
\* The refinement of the transport contract.

\* Every step is a step of the contract, or none.
LEMMA ContractNext ==
  ASSUME BackendsInv, [Next]_vars
  PROVE  [Contract!Next]_(Contract!vars)
<1>0. TypeOK
  BY DEF BackendsInv
<1>s. ASSUME UNCHANGED <<state, owner, pending>> PROVE [Contract!Next]_(Contract!vars)
  BY <1>s DEF Contract!vars
<1>1. ASSUME NEW t \in Threads, Step(t), ~Inside(t) PROVE [Contract!Next]_(Contract!vars)
  <2>1. UNCHANGED <<pending, state>>
    BY <1>0, <1>1, Waiting DEF Data, backendVars
  <2>2. owner' = owner \/ (owner = NoThread /\ owner' = t)
    BY <1>0, <1>1, Moves
  <2> QED BY <1>s, <2>1, <2>2 DEF Contract!Next, Contract!Start
<1>2. ASSUME NEW t \in Threads, Step(t), Inside(t) PROVE [Contract!Next]_(Contract!vars)
  <2>1. owner = t /\ Contract!Busy
    BY <1>2, OneInside DEF Contract!Busy
  <2>2. pending => state = "OPEN" /\ op[t] = "transact" /\ pc[t] \in {"recv", "fault"}
    BY <2>1 DEF BackendsInv, PendingOK
  <2>3. pending \in BOOLEAN /\ PlaceOK(t)
    BY <1>0 DEF TypeOK, BackendsInv
  <2>4. ASSUME owner' = NoThread, UNCHANGED state,
               pending' = FALSE \/ (pending' = pending /\ pc[t] \notin {"recv", "fault"})
        PROVE  Contract!Next
    <3>1. pending' = FALSE
      BY <2>2, <2>3, <2>4
    <3>2. CASE pending = FALSE
      BY <2>1, <2>4, <3>1, <3>2 DEF Contract!Next, Contract!End
    <3>3. CASE pending = TRUE
      BY <2>1, <2>4, <3>1, <3>3 DEF Contract!Next, Contract!Answer
    <3> QED BY <2>3, <3>2, <3>3
  <2>5. ASSUME state = "OPEN", UNCHANGED <<state, owner>>, pending = FALSE, pending' = TRUE
        PROVE  Contract!Next
    BY <2>1, <2>5 DEF Contract!Next, Contract!Ask
  <2> USE DEF Leave, Raise, Goto, Running
  <2>6. CASE CommonStep(t)
    <3>1. CASE CloseIdle(t) \/ InvalidateIdle(t) \/ RefuseIO(t)
      <4>1. UNCHANGED pending /\ pc[t] = "run" /\ owner' = NoThread /\ UNCHANGED state
        BY <2>6, <3>1 DEF CommonStep, Lifecycle, CloseIdle, InvalidateIdle, RefuseIO, Acquire,
           CloseBegin, InvalidateOpen,
           RefuseTransact, CloseEnd, Fault, OpenAlready, OpenUnavailable, OpenBegin, OpenFailed,
           OpenInterrupted, ReadBegin, Tick,
           backendVars
      <4> QED BY <2>4, <4>1
    <3>2. CASE InvalidateOpen(t) \/ RefuseTransact(t)
      <4>1. UNCHANGED <<pending, owner, state>>
        BY <2>6, <3>2 DEF CommonStep, Lifecycle, CloseIdle, InvalidateIdle, RefuseIO, Acquire,
           CloseBegin, InvalidateOpen,
           RefuseTransact, CloseEnd, Fault, OpenAlready, OpenUnavailable, OpenBegin, OpenFailed,
           OpenInterrupted, ReadBegin, Tick,
           backendVars
      <4> QED BY <1>s, <4>1
    <3>3. CASE CloseBegin(t) /\ UNCHANGED pending
      BY <2>1, <2>2, <2>3, <3>3 DEF CloseBegin, Contract!Next, Contract!Closing
    <3>4. CASE CloseEnd(t) /\ pending' = FALSE
      <4>1. state = "CLOSING" /\ state' = "CLOSED" /\ owner' = NoThread /\ pending = FALSE
        BY <2>2, <2>3, <3>4 DEF CloseEnd, PlaceOK
      <4> QED BY <2>1, <3>4, <4>1 DEF Contract!Next, Contract!Closed
    <3>5. CASE Fault(t) /\ pending' = FALSE
      BY <2>1, <3>5 DEF Fault, Contract!Next, Contract!Fault
    <3>6. CASE Lifecycle(t)
      BY <1>2, <3>1, <3>2, <3>3, <3>4, <3>5, <3>6, <2>6 DEF Lifecycle, Inside, Acquire,
         backendVars
    <3>7. CASE OpenAlready(t) \/ OpenUnavailable(t) \/ OpenInterrupted(t)
      <4>1. /\ UNCHANGED pending /\ pc[t] \in {"run", "connect"} /\ owner' = NoThread
            /\ UNCHANGED state
        BY <3>7 DEF OpenAlready, OpenUnavailable, OpenInterrupted, backendVars
      <4> QED BY <2>4, <4>1
    <3>8. CASE OpenBegin(t)
      BY <2>1, <2>2, <2>3, <3>8 DEF OpenBegin, Contract!Next, Contract!Opening
    <3>9. CASE OpenFailed(t)
      BY <2>1, <2>3, <3>9 DEF OpenFailed, PlaceOK, backendVars, Contract!Next, Contract!Opened
    <3>10. CASE ReadBegin(t) \/ Tick(t)
      BY <1>s, <3>10 DEF ReadBegin, Tick, machineVars
    <3> QED BY <2>6, <3>6, <3>7, <3>8, <3>9, <3>10 DEF CommonStep
  <2>7. CASE OpenedStep(t)
    BY <2>1, <2>3, <2>7 DEF OpenedStep, Opened, PlaceOK, Contract!Next, Contract!Opened
  <2>8. CASE Refuses(t)
    <3>1. CASE SerialUnsupported(t) /\ op[t] = "read"
      <4>1. UNCHANGED <<pending, state>> /\ owner' = NoThread
        BY <3>1 DEF SerialUnsupported, backendVars
      <4>2. pending' = FALSE
        BY <2>2, <2>3, <3>1, <4>1
      <4> QED BY <2>4, <4>1, <4>2
    <3>2. CASE (SerialUnsupported(t) /\ op[t] # "read") \/ VisaUnsupported(t)
      BY <1>s, <3>2 DEF SerialUnsupported, VisaUnsupported, backendVars
    <3>3. CASE UdpOversize(t) \/ DrainFailed(t) \/ SerialFlushFailed(t) \/ ControlFailed(t)
      BY <1>s, <3>3 DEF UdpOversize, DrainFailed, SerialFlushFailed, ControlFailed, backendVars
    <3>4. CASE UdpFlushOutput(t) \/ RefuseControl(t) \/ ControlUnsupported(t)
      <4>1. UNCHANGED pending /\ pc[t] = "run" /\ owner' = NoThread /\ UNCHANGED state
        BY <3>4 DEF UdpFlushOutput, RefuseControl, ControlUnsupported, backendVars
      <4> QED BY <2>4, <4>1
    <3> QED BY <2>8, <3>1, <3>2, <3>3, <3>4 DEF Refuses
  <2>9. CASE SendBegins(t) \/ ReadFailed(t)
    BY <1>s, <2>9 DEF SendBegins, SendBegin, ReadFailed
  <2>10. CASE SendEnds(t)
    <3>1. /\ pc[t] = "send" /\ state = "OPEN" /\ op[t] \in {"write", "transact"}
          /\ UNCHANGED state /\ pending = FALSE
      BY <2>2, <2>3, <2>10 DEF SendEnds, SendDone, SendFailed, PlaceOK
    <3>2. CASE op[t] = "write"
      <4>1. pending' = FALSE /\ owner' \in {owner, NoThread}
        BY <2>10, <3>2 DEF SendEnds, SendDone, SendFailed
      <4> QED BY <1>s, <2>4, <3>1, <4>1
    <3>3. CASE op[t] = "transact"
      <4>1. pending' = TRUE /\ owner' = owner
        BY <2>10, <3>3 DEF SendEnds, SendDone, SendFailed
      <4> QED BY <2>5, <3>1, <4>1
    <3> QED BY <3>1, <3>2, <3>3
  <2>11. CASE UdpReads(t)
    <3>1. CASE UdpFlush(t) \/ Drain(t) \/ UdpSkip(t)
      BY <1>s, <3>1 DEF UdpFlush, Drain, UdpSkip, machineVars, backendVars
    <3>2. CASE DrainDone(t)
      <4>1. UNCHANGED <<pending, state>> /\ pc[t] = "drain" /\ owner' \in {owner, NoThread}
        BY <3>2 DEF DrainDone, backendVars
      <4> QED BY <1>s, <2>4, <4>1
    <3>3. CASE UdpRead(t)
      BY <2>4, <3>3 DEF UdpRead, Return
    <3> QED BY <2>11, <3>1, <3>2, <3>3 DEF UdpReads
  <2>12. CASE SerialReads(t)
    <3>1. CASE SerialFlush(t)
      BY <2>4, <3>1 DEF SerialFlush
    <3>2. CASE SerialReceive(t)
      BY <1>s, <3>2 DEF SerialReceive, machineVars
    <3>3. CASE SerialReturn(t)
      BY <2>4, <3>3 DEF SerialReturn, Return
    <3> QED BY <2>12, <3>1, <3>2, <3>3 DEF SerialReads
  <2>13. CASE VisaReads(t)
    <3>1. CASE VisaFlush(t) \/ Control(t)
      BY <2>4, <3>1 DEF VisaFlush, Control
    <3>2. CASE VisaReceive(t) \/ VisaExtend(t)
      BY <1>s, <3>2 DEF VisaReceive, VisaExtend, machineVars
    <3>3. CASE VisaReturnMessage(t) \/ \E n \in 1..Len(buffer) : VisaReturn(t, n)
      BY <2>4, <3>3 DEF VisaReturnMessage, VisaReturn, Return
    <3> QED BY <2>13, <3>1, <3>2, <3>3 DEF VisaReads
  <2> QED BY <1>0, <1>2, <2>6, <2>7, <2>8, <2>9, <2>10, <2>11, <2>12, <2>13, StepCases
<1>3. ASSUME NEW t \in Threads, NEW o \in BackendOperations,
             Called(t, o) PROVE [Contract!Next]_(Contract!vars)
  BY <1>0, <1>3, <1>s, CallFacts
<1>4. ASSUME UNCHANGED <<machineVars, pending>> PROVE [Contract!Next]_(Contract!vars)
  BY <1>4, <1>s DEF machineVars
<1> QED BY <1>1, <1>2, <1>3, <1>4, OutsideFacts DEF Next, Finished, vars, backendVars

------------------------------------------------------------------------------
\* Where the replies are.

DataOK == PartOK /\ BufferOK /\ KnownOK /\ StepOK /\ (backend = "visa" => WireOK)

\* The same, seen from the one thread that may be inside its operation.
PartHere(t) == (pc[t] # "recv" => part = <<>>) /\ PartShape

BufferHere(t) ==
  /\ backend # "visa" \/ state \notin {"OPEN", "CLOSING"} => buffer = <<>>
  /\ state = "CLOSING" => pc[t] = "closing"
  /\ Kept \/ pc[t] = "fault" \/ (pc[t] = "recv" /\ Gathered)

StepHere(t) ==
  /\ backend = "visa" /\ Queries(t) => OnlyOnBus(t)
  /\ backend # "visa" /\ framed /\ validateSource /\ state = "OPEN" =>
       /\ Queries(t) /\ backend = "serial" => LastOnLine(t)
       /\ Queries(t) /\ backend # "serial" => OnceInAir(t)
       /\ pc[t] # "fault" /\ ~Queries(t) => Earlier

Here(t) ==
  /\ PartHere(t) /\ BufferHere(t) /\ KnownOK /\ StepHere(t)
  /\ backend = "visa" => WireOK

\* When every other thread is outside, the two are the same: before a step ...
LEMMA SoloNow ==
  ASSUME NEW t \in Threads, DataOK, \A u \in Threads \ {t} : pc[u] \in {"idle", "acquire"}
  PROVE  Here(t)
<1> USE DEF Reads, Queries
<1>1. PartHere(t)
  <2>1. pc[t] # "recv" => \A u \in Threads : ~Reads(u)
    OBVIOUS
  <2> QED BY <2>1 DEF DataOK, PartOK, PartHere
<1>2. BufferHere(t)
  BY DEF DataOK, BufferOK, BufferHere
<1>3. StepHere(t)
  <2>1. pc[t] # "fault" /\ ~Queries(t) => \A u \in Threads : pc[u] # "fault" /\ ~Queries(u)
    OBVIOUS
  <2> QED BY <2>1 DEF DataOK, StepOK, StepHere
<1> QED BY <1>1, <1>2, <1>3 DEF DataOK, Here

\* ... and after it.
LEMMA SoloThen ==
  ASSUME NEW t \in Threads, Here(t)', \A u \in Threads \ {t} : pc'[u] \in {"idle", "acquire"}
  PROVE  DataOK'
<1> USE DEF Reads, Queries
<1>1. PartOK'
  BY DEF Here, PartOK, PartHere
<1>2. BufferOK'
  BY DEF Here, BufferOK, BufferHere
<1>3. StepOK'
  BY DEF Here, StepOK, StepHere
<1> QED BY <1>1, <1>2, <1>3 DEF DataOK, Here

\* What the elements of the sequences are.
LEMMA Elements ==
  ASSUME TypeOK
  PROVE  /\ \A i \in 1..Len(inbox) : inbox[i] \in Requested /\ inbox[i].req \in Nat \ {0} /\ inbox[i].port \in Nat \ {0}
         /\ \A i \in 1..Len(wire) : wire[i] \in Byte /\ wire[i].req \in Nat \ {0} /\ wire[i].more \in Nat /\ wire[i].at \in Nat
         /\ \A i \in 1..Len(part) : part[i] \in Byte /\ part[i].req \in Nat \ {0} /\ part[i].more \in Nat /\ part[i].at \in Nat
         /\ \A i \in 1..Len(buffer) : /\ buffer[i] \in Byte /\ buffer[i].req \in Nat \ {0}
                                      /\ buffer[i].more \in Nat /\ buffer[i].at \in Nat
         /\ \A i \in 1..Len(queue) : queue[i] \in Datagram /\ queue[i].req \in Nat /\ queue[i].size \in Nat \ {0}
         /\ \A d \in air : d \in Datagram /\ d.req \in Nat
<1>1. /\ inbox \in Seq(Requested) /\ wire \in Seq(Byte) /\ part \in Seq(Byte) /\ buffer \in Seq(Byte)
      /\ queue \in Seq(Datagram) /\ air \subseteq Datagram
  BY DEF TypeOK, Requested
<1>2. /\ \A i \in 1..Len(inbox) : inbox[i] \in Requested
      /\ \A i \in 1..Len(wire) : wire[i] \in Byte
      /\ \A i \in 1..Len(part) : part[i] \in Byte
      /\ \A i \in 1..Len(buffer) : buffer[i] \in Byte
      /\ \A i \in 1..Len(queue) : queue[i] \in Datagram
  BY <1>1
<1>3. \A r \in Requested : r.req \in Nat \ {0} /\ r.port \in Nat \ {0}
  BY DEF Requested
<1>4. \A b \in Byte : b.req \in Nat \ {0} /\ b.more \in Nat /\ b.at \in Nat
  BY DEF Byte
<1>5. \A d \in Datagram : d.req \in Nat /\ d.size \in Nat \ {0}
  BY DEF Datagram
<1> QED BY <1>1, <1>2, <1>3, <1>4, <1>5

\* A read that has gathered nothing.
LEMMA NothingGathered ==
  ASSUME TypeOK', part' = <<>>, NEW t \in Threads
  PROVE  PartHere(t)'
  BY BackendAssumption DEF PartHere, PartShape

\* Steps that leave what is on its way alone.
Still ==
  UNCHANGED <<backend, base, framed, inbox, wire, part, buffer, resource, opened, validateSource, fixedPort, messageBased,
              air, queue>>

\* Such a step keeps what is said of the replies, if the thread stops nothing and starts no read.
LEMMA CalmOK ==
  ASSUME TypeOK, TypeOK', NEW t \in Threads, Here(t), Still,
         op'[t] = op[t], requests' >= requests, pc[t] \notin {"fault", "closing"},
         state' = "OPEN" => state = "OPEN",
         state' = "CLOSING" => pc'[t] = "closing",
         buffer = <<>> \/ (backend = "visa" /\ state' \in {"OPEN", "CLOSING"}),
         \/ pc'[t] = pc[t] /\ UNCHANGED <<mode, asked>>
         \/ pc[t] # "recv" /\ (pc'[t] # "recv" \/ op[t] # "transact")
         \/ pc[t] = "recv" /\ pc'[t] = "fault" /\ part = <<>>
         \/ pc[t] = "recv" /\ pc'[t] = "idle" /\ op[t] # "transact" /\ part = <<>> /\ buffer = <<>>
  PROVE  Here(t)'
<1>1. PartHere(t)'
  <2>1. CASE part = <<>>
    BY <2>1, NothingGathered DEF Still
  <2>2. CASE part # <<>>
    <3>1. pc'[t] = pc[t] /\ UNCHANGED mode
      BY <2>2 DEF Here, PartHere
    <3> QED BY <3>1 DEF Here, PartHere, PartShape, Still, Chain
  <2> QED BY <2>1, <2>2
<1>2. BufferHere(t)'
  <2>1. ASSUME Kept PROVE Kept'
    BY <2>1 DEF Kept, Still
  <2>2. ASSUME buffer = <<>> PROVE Kept'
    BY <2>2 DEF Kept, Still
  <2>3. ASSUME Gathered, UNCHANGED mode PROVE Gathered'
    <3>1. mode \in {"line", "exact", "upTo", "available", "message"}
      BY DEF TypeOK, Modes
    <3> QED BY <2>3, <3>1 DEF Gathered, Still, Chain, VisaLimit
  <2>4. Kept' \/ pc'[t] = "fault" \/ (pc'[t] = "recv" /\ Gathered')
    BY <2>1, <2>2, <2>3 DEF Here, BufferHere
  <2> QED BY <2>4 DEF Here, BufferHere, Still
<1>3. KnownOK'
  <2>1. KnownOK /\ requests \in Nat /\ requests' \in Nat
    BY DEF Here, TypeOK
  <2>2. \A i \in 1..Len(inbox) : inbox'[i].req <= requests' /\ inbox'[i].port <= opened'
    <3>1. \A i \in 1..Len(inbox) : inbox[i].req \in Nat
      BY Elements
    <3> QED BY <2>1, <3>1 DEF KnownOK, Still
  <2>3. \A i \in 1..Len(wire) : wire'[i].req <= requests'
    <3>1. \A i \in 1..Len(wire) : wire[i].req \in Nat
      BY Elements
    <3> QED BY <2>1, <3>1 DEF KnownOK, Still
  <2>4. \A d \in air : d.req \in 1..requests'
    BY <2>1 DEF KnownOK, Still
  <2>5. \A i \in 1..Len(queue) : queue'[i].req <= requests'
    <3>1. \A i \in 1..Len(queue) : queue[i].req \in Nat
      BY Elements
    <3> QED BY <2>1, <3>1 DEF KnownOK, Still
  <2> QED BY <2>1, <2>2, <2>3, <2>4, <2>5 DEF KnownOK, Still
<1>4. StepHere(t)'
  <2> USE DEF Queries, Reads, Still
  <2>1. ASSUME Queries(t)' PROVE Queries(t) /\ UNCHANGED asked
    BY <2>1
  <2>2. ASSUME Queries(t)', OnlyOnBus(t) PROVE OnlyOnBus(t)'
    BY <2>1, <2>2 DEF OnlyOnBus
  <2>3. ASSUME Queries(t)', LastOnLine(t) PROVE LastOnLine(t)'
    BY <2>1, <2>3 DEF LastOnLine
  <2>4. ASSUME Queries(t)', OnceInAir(t) PROVE OnceInAir(t)'
    BY <2>1, <2>4 DEF OnceInAir
  <2>5. ASSUME Earlier PROVE Earlier'
    BY <2>5 DEF Earlier
  <2>6. pc'[t] # "fault" /\ ~Queries(t)' => pc[t] # "fault" /\ ~Queries(t)
    OBVIOUS
  <2> QED BY <2>1, <2>2, <2>3, <2>4, <2>5, <2>6 DEF Here, StepHere
<1>5. backend' = "visa" => WireOK'
  BY DEF Here, WireOK, Still
<1> QED BY <1>1, <1>2, <1>3, <1>4, <1>5 DEF Here

\* An operation that ends, opens or begins to read.
LEMMA CommonHere ==
  ASSUME BackendsInv, TypeOK', NEW t \in Threads, Inside(t), Here(t), CommonStep(t), CommonFrame
  PROVE  Here(t)'
<1>0. TypeOK /\ PlaceOK(t) /\ ResourceMatchesState
  BY DEF BackendsInv
<1>1. buffer = <<>> \/ (backend = "visa" /\ state \in {"OPEN", "CLOSING"})
  BY DEF Here, BufferHere
<1>2. state = "CLOSING" => pc[t] = "closing"
  BY DEF Here, BufferHere
<1>3. ASSUME UNCHANGED resource PROVE UNCHANGED <<queue, air, validateSource, fixedPort, messageBased>>
  BY <1>3 DEF CommonFrame
<1>4. pc[t] # "recv" => part = <<>>
  BY DEF Here, PartHere
<1> USE <1>0 DEF TypeOK, Leave, Raise, Goto, Running
<1>5. ASSUME UNCHANGED <<resource, opened, op, backend, base, framed, inbox, wire, part, buffer, requests>>,
             pc[t] \in {"run", "connect"}, state' \in {state, "CLOSING", "FAULTED"}, pc'[t] # "recv" \/ op[t] # "transact",
             state' = "CLOSING" /\ state # "CLOSING" => pc'[t] = "closing",
             state' = "FAULTED" /\ state # "FAULTED" => state = "OPENING"
      PROVE  Here(t)'
  <2>1. Still
    BY <1>3, <1>5 DEF Still
  <2>2. buffer = <<>> \/ (backend = "visa" /\ state' \in {"OPEN", "CLOSING"})
    BY <1>1, <1>2, <1>5
  <2>3. state' = "CLOSING" => pc'[t] = "closing"
    BY <1>2, <1>5
  <2> HIDE DEF TypeOK
  <2>4. requests' >= requests
    BY <1>5 DEF TypeOK
  <2> QED BY <1>5, <2>1, <2>2, <2>3, <2>4, CalmOK
<1>6. CASE \/ CloseIdle(t) \/ CloseBegin(t) \/ InvalidateIdle(t) \/ InvalidateOpen(t) \/ RefuseIO(t) \/ RefuseTransact(t)
  <2>1. UNCHANGED backendVars
    BY <1>6 DEF CommonStep, Lifecycle, CloseIdle, InvalidateIdle, RefuseIO, Acquire, CloseBegin,
       InvalidateOpen,
       RefuseTransact, CloseEnd, Fault, OpenAlready, OpenUnavailable, OpenBegin, OpenFailed,
       OpenInterrupted, ReadBegin, Tick
  <2> QED BY <1>5, <1>6, <2>1 DEF CloseIdle, CloseBegin, InvalidateIdle, InvalidateOpen,
     RefuseIO, RefuseTransact,
         backendVars, lineVars, exchangeVars
<1>7. CASE OpenAlready(t) \/ OpenUnavailable(t) \/ OpenFailed(t) \/ OpenInterrupted(t)
  BY <1>5, <1>7 DEF OpenAlready, OpenUnavailable, OpenFailed, OpenInterrupted, PlaceOK,
     backendVars, lineVars, exchangeVars
<1>8. CASE ReadBegin(t)
  BY <1>5, <1>8 DEF ReadBegin, lineVars
<1>9. CASE Tick(t)
  <2>1. Still /\ UNCHANGED <<pc, op, state, mode, asked, requests>>
    BY <1>3, <1>9 DEF Still, Tick, machineVars, lineVars
  <2>2. pc[t] \in {"send", "recv"}
    BY <1>9 DEF Tick
  <2>3. buffer = <<>> \/ (backend = "visa" /\ state' \in {"OPEN", "CLOSING"})
    BY <1>1, <2>1
  <2> HIDE DEF TypeOK
  <2>4. requests' >= requests
    BY <2>1 DEF TypeOK
  <2> QED BY <1>2, <2>1, <2>2, <2>3, <2>4, CalmOK
<1>10. CASE OpenBegin(t)
  <2>1. /\ resource = NoResource /\ state' = "OPENING" /\ pc[t] = "run" /\ pc'[t] = "connect"
        /\ buffer = <<>>
    BY <1>1, <1>2, <1>10 DEF OpenBegin, ResourceMatchesState, TransportStates
  <2>2. Still /\ UNCHANGED <<op, requests>>
    BY <1>3, <1>10, <2>1 DEF Still, OpenBegin, ReleaseResource, exchangeVars
  <2> HIDE DEF TypeOK
  <2>3. requests' >= requests
    BY <2>2 DEF TypeOK
  <2> QED BY <2>1, <2>2, <2>3, CalmOK
<1>11. CASE CloseEnd(t) \/ Fault(t)
  <2>1. Released /\ UNCHANGED <<backend, base, framed, requests>>
    BY <1>11 DEF CommonStep, Lifecycle, CloseIdle, InvalidateIdle, RefuseIO, Acquire, CloseBegin,
       InvalidateOpen,
       RefuseTransact, CloseEnd, Fault, OpenAlready, OpenUnavailable, OpenBegin, OpenFailed,
       OpenInterrupted, ReadBegin, Tick,
       exchangeVars
  <2>2. /\ resource' = NoResource /\ state' \in {"CLOSED", "FAULTED"} /\ pc'[t] = "idle"
        /\ UNCHANGED opened
    BY <1>11 DEF CloseEnd, Fault, ReleaseResource
  <2>3. part' = <<>> /\ buffer' = <<>> /\ UNCHANGED inbox /\ wire' \in {wire, <<>>}
    BY <2>1 DEF Released
  <2>4. KnownOK'
    <3>0. KnownOK
      BY DEF Here
    <3>1. UNCHANGED <<fixedPort, validateSource>>
      BY DEF CommonFrame
    <3>2. queue' = <<>>
      BY <2>1, <2>2, <3>0 DEF CommonFrame, KnownOK
    <3>3. air' \subseteq air /\ (backend # "udp" \/ ~fixedPort => air' = {})
      BY <2>1, <2>2, <3>0 DEF CommonFrame, KnownOK
    <3>4. \A i \in 1..Len(inbox) : inbox[i].port # NoResource
      BY Elements DEF NoResource
    <3>5. \A i \in 1..Len(wire') : wire'[i].req <= requests
      BY <2>3, <3>0 DEF KnownOK
    <3>6. \A i \in 1..Len(inbox') : inbox'[i].req <= requests' /\ inbox'[i].port <= opened'
      BY <2>1, <2>2, <2>3, <3>0 DEF KnownOK
    <3>7. backend = "udp" => wire' = <<>>
      BY <2>3, <3>0 DEF KnownOK
    <3>8. \A d \in air' : d.req \in 1..requests'
      BY <2>1, <3>0, <3>3 DEF KnownOK
    <3>9. \A i \in 1..Len(queue') : FALSE
      BY <3>2
    <3>10. \A i \in 1..Len(inbox') : inbox'[i].port # resource'
      BY <2>2, <2>3, <3>4
    <3>11. backend = "udp" /\ ~fixedPort => air' = {}
      BY <3>3
    <3>12. backend # "udp" => air' = {}
      BY <3>3
    <3> HIDE DEF TypeOK
    <3>13. \A i \in 1..Len(wire') : wire'[i].req <= requests'
      BY <2>1, <3>5
    <3> QED BY <2>1, <2>3, <3>1, <3>2, <3>6, <3>7, <3>8, <3>9, <3>10, <3>11, <3>12, <3>13, Zenon
       DEF KnownOK
  <2>5. BufferHere(t)'
    BY <2>2, <2>3 DEF BufferHere, Kept
  <2>6. StepHere(t)'
    BY <2>2 DEF StepHere, Queries, Reads
  <2>7. backend' = "visa" => WireOK'
    BY <2>1 DEF Here, WireOK, Released
  <2> HIDE DEF TypeOK
  <2> QED BY <2>3, <2>4, <2>5, <2>6, <2>7, NothingGathered DEF Here
<1> QED BY <1>6, <1>7, <1>8, <1>9, <1>10, <1>11 DEF CommonStep, Lifecycle, Inside, Acquire

\* A resource is opened: nothing on its way was asked through it.
LEMMA OpenedHere ==
  ASSUME BackendsInv, TypeOK', NEW t \in Threads, Here(t), OpenedStep(t)
  PROVE  Here(t)'
<1>0. TypeOK /\ PlaceOK(t) /\ ResourceMatchesState /\ KnownOK
  BY DEF BackendsInv
<1>1. pc[t] = "connect" /\ state = "OPENING" /\ resource = NoResource
  BY <1>0 DEF OpenedStep, Opened, PlaceOK, ResourceMatchesState
<1>2. /\ resource' = opened + 1 /\ opened' = opened + 1 /\ state' = "OPEN" /\ base' = requests /\ pc'[t] = "idle"
      /\ UNCHANGED <<backend, inbox, wire, part, buffer, requests, fixedPort, validateSource, air, queue, messageBased>>
  BY <1>0, <1>1 DEF OpenedStep, Opened, Leave, Goto, lineVars, TypeOK
<1>3. part = <<>> /\ buffer = <<>> /\ queue = <<>>
  BY <1>0, <1>1 DEF Here, PartHere, BufferHere, KnownOK
<1>4. \A i \in 1..Len(inbox) : inbox[i].port # opened + 1 /\ inbox[i].port <= opened + 1 /\ inbox[i].req <= requests
  <2>1. \A i \in 1..Len(inbox) : inbox[i].port <= opened /\ inbox[i].port \in Nat /\ inbox[i].req <= requests
    BY <1>0, Elements DEF KnownOK
  <2>2. opened \in Nat
    BY <1>0 DEF TypeOK
  <2> QED BY <2>1, <2>2
<1>5. opened + 1 # NoResource
  BY <1>0 DEF TypeOK, NoResource
<1>6. KnownOK'
  <2>1. backend = "udp" /\ ~fixedPort => air = {}
    BY <1>0, <1>1 DEF KnownOK
  <2> QED BY <1>0, <1>2, <1>3, <1>4, <1>5, <2>1 DEF KnownOK
<1>7. StepHere(t)'
  <2>1. Earlier'
    <3>1. \A d \in air : d.req <= requests
      <4>1. requests \in Nat /\ \A d \in air : d.req \in 1..requests
        BY <1>0 DEF KnownOK, TypeOK
      <4> QED BY <4>1
    <3> QED BY <1>0, <1>2, <1>3, <1>4, <3>1 DEF KnownOK, Earlier
  <2> QED BY <1>2, <2>1 DEF StepHere, Queries, Reads
<1>8. BufferHere(t)'
  BY <1>2, <1>3 DEF BufferHere, Kept
<1>9. backend' = "visa" => WireOK'
  BY <1>2 DEF Here, WireOK
<1> QED BY <1>2, <1>3, <1>6, <1>7, <1>8, <1>9, NothingGathered DEF Here

\* Steps on the open transport that leave what is on its way alone.
LEMMA OpenCalm ==
  ASSUME BackendsInv, TypeOK', NEW t \in Threads, Here(t), Still, UNCHANGED <<state, op>>,
         requests' >= requests,
         pc[t] \notin {"fault", "closing"},
         \/ pc'[t] = pc[t] /\ UNCHANGED <<mode, asked>>
         \/ pc[t] # "recv" /\ (pc'[t] # "recv" \/ op[t] # "transact")
         \/ pc[t] = "recv" /\ pc'[t] = "fault" /\ part = <<>>
         \/ pc[t] = "recv" /\ pc'[t] = "idle" /\ op[t] # "transact" /\ part = <<>> /\ buffer = <<>>
  PROVE  Here(t)'
<1>1. buffer = <<>> \/ (backend = "visa" /\ state' \in {"OPEN", "CLOSING"})
  BY DEF Here, BufferHere
<1>2. state' = "CLOSING" => pc'[t] = "closing"
  BY DEF Here, BufferHere
<1>3. TypeOK
  BY DEF BackendsInv
<1> QED BY <1>1, <1>2, <1>3, CalmOK

\* Refusals, and the beginning of an exchange.
LEMMA RefusesHere ==
  ASSUME BackendsInv, TypeOK', NEW t \in Threads, Inside(t), Here(t), Refuses(t)
  PROVE  Here(t)'
<1>0. TypeOK
  BY DEF BackendsInv
<1>1. Still /\ UNCHANGED <<state, op, mode, asked, requests>>
  BY DEF Refuses, UdpOversize, UdpFlushOutput, DrainFailed, SerialUnsupported, SerialFlushFailed,
     VisaUnsupported,
     RefuseControl, ControlUnsupported, ControlFailed, Still, backendVars, lineVars,
     exchangeVars, udpVars
<1>2. requests' >= requests
  BY <1>0, <1>1 DEF TypeOK
<1>3. CASE SerialUnsupported(t) /\ backend = "serial"
  <2>1. mode = "message" /\ pc[t] = "recv"
    BY <1>3 DEF SerialUnsupported
  <2>2. part = <<>> /\ buffer = <<>>
    BY <1>3, <2>1 DEF Here, PartHere, PartShape, BufferHere
  <2>3. CASE op[t] = "read"
    <3>1. pc'[t] = "idle"
      BY <1>0, <1>3, <2>3 DEF SerialUnsupported, Leave, Goto, TypeOK
    <3> QED BY <1>1, <1>2, <2>1, <2>2, <2>3, <3>1, OpenCalm
  <2>4. CASE op[t] # "read"
    <3>1. pc'[t] = "fault"
      BY <1>0, <1>3, <2>4 DEF SerialUnsupported, Raise, Goto, TypeOK
    <3> QED BY <1>1, <1>2, <2>1, <2>2, <3>1, OpenCalm
  <2> QED BY <2>3, <2>4
<1>4. CASE VisaUnsupported(t) /\ backend = "visa"
  <2>1. mode = "message" /\ pc[t] = "recv" /\ ~messageBased /\ pc'[t] = "fault"
    BY <1>0, <1>4 DEF VisaUnsupported, Raise, Goto, TypeOK
  <2>2. part = <<>>
    BY <2>1 DEF Here, PartHere, PartShape
  <2> QED BY <1>1, <1>2, <2>1, <2>2, OpenCalm
<1>5. CASE UdpFlushOutput(t) \/ DrainFailed(t) \/ SerialFlushFailed(t) \/ RefuseControl(t) \/ ControlUnsupported(t)
           \/ ControlFailed(t)
  <2>1. pc[t] \in {"run", "drain"} /\ pc'[t] \in {"idle", "fault"}
    BY <1>0, <1>5 DEF UdpFlushOutput, DrainFailed, SerialFlushFailed, RefuseControl,
       ControlUnsupported, ControlFailed,
       Running, Leave, Raise, Goto, TypeOK
  <2> QED BY <1>1, <1>2, <2>1, OpenCalm
<1> QED BY <1>3, <1>4, <1>5 DEF Refuses, UdpOversize, Inside

\* A write or a query begins.
LEMMA SendBeginsHere ==
  ASSUME BackendsInv, TypeOK', NEW t \in Threads, Here(t), SendBegins(t)
  PROVE  Here(t)'
<1>0. TypeOK
  BY DEF BackendsInv
<1>1. Still /\ UNCHANGED <<state, op>>
  BY DEF SendBegins, SendBegin, Still, lineVars
<1>2. requests' >= requests
  <2>1. requests \in Nat
    BY <1>0 DEF TypeOK
  <2>2. requests' = requests \/ requests' = requests + 1
    BY DEF SendBegins, SendBegin
  <2> QED BY <2>1, <2>2
<1>3. pc[t] = "run" /\ pc'[t] \in {"send", "drain"}
  BY <1>0 DEF SendBegins, SendBegin, Goto, TypeOK
<1> QED BY <1>1, <1>2, <1>3, OpenCalm

\* What a read has gathered when it fails is dropped.
LEMMA ReadFailedHere ==
  ASSUME BackendsInv, TypeOK', NEW t \in Threads, Here(t), ReadFailed(t),
         UNCHANGED <<udpVars, messageBased>>
  PROVE  Here(t)'
<1>0. TypeOK
  BY DEF BackendsInv
<1>1. /\ pc[t] = "recv" /\ pc'[t] = "fault" /\ part' = <<>>
      /\ UNCHANGED <<state, resource, opened, backend, base, inbox, wire, buffer, requests, framed, fixedPort, validateSource,
                     air, queue>>
  BY <1>0 DEF ReadFailed, Raise, Goto, TypeOK, exchangeVars, udpVars
<1>2. BufferHere(t)'
  BY <1>1 DEF Here, BufferHere
<1>3. KnownOK'
  BY <1>1 DEF Here, KnownOK
<1>4. StepHere(t)'
  BY <1>1 DEF StepHere, Queries, Reads
<1>5. backend' = "visa" => WireOK'
  BY <1>1 DEF Here, WireOK
<1> QED BY <1>1, <1>2, <1>3, <1>4, <1>5, NothingGathered DEF Here

\* The request leaves, or may have left: it is the newest, and on the bus the only one.
LEMMA SendEndsHere ==
  ASSUME BackendsInv, TypeOK', NEW t \in Threads, Here(t), SendEnds(t)
  PROVE  Here(t)'
<1>0. TypeOK /\ PlaceOK(t) /\ ResourceMatchesState /\ KnownOK
  BY DEF BackendsInv
<1>1. /\ pc[t] = "send" /\ state = "OPEN" /\ op[t] \in {"write", "transact"}
      /\ pc'[t] \in {"idle", "recv", "fault"} /\ (op[t] = "write" => pc'[t] # "recv")
      /\ (backend = "visa" /\ pc'[t] # "fault" => inbox' = Interrupts(t) /\ wire' = <<>>)
      /\ UNCHANGED <<state, resource, opened, op, backend, base, part, buffer, requests, framed, asked, mode, fixedPort,
                     validateSource, air, queue, messageBased>>
  BY <1>0 DEF SendEnds, SendDone, SendFailed, Leave, Raise, Goto, TypeOK, PlaceOK, exchangeVars,
     udpVars
<1>2. part = <<>> /\ Kept
  BY <1>1 DEF Here, PartHere, BufferHere
<1>3. op[t] = "transact" => asked[t] = requests /\ requests > base
  BY <1>0, <1>1 DEF PlaceOK
<1>4. resource \in 1..opened
  BY <1>0, <1>1 DEF ResourceMatchesState, TypeOK
<1>5. /\ Request(t).req = asked[t] /\ Request(t).port = resource
      /\ (op[t] = "transact" => Request(t) \in Requested)
  <2>1. Request(t).req = asked[t] /\ Request(t).port = resource
    BY DEF Request
  <2>2. op[t] = "transact" => asked[t] \in Nat \ {0}
    BY <1>0, <1>3 DEF TypeOK
  <2>3. resource \in Nat \ {0}
    BY <1>0, <1>4 DEF TypeOK
  <2> QED BY <2>1, <2>2, <2>3 DEF Request, Requested
<1>6. inbox \in Seq(Requested)
  BY <1>0 DEF TypeOK, Requested
<1>7. BufferHere(t)'
  <2>1. Kept'
    BY <1>1, <1>2 DEF Kept
  <2> QED BY <1>1, <2>1 DEF Here, BufferHere
<1>8. backend' = "visa" => WireOK'
  <2>1. backend = "visa" => wire' \in {wire, <<>>}
    BY DEF SendEnds
  <2> QED BY <1>1, <2>1 DEF Here, WireOK
\* The instrument's requests afterwards.
<1>9. CASE UNCHANGED <<inbox, wire>> /\ (backend = "visa" => pc'[t] # "recv")
  <2>1. KnownOK'
    BY <1>0, <1>1, <1>9 DEF KnownOK
  <2>2. StepHere(t)'
    <3>1. Earlier => Earlier'
      BY <1>1, <1>9 DEF Earlier
    <3>2. Earlier => LastOnLine(t)' /\ OnceInAir(t)'
      BY <1>1, <1>9 DEF Earlier, LastOnLine, OnceInAir
    <3> QED BY <1>1, <1>9, <3>1, <3>2 DEF Here, StepHere, Queries, Reads
  <2> QED BY <1>1, <1>2, <1>7, <1>8, <2>1, <2>2, NothingGathered DEF Here
<1>10. CASE backend # "visa" /\ op[t] = "transact" /\ inbox' = Append(inbox, Request(t)) /\ UNCHANGED wire
  <2>1. /\ Len(inbox') = Len(inbox) + 1 /\ Len(inbox) \in Nat
        /\ \A i \in 1..Len(inbox) : inbox'[i] = inbox[i]
        /\ inbox'[Len(inbox) + 1] = Request(t)
    BY <1>5, <1>6, <1>10, AppendFacts
  <2>2. \A i \in 1..Len(inbox') : (i \in 1..Len(inbox) /\ inbox'[i] = inbox[i]) \/ (i = Len(inbox') /\ inbox'[i] = Request(t))
    BY <2>1
  <2>3. /\ requests \in Nat /\ opened \in Nat /\ base \in Nat /\ asked[t] = requests
        /\ requests > base
    BY <1>0, <1>3, <1>10 DEF TypeOK
  <2>4. KnownOK'
    <3>1. \A i \in 1..Len(inbox') : inbox'[i].req <= requests /\ inbox'[i].port <= opened
      BY <1>0, <1>4, <1>5, <2>2, <2>3 DEF KnownOK
    <3>2. backend = "udp" /\ ~fixedPort => \A i \in 1..Len(inbox') : inbox'[i].port = resource => inbox'[i].req > base
      BY <1>0, <1>5, <2>2, <2>3 DEF KnownOK
    <3> QED BY <1>0, <1>1, <1>2, <1>10, <3>1, <3>2 DEF KnownOK
  <2>5. StepHere(t)'
    <3>0. CASE ~(framed /\ validateSource)
      BY <1>1, <1>10, <3>0 DEF StepHere
    <3>1. CASE framed /\ validateSource
      <4>1. Earlier
        BY <1>1, <1>10, <3>1 DEF Here, StepHere, Queries, Reads
      <4>2. \A i \in 1..Len(inbox') : inbox'[i].req <= base \/ (inbox'[i].req = asked[t] /\ i = Len(inbox'))
        BY <1>5, <2>2, <4>1 DEF Earlier
      <4>3. LastOnLine(t)'
        BY <1>1, <1>10, <4>1, <4>2 DEF Earlier, LastOnLine
      <4>4. OnceInAir(t)'
        BY <1>1, <1>10, <4>1, <4>2 DEF Earlier, OnceInAir
      <4>5. pc'[t] # "fault" => Queries(t)'
        BY <1>0, <1>1, <1>10 DEF Queries, Reads, SendEnds, SendDone, SendFailed, Raise, Leave,
           Goto, TypeOK
      <4> QED BY <1>1, <1>10, <4>3, <4>4, <4>5 DEF StepHere
    <3> QED BY <3>0, <3>1
  <2> QED BY <1>1, <1>2, <1>7, <1>8, <2>4, <2>5, NothingGathered DEF Here
<1>11. CASE backend = "visa" /\ inbox' = Interrupts(t) /\ wire' \in {wire, <<>>} /\ (pc'[t] # "fault" => wire' = <<>>)
  <2>1. \A i \in 1..Len(inbox') : op[t] = "transact" /\ inbox'[i] = Request(t)
    <3>1. CASE op[t] = "write"
      BY <1>11, <3>1 DEF Interrupts
    <3>2. CASE op[t] = "transact"
      BY <1>11, <3>2 DEF Interrupts
    <3> QED BY <1>1, <3>1, <3>2
  <2>2. KnownOK'
    <3>1. requests \in Nat /\ opened \in Nat
      BY <1>0 DEF TypeOK
    <3>2. \A i \in 1..Len(inbox') : inbox'[i].req <= requests /\ inbox'[i].port <= opened
      BY <1>3, <1>4, <1>5, <2>1, <3>1
    <3>3. \A i \in 1..Len(wire') : wire'[i].req <= requests
      BY <1>0, <1>11 DEF KnownOK
    <3> QED BY <1>0, <1>1, <1>11, <3>2, <3>3 DEF KnownOK
  <2>3. StepHere(t)'
    <3>1. pc'[t] # "fault" => OnlyOnBus(t)'
      <4>1. \A i \in 1..Len(inbox') : inbox'[i].req = asked[t]
        BY <1>5, <2>1
      <4>2. framed => buffer = <<>>
        BY <1>2 DEF Kept
      <4> QED BY <1>1, <1>2, <1>11, <4>1, <4>2 DEF OnlyOnBus
    <3> QED BY <1>1, <1>11, <3>1 DEF StepHere, Queries, Reads
  <2> QED BY <1>1, <1>2, <1>7, <1>8, <2>2, <2>3, NothingGathered DEF Here
<1>12. backend # "visa" => \/ UNCHANGED <<inbox, wire>>
                           \/ op[t] = "transact" /\ inbox' = Append(inbox, Request(t)) /\ UNCHANGED wire
  BY <1>0, <1>1 DEF SendEnds, SendDone, SendFailed, Leave, Raise, Goto, TypeOK
<1>13. backend = "visa" => \/ UNCHANGED <<inbox, wire>> /\ pc'[t] # "recv"
                           \/ inbox' = Interrupts(t) /\ wire' \in {wire, <<>>} /\ (pc'[t] # "fault" => wire' = <<>>)
  BY <1>0, <1>1 DEF SendEnds, SendDone, SendFailed, Leave, Raise, Goto, TypeOK
<1> QED BY <1>9, <1>10, <1>11, <1>12, <1>13

------------------------------------------------------------------------------
\* UDP.

\* Without the first of the queue, everything stays as it was.
LEMMA DroppedHere ==
  ASSUME BackendsInv, TypeOK', NEW t \in Threads, Here(t), backend = "udp", queue # <<>>,
         queue' = Tail(queue),
         UNCHANGED <<state, resource, opened, pc, op, mode, backend, base, requests, asked, framed, inbox, wire, part, buffer,
                     fixedPort, validateSource, air, messageBased>>
  PROVE  Here(t)'
<1>0. TypeOK /\ KnownOK
  BY DEF BackendsInv
<1>1. queue \in Seq(Datagram)
  BY <1>0 DEF TypeOK
<1>2. Len(queue') = Len(queue) - 1 /\ Len(queue) \in Nat /\ \A i \in 1..Len(queue') : queue'[i] = queue[i + 1]
  BY <1>1, TailFacts
<1>3. \A i \in 1..Len(queue') : i + 1 \in 1..Len(queue) /\ queue'[i] = queue[i + 1]
  BY <1>2
<1>4. KnownOK'
  <2>1. resource = NoResource => queue = <<>>
    BY <1>0 DEF KnownOK
  <2>2. resource # NoResource
    BY <2>1
  <2>3. \A i \in 1..Len(queue') : queue'[i].req <= requests
    BY <1>0, <1>3 DEF KnownOK
  <2>4. backend = "udp" /\ ~fixedPort => \A i \in 1..Len(queue') : queue'[i].req = 0 \/ queue'[i].req > base
    BY <1>0, <1>3 DEF KnownOK
  <2> QED BY <1>0, <2>2, <2>3, <2>4 DEF KnownOK
<1>5. StepHere(t)'
  <2>1. Earlier => Earlier'
    BY <1>3 DEF Earlier
  <2>2. ASSUME OnceInAir(t) PROVE OnceInAir(t)'
    <3>1. ASSUME NEW i \in 1..Len(queue'), queue'[i].req > base PROVE
            /\ queue'[i].req = asked[t]
            /\ \A j \in 1..Len(inbox) : inbox[j].req <= base
            /\ \A d \in air : d.req <= base
            /\ \A j \in 1..Len(queue') : queue'[j].req <= base \/ j = i
      <4>1. i + 1 \in 1..Len(queue) /\ ~(queue[i + 1].req <= base)
        <5>1. queue[i + 1].req \in Nat
          BY <1>0, <1>3, Elements
        <5>2. base \in Nat
          BY <1>0 DEF TypeOK
        <5> QED BY <1>3, <3>1, <5>1, <5>2
      <4>2. \A j \in 1..Len(queue) : queue[j].req <= base \/ j = i + 1
        BY <2>2, <4>1 DEF OnceInAir
      <4>3. \A j \in 1..Len(queue') : queue'[j].req <= base \/ j = i
        BY <1>3, <4>2
      <4> QED BY <1>3, <2>2, <4>1, <4>3 DEF OnceInAir
    <3>2. \A i \in 1..Len(queue') : queue'[i].req > base \/ queue'[i].req <= base
      <4>1. base \in Nat
        BY <1>0 DEF TypeOK
      <4>2. \A i \in 1..Len(queue') : queue'[i].req \in Nat
        BY <1>0, <1>3, Elements
      <4> QED BY <4>1, <4>2
    <3> QED BY <2>2, <3>1, <3>2 DEF OnceInAir
  <2> QED BY <2>1, <2>2 DEF Here, StepHere, Queries, Reads
<1>6. PartHere(t)' /\ BufferHere(t)'
  <2>1. part = <<>> /\ buffer = <<>>
    BY <1>0 DEF KnownOK, Here, BufferHere
  <2> QED BY <2>1, NothingGathered DEF Here, BufferHere, Kept
<1> QED BY <1>4, <1>5, <1>6 DEF Here

\* Draining, skipping and reading datagrams.
LEMMA UdpHere ==
  ASSUME BackendsInv, TypeOK', NEW t \in Threads, Inside(t), Here(t), UdpReads(t)
  PROVE  Here(t)'
<1>0. TypeOK /\ KnownOK /\ PlaceOK(t)
  BY DEF BackendsInv
<1>1. CASE UdpFlush(t) \/ DrainDone(t)
  <2>1. Still /\ UNCHANGED <<state, op, requests>>
    BY <1>1 DEF UdpReads, UdpFlush, DrainDone, Still, backendVars, lineVars, exchangeVars
  <2>2. pc[t] \in {"run", "drain"} /\ pc'[t] \in {"drain", "send", "idle"}
    BY <1>0, <1>1 DEF UdpFlush, DrainDone, Running, Leave, Goto, TypeOK
  <2>3. requests' >= requests
    BY <1>0, <2>1 DEF TypeOK
  <2> QED BY <2>1, <2>2, <2>3, OpenCalm
<1>2. CASE Drain(t) \/ UdpSkip(t)
  BY <1>2, DroppedHere DEF UdpReads, Drain, UdpSkip, machineVars, backendVars, lineVars,
     exchangeVars
<1>3. CASE UdpRead(t)
  <2> DEFINE d == Head(queue)
             bytes == Reply(d.req, d.size, d.size)
  <2>1. /\ pc[t] = "recv" /\ pc'[t] = "idle" /\ queue # <<>> /\ queue' = Tail(queue) /\ part' = <<>> /\ Return(t, bytes)
        /\ UNCHANGED <<state, resource, opened, op, backend, base, requests, asked, inbox, wire, buffer, fixedPort,
                       validateSource, air, messageBased>>
    BY <1>0, <1>3 DEF UdpReads, UdpRead, Return, Leave, Goto, TypeOK
  <2>2. state = "OPEN" /\ backend = "udp"
    BY <1>0, <2>1 DEF PlaceOK, UdpReads
  <2>3. /\ Len(queue') = Len(queue) - 1 /\ Len(queue) \in Nat \ {0}
        /\ \A i \in 1..Len(queue') : i + 1 \in 1..Len(queue) /\ queue'[i] = queue[i + 1]
        /\ 1 \in 1..Len(queue) /\ d = queue[1] /\ d \in Datagram
    <3>1. queue \in Seq(Datagram)
      BY <1>0 DEF TypeOK
    <3> QED BY <2>1, <3>1, TailFacts
  <2>4. d.req \in Nat /\ d.size \in Nat \ {0}
    BY <2>3 DEF Datagram
  <2>5. framed' => framed /\ d.req > base
    <3>1. framed' => framed /\ \A i \in 1..Len(bytes) : bytes[i].req > base
      BY <2>1 DEF Return
    <3>2. 1 \in 1..Len(bytes) /\ bytes[1].req = d.req
      BY <2>4 DEF Reply
    <3> QED BY <3>1, <3>2
  <2> HIDE DEF bytes, d
  <2>6. KnownOK'
    <3>1. resource # NoResource
      BY <1>0, <2>1, <2>2 DEF KnownOK
    <3>2. \A i \in 1..Len(queue') : queue'[i].req <= requests
      BY <1>0, <2>3 DEF KnownOK
    <3>3. backend = "udp" /\ ~fixedPort => \A i \in 1..Len(queue') : queue'[i].req = 0 \/ queue'[i].req > base
      BY <1>0, <2>3 DEF KnownOK
    <3> QED BY <1>0, <2>1, <2>2, <3>1, <3>2, <3>3 DEF KnownOK
  <2>7. StepHere(t)'
    <3> SUFFICES ASSUME framed', validateSource' PROVE Earlier'
      BY <2>1, <2>2 DEF StepHere, Queries, Reads
    <3>1. framed /\ validateSource /\ d.req > base /\ base \in Nat
      BY <1>0, <2>1, <2>5 DEF TypeOK
    <3>2. ~(queue[1].req <= base)
      BY <2>3, <2>4, <3>1
    <3>3. Queries(t)
      <4>1. ~Queries(t) => Earlier
        BY <2>1, <2>2, <3>1 DEF Here, StepHere
      <4> QED BY <2>3, <3>2, <4>1 DEF Earlier
    <3>4. OnceInAir(t)
      BY <2>2, <3>1, <3>3 DEF Here, StepHere
    <3>5. /\ \A j \in 1..Len(inbox) : inbox[j].req <= base
          /\ \A e \in air : e.req <= base
          /\ \A j \in 1..Len(queue) : queue[j].req <= base \/ j = 1
      BY <2>3, <3>2, <3>4 DEF OnceInAir
    <3>6. \A j \in 1..Len(queue') : queue'[j].req <= base
      BY <2>3, <3>5
    <3>7. wire = <<>>
      BY <1>0, <2>2 DEF KnownOK
    <3> QED BY <2>1, <3>5, <3>6, <3>7 DEF Earlier
  <2>8. BufferHere(t)'
    BY <2>1, <2>2 DEF Here, BufferHere, Kept
  <2> QED BY <2>1, <2>2, <2>6, <2>7, <2>8, NothingGathered DEF Here
<1> QED BY <1>1, <1>2, <1>3 DEF UdpReads

------------------------------------------------------------------------------
\* The serial line.

\* One more byte is consumed.
LEMMA SerialReceiveHere ==
  ASSUME BackendsInv, TypeOK', NEW t \in Threads, Here(t), backend = "serial", SerialReceive(t),
         UNCHANGED <<udpVars, messageBased>>
  PROVE  Here(t)'
<1>0. TypeOK /\ KnownOK /\ PlaceOK(t)
  BY DEF BackendsInv
<1>1. /\ pc[t] = "recv" /\ mode # "message" /\ ~SerialEnough /\ wire # <<>>
      /\ part' = Append(part, Head(wire)) /\ wire' = Tail(wire)
      /\ UNCHANGED <<state, resource, opened, pc, op, mode, backend, base, requests, asked, framed, inbox, buffer, fixedPort,
                     validateSource, air, queue, messageBased>>
  BY DEF SerialReceive, machineVars, exchangeVars, udpVars
<1>2. wire \in Seq(Byte) /\ part \in Seq(Byte)
  BY <1>0 DEF TypeOK
<1>3. /\ Len(wire') = Len(wire) - 1 /\ Len(wire) \in Nat \ {0} /\ Len(part) \in Nat
      /\ \A i \in 1..Len(wire') : i + 1 \in 1..Len(wire) /\ wire'[i] = wire[i + 1]
      /\ 1 \in 1..Len(wire) /\ Head(wire) = wire[1] /\ Head(wire) \in Byte
  BY <1>1, <1>2, TailFacts
<1>4. /\ Len(part') = Len(part) + 1
      /\ \A i \in 1..Len(part) : part'[i] = part[i]
      /\ part'[Len(part) + 1] = wire[1]
  BY <1>1, <1>2, <1>3, AppendFacts
<1>5. \A i \in 1..Len(part') : (i \in 1..Len(part) /\ part'[i] = part[i]) \/ (i = Len(part') /\ part'[i] = wire[1])
  <2> SUFFICES ASSUME NEW i \in 1..Len(part')
               PROVE  (i \in 1..Len(part) /\ part'[i] = part[i]) \/ (i = Len(part') /\ part'[i] = wire[1])
    OBVIOUS
  <2>1. i \in 1..Len(part) \/ (i = Len(part') /\ i = Len(part) + 1)
    BY <1>3, <1>4
  <2> QED BY <1>4, <2>1
<1>6. PartHere(t)'
  <2>1. ASSUME mode = "line"
        PROVE  Len(part') <= MaxSize /\ \A i \in 1..(Len(part') - 1) : ~part'[i].eol
    <3>1. ~(part # <<>> /\ (part[Len(part)].eol \/ Len(part) = MaxSize))
      BY <1>1, <2>1 DEF SerialEnough
    <3>2. Len(part) <= MaxSize /\ \A i \in 1..(Len(part) - 1) : ~part[i].eol
      BY <2>1 DEF Here, PartHere, PartShape
    <3>3. CASE part = <<>>
      BY <1>4, <3>3, BackendAssumption
    <3>4. CASE part # <<>>
      <4>1. Len(part) \in Nat \ {0}
        BY <1>2, <3>4
      <4>2. \A i \in 1..Len(part) : ~part[i].eol
        BY <3>1, <3>2, <3>4, <4>1
      <4>3. Len(part) # MaxSize
        BY <3>1, <3>4
      <4>4. Len(part') <= MaxSize
        BY <1>4, <3>2, <4>1, <4>3, BackendAssumption
      <4>5. \A i \in 1..(Len(part') - 1) : i \in 1..Len(part) /\ part'[i] = part[i]
        BY <1>4, <4>1
      <4> QED BY <4>2, <4>4, <4>5
    <3> QED BY <3>3, <3>4
  <2>2. ASSUME mode \in {"upTo", "available"} PROVE Len(part') <= 1
    <3>1. part = <<>>
      BY <1>1, <2>2 DEF SerialEnough
    <3> QED BY <1>4, <3>1
  <2> QED BY <1>1, <2>1, <2>2 DEF PartHere, PartShape
<1>7. BufferHere(t)'
  BY <1>1 DEF Here, BufferHere, Kept
<1>8. KnownOK'
  <2>1. \A i \in 1..Len(wire') : wire'[i].req <= requests
    BY <1>0, <1>3 DEF KnownOK
  <2> QED BY <1>0, <1>1, <2>1 DEF KnownOK
<1>9. StepHere(t)'
  <2>1. ASSUME Earlier PROVE Earlier'
    <3>1. \A i \in 1..Len(wire') : wire'[i].req <= base
      BY <1>3, <2>1 DEF Earlier
    <3>2. \A i \in 1..Len(part') : part'[i].req <= base
      BY <1>3, <1>5, <2>1 DEF Earlier
    <3> QED BY <1>1, <2>1, <3>1, <3>2 DEF Earlier
  <2>2. ASSUME LastOnLine(t) PROVE LastOnLine(t)'
    <3>1. \A i \in 1..Len(wire') :
            wire'[i].req <= base \/ (wire'[i].req = asked[t] /\ inbox = <<>> /\ (wire'[i].more = 0 => i = Len(wire')))
      <4> SUFFICES ASSUME NEW i \in 1..Len(wire')
                   PROVE  \/ wire'[i].req <= base
                          \/ wire'[i].req = asked[t] /\ inbox = <<>> /\ (wire'[i].more = 0 => i = Len(wire'))
        OBVIOUS
      <4>1. i + 1 \in 1..Len(wire) /\ wire'[i] = wire[i + 1]
        BY <1>3
      <4>2. \/ wire[i + 1].req <= base
            \/ wire[i + 1].req = asked[t] /\ inbox = <<>> /\ (wire[i + 1].more = 0 => i + 1 = Len(wire))
        BY <2>2, <4>1 DEF LastOnLine
      <4> QED BY <1>3, <4>1, <4>2
    <3>2. \A i \in 1..Len(part') :
            part'[i].req <= base \/ (part'[i].req = asked[t] /\ inbox = <<>> /\ (part'[i].more = 0 => wire' = <<>>))
      <4>1. \A i \in 1..Len(part) :
              part[i].req <= base \/ (part[i].req = asked[t] /\ inbox = <<>> /\ part[i].more # 0)
        BY <1>1, <2>2 DEF LastOnLine
      <4>2. wire[1].req <= base \/ (wire[1].req = asked[t] /\ inbox = <<>> /\ (wire[1].more = 0 => 1 = Len(wire)))
        BY <1>3, <2>2 DEF LastOnLine
      <4>3. 1 = Len(wire) => wire' = <<>>
        BY <1>1, <1>2
      <4> QED BY <1>5, <4>1, <4>2, <4>3
    <3> QED BY <1>1, <2>2, <3>1, <3>2 DEF LastOnLine
  <2> QED BY <1>1, <2>1, <2>2 DEF Here, StepHere, Queries, Reads
<1> QED BY <1>1, <1>6, <1>7, <1>8, <1>9 DEF Here

\* A read ends: replies stay in step only if it was the whole reply to the running query.
LEMMA SerialReturnHere ==
  ASSUME BackendsInv, TypeOK', NEW t \in Threads, Here(t), backend = "serial", SerialReturn(t),
         UNCHANGED <<udpVars, messageBased>>
  PROVE  Here(t)'
<1>0. TypeOK /\ KnownOK /\ PlaceOK(t)
  BY DEF BackendsInv
<1>1. PICK w \in 0..Len(wire) : Return(t, part \o SubSeq(wire, 1, w)) /\ wire' = SubSeq(wire, w + 1, Len(wire))
  BY <1>0, SerialReturnFacts
<1> DEFINE bytes == part \o SubSeq(wire, 1, w)
<1>2. /\ pc[t] = "recv" /\ pc'[t] = "idle" /\ part' = <<>> /\ part # <<>>
      /\ framed' = (framed /\ bytes[Len(bytes)].more = 0 /\ \A i \in 1..Len(bytes) : bytes[i].req > base)
      /\ UNCHANGED <<state, resource, opened, op, backend, base, requests, asked, inbox, buffer, fixedPort, validateSource,
                     air, queue, messageBased>>
  BY <1>0, <1>1, SerialReturnFacts DEF Return, SerialReturn, Leave, Goto, TypeOK, udpVars
<1>3. state = "OPEN"
  BY <1>0, <1>2 DEF PlaceOK
<1>4. wire \in Seq(Byte) /\ part \in Seq(Byte) /\ Len(wire) \in Nat /\ Len(part) \in Nat \ {0}
  <2>1. wire \in Seq(Byte) /\ part \in Seq(Byte)
    BY <1>0 DEF TypeOK
  <2> QED BY <1>2, <2>1
<1>5. /\ SubSeq(wire, 1, w) \in Seq(Byte) /\ Len(SubSeq(wire, 1, w)) = w
      /\ \A i \in 1..w : SubSeq(wire, 1, w)[i] = wire[i]
  <2>1. /\ SubSeq(wire, 1, w) \in Seq(Byte) /\ Len(SubSeq(wire, 1, w)) = w - 1 + 1
        /\ \A i \in 1..(w - 1 + 1) : SubSeq(wire, 1, w)[i] = wire[1 + i - 1]
    BY <1>4, Cut
  <2>2. \A i \in 1..w : 1 + i - 1 = i
    OBVIOUS
  <2> QED BY <2>1, <2>2
<1>6. /\ Len(bytes) = Len(part) + w
      /\ \A i \in 1..Len(part) : bytes[i] = part[i]
      /\ \A i \in 1..w : bytes[Len(part) + i] = wire[i]
  BY <1>4, <1>5, Join
<1> HIDE DEF bytes
<1>7. Len(wire') = Len(wire) - w /\ \A i \in 1..Len(wire') : w + i \in 1..Len(wire) /\ wire'[i] = wire[w + i]
  <2>1. /\ Len(wire') = Len(wire) - (w + 1) + 1
        /\ \A i \in 1..(Len(wire) - (w + 1) + 1) : wire'[i] = wire[w + 1 + i - 1]
    BY <1>1, <1>4, Cut
  <2>2. \A i \in 1..Len(wire') : w + 1 + i - 1 = w + i /\ w + i \in 1..Len(wire)
    BY <1>4, <2>1
  <2> QED BY <1>4, <2>1, <2>2
<1>8. KnownOK'
  <2>1. \A i \in 1..Len(wire') : wire'[i].req <= requests
    BY <1>0, <1>7 DEF KnownOK
  <2> QED BY <1>0, <1>2, <2>1 DEF KnownOK
<1>9. BufferHere(t)'
  BY <1>2 DEF Here, BufferHere, Kept
<1>10. StepHere(t)'
  <2> SUFFICES ASSUME framed', validateSource' PROVE Earlier'
    BY <1>2 DEF StepHere, Queries, Reads
  <2>1. framed /\ validateSource /\ base \in Nat
    BY <1>0, <1>2 DEF TypeOK
  <2>2. \A i \in 1..Len(part) : ~(part[i].req <= base)
    <3>1. \A i \in 1..Len(part) : part[i].req > base /\ part[i].req \in Nat
      <4>1. \A i \in 1..Len(part) : i \in 1..Len(bytes) /\ bytes[i] = part[i]
        BY <1>4, <1>6
      <4>2. \A i \in 1..Len(bytes) : bytes[i].req > base
        BY <1>2
      <4>3. \A i \in 1..Len(part) : part[i].req \in Nat
        BY <1>0, Elements
      <4> QED BY <4>1, <4>2, <4>3
    <3> QED BY <2>1, <3>1
  <2>3. LastOnLine(t)
    <3>1. 1 \in 1..Len(part)
      BY <1>4
    <3>2. ~Earlier
      BY <2>2, <3>1 DEF Earlier
    <3> QED BY <1>2, <1>3, <2>1, <3>2 DEF Here, StepHere
  <2>4. inbox = <<>>
    BY <1>4, <2>2, <2>3 DEF LastOnLine
  <2>5. wire' = <<>>
    <3>1. wire' \in Seq(Byte)
      BY DEF TypeOK
    <3>2. CASE w = 0
      <4>1. bytes[Len(bytes)] = part[Len(part)] /\ Len(part) \in 1..Len(part)
        BY <1>4, <1>6, <3>2
      <4>2. part[Len(part)].more = 0
        BY <1>2, <4>1
      <4>3. wire = <<>>
        BY <2>2, <2>3, <4>1, <4>2 DEF LastOnLine
      <4>4. Len(wire') = 0
        BY <1>7, <3>2, <4>3
      <4> QED BY <3>1, <4>4
    <3>3. CASE w # 0
      <4>1. w \in 1..Len(wire) /\ w \in 1..w
        BY <3>3
      <4>2. bytes[Len(bytes)] = wire[w]
        BY <1>6, <4>1
      <4>3. wire[w].more = 0 /\ wire[w].req > base /\ wire[w].req \in Nat
        <5>1. Len(bytes) \in 1..Len(bytes)
          BY <1>4, <1>6
        <5> QED BY <1>0, <1>2, <4>1, <4>2, <5>1, Elements
      <4>4. ~(wire[w].req <= base)
        BY <2>1, <4>3
      <4>5. w = Len(wire)
        BY <2>3, <4>1, <4>3, <4>4 DEF LastOnLine
      <4>6. Len(wire') = 0
        BY <1>4, <1>7, <4>5
      <4> QED BY <3>1, <4>6
    <3> QED BY <3>2, <3>3
  <2>6. air = {} /\ queue = <<>>
    BY <1>0 DEF KnownOK
  <2> QED BY <1>2, <2>4, <2>5, <2>6 DEF Earlier
<1> QED BY <1>2, <1>8, <1>9, <1>10, NothingGathered DEF Here

\* All steps of a read and a flush of the serial line.
LEMMA SerialHere ==
  ASSUME BackendsInv, TypeOK', NEW t \in Threads, Here(t), SerialReads(t)
  PROVE  Here(t)'
<1>0. TypeOK /\ KnownOK
  BY DEF BackendsInv
<1>1. CASE SerialReceive(t)
  BY <1>1, SerialReceiveHere DEF SerialReads
<1>2. CASE SerialReturn(t)
  BY <1>2, SerialReturnHere DEF SerialReads
<1>3. CASE SerialFlush(t)
  <2>1. /\ pc[t] = "run" /\ pc'[t] = "idle" /\ wire' \in {wire, <<>>} /\ backend = "serial" /\ state = "OPEN"
        /\ UNCHANGED <<state, resource, opened, op, backend, base, requests, asked, framed, inbox, part, buffer, fixedPort,
                       validateSource, air, queue, messageBased>>
    BY <1>0, <1>3 DEF SerialReads, SerialFlush, Leave, Goto, TypeOK, exchangeVars, udpVars
  <2>2. part' = <<>>
    BY <2>1 DEF Here, PartHere
  <2>3. KnownOK'
    BY <1>0, <2>1, <2>2 DEF KnownOK
  <2>4. StepHere(t)'
    <3>1. Earlier => Earlier'
      BY <2>1 DEF Earlier
    <3> QED BY <2>1, <3>1 DEF Here, StepHere, Queries, Reads
  <2>5. BufferHere(t)'
    BY <2>1 DEF Here, BufferHere, Kept
  <2> QED BY <2>1, <2>2, <2>3, <2>4, <2>5, NothingGathered DEF Here
<1> QED BY <1>1, <1>2, <1>3 DEF SerialReads

------------------------------------------------------------------------------
\* VISA.

\* Some of the first reply: its bytes follow each other, and so does the next.
LEMMA FirstReply ==
  ASSUME TypeOK, WireOK, NEW n \in 1..Len(wire), n <= wire[1].more + 1
  PROVE  /\ \A j \in 2..n : wire[j].at > 1 /\ wire[j - 1].more > 0
         /\ wire[n].more > 0 => n + 1 \in 1..Len(wire) /\ wire[n + 1].at > 1
<1>1. 1 \in 1..Len(wire) /\ Len(wire) \in Nat /\ wire[1].more \in Nat
  <2>1. wire \in Seq(Byte)
    BY DEF TypeOK
  <2>2. 1 \in 1..Len(wire) /\ Len(wire) \in Nat
    BY <2>1
  <2> QED BY <2>2, Elements
<1>2. /\ 1 + wire[1].more <= Len(wire)
      /\ \A j \in 1..(1 + wire[1].more) : wire[j].more = wire[1].more - (j - 1) /\ (j > 1 => wire[j].at > 1)
  BY <1>1 DEF WireOK
<1>3. ASSUME NEW j \in 2..n PROVE wire[j].at > 1 /\ wire[j - 1].more > 0
  <2>1. j \in 1..(1 + wire[1].more) /\ j - 1 \in 1..(1 + wire[1].more) /\ j > 1
    BY <1>1
  <2>2. wire[j - 1].more = wire[1].more - (j - 1 - 1)
    BY <1>2, <2>1
  <2>3. wire[j - 1].more > 0
    BY <1>1, <2>2
  <2>4. wire[j].at > 1
    BY <1>2, <2>1
  <2> QED BY <2>3, <2>4
<1>4. ASSUME wire[n].more > 0 PROVE n + 1 \in 1..Len(wire) /\ wire[n + 1].at > 1
  <2>1. n \in 1..(1 + wire[1].more)
    BY <1>1
  <2>2. wire[n].more = wire[1].more - (n - 1)
    BY <1>2, <2>1
  <2>3. n + 1 \in 1..(1 + wire[1].more) /\ n + 1 > 1
    BY <1>1, <1>4, <2>2
  <2> QED BY <1>1, <1>2, <2>3
<1> QED BY <1>3, <1>4

\* One low-level read.
LEMMA VisaReceiveHere ==
  ASSUME BackendsInv, TypeOK', NEW t \in Threads, Here(t), backend = "visa", VisaReceive(t),
         UNCHANGED <<udpVars, messageBased>>
  PROVE  Here(t)'
<1>0. TypeOK /\ KnownOK /\ PlaceOK(t) /\ WireOK
  BY DEF BackendsInv
<1>1. PICK n \in 1..Len(wire) :
        /\ n <= wire[1].more + 1
        /\ wire' = SubSeq(wire, n + 1, Len(wire))
        /\ \/ /\ mode \in {"message", "line"}
              /\ part' = part \o SubSeq(wire, 1, n) /\ UNCHANGED buffer
           \/ /\ mode \in {"exact", "upTo", "available"}
              /\ buffer' = buffer \o SubSeq(wire, 1, n) /\ UNCHANGED part
              /\ mode = "exact" => Len(buffer) + n <= Length
              /\ mode # "exact" => buffer = <<>> /\ n <= VisaLimit
  BY <1>0, VisaReceiveFacts
<1>2. /\ pc[t] = "recv" /\ VisaWaits /\ ~VisaMessageEnded
      /\ UNCHANGED <<state, resource, opened, pc, op, mode, backend, base, requests, asked, framed, inbox, fixedPort,
                     validateSource, air, queue, messageBased>>
  BY DEF VisaReceive, machineVars, exchangeVars, udpVars
<1>3. /\ wire \in Seq(Byte) /\ part \in Seq(Byte) /\ buffer \in Seq(Byte)
      /\ Len(wire) \in Nat /\ Len(part) \in Nat /\ Len(buffer) \in Nat
  <2>1. wire \in Seq(Byte) /\ part \in Seq(Byte) /\ buffer \in Seq(Byte)
    BY <1>0 DEF TypeOK
  <2> QED BY <2>1
<1> DEFINE chunk == SubSeq(wire, 1, n)
<1>4. chunk \in Seq(Byte) /\ Len(chunk) = n /\ \A i \in 1..n : chunk[i] = wire[i]
  <2>1. /\ chunk \in Seq(Byte) /\ Len(chunk) = n - 1 + 1
        /\ \A i \in 1..(n - 1 + 1) : chunk[i] = wire[1 + i - 1]
    BY <1>3, Cut
  <2>2. \A i \in 1..n : 1 + i - 1 = i
    OBVIOUS
  <2> QED BY <2>1, <2>2
<1> HIDE DEF chunk
<1>5. Len(wire') = Len(wire) - n /\ \A i \in 1..Len(wire') : n + i \in 1..Len(wire) /\ wire'[i] = wire[n + i]
  <2>1. /\ Len(wire') = Len(wire) - (n + 1) + 1
        /\ \A i \in 1..(Len(wire) - (n + 1) + 1) : wire'[i] = wire[n + 1 + i - 1]
    BY <1>1, <1>3, Cut
  <2>2. \A i \in 1..Len(wire') : n + 1 + i - 1 = n + i /\ n + i \in 1..Len(wire)
    BY <1>3, <2>1
  <2> QED BY <1>3, <2>1, <2>2
<1>6. /\ \A j \in 2..n : wire[j].at > 1 /\ wire[j - 1].more > 0
      /\ wire[n].more > 0 => n + 1 \in 1..Len(wire) /\ wire[n + 1].at > 1
  BY <1>0, <1>1, FirstReply
<1>7. WireOK'
  <2> SUFFICES ASSUME NEW i \in 1..Len(wire')
               PROVE  /\ i + wire'[i].more <= Len(wire')
                      /\ \A j \in i..(i + wire'[i].more) :
                           wire'[j].more = wire'[i].more - (j - i) /\ (j > i => wire'[j].at > 1)
    BY DEF WireOK
  <2>1. n + i \in 1..Len(wire) /\ wire'[i] = wire[n + i] /\ wire[n + i].more \in Nat
    BY <1>0, <1>5, Elements
  <2>2. /\ n + i + wire[n + i].more <= Len(wire)
        /\ \A j \in (n + i)..(n + i + wire[n + i].more) :
             wire[j].more = wire[n + i].more - (j - (n + i)) /\ (j > n + i => wire[j].at > 1)
    BY <1>0, <2>1 DEF WireOK
  <2>3. i + wire'[i].more <= Len(wire')
    BY <1>3, <1>5, <2>1, <2>2
  <2>4. ASSUME NEW j \in i..(i + wire'[i].more)
        PROVE  wire'[j].more = wire'[i].more - (j - i) /\ (j > i => wire'[j].at > 1)
    <3>1. j \in 1..Len(wire') /\ n + j \in (n + i)..(n + i + wire[n + i].more)
      BY <1>3, <1>5, <2>1, <2>3
    <3>2. wire'[j] = wire[n + j]
      BY <1>5, <3>1, ZenonT(20)
    <3>3. /\ wire[n + j].more = wire[n + i].more - ((n + j) - (n + i))
          /\ (n + j > n + i => wire[n + j].at > 1)
      BY <2>2, <3>1
    <3> QED BY <1>3, <2>1, <3>1, <3>2, <3>3
  <2> QED BY <2>3, <2>4
<1>8. KnownOK'
  <2>1. \A i \in 1..Len(wire') : wire'[i].req <= requests
    BY <1>0, <1>5 DEF KnownOK
  <2> QED BY <1>0, <1>2, <2>1 DEF KnownOK
<1>9. CASE mode \in {"message", "line"} /\ part' = part \o chunk /\ UNCHANGED buffer
  <2>1. buffer = <<>>
    <3>1. CASE mode = "message"
      BY <1>2, <3>1 DEF VisaWaits
    <3>2. CASE mode = "line"
      <4>1. LineEnd(buffer) = {}
        BY <1>2, <3>2 DEF VisaWaits
      <4>2. buffer # <<>> => Len(buffer) \in 1..Len(buffer)
        BY <1>3
      <4>3. buffer # <<>> => ~buffer[Len(buffer)].eol
        BY <4>1, <4>2 DEF LineEnd
      <4>4. Kept \/ Gathered
        BY <1>2 DEF Here, BufferHere
      <4>5. Gathered => buffer # <<>> /\ buffer[Len(buffer)].eol
        BY <3>2 DEF Gathered
      <4> QED BY <4>3, <4>4, <4>5 DEF Kept
    <3> QED BY <1>9, <3>1, <3>2
  <2>2. /\ Len(part') = Len(part) + n
        /\ \A i \in 1..Len(part) : part'[i] = part[i]
        /\ \A i \in (Len(part) + 1)..(Len(part) + n) : part'[i] = wire[i - Len(part)]
    <3>1. /\ Len(part') = Len(part) + Len(chunk)
          /\ \A i \in 1..Len(part) : part'[i] = part[i]
          /\ \A i \in (Len(part) + 1)..(Len(part) + Len(chunk)) : part'[i] = chunk[i - Len(part)]
      BY <1>3, <1>4, <1>9, Join
    <3>2. \A i \in (Len(part) + 1)..(Len(part) + n) : i - Len(part) \in 1..n
      BY <1>3
    <3> QED BY <1>4, <3>1, <3>2
  <2>3. part # <<>> => Chain(part) /\ part[Len(part)].more > 0 /\ wire[1].at > 1
    <3>1. ASSUME part # <<>> PROVE part[Len(part)].more > 0
      <4>1. Len(part) \in 1..Len(part) /\ part[Len(part)].more # 0
        BY <1>2, <1>3, <3>1 DEF VisaMessageEnded
      <4>2. part[Len(part)].more \in Nat
        BY <1>0, <4>1, Elements
      <4> QED BY <4>1, <4>2
    <3> QED BY <3>1 DEF Here, PartHere, PartShape
  <2>4. Chain(part')
    <3> SUFFICES ASSUME NEW i \in 2..Len(part') PROVE part'[i].at > 1 /\ part'[i - 1].more > 0
      BY DEF Chain
    <3>1. CASE i <= Len(part)
      <4>1. i \in 1..Len(part) /\ i - 1 \in 1..Len(part) /\ i \in 2..Len(part) /\ part # <<>>
        BY <1>3, <3>1
      <4>2. part[i].at > 1 /\ part[i - 1].more > 0
        BY <2>3, <4>1 DEF Chain
      <4> QED BY <2>2, <4>1, <4>2
    <3>2. CASE i = Len(part) + 1
      <4>1. Len(part) \in 1..Len(part) /\ part # <<>> /\ i - 1 = Len(part) /\ i - Len(part) = 1
        BY <1>3, <3>2
      <4>2. part'[i] = wire[1] /\ part'[i - 1] = part[Len(part)]
        BY <1>3, <2>2, <3>2, <4>1
      <4> QED BY <2>3, <4>1, <4>2
    <3>3. CASE i > Len(part) + 1
      <4> DEFINE j == i - Len(part)
      <4>1. j \in 2..n /\ (i - 1) - Len(part) = j - 1
        BY <1>3, <2>2, <3>3
      <4>2. part'[i] = wire[j] /\ part'[i - 1] = wire[j - 1]
        <5>1. i \in (Len(part) + 1)..(Len(part) + n) /\ i - 1 \in (Len(part) + 1)..(Len(part) + n)
          BY <1>3, <2>2, <3>3
        <5> QED BY <2>2, <4>1, <5>1
      <4> HIDE DEF j
      <4> QED BY <1>6, <4>1, <4>2
    <3> QED BY <1>3, <2>2, <3>1, <3>2, <3>3
  <2>5. part'[Len(part')] = wire[n] /\ Len(part') \in Nat \ {0}
    <3>1. Len(part) + n \in (Len(part) + 1)..(Len(part) + n) /\ (Len(part) + n) - Len(part) = n
      BY <1>3
    <3> QED BY <1>3, <2>2, <3>1
  <2>6. wire[n].more > 0 => wire' # <<>> /\ wire'[1].at > 1
    <3>1. wire[n].more > 0 => 1 \in 1..Len(wire') /\ wire'[1] = wire[n + 1]
      BY <1>3, <1>5, <1>6
    <3>2. 1 \in 1..Len(wire') => wire' # <<>>
      OBVIOUS
    <3> QED BY <1>6, <3>1, <3>2
  <2>7. PartHere(t)'
    <3>1. mode = "message" => messageBased
      BY <1>2 DEF VisaWaits
    <3> QED BY <1>2, <1>9, <2>1, <2>4, <2>5, <2>6, <3>1 DEF PartHere, PartShape
  <2>8. BufferHere(t)'
    BY <1>2, <1>9, <2>1 DEF Here, BufferHere, Kept
  <2>9. StepHere(t)'
    <3>1. ASSUME OnlyOnBus(t) PROVE OnlyOnBus(t)'
      <4>1. \A i \in 1..Len(wire') : wire'[i].req = asked[t]
        BY <1>5, <3>1 DEF OnlyOnBus
      <4>2. \A i \in 1..Len(part') : part'[i].req = asked[t]
        <5>1. \A i \in 1..n : wire[i].req = asked[t]
          BY <1>3, <3>1 DEF OnlyOnBus
        <5>2. \A i \in 1..Len(part') : i \in 1..Len(part)
                 \/ (i \in (Len(part) + 1)..(Len(part) + n) /\ i - Len(part) \in 1..n)
          BY <1>3, <2>2
        <5>3. \A i \in 1..Len(part) : part[i].req = asked[t]
          BY <3>1 DEF OnlyOnBus
        <5>4. ASSUME NEW i \in 1..Len(part') PROVE part'[i].req = asked[t]
          <6>1. CASE i \in 1..Len(part)
            BY <2>2, <5>3, <6>1
          <6>2. CASE i \in (Len(part) + 1)..(Len(part) + n) /\ i - Len(part) \in 1..n
            <7>1. part'[i] = wire[i - Len(part)]
              BY <2>2, <6>2
            <7> QED BY <5>1, <6>2, <7>1
          <6> QED BY <5>2, <6>1, <6>2
        <5> QED BY <5>4
      <4> QED BY <1>2, <1>9, <3>1, <4>1, <4>2 DEF OnlyOnBus
    <3> QED BY <1>2, <3>1 DEF Here, StepHere, Queries, Reads
  <2> QED BY <1>2, <1>7, <1>8, <2>7, <2>8, <2>9 DEF Here
<1>10. CASE /\ mode \in {"exact", "upTo", "available"} /\ buffer' = buffer \o chunk /\ UNCHANGED part
            /\ mode = "exact" => Len(buffer) + n <= Length
            /\ mode # "exact" => buffer = <<>> /\ n <= VisaLimit
  <2>1. part = <<>>
    BY <1>10 DEF Here, PartHere, PartShape
  <2>2. /\ Len(buffer') = Len(buffer) + n
        /\ \A i \in 1..Len(buffer) : buffer'[i] = buffer[i]
        /\ \A i \in (Len(buffer) + 1)..(Len(buffer) + n) : buffer'[i] = wire[i - Len(buffer)]
    <3>1. /\ Len(buffer') = Len(buffer) + Len(chunk)
          /\ \A i \in 1..Len(buffer) : buffer'[i] = buffer[i]
          /\ \A i \in (Len(buffer) + 1)..(Len(buffer) + Len(chunk)) : buffer'[i] = chunk[i - Len(buffer)]
      <4>1. buffer' = buffer \o chunk
        BY <1>10
      <4> QED BY <1>3, <1>4, <4>1, Join
    <3>2. \A i \in (Len(buffer) + 1)..(Len(buffer) + n) : i - Len(buffer) \in 1..n
      BY <1>3
    <3> QED BY <1>4, <3>1, <3>2
  <2>3. Gathered'
    <3>1. CASE mode = "exact"
      BY <1>2, <1>10, <2>2, <3>1 DEF Gathered
    <3>2. CASE mode \in {"upTo", "available"}
      <4>1. Len(buffer') = n /\ n <= VisaLimit /\ VisaLimit' = VisaLimit
        BY <1>2, <1>10, <2>2, <3>2 DEF VisaLimit
      <4> QED BY <1>2, <3>2, <4>1 DEF Gathered
    <3> QED BY <1>10, <3>1, <3>2
  <2>4. BufferHere(t)'
    <3>1. state = "OPEN"
      BY <1>0, <1>2 DEF PlaceOK
    <3> QED BY <1>2, <2>3, <3>1 DEF BufferHere
  <2>5. StepHere(t)'
    <3>1. ASSUME OnlyOnBus(t) PROVE OnlyOnBus(t)'
      <4>1. \A i \in 1..Len(wire') : wire'[i].req = asked[t]
        BY <1>5, <3>1 DEF OnlyOnBus
      <4>2. ASSUME framed PROVE \A i \in 1..Len(buffer') : buffer'[i].req = asked[t]
        <5>1. \A i \in 1..n : wire[i].req = asked[t]
          BY <1>3, <3>1 DEF OnlyOnBus
        <5>2. \A i \in 1..Len(buffer') : i \in 1..Len(buffer)
                 \/ (i \in (Len(buffer) + 1)..(Len(buffer) + n) /\ i - Len(buffer) \in 1..n)
          BY <1>3, <2>2
        <5>3. \A i \in 1..Len(buffer) : buffer[i].req = asked[t]
          BY <3>1, <4>2 DEF OnlyOnBus
        <5>4. ASSUME NEW i \in 1..Len(buffer') PROVE buffer'[i].req = asked[t]
          <6>1. CASE i \in 1..Len(buffer)
            BY <2>2, <5>3, <6>1
          <6>2. CASE i \in (Len(buffer) + 1)..(Len(buffer) + n) /\ i - Len(buffer) \in 1..n
            <7>1. buffer'[i] = wire[i - Len(buffer)]
              BY <2>2, <6>2
            <7> QED BY <5>1, <6>2, <7>1
          <6> QED BY <5>2, <6>1, <6>2
        <5> QED BY <5>4
      <4> QED BY <1>2, <1>10, <3>1, <4>1, <4>2 DEF OnlyOnBus
    <3> QED BY <1>2, <3>1 DEF Here, StepHere, Queries, Reads
  <2> QED BY <1>2, <1>7, <1>8, <1>10, <2>1, <2>4, <2>5, NothingGathered DEF Here
<1> QED BY <1>1, <1>9, <1>10 DEF chunk

\* What a read leaves in the buffer is the rest of a reply it returned the beginning of.
LEMMA VisaReturnFacts ==
  ASSUME TypeOK, NEW t \in Threads, Here(t), backend = "visa", NEW n \in 1..Len(buffer),
         VisaReturn(t, n)
  PROVE  /\ \A i \in (n + 1)..Len(buffer) : buffer[i].at > 1
         /\ n < Len(buffer) => buffer[Len(buffer)].eol
         /\ n < Len(buffer) /\ framed => buffer[n].more > 0
<1>1. pc[t] = "recv" /\ ~VisaWaits /\ VisaTake(n)
  BY DEF VisaReturn
<1>2. buffer \in Seq(Byte) /\ mode \in {"line", "exact", "upTo", "available", "message"}
  BY DEF TypeOK, Modes
<1>3. Len(buffer) \in Nat \ {0} /\ buffer # <<>>
  BY <1>2
<1>4. Kept \/ Gathered
  BY <1>1 DEF Here, BufferHere
<1>5. CASE Kept
  <2>1. (\A i \in 1..Len(buffer) : buffer[i].at > 1) /\ buffer[Len(buffer)].eol /\ ~framed
    BY <1>3, <1>5 DEF Kept
  <2> QED BY <1>3, <2>1
<1>6. CASE Gathered /\ mode = "line"
  <2>1. buffer[Len(buffer)].eol /\ \A i \in 2..Len(buffer) : buffer[i].at > 1 /\ buffer[i - 1].more > 0
    BY <1>6 DEF Gathered, Chain
  <2>2. ASSUME n < Len(buffer) PROVE buffer[n].more > 0
    <3>1. n + 1 \in 2..Len(buffer) /\ (n + 1) - 1 = n
      BY <1>3, <2>2
    <3> QED BY <2>1, <3>1
  <2>3. \A i \in (n + 1)..Len(buffer) : i \in 2..Len(buffer)
    BY <1>3
  <2> QED BY <2>1, <2>2, <2>3
<1>7. CASE Gathered /\ mode = "exact"
  <2>1. Len(buffer) <= Length /\ n = Length
    BY <1>1, <1>7 DEF Gathered, VisaTake
  <2>2. ~(n < Len(buffer)) /\ \A i \in (n + 1)..Len(buffer) : FALSE
    BY <1>3, <2>1
  <2> QED BY <2>2
<1>8. CASE Gathered /\ mode \in {"upTo", "available"}
  <2>1. Len(buffer) <= VisaLimit /\ n = Smaller(Len(buffer), VisaLimit)
    BY <1>1, <1>8 DEF Gathered, VisaTake
  <2>2. VisaLimit \in Nat
    BY BackendAssumption DEF VisaLimit, Smaller
  <2>3. n = Len(buffer)
    BY <1>3, <2>1, <2>2 DEF Smaller
  <2>4. ~(n < Len(buffer)) /\ \A i \in (n + 1)..Len(buffer) : FALSE
    BY <1>3, <2>3
  <2> QED BY <2>4
<1>9. CASE Gathered /\ mode = "message"
  BY <1>9 DEF Gathered
<1> QED BY <1>2, <1>4, <1>5, <1>6, <1>7, <1>8, <1>9

\* A read returns the beginning of the buffer.
LEMMA VisaReturnHere ==
  ASSUME BackendsInv, TypeOK', NEW t \in Threads, Here(t), backend = "visa",
         NEW n \in 1..Len(buffer), VisaReturn(t, n),
         UNCHANGED <<udpVars, messageBased>>
  PROVE  Here(t)'
<1>0. TypeOK /\ KnownOK /\ PlaceOK(t) /\ WireOK
  BY DEF BackendsInv
<1> DEFINE bytes == SubSeq(buffer, 1, n)
<1>1. /\ pc[t] = "recv" /\ pc'[t] = "idle" /\ part' = <<>> /\ buffer' = SubSeq(buffer, n + 1, Len(buffer))
      /\ framed' = (framed /\ bytes[Len(bytes)].more = 0 /\ \A i \in 1..Len(bytes) : bytes[i].req > base)
      /\ UNCHANGED <<state, resource, opened, op, backend, base, requests, asked, inbox, wire, fixedPort, validateSource,
                     air, queue, messageBased>>
  BY <1>0 DEF VisaReturn, Return, Leave, Goto, TypeOK, udpVars
<1>2. buffer \in Seq(Byte) /\ Len(buffer) \in Nat
  <2>1. buffer \in Seq(Byte)
    BY <1>0 DEF TypeOK
  <2> QED BY <2>1
<1>3. Len(bytes) = n /\ bytes[n] = buffer[n]
  <2>1. Len(bytes) = n - 1 + 1 /\ \A i \in 1..(n - 1 + 1) : bytes[i] = buffer[1 + i - 1]
    BY <1>2, Cut
  <2>2. n \in 1..(n - 1 + 1) /\ 1 + n - 1 = n /\ n - 1 + 1 = n
    OBVIOUS
  <2> QED BY <2>1, <2>2
<1> HIDE DEF bytes
<1>4. Len(buffer') = Len(buffer) - n /\ \A i \in 1..Len(buffer') : n + i \in (n + 1)..Len(buffer) /\ buffer'[i] = buffer[n + i]
  <2>1. /\ Len(buffer') = Len(buffer) - (n + 1) + 1
        /\ \A i \in 1..(Len(buffer) - (n + 1) + 1) : buffer'[i] = buffer[n + 1 + i - 1]
    BY <1>1, <1>2, Cut
  <2>2. \A i \in 1..Len(buffer') : n + 1 + i - 1 = n + i /\ n + i \in (n + 1)..Len(buffer)
    BY <1>2, <2>1
  <2> QED BY <1>2, <2>1, <2>2
<1>5. Kept'
  <2>1. \A i \in 1..Len(buffer') : buffer'[i].at > 1
    BY <1>0, <1>4, VisaReturnFacts
  <2>2. buffer' # <<>> => n < Len(buffer) /\ Len(buffer') \in 1..Len(buffer')
    <3>1. buffer' \in Seq(Byte)
      BY DEF TypeOK
    <3>2. buffer' # <<>> => Len(buffer') \in Nat \ {0}
      BY <3>1
    <3> QED BY <1>2, <1>4, <3>2
  <2>3. buffer' # <<>> => buffer'[Len(buffer')].eol
    <3>1. n + Len(buffer') = Len(buffer)
      BY <1>2, <1>4
    <3>2. buffer' # <<>> => buffer'[Len(buffer')] = buffer[Len(buffer)]
      BY <1>4, <2>2, <3>1
    <3> QED BY <1>0, <2>2, <3>2, VisaReturnFacts
  <2>4. framed' => buffer' = <<>>
    <3>1. framed' => framed /\ buffer[n].more = 0
      BY <1>1, <1>3
    <3>2. buffer' # <<>> /\ framed => buffer[n].more > 0
      BY <1>0, <2>2, VisaReturnFacts
    <3>3. buffer[n].more \in Nat
      BY <1>0, Elements
    <3> QED BY <3>1, <3>2, <3>3
  <2> QED BY <2>1, <2>3, <2>4 DEF Kept
<1>6. state = "OPEN"
  BY <1>0, <1>1 DEF PlaceOK
<1>7. BufferHere(t)'
  BY <1>1, <1>5, <1>6 DEF BufferHere
<1>8. KnownOK'
  BY <1>0, <1>1 DEF KnownOK
<1>9. StepHere(t)'
  BY <1>1 DEF StepHere, Queries, Reads
<1>10. WireOK'
  BY <1>0, <1>1 DEF WireOK
<1> QED BY <1>1, <1>7, <1>8, <1>9, <1>10, NothingGathered DEF Here

\* All steps of a read, a flush and the bus operations.
LEMMA VisaHere ==
  ASSUME BackendsInv, TypeOK', NEW t \in Threads, Here(t), VisaReads(t)
  PROVE  Here(t)'
<1>0. TypeOK /\ KnownOK /\ PlaceOK(t) /\ WireOK /\ backend = "visa"
  BY DEF BackendsInv, VisaReads
<1>1. CASE VisaReceive(t)
  BY <1>0, <1>1, VisaReceiveHere DEF VisaReads
<1>2. ASSUME NEW n \in 1..Len(buffer), VisaReturn(t, n) PROVE Here(t)'
  BY <1>0, <1>2, VisaReturnHere DEF VisaReads
<1>3. CASE VisaExtend(t)
  <2>1. /\ pc[t] = "recv" /\ mode = "line" /\ VisaMessageEnded /\ buffer' = buffer \o part /\ part' = <<>>
        /\ UNCHANGED <<state, resource, opened, pc, op, mode, backend, base, requests, asked, framed, inbox, wire, fixedPort,
                       validateSource, air, queue, messageBased>>
    BY <1>3 DEF VisaReads, VisaExtend, machineVars, exchangeVars, udpVars
  <2>2. part # <<>> /\ part[Len(part)].more = 0
    BY <2>1 DEF VisaMessageEnded
  <2>3. buffer = <<>> /\ Chain(part)
    BY <1>0, <2>2 DEF Here, PartHere, PartShape
  <2>4. buffer' = part
    <3>1. part \in Seq(Byte)
      BY <1>0 DEF TypeOK
    <3> QED BY <2>1, <2>3, <3>1
  <2>5. part[Len(part)].eol
    <3>1. part \in Seq(Byte)
      BY <1>0 DEF TypeOK
    <3>2. Len(part) \in 1..Len(part)
      BY <2>2, <3>1
    <3>3. part[Len(part)] \in Byte
      BY <1>0, <3>2, Elements
    <3> QED BY <2>2, <3>3 DEF Byte
  <2>6. Gathered'
    BY <2>1, <2>2, <2>3, <2>4, <2>5 DEF Gathered, Chain
  <2>7. state = "OPEN"
    BY <1>0, <2>1 DEF PlaceOK
  <2>8. BufferHere(t)'
    BY <1>0, <2>1, <2>6, <2>7 DEF BufferHere
  <2>9. KnownOK'
    BY <1>0, <2>1 DEF KnownOK
  <2>10. StepHere(t)'
    <3>1. OnlyOnBus(t) => OnlyOnBus(t)'
      BY <2>1, <2>4 DEF OnlyOnBus
    <3> QED BY <1>0, <2>1, <3>1 DEF Here, StepHere, Queries, Reads
  <2>11. WireOK'
    BY <1>0, <2>1 DEF WireOK
  <2> QED BY <2>1, <2>8, <2>9, <2>10, <2>11, NothingGathered DEF Here
<1>4. CASE VisaReturnMessage(t)
  <2>1. /\ pc[t] = "recv" /\ pc'[t] = "idle" /\ part' = <<>> /\ VisaMessageEnded
        /\ UNCHANGED <<state, resource, opened, op, backend, base, requests, asked, inbox, wire, buffer, fixedPort,
                       validateSource, air, queue, messageBased>>
    BY <1>0, <1>4 DEF VisaReads, VisaReturnMessage, Return, Leave, Goto, TypeOK, udpVars
  <2>2. buffer = <<>>
    BY <1>0, <2>1 DEF VisaMessageEnded, Here, PartHere, PartShape
  <2>3. state = "OPEN"
    BY <1>0, <2>1 DEF PlaceOK
  <2>4. BufferHere(t)'
    BY <2>1, <2>2, <2>3 DEF BufferHere, Kept
  <2>5. KnownOK'
    BY <1>0, <2>1 DEF KnownOK
  <2>6. StepHere(t)'
    BY <1>0, <2>1 DEF StepHere, Queries, Reads
  <2>7. WireOK'
    BY <1>0, <2>1 DEF WireOK
  <2> QED BY <2>1, <2>4, <2>5, <2>6, <2>7, NothingGathered DEF Here
<1>5. CASE VisaFlush(t) \/ Control(t)
  <2>1. /\ pc[t] = "run" /\ pc'[t] = "idle" /\ state = "OPEN"
        /\ wire' \in {wire, <<>>} /\ buffer' \in {buffer, <<>>} /\ inbox' \in {inbox, <<>>}
        /\ UNCHANGED <<state, resource, opened, op, backend, base, requests, asked, framed, part, fixedPort, validateSource,
                       air, queue, messageBased>>
    BY <1>0, <1>5 DEF VisaReads, VisaFlush, Control, Leave, Goto, TypeOK, exchangeVars, udpVars
  <2>2. part' = <<>> /\ Kept
    BY <2>1 DEF Here, PartHere, BufferHere
  <2>3. BufferHere(t)'
    BY <1>0, <2>1, <2>2 DEF BufferHere, Kept
  <2>4. KnownOK'
    BY <1>0, <2>1 DEF KnownOK
  <2>5. StepHere(t)'
    BY <1>0, <2>1 DEF StepHere, Queries, Reads
  <2>6. WireOK'
    BY <1>0, <2>1 DEF WireOK
  <2> QED BY <2>2, <2>3, <2>4, <2>5, <2>6, NothingGathered DEF Here
<1> QED BY <1>1, <1>2, <1>3, <1>4, <1>5 DEF VisaReads

------------------------------------------------------------------------------
\* Steps outside the operations.

\* A call, a thread that gets the lock, or nothing at all.
LEMMA QuietOK ==
  ASSUME BackendsInv, TypeOK', Still, UNCHANGED <<state, requests, asked>>,
         \A u \in Threads : \/ pc'[u] = pc[u] /\ op'[u] = op[u]
                            \/ pc[u] \in {"idle", "acquire"} /\ pc'[u] \in {"idle", "acquire", "run"},
         mode' = mode \/ \A u \in Threads : ~Inside(u)
  PROVE  DataOK'
<1>0. DataOK
  BY DEF BackendsInv, DataOK
<1>1. \A u \in Threads : /\ Reads(u)' <=> Reads(u)
                         /\ Queries(u)' <=> Queries(u)
                         /\ (pc'[u] = "fault" <=> pc[u] = "fault") /\ (pc'[u] = "closing" <=> pc[u] = "closing")
  BY DEF Reads, Queries
<1>2. mode' = mode \/ \A u \in Threads : ~Reads(u) /\ pc[u] # "fault"
  BY DEF Inside, Reads
<1>3. PartOK'
  <2>1. PartOK
    BY <1>0 DEF DataOK
  <2>2. CASE mode' = mode
    BY <1>1, <2>1, <2>2 DEF PartOK, PartShape, Chain, Still
  <2>3. CASE \A u \in Threads : ~Reads(u)
    <3>1. part' = <<>>
      BY <2>1, <2>3 DEF PartOK, Still
    <3> QED BY <3>1, BackendAssumption DEF PartOK, PartShape
  <2> QED BY <1>2, <2>2, <2>3
<1>4. BufferOK'
  <2>1. BufferOK
    BY <1>0 DEF DataOK
  <2>2. Kept => Kept'
    BY DEF Kept, Still
  <2>3. ASSUME NEW u \in Threads, Reads(u), Gathered PROVE Gathered'
    <3>1. mode' = mode /\ mode \in {"line", "exact", "upTo", "available", "message"}
      BY <1>2, <2>3 DEF BackendsInv, TypeOK, Modes
    <3> QED BY <2>3, <3>1 DEF Gathered, Chain, VisaLimit, Still
  <2>4. Kept' \/ \E u \in Threads : pc'[u] = "fault" \/ (Reads(u)' /\ Gathered')
    BY <1>1, <2>1, <2>2, <2>3 DEF BufferOK
  <2>5. state' = "CLOSING" => \E u \in Threads : pc'[u] = "closing"
    BY <1>1, <2>1 DEF BufferOK
  <2> QED BY <2>1, <2>4, <2>5 DEF BufferOK, Still
<1>5. KnownOK'
  BY <1>0 DEF DataOK, KnownOK, Still
<1>6. StepOK'
  <2>1. \A u \in Threads : /\ OnlyOnBus(u) => OnlyOnBus(u)'
                           /\ LastOnLine(u) => LastOnLine(u)'
                           /\ OnceInAir(u) => OnceInAir(u)'
    BY DEF OnlyOnBus, LastOnLine, OnceInAir, Still
  <2>2. Earlier => Earlier'
    BY DEF Earlier, Still
  <2> QED BY <1>0, <1>1, <2>1, <2>2 DEF DataOK, StepOK, Still
<1>7. backend' = "visa" => WireOK'
  BY <1>0 DEF DataOK, WireOK, Still
<1> QED BY <1>3, <1>4, <1>5, <1>6, <1>7 DEF DataOK

\* The threads stand still while the instrument or the network takes a step: what is
\* left to show is where the replies are.
LEMMA OutsideOK ==
  ASSUME BackendsInv, UNCHANGED <<machineVars, backend, base, part, buffer, mode, requests, asked, validateSource, fixedPort,
                                  messageBased>>,
         framed' => framed,
         wire # <<>> => wire' # <<>> /\ wire'[1] = wire[1],
         KnownOK', backend = "visa" => WireOK',
         \A u \in Threads : /\ OnlyOnBus(u) => OnlyOnBus(u)'
                            /\ framed' /\ backend = "serial" /\ LastOnLine(u) => LastOnLine(u)'
                            /\ framed' /\ backend = "udp" /\ KnownOK /\ OnceInAir(u) => OnceInAir(u)',
         framed' /\ Earlier => Earlier'
  PROVE  DataOK'
<1>0. /\ DataOK /\ backend \in {"udp", "serial", "visa"}
      /\ mode \in {"line", "exact", "upTo", "available", "message"}
  BY DEF BackendsInv, DataOK, TypeOK, Modes
<1> USE DEF machineVars, Reads, Queries
<1>1. PartOK'
  BY <1>0 DEF DataOK, PartOK, PartShape, Chain
<1>2. BufferOK'
  <2>1. Kept => Kept'
    BY DEF Kept
  <2>2. Gathered => Gathered'
    BY <1>0 DEF Gathered, Chain, VisaLimit
  <2> QED BY <1>0, <2>1, <2>2 DEF DataOK, BufferOK
<1>3. StepOK'
  BY <1>0 DEF DataOK, StepOK
<1> QED BY <1>1, <1>2, <1>3 DEF DataOK

\* The instrument takes its oldest request.
LEMMA DeviceNext ==
  ASSUME BackendsInv, TypeOK', Device, UNCHANGED <<udpVars, messageBased>>
  PROVE  DataOK'
<1>0. TypeOK /\ KnownOK /\ (backend = "visa" => WireOK)
  BY DEF BackendsInv
<1>1. /\ UNCHANGED <<machineVars, backend, base, part, buffer, mode, requests, asked, framed, validateSource, fixedPort,
                     messageBased, air, queue>>
      /\ inbox # <<>> /\ inbox' = Tail(inbox)
  BY DEF Device, DeviceAnswers, DeviceIgnores, exchangeVars, udpVars
<1>2. UNCHANGED <<resource, opened, state>>
  BY <1>1 DEF machineVars
<1>3. /\ Len(inbox') = Len(inbox) - 1 /\ Len(inbox) \in Nat \ {0}
      /\ \A i \in 1..Len(inbox') : i + 1 \in 1..Len(inbox) /\ inbox'[i] = inbox[i + 1]
      /\ 1 \in 1..Len(inbox) /\ Head(inbox) = inbox[1]
  <2>1. inbox \in Seq(Requested)
    BY <1>0 DEF TypeOK, Requested
  <2> QED BY <1>1, <2>1, TailFacts
<1>4. /\ \A i \in 1..Len(inbox') : inbox'[i].req <= requests /\ inbox'[i].port <= opened
      /\ backend = "udp" /\ ~fixedPort => \A i \in 1..Len(inbox') : inbox'[i].port = resource => inbox'[i].req > base
  BY <1>0, <1>3 DEF KnownOK
<1>i. ASSUME NEW u \in Threads,
             \A i \in 1..Len(inbox) : inbox[i].req <= base \/ (inbox[i].req = asked[u] /\ i = Len(inbox))
      PROVE  \A i \in 1..Len(inbox') : inbox'[i].req <= base \/ (inbox'[i].req = asked[u] /\ i = Len(inbox'))
  <2>1. \A i \in 1..Len(inbox') : i + 1 = Len(inbox) => i = Len(inbox')
    BY <1>3
  <2>2. \A i \in 1..Len(inbox') : inbox[i + 1].req <= base \/ (inbox[i + 1].req = asked[u] /\ i + 1 = Len(inbox))
    BY <1>3, <1>i
  <2> QED BY <1>3, <2>1, <2>2
<1>5. CASE UNCHANGED wire
  <2>1. KnownOK'
    BY <1>0, <1>1, <1>2, <1>4, <1>5 DEF KnownOK
  <2>2. backend = "visa" => WireOK'
    BY <1>0, <1>5 DEF WireOK
  <2>3. ASSUME NEW u \in Threads PROVE /\ OnlyOnBus(u) => OnlyOnBus(u)'
                                       /\ LastOnLine(u) => LastOnLine(u)'
                                       /\ OnceInAir(u) => OnceInAir(u)'
    <3>1. OnlyOnBus(u) => OnlyOnBus(u)'
      BY <1>1, <1>3, <1>5 DEF OnlyOnBus
    <3>2. ASSUME LastOnLine(u) PROVE LastOnLine(u)'
      <4>1. \A i \in 1..Len(inbox') : inbox'[i].req <= base \/ (inbox'[i].req = asked[u] /\ i = Len(inbox'))
        BY <1>i, <3>2 DEF LastOnLine
      <4>2. /\ \A i \in 1..Len(wire) : wire[i].req <= base
            /\ \A i \in 1..Len(part) : part[i].req <= base
        BY <1>1, <3>2 DEF LastOnLine
      <4> QED BY <1>1, <1>5, <4>1, <4>2 DEF LastOnLine
    <3>3. ASSUME OnceInAir(u) PROVE OnceInAir(u)'
      <4>1. \A i \in 1..Len(inbox') : inbox'[i].req <= base \/ (inbox'[i].req = asked[u] /\ i = Len(inbox'))
        BY <1>i, <3>3 DEF OnceInAir
      <4>2. (\A i \in 1..Len(inbox) : inbox[i].req <= base) => \A i \in 1..Len(inbox') : inbox'[i].req <= base
        BY <1>3
      <4> QED BY <1>1, <3>3, <4>1, <4>2 DEF OnceInAir
    <3> QED BY <3>1, <3>2, <3>3
  <2>4. Earlier => Earlier'
    BY <1>1, <1>3, <1>5 DEF Earlier
  <2> QED BY <1>1, <1>5, <2>1, <2>2, <2>3, <2>4, OutsideOK
<1>6. ASSUME NEW n \in Nat \ {0}, NEW cut \in Nat, DeviceAnswers(n, cut),
             wire' # wire PROVE DataOK'
  <2> DEFINE reply == Reply(Head(inbox).req, n, cut)
  <2>1. backend # "udp" /\ wire' = wire \o reply
    BY <1>6 DEF DeviceAnswers
  <2>2. /\ reply \in Seq(Byte) /\ Len(reply) = n
        /\ \A i \in 1..n : reply[i].req = Head(inbox).req /\ reply[i].at = i /\ reply[i].more = n - i
    <3>2. Head(inbox).req \in Nat \ {0}
      BY <1>0, <1>3, Elements
    <3>3. \A r \in Nat \ {0}, m \in Nat \ {0}, c \in Nat :
            /\ Reply(r, m, c) \in Seq(Byte) /\ Len(Reply(r, m, c)) = m
            /\ \A i \in 1..m : Reply(r, m, c)[i].req = r /\ Reply(r, m, c)[i].at = i /\ Reply(r, m, c)[i].more = m - i
      <4> TAKE r \in Nat \ {0}, m \in Nat \ {0}, c \in Nat
      <4>1. Reply(r, m, c) \in Seq(Byte) /\ Len(Reply(r, m, c)) = m
        BY ReplyFacts
      <4>2. \A i \in 1..m : /\ Reply(r, m, c)[i].req = r /\ Reply(r, m, c)[i].at = i
                            /\ Reply(r, m, c)[i].more = m - i
        BY DEF Reply
      <4> QED BY <4>1, <4>2
    <3> QED BY <3>2, <3>3
  <2> HIDE DEF reply
  <2>3. wire \in Seq(Byte) /\ Len(wire) \in Nat /\ n \in Nat \ {0}
    <3>1. wire \in Seq(Byte)
      BY <1>0 DEF TypeOK
    <3> QED BY <3>1
  <2>4. /\ Len(wire') = Len(wire) + n
        /\ \A i \in 1..Len(wire) : wire'[i] = wire[i]
        /\ \A i \in (Len(wire) + 1)..(Len(wire) + n) : wire'[i] = reply[i - Len(wire)]
    <3>1. /\ Len(wire') = Len(wire) + Len(reply)
          /\ \A i \in 1..Len(wire) : wire'[i] = wire[i]
          /\ \A i \in (Len(wire) + 1)..(Len(wire) + Len(reply)) : wire'[i] = reply[i - Len(wire)]
      BY <2>1, <2>2, <2>3, Join
    <3> QED BY <2>2, <3>1
  <2>5. \A i \in 1..Len(wire') :
          \/ i \in 1..Len(wire) /\ wire'[i] = wire[i]
          \/ /\ i \in (Len(wire) + 1)..(Len(wire) + n) /\ i - Len(wire) \in 1..n /\ wire'[i] = reply[i - Len(wire)]
             /\ wire'[i].req = inbox[1].req /\ wire'[i].more = Len(wire') - i /\ wire'[i].at = i - Len(wire)
    <3> SUFFICES ASSUME NEW i \in 1..Len(wire'), i \notin 1..Len(wire)
                 PROVE  /\ i \in (Len(wire) + 1)..(Len(wire) + n) /\ i - Len(wire) \in 1..n /\ wire'[i] = reply[i - Len(wire)]
                        /\ wire'[i].req = inbox[1].req /\ wire'[i].more = Len(wire') - i /\ wire'[i].at = i - Len(wire)
      BY <2>4
    <3>1. i \in (Len(wire) + 1)..(Len(wire) + n) /\ i - Len(wire) \in 1..n
      BY <2>3, <2>4
    <3>2. wire'[i] = reply[i - Len(wire)]
      BY <2>4, <3>1
    <3>3. /\ reply[i - Len(wire)].req = Head(inbox).req
          /\ reply[i - Len(wire)].at = i - Len(wire)
          /\ reply[i - Len(wire)].more = n - (i - Len(wire))
      BY <2>2, <3>1
    <3>4. n - (i - Len(wire)) = Len(wire') - i
      BY <2>3, <2>4, <3>1
    <3> QED BY <1>3, <3>1, <3>2, <3>3, <3>4
  <2>6. KnownOK'
    <3>1. inbox[1].req <= requests
      BY <1>0, <1>3 DEF KnownOK
    <3>2. \A i \in 1..Len(wire') : wire'[i].req <= requests
      BY <1>0, <2>5, <3>1 DEF KnownOK
    <3> QED BY <1>0, <1>1, <1>2, <1>4, <2>1, <3>2 DEF KnownOK
  <2>7. ASSUME backend = "visa" PROVE WireOK'
    <3> SUFFICES ASSUME NEW i \in 1..Len(wire')
                 PROVE  /\ i + wire'[i].more <= Len(wire')
                        /\ \A j \in i..(i + wire'[i].more) :
                             wire'[j].more = wire'[i].more - (j - i) /\ (j > i => wire'[j].at > 1)
      BY DEF WireOK
    <3>1. CASE i \in 1..Len(wire)
      <4>1. wire'[i] = wire[i] /\ wire[i].more \in Nat
        BY <1>0, <2>4, <3>1, Elements
      <4>2. /\ i + wire[i].more <= Len(wire)
            /\ \A j \in i..(i + wire[i].more) : wire[j].more = wire[i].more - (j - i) /\ (j > i => wire[j].at > 1)
        BY <1>0, <2>7, <3>1 DEF WireOK
      <4>3. \A j \in i..(i + wire[i].more) : j \in 1..Len(wire) /\ wire'[j] = wire[j]
        BY <2>3, <2>4, <3>1, <4>1, <4>2
      <4>4. i + wire'[i].more <= Len(wire')
        BY <2>3, <2>4, <4>1, <4>2
      <4> QED BY <4>1, <4>2, <4>3, <4>4
    <3>2. CASE i \notin 1..Len(wire)
      <4>1. wire'[i].more = Len(wire') - i /\ i > Len(wire)
        BY <2>3, <2>5, <3>2
      <4>2. Len(wire') \in Nat
        BY <2>3, <2>4
      <4>3. \A j \in i..Len(wire') : j \in 1..Len(wire') /\ j \notin 1..Len(wire)
        BY <2>3, <4>1, <4>2
      <4>4. \A j \in i..Len(wire') : wire'[j].more = Len(wire') - j /\ wire'[j].at = j - Len(wire)
        BY <2>5, <4>3
      <4>5. i + wire'[i].more = Len(wire')
        BY <4>1, <4>2
      <4>6. \A j \in i..Len(wire') : /\ Len(wire') - j = (Len(wire') - i) - (j - i)
                                     /\ j > i => j - Len(wire) > 1
        BY <2>3, <4>1, <4>2
      <4>7. \A j \in i..Len(wire') : wire'[j].more = wire'[i].more - (j - i) /\ (j > i => wire'[j].at > 1)
        BY <4>1, <4>4, <4>6
      <4> QED BY <4>2, <4>5, <4>7
    <3> QED BY <3>1, <3>2
  <2>8. ASSUME NEW u \in Threads, LastOnLine(u) PROVE LastOnLine(u)'
    <3>1. \A i \in 1..Len(inbox') : inbox'[i].req <= base \/ (inbox'[i].req = asked[u] /\ i = Len(inbox'))
      BY <1>i, <2>8 DEF LastOnLine
    <3>2. /\ \A i \in 1..Len(wire) : wire[i].req <= base
          /\ \A i \in 1..Len(part) : part[i].req <= base
      BY <1>1, <2>8 DEF LastOnLine
    <3>3. inbox[1].req <= base \/ (inbox[1].req = asked[u] /\ inbox' = <<>>)
      <4>1. inbox[1].req <= base \/ (inbox[1].req = asked[u] /\ 1 = Len(inbox))
        BY <1>3, <2>8 DEF LastOnLine
      <4>2. inbox' \in Seq(Requested)
        BY DEF TypeOK, Requested
      <4>3. 1 = Len(inbox) => inbox' = <<>>
        <5>0. Len(inbox') = Len(inbox) - 1 /\ Len(inbox) \in Nat
          BY <1>3
        <5>1. Len(inbox) = 1 => Len(inbox') = 0
          BY <5>0
        <5> QED BY <4>2, <5>1
      <4> QED BY <4>1, <4>3
    <3>4. \A i \in 1..Len(wire') :
            \/ wire'[i].req <= base
            \/ wire'[i].req = asked[u] /\ inbox' = <<>> /\ (wire'[i].more = 0 => i = Len(wire'))
      <4>1. Len(wire') \in Nat
        BY <2>3, <2>4
      <4>2. \A i \in 1..Len(wire') : Len(wire') - i = 0 => i = Len(wire')
        BY <4>1
      <4> QED BY <2>5, <3>2, <3>3, <4>2
    <3> QED BY <1>1, <3>1, <3>2, <3>4 DEF LastOnLine
  <2>9. ASSUME NEW u \in Threads, OnlyOnBus(u) PROVE OnlyOnBus(u)'
    <3>1. \A i \in 1..Len(inbox') : inbox'[i].req = asked[u]
      BY <1>3, <2>9 DEF OnlyOnBus
    <3>2. inbox[1].req = asked[u] /\ \A i \in 1..Len(wire) : wire[i].req = asked[u]
      BY <1>3, <2>9 DEF OnlyOnBus
    <3>3. \A i \in 1..Len(wire') : wire'[i].req = asked[u]
      BY <2>5, <3>2
    <3> QED BY <1>1, <2>9, <3>1, <3>3 DEF OnlyOnBus
  <2>10. ASSUME Earlier PROVE Earlier'
    <3>1. inbox[1].req <= base /\ \A i \in 1..Len(wire) : wire[i].req <= base
      BY <1>3, <2>10 DEF Earlier
    <3>2. \A i \in 1..Len(wire') : wire'[i].req <= base
      BY <2>5, <3>1
    <3>3. \A i \in 1..Len(inbox') : inbox'[i].req <= base
      BY <1>3, <2>10 DEF Earlier
    <3> QED BY <1>1, <2>10, <3>2, <3>3 DEF Earlier
  <2>11. wire # <<>> => wire' # <<>> /\ wire'[1] = wire[1]
    <3>1. wire # <<>> => 1 \in 1..Len(wire)
      BY <2>3
    <3>2. Len(wire') # 0
      BY <2>3, <2>4
    <3> QED BY <2>4, <3>1, <3>2
  <2> QED BY <1>1, <2>1, <2>6, <2>7, <2>8, <2>9, <2>10, <2>11, OutsideOK
<1>7. \A n \in 1..MaxReply : n \in Nat \ {0} /\ \A cut \in {1, n} : cut \in Nat
  BY BackendAssumption
<1> QED BY <1>5, <1>6, <1>7 DEF Device, DeviceIgnores

\* The network delivers, duplicates or adds a datagram.
LEMMA NetworkNext ==
  ASSUME BackendsInv, TypeOK', backend = "udp", UdpNetwork, UNCHANGED messageBased
  PROVE  DataOK'
<1>0. TypeOK /\ KnownOK
  BY DEF BackendsInv
<1>1. UNCHANGED <<machineVars, backend, base, part, buffer, mode, requests, asked, validateSource, fixedPort, messageBased>>
  BY OutsideFacts
<1>2. UNCHANGED <<resource, opened, state>>
  BY <1>1 DEF machineVars
<1>3. requests \in Nat /\ base \in Nat
  BY <1>0 DEF TypeOK
<1>4. ASSUME NEW n \in MaxSize..MaxReply, UdpAnswers(n) PROVE DataOK'
  <2> DEFINE d == [req |-> Head(inbox).req, port |-> Head(inbox).port, size |-> n]
  <2>1. /\ inbox # <<>> /\ inbox' = Tail(inbox) /\ Reachable(Head(inbox).port) /\ air' = air \cup {d}
        /\ UNCHANGED <<wire, framed, queue>>
    BY <1>4 DEF UdpAnswers, exchangeVars
  <2>2. /\ Len(inbox') = Len(inbox) - 1 /\ Len(inbox) \in Nat \ {0}
        /\ \A i \in 1..Len(inbox') : i + 1 \in 1..Len(inbox) /\ inbox'[i] = inbox[i + 1]
        /\ 1 \in 1..Len(inbox) /\ Head(inbox) = inbox[1]
    <3>1. inbox \in Seq(Requested)
      BY <1>0 DEF TypeOK, Requested
    <3> QED BY <2>1, <3>1, TailFacts
  <2>3. d.req = inbox[1].req
    BY <2>2
  <2> HIDE DEF d
  <2>4. inbox[1].req \in Nat \ {0} /\ inbox[1].port \in Nat \ {0} /\ inbox[1].req <= requests
    BY <1>0, <2>2, Elements DEF KnownOK
  <2>5. fixedPort \/ (inbox[1].port = resource /\ resource # NoResource /\ inbox[1].req > base)
    <3>1. fixedPort \/ inbox[1].port = resource
      BY <2>1, <2>2 DEF Reachable
    <3> QED BY <1>0, <2>2, <2>4, <3>1 DEF KnownOK, NoResource
  <2>6. KnownOK'
    <3>1. /\ \A i \in 1..Len(inbox') : inbox'[i].req <= requests /\ inbox'[i].port <= opened
          /\ backend = "udp" /\ ~fixedPort => \A i \in 1..Len(inbox') : inbox'[i].port = resource => inbox'[i].req > base
      BY <1>0, <2>2 DEF KnownOK
    <3>2. d.req \in 1..requests
      BY <1>3, <2>3, <2>4
    <3>3. \A e \in air' : e.req \in 1..requests
      BY <1>0, <2>1, <3>2 DEF KnownOK
    <3>4. resource = NoResource /\ ~fixedPort => FALSE
      BY <2>5
    <3>5. ~fixedPort => \A e \in air' : e.req > base
      BY <1>0, <2>1, <2>3, <2>5 DEF KnownOK
    <3> QED BY <1>0, <1>1, <1>2, <2>1, <3>1, <3>3, <3>4, <3>5 DEF KnownOK
  <2>7. ASSUME NEW u \in Threads, OnceInAir(u) PROVE OnceInAir(u)'
    <3>1. \A i \in 1..Len(inbox') : inbox'[i].req <= base \/ (inbox'[i].req = asked[u] /\ i = Len(inbox'))
      <4>1. \A i \in 1..Len(inbox') : i + 1 = Len(inbox) => i = Len(inbox')
        BY <2>2
      <4>2. \A i \in 1..Len(inbox') : inbox[i + 1].req <= base \/ (inbox[i + 1].req = asked[u] /\ i + 1 = Len(inbox))
        BY <2>2, <2>7 DEF OnceInAir
      <4> QED BY <2>2, <4>1, <4>2
    <3>2. (\A i \in 1..Len(inbox) : inbox[i].req <= base) => \A i \in 1..Len(inbox') : inbox'[i].req <= base
      BY <2>2
    <3>3. CASE inbox[1].req <= base
      <4>1. d.req <= base
        BY <2>3, <3>3
      <4>2. \A e \in air' : \/ e.req <= base
                            \/ /\ e.req = asked[u]
                               /\ \A i \in 1..Len(inbox) : inbox[i].req <= base
                               /\ \A f \in air : f.req <= base \/ f = e
        BY <2>1, <2>7, <4>1 DEF OnceInAir
      <4>3. \A e \in air' : \/ e.req <= base
                            \/ /\ e.req = asked[u]
                               /\ \A i \in 1..Len(inbox') : inbox'[i].req <= base
                               /\ \A f \in air' : f.req <= base \/ f = e
        BY <2>1, <3>2, <4>1, <4>2
      <4>4. (\A f \in air : f.req <= base) => \A f \in air' : f.req <= base
        BY <2>1, <4>1
      <4> QED BY <1>1, <2>1, <2>7, <3>1, <3>2, <4>3, <4>4 DEF OnceInAir
    <3>4. CASE ~(inbox[1].req <= base)
      <4>1. inbox[1].req = asked[u] /\ Len(inbox) = 1
        BY <2>2, <2>7, <3>4 DEF OnceInAir
      <4>2. /\ \A e \in air : e.req <= base
            /\ \A i \in 1..Len(queue) : queue[i].req <= base
        BY <2>2, <2>7, <3>4 DEF OnceInAir
      <4>3. \A i \in 1..Len(inbox') : FALSE
        BY <2>2, <4>1
      <4>4. d.req = asked[u]
        BY <2>3, <4>1
      <4> QED BY <1>1, <2>1, <4>2, <4>3, <4>4 DEF OnceInAir
    <3> QED BY <3>3, <3>4
  <2>8. ASSUME Earlier PROVE Earlier'
    <3>1. inbox[1].req <= base /\ \A i \in 1..Len(inbox') : inbox'[i].req <= base
      BY <2>2, <2>8 DEF Earlier
    <3>2. \A e \in air' : e.req <= base
      BY <2>1, <2>3, <2>8, <3>1 DEF Earlier
    <3> QED BY <1>1, <2>1, <2>8, <3>1, <3>2 DEF Earlier
  <2>9. ASSUME NEW u \in Threads, OnlyOnBus(u) PROVE OnlyOnBus(u)'
    BY <1>1, <2>1, <2>2, <2>9 DEF OnlyOnBus
  <2> QED BY <1>1, <2>1, <2>6, <2>7, <2>8, <2>9, OutsideOK
<1>5. ASSUME NEW d \in Datagram, queue' = Append(queue, d), UNCHANGED <<inbox, wire>>,
             resource # NoResource,
             d.req <= requests, ~fixedPort => d.req = 0 \/ d.req > base,
             \/ d \in air /\ air' \subseteq air /\ (framed' => framed /\ air' = air \ {d})
             \/ d.req = 0 /\ UNCHANGED <<air, framed>>,
             framed' => framed
      PROVE  DataOK'
  <2>1. air' \subseteq air
    BY <1>5
  <2>2. /\ Len(queue') = Len(queue) + 1 /\ Len(queue) \in Nat
        /\ \A i \in 1..Len(queue) : queue'[i] = queue[i]
        /\ queue'[Len(queue) + 1] = d
    <3>1. queue \in Seq(Datagram)
      BY <1>0 DEF TypeOK
    <3> QED BY <1>5, <3>1, AppendFacts
  <2>3. \A i \in 1..Len(queue') : (i \in 1..Len(queue) /\ queue'[i] = queue[i]) \/ (i = Len(queue') /\ queue'[i] = d)
    BY <2>2
  <2>4. KnownOK'
    <3>1. \A i \in 1..Len(queue') : queue'[i].req <= requests
      BY <1>0, <1>5, <2>3 DEF KnownOK
    <3>2. ~fixedPort => \A i \in 1..Len(queue') : queue'[i].req = 0 \/ queue'[i].req > base
      BY <1>0, <1>5, <2>3 DEF KnownOK
    <3>3. \A e \in air' : e.req \in 1..requests
      BY <1>0, <2>1 DEF KnownOK
    <3>4. ~fixedPort => \A e \in air' : e.req > base
      BY <1>0, <2>1 DEF KnownOK
    <3> QED BY <1>0, <1>1, <1>2, <1>5, <3>1, <3>2, <3>3, <3>4 DEF KnownOK
  <2>5. ASSUME NEW u \in Threads, framed', OnceInAir(u) PROVE OnceInAir(u)'
    <3>1. CASE d.req <= base
      <4>1. \A e \in air' : \/ e.req <= base
                            \/ /\ e.req = asked[u]
                               /\ \A i \in 1..Len(inbox) : inbox[i].req <= base
                               /\ \A f \in air' : f.req <= base \/ f = e
        BY <2>1, <2>5 DEF OnceInAir
      <4>2. \A i \in 1..Len(queue') : \/ queue'[i].req <= base
                                      \/ /\ i \in 1..Len(queue) /\ queue'[i].req = asked[u]
                                         /\ \A j \in 1..Len(inbox) : inbox[j].req <= base
                                         /\ \A e \in air' : e.req <= base
                                         /\ \A j \in 1..Len(queue) : queue[j].req <= base \/ j = i
        BY <2>1, <2>3, <2>5, <3>1 DEF OnceInAir
      <4>3. \A i \in 1..Len(queue') : \/ queue'[i].req <= base
                                      \/ /\ queue'[i].req = asked[u]
                                         /\ \A j \in 1..Len(inbox) : inbox[j].req <= base
                                         /\ \A e \in air' : e.req <= base
                                         /\ \A j \in 1..Len(queue') : queue'[j].req <= base \/ j = i
        BY <2>3, <3>1, <4>2
      <4>4. \A i \in 1..Len(inbox) : inbox[i].req <= base \/ (inbox[i].req = asked[u] /\ i = Len(inbox))
        BY <2>5 DEF OnceInAir
      <4> QED BY <1>1, <1>5, <4>1, <4>3, <4>4 DEF OnceInAir
    <3>2. CASE ~(d.req <= base)
      <4>1. d \in air /\ air' = air \ {d}
        <5>1. d.req # 0
          BY <1>3, <3>2
        <5> QED BY <1>5, <2>5, <5>1
      <4>2. /\ d.req = asked[u]
            /\ \A i \in 1..Len(inbox) : inbox[i].req <= base
            /\ \A e \in air' : e.req <= base
            /\ \A i \in 1..Len(queue) : queue[i].req <= base
        BY <2>5, <3>2, <4>1 DEF OnceInAir
      <4>3. \A i \in 1..Len(queue') : queue'[i].req <= base \/ (queue'[i].req = asked[u] /\ i = Len(queue'))
        BY <2>3, <4>2
      <4> QED BY <1>1, <1>5, <4>2, <4>3 DEF OnceInAir
    <3> QED BY <3>1, <3>2
  <2>6. ASSUME Earlier PROVE Earlier'
    <3>1. d.req <= base
      BY <1>3, <1>5, <2>6 DEF Earlier
    <3>2. \A i \in 1..Len(queue') : queue'[i].req <= base
      BY <2>3, <2>6, <3>1 DEF Earlier
    <3> QED BY <1>1, <1>5, <2>1, <2>6, <3>2 DEF Earlier
  <2>7. ASSUME NEW u \in Threads, OnlyOnBus(u) PROVE OnlyOnBus(u)'
    BY <1>1, <1>5, <2>7 DEF OnlyOnBus
  <2> QED BY <1>1, <1>5, <2>4, <2>5, <2>6, <2>7, OutsideOK
<1>6. ASSUME NEW d \in air, NEW again \in BOOLEAN, UdpArrives(d, again) PROVE DataOK'
  <2>1. d \in Datagram /\ d.req \in 1..requests /\ (~fixedPort => d.req > base)
    BY <1>0, Elements DEF KnownOK
  <2>2. d.req <= requests
    BY <1>3, <2>1
  <2>3. /\ queue' = Append(queue, d) /\ resource # NoResource /\ UNCHANGED <<inbox, wire>>
        /\ air' = (IF again THEN air ELSE air \ {d}) /\ framed' = (framed /\ ~again)
    BY <1>6 DEF UdpArrives, lineVars
  <2>4. air' \subseteq air /\ (framed' => framed /\ air' = air \ {d})
    BY <2>3
  <2> QED BY <1>5, <2>1, <2>2, <2>3, <2>4
<1>7. CASE UdpForeign
  <2>1. Foreign \in Datagram /\ Foreign.req = 0
    BY DEF Foreign, Datagram
  <2>2. /\ queue' = Append(queue, Foreign) /\ resource # NoResource /\ UNCHANGED <<inbox, wire, air, framed>>
    BY <1>7 DEF UdpForeign, backendVars, lineVars, exchangeVars
  <2>3. Foreign.req <= requests
    BY <1>3, <2>1
  <2> QED BY <1>5, <2>1, <2>2, <2>3
<1> QED BY <1>4, <1>6, <1>7 DEF UdpNetwork

------------------------------------------------------------------------------
\* The invariant.

\* Every step keeps what is said of the replies.
LEMMA DataNext ==
  ASSUME BackendsInv, [Next]_vars
  PROVE  DataOK'
<1>0. TypeOK /\ TypeOK' /\ DataOK
  BY TypeNext DEF BackendsInv, DataOK
<1>1. ASSUME NEW t \in Threads, Step(t), Inside(t) PROVE DataOK'
  <2>1. \A u \in Threads \ {t} : pc[u] \in {"idle", "acquire"} /\ pc'[u] = pc[u]
    BY <1>0, <1>1, OneInside, Moves
  <2>2. Here(t)
    BY <1>0, <2>1, SoloNow
  <2>3. Here(t)'
    BY <1>0, <1>1, <2>2, StepCases, CommonHere, OpenedHere, RefusesHere, SendBeginsHere,
       SendEndsHere, ReadFailedHere,
       UdpHere, SerialHere, VisaHere
  <2> QED BY <2>1, <2>3, SoloThen
<1>2. ASSUME NEW t \in Threads, Step(t), ~Inside(t) PROVE DataOK'
  <2>1. pc[t] = "acquire" /\ UNCHANGED Data
    BY <1>0, <1>2, Waiting
  <2>2. /\ \A u \in Threads \ {t} : pc'[u] = pc[u]
        /\ pc'[t] \in {"idle", "run"} /\ op' = op
    BY <1>0, <1>2, Moves
  <2>3. Still /\ UNCHANGED <<state, requests, asked, mode>>
    BY <2>1 DEF Data, Still, backendVars, lineVars, exchangeVars, udpVars
  <2> QED BY <1>0, <2>1, <2>2, <2>3, QuietOK
<1>3. ASSUME NEW t \in Threads, NEW o \in BackendOperations, Called(t, o) PROVE DataOK'
  <2>1. /\ pc[t] = "idle" /\ pc' = [pc EXCEPT ![t] = "acquire"] /\ op' = [op EXCEPT ![t] = o]
        /\ Still /\ UNCHANGED <<state, requests, asked>>
        /\ mode' = mode \/ owner = NoThread
    BY <1>0, <1>3, CallFacts DEF Still
  <2>2. mode' = mode \/ \A u \in Threads : ~Inside(u)
    BY <2>1, TransportAssumption DEF BackendsInv, Serialized
  <2>3. \A u \in Threads : \/ pc'[u] = pc[u] /\ op'[u] = op[u]
                           \/ pc[u] \in {"idle", "acquire"} /\ pc'[u] \in {"idle", "acquire", "run"}
    BY <1>0, <2>1 DEF TypeOK
  <2> QED BY <1>0, <2>1, <2>2, <2>3, QuietOK
<1>4. CASE UNCHANGED vars
  <2>1. Still /\ UNCHANGED <<state, requests, asked, mode, pc, op>>
    BY <1>4 DEF vars, Still, machineVars, backendVars, lineVars, exchangeVars, udpVars
  <2> QED BY <1>0, <2>1, QuietOK
<1> QED BY <1>0, <1>1, <1>2, <1>3, <1>4, DeviceNext, NetworkNext DEF Next, Finished

\* The invariant holds at the start ...
LEMMA BackendsInvInit == Init => BackendsInv
<1> SUFFICES ASSUME Init PROVE BackendsInv
  OBVIOUS
<1> USE TransportAssumption, BackendAssumption DEF Init, BackendInit, UdpInit, VisaInit, MachineInit
<1>1. TypeOK
  <2>1. backend \in {"udp", "serial", "visa"}
    OBVIOUS
  <2>2. /\ fixedPort \in BOOLEAN /\ validateSource \in BOOLEAN /\ messageBased \in BOOLEAN
        /\ (backend # "udp" => fixedPort = FALSE)
    BY <2>1
  <2>3. MachineType
    BY DEF MachineType, TransportStates, Places, Operations, Outcomes, NoResource
  <2>4. DataType
    <3>1. /\ pending \in BOOLEAN /\ framed \in BOOLEAN /\ drainFirst \in BOOLEAN
          /\ flushed \in BOOLEAN
      OBVIOUS
    <3>2. mode \in Modes /\ previous \in TransportStates
      BY DEF Modes, TransportStates
    <3>3. /\ requests \in Nat /\ base \in 0..requests /\ spent \in Nat /\ drained \in Nat
          /\ old \in Nat
      OBVIOUS
    <3>4. asked \in [Threads -> Nat]
      OBVIOUS
    <3>5. backend # "udp" => ~fixedPort
      BY <2>2
    <3> QED BY <2>1, <2>2, <3>1, <3>2, <3>3, <3>4, <3>5, Zenon DEF DataType
  <2>5. LineType
    BY DEF LineType
  <2>6. answer \in [Threads -> Seq(Received)]
    <3>1. <<>> \in Seq(Received)
      OBVIOUS
    <3> QED BY <3>1
  <2> QED BY <2>3, <2>4, <2>5, <2>6 DEF TypeOK, MachineType, DataType, LineType, Requested
<1>2. Serialized /\ ResourceMatchesState /\ \A t \in Threads : PlaceOK(t)
  BY DEF Serialized, Inside, ResourceMatchesState, PlaceOK
<1>3. PendingOK /\ DrainOK
  BY DEF PendingOK, DrainOK, DrainedBeforeAsking
<1>4. PartOK /\ BufferOK
  BY DEF PartOK, PartShape, BufferOK, Kept, Reads
<1>5. KnownOK
  BY DEF KnownOK
<1>6. StepOK /\ WireOK
  BY DEF StepOK, Queries, Reads, WireOK
<1> QED BY <1>1, <1>2, <1>3, <1>4, <1>5, <1>6 DEF BackendsInv

\* ... and every step keeps it.
LEMMA BackendsInvNext == BackendsInv /\ [Next]_vars => BackendsInv'
<1> SUFFICES ASSUME BackendsInv, [Next]_vars PROVE BackendsInv'
  OBVIOUS
<1>1. DataOK'
  BY DataNext
<1>2. TypeOK' /\ Serialized' /\ ResourceMatchesState' /\ PendingOK' /\ DrainOK' /\ \A t \in Threads : PlaceOK(t)'
  BY TypeNext, SerializedNext, ResourceNext, PendingNext, DrainNext, PlaceNext
<1> QED BY <1>1, <1>2 DEF BackendsInv, DataOK

\* The lock, the resource, the place of every thread and the replies on their way agree
\* at every moment, on each of the three backends and for any number of threads.
THEOREM BackendsInvariant == Spec => []BackendsInv
<1>1. Init => BackendsInv
  BY BackendsInvInit
<1>2. BackendsInv /\ [Next]_vars => BackendsInv'
  BY BackendsInvNext
<1> QED BY <1>1, <1>2, PTL DEF Spec

------------------------------------------------------------------------------
\* What the invariant says of the runs' properties.

\* The resource is held exactly while the transport is open or being closed.
THEOREM BackendsResourceMatchesState == Spec => []ResourceMatchesState
<1>1. BackendsInv => ResourceMatchesState
  BY DEF BackendsInv
<1> QED BY <1>1, BackendsInvariant, PTL

\* A UDP socket opened after a fault has been drained when its first query goes out.
THEOREM BackendsDrainedBeforeAsking == Spec => []DrainedBeforeAsking
<1>1. BackendsInv => DrainedBeforeAsking
  BY DEF BackendsInv, DrainOK
<1> QED BY <1>1, BackendsInvariant, PTL

\* Nothing of an earlier exchange waits in a local buffer for the next read as long as
\* replies are read to their end, and no buffer survives its resource.
THEOREM BackendsBufferEmptyWhenFree == Spec => []BufferEmptyWhenFree
<1>1. BackendsInv => BufferEmptyWhenFree
  <2> SUFFICES ASSUME BackendsInv, owner = NoThread, framed \/ state # "OPEN"
               PROVE  buffer = <<>> /\ part = <<>>
    BY DEF BufferEmptyWhenFree
  <2>1. \A t \in Threads : pc[t] \in {"idle", "acquire"}
    BY TransportAssumption DEF BackendsInv, Serialized, Inside
  <2>2. part = <<>>
    BY <2>1 DEF BackendsInv, PartOK, Reads
  <2>3. Kept /\ state # "CLOSING"
    BY <2>1 DEF BackendsInv, BufferOK, Reads
  <2>4. buffer = <<>>
    BY <2>3 DEF BackendsInv, BufferOK, Kept
  <2> QED BY <2>2, <2>4
<1> QED BY <1>1, BackendsInvariant, PTL

\* The UDP, serial and VISA transports implement the transport contract: operations are
\* serialized, the state follows the life cycle, and no exchange leaves a query without
\* an answer behind it on an open transport.
THEOREM BackendsImplementsContract == Spec => ImplementsContract
<1>1. Init => Contract!Init
  BY DEF Init, BackendInit, MachineInit, Contract!Init
<1>2. BackendsInv /\ [Next]_vars => [Contract!Next]_(Contract!vars)
  BY ContractNext
<1> QED BY <1>1, <1>2, BackendsInvariant, PTL DEF Spec, ImplementsContract, Contract!Spec

------------------------------------------------------------------------------
\* What a read returns.

\* The steps that return one.
LEMMA ReturnCases ==
  ASSUME BackendsInv, [Next]_vars, NEW t \in Threads, Returns(t)
  PROVE  \/ backend = "udp" /\ UdpRead(t)
         \/ backend = "serial" /\ SerialReturn(t)
         \/ backend = "visa" /\ VisaReturnMessage(t)
         \/ backend = "visa" /\ \E n \in 1..Len(buffer) : VisaReturn(t, n)
<1>0. TypeOK
  BY DEF BackendsInv
<1>r. pc[t] = "recv" /\ pc'[t] = "idle" /\ outcome'[t] = "reply"
  BY DEF Returns
<1> DEFINE Goal == \/ backend = "udp" /\ UdpRead(t)
                   \/ backend = "serial" /\ SerialReturn(t)
                   \/ backend = "visa" /\ VisaReturnMessage(t)
                   \/ backend = "visa" /\ \E n \in 1..Len(buffer) : VisaReturn(t, n)
<1>1. CASE Step(t)
  <2> USE <1>0, <1>r DEF Leave, Raise, Goto, Running, TypeOK
  <2>1. CASE CommonStep(t)
    <3>1. CASE Lifecycle(t)
      BY <3>1 DEF Lifecycle, Acquire, CloseIdle, CloseBegin, InvalidateIdle, InvalidateOpen,
         RefuseIO, RefuseTransact,
         CloseEnd, Fault
    <3>2. CASE OpenAlready(t) \/ OpenUnavailable(t) \/ OpenBegin(t) \/ OpenFailed(t) \/ OpenInterrupted(t)
      BY <3>2 DEF OpenAlready, OpenUnavailable, OpenBegin, OpenFailed, OpenInterrupted
    <3>3. CASE ReadBegin(t) \/ Tick(t)
      BY <3>3 DEF ReadBegin, Tick, machineVars
    <3> QED BY <2>1, <3>1, <3>2, <3>3 DEF CommonStep
  <2>2. CASE OpenedStep(t) \/ SendBegins(t) \/ SendEnds(t) \/ ReadFailed(t)
    BY <2>2 DEF OpenedStep, Opened, SendBegins, SendBegin, SendEnds, SendDone, SendFailed,
       ReadFailed
  <2>3. CASE Refuses(t)
    BY <2>3 DEF Refuses, UdpOversize, UdpFlushOutput, DrainFailed, SerialUnsupported,
       SerialFlushFailed,
       VisaUnsupported, RefuseControl, ControlUnsupported, ControlFailed
  <2>4. CASE UdpReads(t)
    <3>1. UdpRead(t)
      BY <2>4 DEF UdpReads, UdpFlush, Drain, DrainDone, UdpSkip, machineVars
    <3> QED BY <2>4, <3>1 DEF UdpReads
  <2>5. CASE SerialReads(t)
    <3>1. SerialReturn(t)
      BY <2>5 DEF SerialReads, SerialReceive, SerialFlush, machineVars
    <3> QED BY <2>5, <3>1 DEF SerialReads
  <2>6. CASE VisaReads(t)
    <3>1. VisaReturnMessage(t) \/ \E n \in 1..Len(buffer) : VisaReturn(t, n)
      BY <2>6 DEF VisaReads, VisaReceive, VisaExtend, VisaFlush, Control, machineVars
    <3> QED BY <2>6, <3>1 DEF VisaReads
  <2> HIDE DEF Goal
  <2> QED BY <1>1, <2>1, <2>2, <2>3, <2>4, <2>5, <2>6, StepCases
<1>2. ASSUME NEW u \in Threads, u # t, Step(u) PROVE FALSE
  BY <1>0, <1>2, <1>r, Moves
<1>3. ASSUME NEW u \in Threads, NEW o \in BackendOperations, Called(u, o) PROVE FALSE
  BY <1>0, <1>3, <1>r, CallFacts DEF TypeOK
<1>4. CASE \/ Device /\ UNCHANGED <<udpVars, messageBased>>
           \/ backend = "udp" /\ UdpNetwork /\ UNCHANGED messageBased
  BY <1>4, <1>r, OutsideFacts DEF machineVars
<1>5. CASE UNCHANGED vars
  BY <1>5, <1>r DEF vars, machineVars
<1> QED BY <1>1, <1>2, <1>3, <1>4, <1>5 DEF Next, Finished

\* What the caller gets.
LEMMA Returned ==
  ASSUME TypeOK, NEW t \in Threads, NEW bytes, Return(t, bytes)
  PROVE  answer'[t] = bytes
  BY DEF Return, TypeOK

\* A UDP read returns the datagram at the head of the queue.
LEMMA UdpReturned ==
  ASSUME TypeOK, NEW t \in Threads, UdpRead(t)
  PROVE  /\ 1 \in 1..Len(queue) /\ queue[1].req \in Nat /\ queue[1].size \in 1..MaxSize /\ ~UdpSkips(queue[1])
         /\ answer'[t] = Reply(queue[1].req, queue[1].size, queue[1].size)
<1>1. queue \in Seq(Datagram) /\ queue # <<>>
  BY DEF TypeOK, UdpRead
<1>2. 1 \in 1..Len(queue) /\ Head(queue) = queue[1] /\ queue[1] \in Datagram
  BY <1>1, TailFacts
<1>3. queue[1].req \in Nat /\ queue[1].size \in Nat \ {0}
  BY <1>2 DEF Datagram
<1>4. queue[1].size <= MaxSize /\ ~UdpSkips(queue[1])
  BY <1>2 DEF UdpRead, UdpFits
<1>5. Return(t, Reply(queue[1].req, queue[1].size, queue[1].size))
  BY <1>2 DEF UdpRead
<1> QED BY <1>2, <1>3, <1>4, <1>5, Returned, BackendAssumption

\* A serial read returns what it has gathered and some of what waits.
LEMMA SerialReturned ==
  ASSUME TypeOK, NEW t \in Threads, SerialReturn(t)
  PROVE  \E w \in 0..Len(wire) :
           /\ answer'[t] \in Seq(Byte) /\ Len(answer'[t]) = Len(part) + w
           /\ \A i \in 1..Len(part) : answer'[t][i] = part[i]
           /\ \A i \in 1..w : answer'[t][Len(part) + i] = wire[i]
           /\ mode \in {"line", "exact"} => w = 0
           /\ w < MaxSize
<1>1. PICK w \in 0..Len(wire) :
        /\ Return(t, part \o SubSeq(wire, 1, w))
        /\ mode \in {"line", "exact"} => w = 0
        /\ w < MaxSize
  BY SerialReturnFacts
<1>2. wire \in Seq(Byte) /\ part \in Seq(Byte)
  BY DEF TypeOK
<1>3. /\ SubSeq(wire, 1, w) \in Seq(Byte) /\ Len(SubSeq(wire, 1, w)) = w
      /\ \A i \in 1..w : SubSeq(wire, 1, w)[i] = wire[i]
  <2>1. /\ SubSeq(wire, 1, w) \in Seq(Byte) /\ Len(SubSeq(wire, 1, w)) = w - 1 + 1
        /\ \A i \in 1..(w - 1 + 1) : SubSeq(wire, 1, w)[i] = wire[1 + i - 1]
    BY <1>2, Cut
  <2>2. \A i \in 1..w : 1 + i - 1 = i
    OBVIOUS
  <2> QED BY <2>1, <2>2
<1>4. answer'[t] = part \o SubSeq(wire, 1, w)
  BY <1>1, Returned
<1>5. /\ answer'[t] \in Seq(Byte) /\ Len(answer'[t]) = Len(part) + w
      /\ \A i \in 1..Len(part) : answer'[t][i] = part[i]
      /\ \A i \in 1..w : answer'[t][Len(part) + i] = wire[i]
  <2> DEFINE q == SubSeq(wire, 1, w)
             bytes == answer'[t]
  <2>1. q \in Seq(Byte) /\ Len(q) = w /\ bytes = part \o q /\ \A i \in 1..w : q[i] = wire[i]
    BY <1>3, <1>4
  <2> HIDE DEF q, bytes
  <2>2. /\ bytes \in Seq(Byte) /\ Len(bytes) = Len(part) + w
        /\ \A i \in 1..Len(part) : bytes[i] = part[i]
        /\ \A i \in 1..w : bytes[Len(part) + i] = wire[i]
    BY <1>2, <2>1, Join
  <2> QED BY <2>2 DEF bytes
<1> QED BY <1>1, <1>5

\* A VISA read returns the beginning of its buffer, or a message.
LEMMA VisaReturned ==
  ASSUME TypeOK, NEW t \in Threads, NEW n \in 1..Len(buffer), VisaReturn(t, n)
  PROVE  Len(answer'[t]) = n /\ \A i \in 1..n : answer'[t][i] = buffer[i]
<1>1. buffer \in Seq(Byte)
  BY DEF TypeOK
<1>2. Len(SubSeq(buffer, 1, n)) = n - 1 + 1 /\ \A i \in 1..(n - 1 + 1) : SubSeq(buffer, 1, n)[i] = buffer[1 + i - 1]
  BY <1>1, Cut
<1>3. \A i \in 1..n : 1 + i - 1 = i
  OBVIOUS
<1>4. answer'[t] = SubSeq(buffer, 1, n)
  BY Returned DEF VisaReturn
<1> QED BY <1>2, <1>3, <1>4

\* Every byte returned is one of a reply that the instrument gave to a query of this
\* thread, or to one of an earlier resource where the link can bring it here.
LEMMA AnswersNext ==
  ASSUME BackendsInv, [Next]_vars, NEW t \in Threads, Returns(t), NEW i \in 1..Len(answer'[t]),
         validateSource
  PROVE  /\ answer'[t][i].req # 0
         /\ op[t] = "transact" /\ framed =>
              \/ answer'[t][i].req = asked[t]
              \/ LinkOutlivesResource /\ answer'[t][i].req <= base
<1>0. TypeOK /\ KnownOK /\ StepOK /\ PlaceOK(t)
  BY DEF BackendsInv
<1>1. pc[t] = "recv" /\ state = "OPEN"
  BY <1>0 DEF Returns, PlaceOK
<1>2. op[t] = "transact" => Queries(t)
  BY <1>1 DEF Queries, Reads
<1>3. CASE backend = "udp" /\ UdpRead(t)
  <2>1. /\ 1 \in 1..Len(queue) /\ queue[1].req \in Nat /\ queue[1].size \in 1..MaxSize
        /\ queue[1].req # 0
    BY <1>0, <1>3, UdpReturned DEF UdpSkips
  <2>2. answer'[t][i].req = queue[1].req
    <3> DEFINE n == queue[1].size
    <3>1. answer'[t] = Reply(queue[1].req, n, n) /\ n \in Nat
      BY <1>0, <1>3, <2>1, UdpReturned, BackendAssumption
    <3> HIDE DEF n
    <3>2. Len(Reply(queue[1].req, n, n)) = n /\ \A j \in 1..n : Reply(queue[1].req, n, n)[j].req = queue[1].req
      BY <3>1 DEF Reply
    <3> QED BY <3>1, <3>2
  <2>3. base \in Nat
    BY <1>0 DEF TypeOK
  <2>4. ~fixedPort => ~(queue[1].req <= base)
    BY <1>0, <1>3, <2>1, <2>3 DEF KnownOK
  <2>5. op[t] = "transact" /\ framed => queue[1].req <= base \/ queue[1].req = asked[t]
    <3>1. op[t] = "transact" /\ framed => OnceInAir(t)
      BY <1>0, <1>1, <1>2, <1>3 DEF StepOK
    <3> QED BY <2>1, <3>1 DEF OnceInAir
  <2> QED BY <2>1, <2>2, <2>4, <2>5 DEF LinkOutlivesResource
<1>4. CASE backend = "serial" /\ SerialReturn(t)
  <2>1. PICK w \in 0..Len(wire) :
           /\ answer'[t] \in Seq(Byte) /\ Len(answer'[t]) = Len(part) + w
           /\ \A j \in 1..Len(part) : answer'[t][j] = part[j]
           /\ \A j \in 1..w : answer'[t][Len(part) + j] = wire[j]
    BY <1>0, <1>4, SerialReturned
  <2>2. Len(part) \in Nat /\ Len(wire) \in Nat
    <3>1. part \in Seq(Byte) /\ wire \in Seq(Byte)
      BY <1>0 DEF TypeOK
    <3> QED BY <3>1
  <2>3. \/ i \in 1..Len(part) /\ answer'[t][i] = part[i]
        \/ \E j \in 1..Len(wire) : answer'[t][i] = wire[j]
    <3>1. CASE i \in 1..Len(part)
      BY <2>1, <3>1
    <3>2. CASE i \notin 1..Len(part)
      <4>1. /\ i - Len(part) \in 1..w /\ i - Len(part) \in 1..Len(wire)
            /\ Len(part) + (i - Len(part)) = i
        BY <2>1, <2>2, <3>2
      <4> QED BY <2>1, <4>1
    <3> QED BY <3>1, <3>2
  <2>4. answer'[t][i].req # 0
    BY <1>0, <2>3, Elements
  <2>5. op[t] = "transact" /\ framed => LastOnLine(t)
    BY <1>0, <1>1, <1>2, <1>4 DEF StepOK
  <2>6. LastOnLine(t) => answer'[t][i].req <= base \/ answer'[t][i].req = asked[t]
    BY <2>3 DEF LastOnLine
  <2> QED BY <1>4, <2>4, <2>5, <2>6 DEF LinkOutlivesResource
<1>5. CASE backend = "visa" /\ VisaReturnMessage(t)
  <2>1. answer'[t] = part
    BY <1>0, <1>5, Returned DEF VisaReturnMessage
  <2>2. op[t] = "transact" => OnlyOnBus(t)
    BY <1>0, <1>2, <1>5 DEF StepOK
  <2>3. answer'[t][i].req # 0
    BY <1>0, <2>1, Elements
  <2> QED BY <2>1, <2>2, <2>3 DEF OnlyOnBus
<1>6. ASSUME backend = "visa", NEW n \in 1..Len(buffer), VisaReturn(t, n)
      PROVE  /\ answer'[t][i].req # 0
             /\ op[t] = "transact" /\ framed => answer'[t][i].req = asked[t]
  <2>1. i \in 1..n /\ answer'[t][i] = buffer[i]
    BY <1>0, <1>6, VisaReturned
  <2>2. i \in 1..Len(buffer)
    <3>1. buffer \in Seq(Byte)
      BY <1>0 DEF TypeOK
    <3>2. Len(buffer) \in Nat
      BY <3>1
    <3> QED BY <2>1, <3>2
  <2>3. op[t] = "transact" => OnlyOnBus(t)
    BY <1>0, <1>2, <1>6 DEF StepOK
  <2> QED BY <1>0, <2>1, <2>2, <2>3, Elements DEF OnlyOnBus
<1> QED BY <1>3, <1>4, <1>5, <1>6, ReturnCases

\* What a query returns answers that query, as long as replies are in step on this
\* resource, on each of the three backends; on a serial line and a fixed UDP port the
\* first reply out of step is one to a query of an earlier resource.
THEOREM BackendsAnswersOwnRequest == Spec => AnswersOwnRequest
<1>1. BackendsInv /\ [Next]_vars =>
        [\A t \in Threads : Returns(t) =>
           \A i \in 1..Len(answer'[t]) :
             validateSource =>
               /\ answer'[t][i].req # 0
               /\ op[t] = "transact" /\ framed =>
                    \/ answer'[t][i].req = asked[t]
                    \/ LinkOutlivesResource /\ answer'[t][i].req <= base]_vars
  BY AnswersNext
<1> QED BY <1>1, BackendsInvariant, PTL DEF Spec, AnswersOwnRequest

\* A line or a message is returned whole and within the size limit, whatever the chunks.
LEMMA WholeNext ==
  ASSUME BackendsInv, [Next]_vars, NEW t \in Threads, Returns(t), answer'[t][1].at = 1
  PROVE  /\ Len(answer'[t]) <= MaxSize
         /\ mode = "message" => answer'[t][Len(answer'[t])].more = 0
         /\ mode = "line" => LineEnd(answer'[t]) = {Len(answer'[t])}
<1>0. TypeOK /\ PartShape /\ BufferOK
  BY DEF BackendsInv, PartOK
<1>a. MaxSize \in Nat \ {0} /\ Length \in 1..MaxSize
  BY BackendAssumption
<1>b. /\ part \in Seq(Byte) /\ buffer \in Seq(Byte)
      /\ mode \in {"line", "exact", "upTo", "available", "message"}
  BY <1>0 DEF TypeOK, Modes
<1>c. Len(part) \in Nat /\ Len(buffer) \in Nat
  BY <1>b
<1>1. pc[t] = "recv"
  BY DEF Returns
<1>2. CASE backend = "udp" /\ UdpRead(t)
  <2> DEFINE r == queue[1].req
             n == queue[1].size
  <2>1. r \in Nat /\ n \in 1..MaxSize /\ answer'[t] = Reply(r, n, n)
    BY <1>0, <1>2, UdpReturned
  <2> HIDE DEF r, n
  <2>2. n \in 1..n /\ n \in Nat \ {0}
    BY <1>a, <2>1
  <2>3. Len(Reply(r, n, n)) = n /\ Reply(r, n, n)[n].more = 0
    BY <2>2 DEF Reply
  <2>4. \A i \in 1..n : Reply(r, n, n)[i].eol <=> i = n
    <3>1. \A i \in 1..n : Reply(r, n, n)[i].eol <=> i \in {n, n}
      BY <2>2, ReplyLines
    <3> QED BY <3>1, Zenon
  <2>5. LineEnd(Reply(r, n, n)) = {n}
    BY <2>2, <2>3, <2>4 DEF LineEnd
  <2> QED BY <1>a, <2>1, <2>3, <2>5
<1>3. CASE backend = "serial" /\ SerialReturn(t)
  <2>1. /\ part # <<>> /\ mode # "message" /\ (mode = "exact" => Len(part) = Length)
        /\ mode = "line" => part[Len(part)].eol
    BY <1>0, <1>3, SerialReturnFacts
  <2>2. PICK w \in 0..Len(wire) :
           /\ Len(answer'[t]) = Len(part) + w
           /\ \A i \in 1..Len(part) : answer'[t][i] = part[i]
           /\ mode \in {"line", "exact"} => w = 0
           /\ w < MaxSize
    BY <1>0, <1>3, SerialReturned
  <2>3. CASE mode = "line"
    <3>1. Len(part) <= MaxSize /\ \A i \in 1..(Len(part) - 1) : ~part[i].eol
      BY <1>0, <1>3, <2>3 DEF PartShape
    <3>2. Len(answer'[t]) = Len(part) /\ Len(part) \in 1..Len(part)
      BY <1>b, <1>c, <2>1, <2>2, <2>3
    <3>3. \A i \in 1..Len(part) : i # Len(part) => i \in 1..(Len(part) - 1)
      BY <1>c
    <3>4. \A i \in 1..Len(part) : answer'[t][i].eol <=> i = Len(part)
      BY <2>1, <2>2, <2>3, <3>1, <3>3, Zenon
    <3>5. LineEnd(answer'[t]) = {Len(part)}
      BY <3>2, <3>4 DEF LineEnd
    <3> QED BY <2>3, <3>1, <3>2, <3>5
  <2>4. CASE mode = "exact"
    BY <1>a, <2>1, <2>2, <2>4
  <2>5. CASE mode \in {"upTo", "available"}
    <3>1. Len(part) <= 1
      BY <1>0, <1>3, <2>5 DEF PartShape
    <3>2. Len(answer'[t]) <= MaxSize
      BY <1>a, <1>c, <2>2, <3>1
    <3> QED BY <2>5, <3>2
  <2> QED BY <1>b, <2>1, <2>3, <2>4, <2>5
<1>4. CASE backend = "visa" /\ VisaReturnMessage(t)
  <2>1. answer'[t] = part
    BY <1>0, <1>4, Returned DEF VisaReturnMessage
  <2>2. mode = "message" /\ Len(part) <= MaxSize /\ part[Len(part)].more = 0
    BY <1>4 DEF VisaReturnMessage, VisaMessageEnded
  <2> QED BY <2>1, <2>2
<1>5. ASSUME backend = "visa", NEW n \in 1..Len(buffer), VisaReturn(t, n)
      PROVE  /\ Len(answer'[t]) <= MaxSize
             /\ mode = "message" => answer'[t][Len(answer'[t])].more = 0
             /\ mode = "line" => LineEnd(answer'[t]) = {Len(answer'[t])}
  <2>1. Len(answer'[t]) = n /\ \A i \in 1..n : answer'[t][i] = buffer[i]
    BY <1>0, <1>5, VisaReturned
  <2>2. VisaTake(n)
    BY <1>5 DEF VisaReturn
  <2>3. CASE mode = "line"
    <3>1. n \in LineEnd(buffer) /\ n <= MaxSize /\ \A i \in LineEnd(buffer) : n <= i
      BY <2>2, <2>3 DEF VisaTake
    <3>2. \A i \in 1..n : i \in 1..Len(buffer) /\ (i # n => ~(n <= i))
      BY <1>c
    <3>3. \A i \in 1..n : answer'[t][i].eol <=> i = n
      BY <2>1, <3>1, <3>2, Zenon DEF LineEnd
    <3>4. n \in 1..n
      BY <1>c
    <3>5. LineEnd(answer'[t]) = {n}
      BY <2>1, <3>3, <3>4 DEF LineEnd
    <3> QED BY <2>1, <2>3, <3>1, <3>5
  <2>4. CASE mode = "exact"
    <3>1. n = Length
      BY <2>2, <2>4 DEF VisaTake
    <3> QED BY <1>a, <2>1, <2>4, <3>1
  <2>5. CASE mode \in {"upTo", "available"}
    <3>1. n = Smaller(Len(buffer), VisaLimit)
      BY <2>2, <2>5 DEF VisaTake
    <3>2. VisaLimit \in Nat /\ VisaLimit <= MaxSize
      BY <1>a DEF VisaLimit, Smaller
    <3>3. n <= MaxSize
      BY <1>a, <1>c, <3>1, <3>2 DEF Smaller
    <3> QED BY <2>1, <2>5, <3>3
  <2>6. CASE mode = "message"
    <3>1. 1 \in 1..n /\ 1 \in 1..Len(buffer)
      BY <1>c
    <3>2. ~(buffer[1].at > 1)
      BY <2>1, <3>1
    <3>3. ~Kept
      BY <3>1, <3>2 DEF Kept
    <3>4. ~Gathered
      BY <2>6 DEF Gathered
    <3>5. \A u \in Threads : pc[u] # "fault"
      BY <1>1, OneInside DEF Inside
    <3> QED BY <1>0, <3>3, <3>4, <3>5 DEF BufferOK
  <2> QED BY <1>b, <2>3, <2>4, <2>5, <2>6
<1> QED BY <1>2, <1>3, <1>4, <1>5, ReturnCases

\* A terminated read that begins with a reply returns its first line, a message read the
\* whole message, never more than the size limit, for every length of replies, chunks,
\* limits and timeouts.
THEOREM BackendsWholeReply == Spec => WholeReply
<1>1. BackendsInv /\ [Next]_vars =>
        [\A t \in Threads :
           LET bytes == answer'[t] IN
           (Returns(t) /\ bytes[1].at = 1) =>
             /\ Len(bytes) <= MaxSize
             /\ mode = "message" => bytes[Len(bytes)].more = 0
             /\ mode = "line" => LineEnd(bytes) = {Len(bytes)}]_vars
  BY WholeNext
<1> QED BY <1>1, BackendsInvariant, PTL DEF Spec, WholeReply

==============================================================================
