------------------------- MODULE TcpTransportProofs --------------------------
(***************************************************************************)
(* Proofs about the TCP transport for every number of threads, calls,       *)
(* reconnects, ticks and reply lengths.                                     *)
(***************************************************************************)
EXTENDS TcpTransport, TLAPS

\* Every step keeps the types of the state machine's variables.
LEMMA MachineTypeStep ==
  ASSUME TcpInv, [Next]_vars PROVE MachineTypeOK'
<1> USE TransportAssumption DEF TcpInv, TypeOK, MachineTypeOK
<1>1. ASSUME NEW t \in Threads, Lifecycle(t) PROVE MachineTypeOK'
  <2>1. CASE Acquire(t)
    BY <2>1 DEF Acquire, Goto, Places
  <2>2. CASE CloseIdle(t) \/ InvalidateIdle(t) \/ RefuseIO(t)
    BY <2>2 DEF CloseIdle, InvalidateIdle, RefuseIO, Leave, Goto, Places, Outcomes
  <2>3. CASE CloseBegin(t)
    BY <2>3 DEF CloseBegin, Goto, Places, TransportStates
  <2>4. CASE InvalidateOpen(t) \/ RefuseTransact(t)
    BY <2>4 DEF InvalidateOpen, RefuseTransact, Raise, Goto, Places, Outcomes
  <2>5. CASE CloseEnd(t)
    BY <2>5 DEF CloseEnd, ReleaseResource, NoResource, Leave, Goto, Places, Outcomes,
        TransportStates
  <2>6. CASE Fault(t)
    BY <2>6 DEF Fault, ReleaseResource, NoResource, Leave, Goto, Places, TransportStates
  <2> QED BY <1>1, <2>1, <2>2, <2>3, <2>4, <2>5, <2>6 DEF Lifecycle
<1>2. ASSUME NEW t \in Threads, NEW o \in Operations, Call(t, o) PROVE MachineTypeOK'
  BY <1>2 DEF Call, Goto, Places, Outcomes
<1>3. ASSUME NEW t \in Threads, OpenBegin(t) PROVE MachineTypeOK'
  BY <1>3 DEF OpenBegin, ReleaseResource, NoResource, Goto, Places, TransportStates
<1>4. ASSUME NEW t \in Threads, Opened(t) PROVE MachineTypeOK'
  BY <1>4 DEF Opened, Leave, Goto, Places, Outcomes, TransportStates
<1>5. ASSUME NEW t \in Threads, OpenAlready(t) \/ OpenFailed(t) \/ OpenInterrupted(t)
      PROVE MachineTypeOK'
  BY <1>5 DEF OpenAlready, OpenFailed, OpenInterrupted, Leave, Goto, Places, Outcomes,
      TransportStates
<1>6. ASSUME NEW t \in Threads, SendBegin(t) \/ ReadBegin(t) \/ FlushBegin(t)
      PROVE MachineTypeOK'
  BY <1>6 DEF SendBegin, ReadBegin, FlushBegin, Goto, Places
<1>7. ASSUME NEW t \in Threads, SendDone(t) PROVE MachineTypeOK'
  BY <1>7 DEF SendDone, Leave, Raise, Goto, Places, Outcomes
<1>8. ASSUME NEW t \in Threads, SendFailed(t) \/ ReadFailed(t) \/ FlushFailed(t)
      PROVE MachineTypeOK'
  BY <1>8 DEF SendFailed, ReadFailed, FlushFailed, Raise, Goto, Places, Outcomes
<1>9. ASSUME NEW t \in Threads, ReadUnsupported(t) \/ FlushOutput(t) \/ ReadBody(t)
             \/ (\E n \in 1..Len(buffer) : ReadLine(t, n))
             \/ (\E n \in 0..Len(wire) : FlushDrained(t, n))
      PROVE MachineTypeOK'
  BY <1>9 DEF ReadUnsupported, FlushOutput, ReadBody, ReadLine, FlushDrained, Leave, Goto,
      Places, Outcomes
<1>10. ASSUME NEW t \in Threads, ReadHeader(t) PROVE MachineTypeOK'
  BY <1>10 DEF ReadHeader, Goto, Places
<1>11. ASSUME NEW t \in Threads, Tick(t) \/ (\E n \in 1..Len(wire) : Receive(t, n))
       PROVE MachineTypeOK'
  BY <1>11 DEF Tick, Receive, machineVars
<1>12. CASE Device \/ Finished \/ UNCHANGED vars
  BY <1>12 DEF Device, DeviceAnswers, DeviceIgnores, Finished, vars, machineVars
<1> QED BY <1>1, <1>2, <1>3, <1>4, <1>5, <1>6, <1>7, <1>8, <1>9, <1>10, <1>11, <1>12
        DEF Next, Step

\* Every step keeps the lock with the one thread inside an operation.
LEMMA SerializedStep ==
  ASSUME TcpInv, [Next]_vars PROVE Serialized'
<1> USE TransportAssumption DEF TcpInv, TypeOK, MachineTypeOK, Serialized, Inside
<1>1. ASSUME NEW t \in Threads, Lifecycle(t) PROVE Serialized'
  <2>1. CASE Acquire(t)
    BY <2>1 DEF Acquire, Goto
  <2>2. CASE CloseIdle(t) \/ InvalidateIdle(t) \/ RefuseIO(t) \/ CloseEnd(t) \/ Fault(t)
    BY <2>2 DEF CloseIdle, InvalidateIdle, RefuseIO, CloseEnd, Fault, Running, Leave, Goto
  <2>3. CASE CloseBegin(t) \/ InvalidateOpen(t) \/ RefuseTransact(t)
    BY <2>3 DEF CloseBegin, InvalidateOpen, RefuseTransact, Running, Raise, Goto
  <2> QED BY <1>1, <2>1, <2>2, <2>3 DEF Lifecycle
<1>2. ASSUME NEW t \in Threads, NEW o \in Operations, Call(t, o) PROVE Serialized'
  BY <1>2 DEF Call, Goto
<1>3. ASSUME NEW t \in Threads,
             OpenBegin(t) \/ SendBegin(t) \/ ReadBegin(t) \/ FlushBegin(t) \/ ReadHeader(t)
      PROVE Serialized'
  BY <1>3 DEF OpenBegin, SendBegin, ReadBegin, FlushBegin, ReadHeader, Running, Goto
<1>4. ASSUME NEW t \in Threads,
             Opened(t) \/ OpenAlready(t) \/ OpenFailed(t) \/ OpenInterrupted(t)
      PROVE Serialized'
  BY <1>4 DEF Opened, OpenAlready, OpenFailed, OpenInterrupted, Running, Leave, Goto
<1>5. ASSUME NEW t \in Threads, SendDone(t) PROVE Serialized'
  <2>1. CASE Leave(t, "done")
    BY <1>5, <2>1 DEF SendDone, Leave, Goto
  <2>2. CASE Raise(t, "UnsupportedOperationError")
    BY <1>5, <2>2 DEF SendDone, Raise, Goto
  <2>3. CASE Goto(t, IF op[t] = "block" THEN "recvHeader" ELSE "recv") /\ UNCHANGED owner
    BY <1>5, <2>3 DEF SendDone, Goto
  <2> QED BY <1>5, <2>1, <2>2, <2>3 DEF SendDone
<1>6. ASSUME NEW t \in Threads, SendFailed(t) \/ ReadFailed(t) \/ FlushFailed(t)
      PROVE Serialized'
  BY <1>6 DEF SendFailed, ReadFailed, FlushFailed, Reading, Raise, Goto
<1>7. ASSUME NEW t \in Threads, ReadUnsupported(t) \/ FlushOutput(t) \/ ReadBody(t)
             \/ (\E n \in 1..Len(buffer) : ReadLine(t, n))
             \/ (\E n \in 0..Len(wire) : FlushDrained(t, n))
      PROVE Serialized'
  BY <1>7 DEF ReadUnsupported, FlushOutput, ReadBody, ReadLine, FlushDrained, Running, Leave, Goto
<1>8. ASSUME NEW t \in Threads, Tick(t) \/ (\E n \in 1..Len(wire) : Receive(t, n))
      PROVE Serialized'
  BY <1>8 DEF Tick, Receive, machineVars
<1>9. CASE Device \/ Finished \/ UNCHANGED vars
  BY <1>9 DEF Device, DeviceAnswers, DeviceIgnores, Finished, vars, machineVars
<1> QED BY <1>1, <1>2, <1>3, <1>4, <1>5, <1>6, <1>7, <1>8, <1>9 DEF Next, Step

\* Every step keeps the resource in line with the state and leaks no handle.
LEMMA ResourceStep ==
  ASSUME TcpInv, [Next]_vars PROVE ResourceMatchesState'
<1> USE DEF TcpInv, TypeOK, MachineTypeOK, ResourceMatchesState, NoResource
<1>1. ASSUME UNCHANGED <<state, resource, handles>> PROVE ResourceMatchesState'
  BY <1>1
<1>2. ASSUME NEW t \in Threads, CloseBegin(t) PROVE ResourceMatchesState'
  BY <1>2 DEF CloseBegin
<1>3. ASSUME NEW t \in Threads, CloseEnd(t) \/ Fault(t) \/ OpenBegin(t)
      PROVE ResourceMatchesState'
  BY <1>3 DEF CloseEnd, Fault, OpenBegin, ReleaseResource
<1>4. ASSUME NEW t \in Threads, Opened(t) PROVE ResourceMatchesState'
  <2>1. state = "OPENING"
    BY <1>4 DEF Opened, PlaceOK
  <2>2. handles = {}
    BY <2>1
  <2> QED BY <1>4, <2>2 DEF Opened
<1>5. ASSUME NEW t \in Threads, OpenFailed(t) PROVE ResourceMatchesState'
  BY <1>5 DEF OpenFailed, PlaceOK
<1>6. ASSUME NEW t \in Threads, Lifecycle(t) PROVE ResourceMatchesState'
  <2>1. CASE Acquire(t) \/ CloseIdle(t) \/ InvalidateIdle(t) \/ InvalidateOpen(t)
             \/ RefuseIO(t) \/ RefuseTransact(t)
    BY <1>1, <2>1 DEF Acquire, CloseIdle, InvalidateIdle, InvalidateOpen, RefuseIO, RefuseTransact
  <2> QED BY <1>2, <1>3, <1>6, <2>1 DEF Lifecycle
<1>7. ASSUME NEW t \in Threads, NEW o \in Operations, Call(t, o)
      PROVE ResourceMatchesState'
  BY <1>1, <1>7 DEF Call
<1>8. ASSUME NEW t \in Threads, OpenAlready(t) \/ OpenInterrupted(t) \/ SendBegin(t)
             \/ SendDone(t) \/ SendFailed(t) \/ ReadUnsupported(t) \/ ReadBegin(t)
      PROVE ResourceMatchesState'
  BY <1>1, <1>8
  DEF OpenAlready, OpenInterrupted, SendBegin, SendDone, SendFailed, ReadUnsupported, ReadBegin
<1>9. ASSUME NEW t \in Threads, (\E n \in 1..Len(wire) : Receive(t, n))
             \/ (\E n \in 1..Len(buffer) : ReadLine(t, n))
             \/ ReadHeader(t) \/ ReadBody(t) \/ ReadFailed(t) \/ Tick(t)
      PROVE ResourceMatchesState'
  BY <1>1, <1>9 DEF Receive, ReadLine, ReadHeader, ReadBody, ReadFailed, Tick, machineVars
<1>10. ASSUME NEW t \in Threads, FlushOutput(t) \/ FlushBegin(t) \/ FlushFailed(t)
              \/ (\E n \in 0..Len(wire) : FlushDrained(t, n))
       PROVE ResourceMatchesState'
  BY <1>1, <1>10 DEF FlushOutput, FlushBegin, FlushFailed, FlushDrained
<1>11. CASE Device \/ Finished \/ UNCHANGED vars
  BY <1>1, <1>11 DEF Device, DeviceAnswers, DeviceIgnores, Finished, vars, machineVars
<1> QED BY <1>3, <1>4, <1>5, <1>6, <1>7, <1>8, <1>9, <1>10, <1>11 DEF Next, Step

\* A step of a thread moves only that thread, and the others are outside any
\* operation, so what they have asked and got is untouched.
LEMMA OneThreadMoves ==
  ASSUME TcpInv, NEW t \in Threads, Step(t), NEW u \in Threads, u # t
  PROVE  /\ pc'[u] = pc[u] /\ op'[u] = op[u] /\ outcome'[u] = outcome[u]
         /\ asked'[u] = asked[u] /\ answer'[u] = answer[u]
         /\ pc[u] \in {"idle", "acquire"}
<1> USE DEF TcpInv, TypeOK, MachineTypeOK
<1>1. Inside(t) \/ owner = NoThread
  BY DEF Step, Lifecycle, Acquire, CloseIdle, CloseBegin, CloseEnd, InvalidateIdle,
      InvalidateOpen,
     RefuseIO, RefuseTransact, Fault, OpenAlready, OpenBegin, Opened, OpenFailed, OpenInterrupted,
     SendBegin, SendDone, SendFailed, ReadUnsupported, ReadBegin, Receive, ReadLine, ReadHeader,
     ReadBody, ReadFailed, Tick, FlushOutput, FlushBegin, FlushFailed, FlushDrained, Running,
     Reading, Inside
<1>2. pc[u] \in {"idle", "acquire"}
  BY <1>1, TransportAssumption DEF Serialized, Inside
<1>3. CASE Lifecycle(t)
  BY <1>2, <1>3 DEF Lifecycle, Acquire, CloseIdle, CloseBegin, CloseEnd, InvalidateIdle,
     InvalidateOpen, RefuseIO, RefuseTransact, Fault, Leave, Raise, Goto, tcpVars,
         UnchangedExchange
<1>4. CASE OpenAlready(t) \/ OpenBegin(t) \/ Opened(t) \/ OpenFailed(t) \/ OpenInterrupted(t)
  BY <1>2, <1>4
  DEF OpenAlready, OpenBegin, Opened, OpenFailed, OpenInterrupted, Leave, Goto, tcpVars
<1>5. CASE SendBegin(t) \/ ReadBegin(t)
  BY <1>2, <1>5 DEF SendBegin, ReadBegin, Goto
<1>6. CASE SendDone(t) \/ SendFailed(t) \/ ReadUnsupported(t)
  BY <1>2, <1>6 DEF SendDone, SendFailed, ReadUnsupported, Leave, Raise, Goto, tcpVars
<1>7. CASE Tick(t) \/ (\E n \in 1..Len(wire) : Receive(t, n))
  BY <1>2, <1>7 DEF Tick, Receive, machineVars
<1>8. CASE ReadHeader(t) \/ ReadBody(t) \/ ReadFailed(t)
           \/ (\E n \in 1..Len(buffer) : ReadLine(t, n))
  BY <1>2, <1>8 DEF ReadHeader, ReadBody, ReadFailed, ReadLine, Take, Leave, Raise, Goto, tcpVars
<1>9. CASE FlushOutput(t) \/ FlushBegin(t) \/ FlushFailed(t)
           \/ (\E n \in 0..Len(wire) : FlushDrained(t, n))
  BY <1>2, <1>9 DEF FlushOutput, FlushBegin, FlushFailed, FlushDrained, Leave, Raise, Goto,
      tcpVars
<1> QED BY <1>3, <1>4, <1>5, <1>6, <1>7, <1>8, <1>9 DEF Step

\* Every step keeps each thread's place in agreement with state and result.
LEMMA PlaceStep ==
  ASSUME TcpInv, [Next]_vars, NEW u \in Threads PROVE PlaceOK(u)'
<1> USE DEF TcpInv, TypeOK, MachineTypeOK
<1>1. ASSUME NEW t \in Threads, Step(t), u # t PROVE PlaceOK(u)'
  BY <1>1, OneThreadMoves DEF PlaceOK, Reading
<1>2. ASSUME Lifecycle(u) PROVE PlaceOK(u)'
  <2>1. CASE Acquire(u) \/ CloseIdle(u) \/ InvalidateIdle(u) \/ RefuseIO(u) \/ CloseEnd(u)
    BY <2>1 DEF Acquire, CloseIdle, InvalidateIdle, RefuseIO, CloseEnd, Leave, Goto, PlaceOK,
        Reading
  <2>2. CASE CloseBegin(u)
    BY <2>2 DEF CloseBegin, Running, Goto, PlaceOK, Reading
  <2>3. CASE InvalidateOpen(u) \/ RefuseTransact(u)
    BY <2>3 DEF InvalidateOpen, RefuseTransact, Raise, Goto, PlaceOK, Reading
  <2>4. CASE Fault(u)
    BY <2>4 DEF Fault, Leave, Goto, PlaceOK, Reading
  <2> QED BY <1>2, <2>1, <2>2, <2>3, <2>4 DEF Lifecycle
<1>3. ASSUME OpenAlready(u) \/ OpenFailed(u) \/ OpenInterrupted(u) \/ Opened(u)
      PROVE PlaceOK(u)'
  BY <1>3 DEF OpenAlready, OpenFailed, OpenInterrupted, Opened, Leave, Goto, PlaceOK, Reading
<1>4. ASSUME OpenBegin(u) PROVE PlaceOK(u)'
  BY <1>4 DEF OpenBegin, Running, Goto, PlaceOK, Reading
<1>5. ASSUME SendBegin(u) PROVE PlaceOK(u)'
  BY <1>5, TcpAssumption DEF SendBegin, Goto, PlaceOK, Reading
<1>6. ASSUME SendDone(u) PROVE PlaceOK(u)'
  <2>1. CASE op[u] = "write"
    BY <1>6, <2>1 DEF SendDone, Leave, Goto, PlaceOK, Reading
  <2>2. CASE op[u] \in {"transact", "block"}
    BY <1>6, <2>2, TcpAssumption DEF SendDone, WithinTimeout, Goto, PlaceOK, Reading
  <2>3. CASE op[u] = "transactMessage"
    BY <1>6, <2>3 DEF SendDone, Raise, Goto, PlaceOK, Reading
  <2> QED BY <1>6, <2>1, <2>2, <2>3 DEF SendDone
<1>7. ASSUME SendFailed(u) \/ ReadFailed(u) \/ FlushFailed(u) PROVE PlaceOK(u)'
  BY <1>7 DEF SendFailed, ReadFailed, FlushFailed, Raise, Goto, PlaceOK, Reading
<1>8. ASSUME ReadUnsupported(u) \/ FlushOutput(u) \/ ReadBody(u)
             \/ (\E n \in 1..Len(buffer) : ReadLine(u, n))
             \/ (\E n \in 0..Len(wire) : FlushDrained(u, n))
      PROVE PlaceOK(u)'
  BY <1>8
  DEF ReadUnsupported, FlushOutput, ReadBody, ReadLine, FlushDrained, Leave, Goto, PlaceOK,
      Reading
<1>9. ASSUME ReadBegin(u) \/ FlushBegin(u) PROVE PlaceOK(u)'
  BY <1>9, TcpAssumption DEF ReadBegin, FlushBegin, Running, Goto, PlaceOK, Reading
<1>10. ASSUME ReadHeader(u) PROVE PlaceOK(u)'
  <2>1. Len(buffer) >= 1 /\ answer[u] = {}
    BY <1>10 DEF ReadHeader, Enough, PlaceOK, Reading
  <2>2. buffer[1].req = asked[u]
    BY <1>10, <2>1 DEF ReadHeader, LineOK, Reading
  <2>3. answer'[u] = {asked[u]} /\ asked'[u] = asked[u]
    <3>1. {buffer[i].req : i \in 1..1} = {asked[u]}
      BY <2>2
    <3> QED BY <1>10, <2>1, <3>1 DEF ReadHeader, Take
  <2> QED BY <1>10, <2>3 DEF ReadHeader, Take, Goto, PlaceOK, Reading
<1>11. ASSUME Tick(u) PROVE PlaceOK(u)'
  BY <1>11, TcpAssumption DEF Tick, machineVars, PlaceOK, Reading
<1>12. ASSUME \E n \in 1..Len(wire) : Receive(u, n) PROVE PlaceOK(u)'
  BY <1>12 DEF Receive, machineVars, PlaceOK
<1>13. ASSUME NEW t \in Threads, NEW o \in Operations, Call(t, o), UNCHANGED tcpVars
       PROVE PlaceOK(u)'
  BY <1>13 DEF Call, Goto, tcpVars, PlaceOK, Reading
<1>14. CASE Device \/ Finished \/ UNCHANGED vars
  BY <1>14 DEF Device, DeviceAnswers, DeviceIgnores, Finished, vars, machineVars, tcpVars, PlaceOK
<1> QED BY <1>1, <1>2, <1>3, <1>4, <1>5, <1>6, <1>7, <1>8, <1>9, <1>10, <1>11, <1>12, <1>13, <1>14
        DEF Next, Step

\* A reply as it goes on the stream.
LEMMA ReplyShape ==
  ASSUME NEW r \in Nat, NEW n \in Nat \ {0}
  PROVE  /\ Reply(r, n) \in Seq(Byte)
         /\ Len(Reply(r, n)) = n
         /\ \A i \in 1..n : Reply(r, n)[i].req = r /\ Reply(r, n)[i].more = n - i
BY DEF Reply, Byte

\* Every step keeps the types of the TCP transport's variables.
LEMMA TcpTypeStep ==
  ASSUME TcpInv, [Next]_vars PROVE TypeOK'
<1> USE DEF TcpInv
<1>0. MachineTypeOK'
  BY MachineTypeStep
<1> USE DEF TypeOK
<1>1. ASSUME UNCHANGED tcpVars PROVE TypeOK'
  BY <1>0, <1>1 DEF tcpVars
<1>2. ASSUME NEW t \in Threads, Lifecycle(t) PROVE TypeOK'
  <2>1. CASE UNCHANGED tcpVars
    BY <1>1, <2>1
  <2>2. CASE OnClosed /\ Disconnected /\ UnchangedExchange
    BY <1>0, <2>2 DEF OnClosed, Disconnected, UnchangedExchange
  <2> QED BY <1>2, <2>1, <2>2 DEF Lifecycle
<1>3. ASSUME NEW t \in Threads, Opened(t) PROVE TypeOK'
  BY <1>0, <1>3 DEF Opened
<1>4. ASSUME NEW t \in Threads, SendBegin(t) PROVE TypeOK'
  <2>1. /\ requests' \in Nat
        /\ asked' \in [Threads -> Nat]
        /\ answer' \in [Threads -> SUBSET Nat]
    <3>1. CASE op[t] = "write"
      BY <1>4, <3>1 DEF SendBegin
    <3>2. CASE op[t] # "write"
      BY <1>4, <3>2, SMTT(20) DEF SendBegin
    <3> QED BY <3>1, <3>2
  <2> QED BY <1>0, <1>4, <2>1, TcpAssumption DEF SendBegin
<1>5. ASSUME NEW t \in Threads, SendDone(t) \/ SendFailed(t) PROVE TypeOK'
  <2>1. asked[t] \in Nat /\ Append(inbox, asked[t]) \in Seq(Nat) /\ Timeout - spent \in Nat
    BY TcpAssumption DEF WithinTimeout
  <2> QED BY <1>0, <1>5, <2>1 DEF SendDone, SendFailed
<1>6. ASSUME NEW t \in Threads, ReadBegin(t) PROVE TypeOK'
  BY <1>0, <1>6, TcpAssumption DEF ReadBegin
<1>7. ASSUME NEW t \in Threads, NEW n \in 1..Len(wire), Receive(t, n) PROVE TypeOK'
  <2>1. SubSeq(wire, 1, n) \in Seq(Byte) /\ SubSeq(wire, n + 1, Len(wire)) \in Seq(Byte)
    OBVIOUS
  <2>2. buffer \o SubSeq(wire, 1, n) \in Seq(Byte)
    BY <2>1
  <2> QED BY <1>0, <1>7, <2>1, <2>2 DEF Receive
<1>8. ASSUME NEW t \in Threads, NEW n \in 0..Len(buffer), Take(t, n), need' \in Nat PROVE TypeOK'
  <2>1. SubSeq(buffer, n + 1, Len(buffer)) \in Seq(Byte)
    OBVIOUS
  <2>2. {buffer[i].req : i \in 1..n} \in SUBSET Nat
    <3>1. \A i \in 1..n : buffer[i] \in Byte
      OBVIOUS
    <3>2. \A i \in 1..n : buffer[i].req \in Nat
      BY <3>1 DEF Byte
    <3> QED BY <3>2
  <2>3. answer' \in [Threads -> SUBSET Nat]
    BY <1>8, <2>2 DEF Take
  <2> QED BY <1>0, <1>8, <2>1, <2>3 DEF Take
<1>9. ASSUME NEW t \in Threads, NEW n \in 1..Len(buffer), ReadLine(t, n) PROVE TypeOK'
  BY <1>8, <1>9 DEF ReadLine
<1>10. ASSUME NEW t \in Threads, ReadHeader(t) PROVE TypeOK'
  <2>1. Len(buffer) >= 1
    BY <1>10 DEF ReadHeader, Enough
  <2>2. 1 \in 0..Len(buffer) /\ need' \in Nat
    BY <1>10, <2>1 DEF ReadHeader
  <2> QED BY <1>8, <1>10, <2>2 DEF ReadHeader
<1>11. ASSUME NEW t \in Threads, ReadBody(t) PROVE TypeOK'
  <2>1. Len(buffer) >= need
    BY <1>11 DEF ReadBody, Enough
  <2>2. need \in 0..Len(buffer) /\ need' \in Nat
    BY <1>11, <2>1 DEF ReadBody
  <2> QED BY <1>8, <1>11, <2>2 DEF ReadBody
<1>12. ASSUME NEW t \in Threads, Tick(t) PROVE TypeOK'
  BY <1>0, <1>12 DEF Tick
<1>13. ASSUME NEW t \in Threads, FlushBegin(t) PROVE TypeOK'
  BY <1>0, <1>13 DEF FlushBegin
<1>14. ASSUME NEW t \in Threads, NEW n \in 0..Len(wire), FlushDrained(t, n) PROVE TypeOK'
  <2>1. SubSeq(wire, n + 1, Len(wire)) \in Seq(Byte)
    OBVIOUS
  <2> QED BY <1>0, <1>14, <2>1 DEF FlushDrained
<1>15. ASSUME NEW n \in 1..MaxReply, DeviceAnswers(n) PROVE TypeOK'
  <2>1. Head(inbox) \in Nat /\ Tail(inbox) \in Seq(Nat)
    BY <1>15 DEF DeviceAnswers
  <2>2. Reply(Head(inbox), n) \in Seq(Byte)
    BY <2>1, ReplyShape, TcpAssumption
  <2>3. wire \o Reply(Head(inbox), n) \in Seq(Byte)
    BY <2>2
  <2> QED BY <1>0, <1>15, <2>1, <2>3 DEF DeviceAnswers
<1>16. ASSUME DeviceIgnores PROVE TypeOK'
  <2>1. Tail(inbox) \in Seq(Nat)
    BY <1>16 DEF DeviceIgnores
  <2> QED BY <1>0, <1>16, <2>1 DEF DeviceIgnores
<1>17. ASSUME NEW t \in Threads, OpenAlready(t) \/ OpenBegin(t) \/ OpenFailed(t) \/
    OpenInterrupted(t)
              \/ ReadUnsupported(t) \/ ReadFailed(t) \/ FlushOutput(t) \/ FlushFailed(t)
       PROVE TypeOK'
  BY <1>1, <1>17 DEF OpenAlready, OpenBegin, OpenFailed, OpenInterrupted, ReadUnsupported,
     ReadFailed, FlushOutput, FlushFailed
<1>18. CASE Finished \/ UNCHANGED vars
  BY <1>1, <1>18 DEF Finished, vars
<1> QED BY <1>1, <1>2, <1>3, <1>4, <1>5, <1>6, <1>7, <1>9, <1>10, <1>11, <1>12, <1>13, <1>14,
           <1>15, <1>16, <1>17, <1>18 DEF Next, Step, Device

\* A part of a sequence between two positions, and what follows a prefix.
LEMMA CutSequence ==
  ASSUME NEW s \in Seq(Byte), NEW n \in 0..Len(s)
  PROVE  /\ SubSeq(s, 1, n) \in Seq(Byte)
         /\ Len(SubSeq(s, 1, n)) = n
         /\ Len(SubSeq(s, n + 1, Len(s))) = Len(s) - n
         /\ \A i \in 1..n : SubSeq(s, 1, n)[i] = s[i]
         /\ \A i \in 1..(Len(s) - n) : SubSeq(s, n + 1, Len(s))[i] = s[n + i]
         /\ n = Len(s) => SubSeq(s, n + 1, Len(s)) = <<>>
OBVIOUS

\* Every step keeps what is outstanding inside one exchange.
LEMMA LineStep ==
  ASSUME TcpInv, [Next]_vars, NEW u \in Threads PROVE LineOK(u)'
<1> USE DEF TcpInv, TypeOK, MachineTypeOK
<1>1. ASSUME NEW t \in Threads, Step(t), u # t PROVE LineOK(u)'
  BY <1>1, OneThreadMoves DEF LineOK, Reading
<1>2. ASSUME pc'[u] \notin Reading PROVE LineOK(u)'
  BY <1>2 DEF LineOK
<1>3. ASSUME Lifecycle(u) PROVE LineOK(u)'
  <2>1. pc'[u] \notin Reading
    BY <1>3 DEF Lifecycle, Acquire, CloseIdle, CloseBegin, CloseEnd, InvalidateIdle,
        InvalidateOpen,
       RefuseIO, RefuseTransact, Fault, Leave, Raise, Goto, Reading
  <2> QED BY <1>2, <2>1
<1>4. ASSUME OpenAlready(u) \/ OpenBegin(u) \/ Opened(u) \/ OpenFailed(u) \/ OpenInterrupted(u)
             \/ SendBegin(u) \/ SendFailed(u) \/ ReadUnsupported(u) \/ ReadBody(u) \/
                 ReadFailed(u)
             \/ (\E n \in 1..Len(buffer) : ReadLine(u, n))
      PROVE LineOK(u)'
  <2>1. pc'[u] \notin Reading
    BY <1>4 DEF OpenAlready, OpenBegin, Opened, OpenFailed, OpenInterrupted, SendBegin,
        SendFailed,
       ReadUnsupported, ReadBody, ReadFailed, ReadLine, Leave, Raise, Goto, Reading
  <2> QED BY <1>2, <2>1
<1>5. ASSUME FlushOutput(u) \/ FlushBegin(u) \/ FlushFailed(u)
             \/ (\E n \in 0..Len(wire) : FlushDrained(u, n))
      PROVE LineOK(u)'
  <2>1. pc'[u] \notin Reading
    BY <1>5 DEF FlushOutput, FlushBegin, FlushFailed, FlushDrained, Leave, Raise, Goto, Reading
  <2> QED BY <1>2, <2>1
<1>6. ASSUME Inside(u), pc[u] \notin Reading \cup {"fault"}
      PROVE buffer = <<>> /\ wire = <<>> /\ inbox = <<>>
  <2>1. \A t \in Threads : t # u => pc[t] \in {"idle", "acquire"}
    BY <1>6 DEF Serialized, Inside
  <2> QED BY <1>6, <2>1 DEF LineEmpty, Reading
<1>7. ASSUME SendDone(u) PROVE LineOK(u)'
  <2>1. buffer = <<>> /\ wire = <<>> /\ inbox = <<>>
    BY <1>6, <1>7 DEF SendDone, Inside, Reading
  <2>2. CASE op[u] \in {"transact", "block"}
    <3>1. inbox' = <<asked[u]>> /\ asked'[u] = asked[u] /\ buffer' = <<>> /\ wire' = <<>>
      BY <1>7, <2>1, <2>2 DEF SendDone
    <3>2. pc'[u] # "recvBody"
      BY <1>7, <2>2 DEF SendDone, Goto
    <3> QED BY <3>1, <3>2 DEF LineOK
  <2>3. CASE op[u] \notin {"transact", "block"}
    <3>1. pc'[u] \notin Reading
      BY <1>7, <2>3 DEF SendDone, Leave, Raise, Goto, Reading
    <3> QED BY <1>2, <3>1
  <2> QED BY <2>2, <2>3
<1>8. ASSUME ReadBegin(u) PROVE LineOK(u)'
  <2>1. buffer = <<>> /\ wire = <<>> /\ inbox = <<>>
    BY <1>6, <1>8 DEF ReadBegin, Running, Inside, Reading
  <2>2. pc'[u] = "recv" /\ buffer' = <<>> /\ wire' = <<>> /\ inbox' = <<>>
    BY <1>8, <2>1 DEF ReadBegin, Goto
  <2> QED BY <2>2 DEF LineOK
<1>9. ASSUME NEW n \in 1..Len(wire), Receive(u, n) PROVE LineOK(u)'
  <2>1. /\ pc[u] \in Reading /\ pc'[u] = pc[u] /\ asked'[u] = asked[u]
        /\ inbox' = inbox /\ need' = need
    BY <1>9 DEF Receive, machineVars
  <2>2. /\ inbox = <<>>
        /\ \A i \in 1..Len(buffer) :
             buffer[i].req = asked[u] /\ buffer[i].more = Len(buffer) + Len(wire) - i
        /\ \A i \in 1..Len(wire) : wire[i].req = asked[u] /\ wire[i].more = Len(wire) - i
        /\ pc[u] = "recvBody" => need = Len(buffer) + Len(wire)
    <3>1. LineOK(u)
      BY DEF TcpInv
    <3>2. wire # <<>>
      OBVIOUS
    <3> QED BY ONLY <3>1, <3>2, <2>1 DEF LineOK
  <2>3. /\ buffer' = buffer \o SubSeq(wire, 1, n)
        /\ wire' = SubSeq(wire, n + 1, Len(wire))
    BY <1>9 DEF Receive
  <2>4. n \in 0..Len(wire) /\ n \in Nat /\ Len(wire) \in Nat /\ Len(buffer) \in Nat
    OBVIOUS
  <2>5. /\ SubSeq(wire, 1, n) \in Seq(Byte)
        /\ Len(SubSeq(wire, 1, n)) = n
        /\ \A i \in 1..n : SubSeq(wire, 1, n)[i] = wire[i]
    BY <2>4, CutSequence
  <2>6. /\ Len(wire') = Len(wire) - n
        /\ \A i \in 1..(Len(wire) - n) : wire'[i] = wire[n + i]
    BY <2>3, <2>4, CutSequence
  <2>7. /\ Len(buffer') = Len(buffer) + n
        /\ \A i \in 1..Len(buffer) : buffer'[i] = buffer[i]
        /\ \A i \in (Len(buffer) + 1)..(Len(buffer) + n) : buffer'[i] = wire[i - Len(buffer)]
    BY <2>3, <2>5
  <2>11. Len(buffer') + Len(wire') = Len(buffer) + Len(wire)
    BY <2>4, <2>6, <2>7
  <2>8. ASSUME NEW i \in 1..Len(buffer')
        PROVE buffer'[i].req = asked[u] /\ buffer'[i].more = Len(buffer') + Len(wire') - i
    <3>0. i \in Nat \ {0} /\ i <= Len(buffer) + n
      BY <2>4, <2>7
    <3>1. CASE i <= Len(buffer)
      <4>1. i \in 1..Len(buffer)
        BY <2>4, <3>0, <3>1
      <4>2. buffer'[i] = buffer[i]
        BY <2>7, <4>1
      <4>3. buffer[i].req = asked[u] /\ buffer[i].more = Len(buffer) + Len(wire) - i
        BY <2>2, <4>1
      <4>4. (Len(buffer) + Len(wire)) - i = Len(buffer') + Len(wire') - i
        BY <2>11
      <4> QED BY <4>2, <4>3, <4>4
    <3>2. CASE i > Len(buffer)
      <4>1. i - Len(buffer) \in 1..Len(wire) /\ i \in (Len(buffer) + 1)..(Len(buffer) + n)
        BY <2>4, <3>0, <3>2
      <4>2. buffer'[i] = wire[i - Len(buffer)]
        BY <2>7, <4>1
      <4>3. /\ wire[i - Len(buffer)].req = asked[u]
            /\ wire[i - Len(buffer)].more = Len(wire) - (i - Len(buffer))
        BY <2>2, <4>1
      <4>4. Len(wire) - (i - Len(buffer)) = (Len(buffer) + Len(wire)) - i
        BY <2>4, <3>0
      <4> QED BY <2>11, <4>2, <4>3, <4>4
    <3> QED BY <2>4, <3>0, <3>1, <3>2
  <2>9. ASSUME NEW i \in 1..Len(wire')
        PROVE wire'[i].req = asked[u] /\ wire'[i].more = Len(wire') - i
    <3>1. n + i \in 1..Len(wire) /\ wire'[i] = wire[n + i]
      BY <2>4, <2>6
    <3> QED BY <2>2, <2>4, <2>6, <3>1
  <2>10. pc[u] = "recvBody" => need = Len(buffer') + Len(wire')
    BY <2>2, <2>4, <2>6, <2>7
  <2> QED BY <2>1, <2>2, <2>8, <2>9, <2>10 DEF LineOK
<1>10. ASSUME ReadHeader(u) PROVE LineOK(u)'
  <2>1. /\ pc[u] = "recvHeader" /\ pc'[u] = "recvBody" /\ asked'[u] = asked[u]
        /\ inbox' = inbox /\ wire' = wire /\ Len(buffer) >= 1 /\ need' = buffer[1].more
        /\ buffer' = SubSeq(buffer, 2, Len(buffer))
    BY <1>10 DEF ReadHeader, Take, Enough, Goto
  <2>2. inbox = <<>> /\ need' = Len(buffer) + Len(wire) - 1
    BY <2>1 DEF LineOK, Reading
  <2>3. Len(buffer') = Len(buffer) - 1 /\ \A i \in 1..(Len(buffer) - 1) : buffer'[i] = buffer[1
      + i]
    <3>1. 1 \in 0..Len(buffer) /\ buffer \in Seq(Byte) /\ buffer' = SubSeq(buffer, 1 + 1,
        Len(buffer))
      BY <2>1
    <3>2. /\ Len(SubSeq(buffer, 1 + 1, Len(buffer))) = Len(buffer) - 1
          /\ \A i \in 1..(Len(buffer) - 1) : SubSeq(buffer, 1 + 1, Len(buffer))[i] = buffer[1 + i]
      BY ONLY <3>1, CutSequence
    <3> QED BY ONLY <3>1, <3>2
  <2>4. ASSUME NEW i \in 1..Len(buffer')
        PROVE buffer'[i].req = asked[u] /\ buffer'[i].more = Len(buffer') + Len(wire') - i
    <3>1. i \in Nat /\ Len(buffer) \in Nat /\ Len(wire) \in Nat
      OBVIOUS
    <3>2. i \in 1..(Len(buffer) - 1) /\ 1 + i \in 1..Len(buffer)
      BY <2>3, <3>1
    <3>3. buffer'[i] = buffer[1 + i]
      BY <2>3, <3>2
    <3>4. buffer[1 + i].req = asked[u] /\ buffer[1 + i].more = Len(buffer) + Len(wire) - (1 + i)
      BY <2>1, <3>2 DEF LineOK, Reading
    <3>5. Len(buffer) + Len(wire) - (1 + i) = Len(buffer') + Len(wire') - i
      BY <2>1, <2>3, <3>1
    <3> QED BY <3>3, <3>4, <3>5
  <2>5. \A i \in 1..Len(wire') : wire'[i].req = asked[u] /\ wire'[i].more = Len(wire') - i
    BY <2>1 DEF LineOK, Reading
  <2>6. need' = Len(buffer') + Len(wire')
    BY <2>1, <2>2, <2>3
  <2> QED BY <2>1, <2>2, <2>4, <2>5, <2>6 DEF LineOK
<1>11. ASSUME Tick(u) PROVE LineOK(u)'
  BY <1>11 DEF Tick, machineVars, LineOK
<1>12. ASSUME NEW t \in Threads, NEW o \in Operations, Call(t, o), UNCHANGED tcpVars
       PROVE LineOK(u)'
  BY <1>12 DEF Call, Goto, tcpVars, LineOK, Reading
<1>13. ASSUME NEW n \in 1..MaxReply, DeviceAnswers(n) PROVE LineOK(u)'
  <2>1. pc'[u] = pc[u] /\ asked'[u] = asked[u] /\ buffer' = buffer /\ inbox # <<>>
    BY <1>13 DEF DeviceAnswers, machineVars
  <2> SUFFICES ASSUME pc[u] \in Reading PROVE LineOK(u)'
    BY <2>1 DEF LineOK
  <2>2. inbox = <<asked[u]>> /\ buffer = <<>> /\ wire = <<>> /\ pc[u] # "recvBody"
    BY <2>1 DEF LineOK
  <2>3. inbox' = <<>> /\ wire' = Reply(asked[u], n)
    BY <1>13, <2>2, ReplyShape, TcpAssumption DEF DeviceAnswers
  <2>4. Len(wire') = n /\ \A i \in 1..n : wire'[i].req = asked[u] /\ wire'[i].more = n - i
    <3>1. asked[u] \in Nat /\ n \in Nat \ {0}
      BY TcpAssumption
    <3> QED BY <2>3, <3>1, ReplyShape
  <2>5. \A i \in 1..Len(wire') : wire'[i].req = asked[u] /\ wire'[i].more = Len(wire') - i
    BY <2>4
  <2>6. buffer' = <<>> /\ Len(buffer') = 0 /\ pc'[u] # "recvBody"
    BY <2>1, <2>2
  <2> QED BY <2>1, <2>3, <2>5, <2>6 DEF LineOK
<1>14. ASSUME DeviceIgnores PROVE LineOK(u)'
  <2>1. pc'[u] = pc[u] /\ asked'[u] = asked[u] /\ buffer' = buffer /\ wire' = wire /\ need' = need
        /\ inbox # <<>> /\ inbox' = Tail(inbox)
    BY <1>14 DEF DeviceIgnores, machineVars
  <2> SUFFICES ASSUME pc[u] \in Reading PROVE LineOK(u)'
    BY <2>1 DEF LineOK
  <2>2. inbox = <<asked[u]>> /\ pc[u] # "recvBody"
    BY <2>1 DEF LineOK
  <2>3. inbox' = <<>>
    BY <2>1, <2>2
  <2> QED BY <2>1, <2>2, <2>3 DEF LineOK
<1>15. CASE Finished \/ UNCHANGED vars
  <2>1. UNCHANGED <<pc, inbox, buffer, wire, asked, need>>
    BY <1>15 DEF Finished, vars, machineVars, tcpVars
  <2> QED BY <2>1 DEF LineOK
<1> QED BY <1>1, <1>3, <1>4, <1>5, <1>7, <1>8, <1>9, <1>10, <1>11, <1>12, <1>13, <1>14, <1>15
        DEF Next, Step, Device

\* The terminator is the last byte of the one reply: a line read takes all that is
\* outstanding, and all of it answers the request.
LEMMA LineTaken ==
  ASSUME TcpInv, NEW u \in Threads, NEW n \in 1..Len(buffer), ReadLine(u, n)
  PROVE  /\ buffer' = <<>> /\ wire' = <<>> /\ inbox' = <<>>
         /\ answer'[u] = {asked'[u]}
<1> USE DEF TcpInv, TypeOK, MachineTypeOK
<1>1. /\ pc[u] = "recv" /\ buffer[n].more = 0 /\ answer[u] = {}
      /\ asked' = asked /\ wire' = wire /\ inbox' = inbox
      /\ buffer' = SubSeq(buffer, n + 1, Len(buffer))
      /\ answer'[u] = answer[u] \cup {buffer[i].req : i \in 1..n}
  BY DEF ReadLine, TerminatorAt, Take, PlaceOK, Reading
<1>2. /\ inbox = <<>>
      /\ \A i \in 1..Len(buffer) :
           buffer[i].req = asked[u] /\ buffer[i].more = Len(buffer) + Len(wire) - i
  <2>1. LineOK(u) /\ pc[u] \in Reading
    BY <1>1 DEF Reading
  <2>2. buffer # <<>>
    OBVIOUS
  <2> QED BY ONLY <2>1, <2>2 DEF LineOK
<1>3. n \in 1..Len(buffer) /\ n \in Nat /\ n <= Len(buffer)
      /\ Len(buffer) \in Nat /\ Len(wire) \in Nat
  OBVIOUS
<1>4. n = Len(buffer) /\ Len(wire) = 0
  <2>1. buffer[n].more = Len(buffer) + Len(wire) - n
    BY ONLY <1>2, <1>3
  <2> QED BY ONLY <1>1, <1>3, <2>1
<1>5. buffer' = <<>> /\ wire' = <<>>
  BY <1>1, <1>4
<1>6. {buffer[i].req : i \in 1..n} = {asked[u]}
  <2>1. n \in 1..n /\ \A i \in 1..n : buffer[i].req = asked[u]
    BY ONLY <1>2, <1>3, <1>4
  <2> QED BY ONLY <2>1
<1> QED BY <1>1, <1>2, <1>5, <1>6

\* The body of a block is all that is left of the one reply.
LEMMA BodyTaken ==
  ASSUME TcpInv, NEW u \in Threads, ReadBody(u)
  PROVE  /\ buffer' = <<>> /\ wire' = <<>> /\ inbox' = <<>>
         /\ answer'[u] = {asked'[u]}
<1> USE DEF TcpInv, TypeOK, MachineTypeOK
<1>1. /\ pc[u] = "recvBody" /\ Len(buffer) >= need /\ answer[u] = {asked[u]}
      /\ asked' = asked /\ wire' = wire /\ inbox' = inbox
      /\ buffer' = SubSeq(buffer, need + 1, Len(buffer))
      /\ answer'[u] = answer[u] \cup {buffer[i].req : i \in 1..need}
  BY DEF ReadBody, Enough, Take, PlaceOK, Reading
<1>2. /\ inbox = <<>> /\ need = Len(buffer) + Len(wire)
      /\ \A i \in 1..Len(buffer) : buffer[i].req = asked[u]
  BY <1>1 DEF LineOK, Reading
<1>3. need = Len(buffer) /\ Len(wire) = 0
  BY <1>1, <1>2
<1>4. buffer' = <<>> /\ wire' = <<>>
  BY <1>1, <1>3
<1>5. {buffer[i].req : i \in 1..need} \subseteq {asked[u]}
  BY <1>2, <1>3
<1> QED BY <1>1, <1>2, <1>4, <1>5

\* Every step outside a read or a failure leaves the line empty.
LEMMA LineEmptyStep ==
  ASSUME TcpInv, [Next]_vars PROVE LineEmpty'
<1> USE DEF TcpInv, TypeOK, MachineTypeOK
<1> DEFINE Quiet == buffer = <<>> /\ wire = <<>> /\ inbox = <<>>
<1>1. ASSUME Quiet' PROVE LineEmpty'
  BY <1>1 DEF LineEmpty
<1>2. ASSUME NEW t \in Threads, pc'[t] \in Reading \cup {"fault"} PROVE LineEmpty'
  BY <1>2 DEF LineEmpty
<1>3. ASSUME NEW t \in Threads, Step(t), pc[t] \notin Reading \cup {"fault"} PROVE Quiet
  <2>1. \A u \in Threads : u # t => pc[u] \in {"idle", "acquire"}
    BY <1>3, OneThreadMoves
  <2> QED BY <1>3, <2>1 DEF LineEmpty, Reading
<1>4. ASSUME NEW t \in Threads, Step(t), Lifecycle(t) PROVE LineEmpty'
  <2>1. CASE OnClosed /\ Disconnected
    BY <1>1, <2>1 DEF OnClosed, Disconnected
  <2>2. CASE UNCHANGED tcpVars /\ pc[t] \in {"acquire", "run"}
    <3>1. Quiet
      BY <1>3, <1>4, <2>2 DEF Reading
    <3> QED BY <1>1, <2>2, <3>1 DEF tcpVars
  <2> QED BY <1>4, <2>1, <2>2 DEF Lifecycle, Acquire, CloseIdle, CloseBegin, InvalidateIdle,
             InvalidateOpen, RefuseIO, RefuseTransact, Running
<1>5. ASSUME NEW t \in Threads, Step(t),
             OpenAlready(t) \/ OpenBegin(t) \/ OpenFailed(t) \/ OpenInterrupted(t) \/ Opened(t)
             \/ ReadUnsupported(t) \/ SendBegin(t) \/ FlushOutput(t) \/ FlushBegin(t)
      PROVE LineEmpty'
  <2>1. pc[t] \in {"run", "connect"}
    BY <1>5 DEF OpenAlready, OpenBegin, OpenFailed, OpenInterrupted, Opened, ReadUnsupported,
       SendBegin, FlushOutput, FlushBegin, Running
  <2>2. Quiet
    BY <1>3, <1>5, <2>1 DEF Reading
  <2>3. Quiet'
    BY <1>5, <2>2 DEF OpenAlready, OpenBegin, OpenFailed, OpenInterrupted, Opened,
        ReadUnsupported,
       SendBegin, FlushOutput, FlushBegin, tcpVars
  <2> QED BY <1>1, <2>3
<1>6. ASSUME NEW t \in Threads, Step(t), SendDone(t) PROVE LineEmpty'
  <2>1. Quiet
    BY <1>3, <1>6 DEF SendDone, Reading
  <2>2. CASE op[t] = "write"
    BY <1>1, <1>6, <2>1, <2>2 DEF SendDone
  <2>3. CASE op[t] # "write"
    <3>1. pc'[t] \in Reading \cup {"fault"}
      BY <1>6, <2>3 DEF SendDone, Raise, Goto, Reading
    <3> QED BY <1>2, <3>1
  <2> QED BY <2>2, <2>3
<1>7. ASSUME NEW t \in Threads, SendFailed(t) \/ ReadFailed(t) \/ FlushFailed(t) PROVE LineEmpty'
  <2>1. pc'[t] = "fault"
    BY <1>7 DEF SendFailed, ReadFailed, FlushFailed, Raise, Goto
  <2> QED BY <1>2, <2>1
<1>8. ASSUME NEW t \in Threads, ReadBegin(t) \/ ReadHeader(t) PROVE LineEmpty'
  <2>1. pc'[t] \in Reading
    BY <1>8 DEF ReadBegin, ReadHeader, Goto, Reading
  <2> QED BY <1>2, <2>1
<1>9. ASSUME NEW t \in Threads, NEW n \in 1..Len(wire), Receive(t, n) PROVE LineEmpty'
  <2>1. pc'[t] \in Reading
    BY <1>9 DEF Receive, machineVars
  <2> QED BY <1>2, <2>1
<1>10. ASSUME NEW t \in Threads, ReadBody(t) PROVE LineEmpty'
  BY <1>1, <1>10, BodyTaken
<1>11. ASSUME NEW t \in Threads, NEW n \in 1..Len(buffer), ReadLine(t, n) PROVE LineEmpty'
  BY <1>1, <1>11, LineTaken
<1>12. ASSUME NEW t \in Threads, Step(t), NEW n \in 0..Len(wire), FlushDrained(t, n) PROVE
    LineEmpty'
  <2>1. Quiet
    BY <1>3, <1>12 DEF FlushDrained, Reading
  <2>2. wire' = <<>>
    BY <1>12, <2>1 DEF FlushDrained
  <2> QED BY <1>1, <1>12, <2>1, <2>2 DEF FlushDrained
<1>13. ASSUME UNCHANGED <<pc, buffer, wire, inbox>> PROVE LineEmpty'
  BY <1>13 DEF LineEmpty
<1>14. ASSUME NEW t \in Threads, Tick(t) PROVE LineEmpty'
  BY <1>13, <1>14 DEF Tick, machineVars
<1>15. ASSUME NEW t \in Threads, NEW o \in Operations, Call(t, o), UNCHANGED tcpVars
       PROVE LineEmpty'
  <2>1. \A u \in Threads : pc'[u] \notin Reading \cup {"fault"} => pc[u] \notin Reading \cup
      {"fault"}
    BY <1>15 DEF Call, Goto, Reading
  <2> QED BY <1>15, <2>1 DEF LineEmpty, tcpVars
<1>16. ASSUME Device PROVE LineEmpty'
  <2>1. inbox # <<>> /\ pc' = pc
    BY <1>16 DEF Device, DeviceAnswers, DeviceIgnores, machineVars
  <2> QED BY <2>1 DEF LineEmpty
<1>17. CASE Finished \/ UNCHANGED vars
  BY <1>13, <1>17 DEF Finished, vars, machineVars, tcpVars
<1> QED BY <1>4, <1>5, <1>6, <1>7, <1>8, <1>9, <1>10, <1>11, <1>12, <1>14, <1>15, <1>16, <1>17
        DEF Next, Step

\* Every step keeps results made of the bytes that answer the request.
LEMMA ReplyStep ==
  ASSUME TcpInv, [Next]_vars, NEW u \in Threads
  PROVE  (outcome[u] = "reply" => answer[u] = {asked[u]})'
<1> USE DEF TcpInv, TypeOK, MachineTypeOK, ReplyMatchesRequest
<1> DEFINE Right == outcome[u] = "reply" => answer[u] = {asked[u]}
<1>1. ASSUME UNCHANGED <<outcome, answer, asked>> PROVE Right'
  BY <1>1
<1>2. ASSUME outcome'[u] # "reply" PROVE Right'
  BY <1>2
<1>3. ASSUME NEW t \in Threads, Step(t), u # t PROVE Right'
  BY <1>3, OneThreadMoves
<1>4. ASSUME ReadBody(u) PROVE Right'
  BY <1>4, BodyTaken
<1>5. ASSUME NEW n \in 1..Len(buffer), ReadLine(u, n) PROVE Right'
  BY <1>5, LineTaken
<1>6. ASSUME Lifecycle(u) PROVE Right'
  <2>1. outcome'[u] # "reply"
    BY <1>6 DEF Lifecycle, Acquire, CloseIdle, CloseBegin, CloseEnd, InvalidateIdle,
        InvalidateOpen,
       RefuseIO, RefuseTransact, Fault, Running, Leave, Raise, PlaceOK
  <2> QED BY <1>2, <2>1
<1>7. ASSUME OpenAlready(u) \/ OpenBegin(u) \/ Opened(u) \/ OpenFailed(u) \/ OpenInterrupted(u)
      PROVE Right'
  <2>1. outcome'[u] # "reply"
    BY <1>7 DEF OpenAlready, OpenBegin, Opened, OpenFailed, OpenInterrupted, Running, Leave,
        PlaceOK
  <2> QED BY <1>2, <2>1
<1>8. ASSUME SendBegin(u) \/ SendDone(u) \/ SendFailed(u) \/ ReadUnsupported(u) \/ ReadBegin(u)
             \/ ReadHeader(u) \/ ReadFailed(u)
      PROVE Right'
  <2>1. outcome'[u] # "reply"
    BY <1>8 DEF SendBegin, SendDone, SendFailed, ReadUnsupported, ReadBegin, ReadHeader,
        ReadFailed,
       Running, Reading, Leave, Raise, PlaceOK
  <2> QED BY <1>2, <2>1
<1>9. ASSUME FlushOutput(u) \/ FlushBegin(u) \/ FlushFailed(u)
             \/ (\E n \in 0..Len(wire) : FlushDrained(u, n))
      PROVE Right'
  <2>1. outcome'[u] # "reply"
    BY <1>9 DEF FlushOutput, FlushBegin, FlushFailed, FlushDrained, Running, Leave, Raise, PlaceOK
  <2> QED BY <1>2, <2>1
<1>10. ASSUME Tick(u) \/ (\E n \in 1..Len(wire) : Receive(u, n)) PROVE Right'
  BY <1>1, <1>10 DEF Tick, Receive, machineVars
<1>11. ASSUME NEW t \in Threads, NEW o \in Operations, Call(t, o), UNCHANGED tcpVars PROVE Right'
  BY <1>11 DEF Call, tcpVars
<1>12. CASE Device \/ Finished \/ UNCHANGED vars
  BY <1>1, <1>12 DEF Device, DeviceAnswers, DeviceIgnores, Finished, vars, machineVars, tcpVars
<1> QED BY <1>3, <1>4, <1>5, <1>6, <1>7, <1>8, <1>9, <1>10, <1>11, <1>12 DEF Next, Step

\* No step lets an operation outlive its timeout.
LEMMA TimeoutStep ==
  ASSUME TcpInv, [Next]_vars PROVE WithinTimeout'
<1> USE TcpAssumption DEF TcpInv, TypeOK, WithinTimeout
<1>1. ASSUME UNCHANGED spent PROVE WithinTimeout'
  BY <1>1
<1>2. ASSUME NEW t \in Threads, SendBegin(t) \/ ReadBegin(t) PROVE WithinTimeout'
  BY <1>2 DEF SendBegin, ReadBegin
<1>3. ASSUME NEW t \in Threads, Tick(t) PROVE WithinTimeout'
  BY <1>3 DEF Tick, PlaceOK
<1>4. ASSUME NEW t \in Threads, Lifecycle(t) PROVE WithinTimeout'
  BY <1>1, <1>4 DEF Lifecycle, tcpVars, UnchangedExchange
<1>5. ASSUME NEW t \in Threads,
             OpenAlready(t) \/ OpenBegin(t) \/ Opened(t) \/ OpenFailed(t) \/ OpenInterrupted(t)
             \/ SendDone(t) \/ SendFailed(t) \/ ReadUnsupported(t) \/ ReadHeader(t) \/ ReadBody(t)
             \/ ReadFailed(t) \/ FlushOutput(t) \/ FlushBegin(t) \/ FlushFailed(t)
      PROVE WithinTimeout'
  BY <1>1, <1>5 DEF OpenAlready, OpenBegin, Opened, OpenFailed, OpenInterrupted, SendDone,
     SendFailed, ReadUnsupported, ReadHeader, ReadBody, ReadFailed, FlushOutput, FlushBegin,
     FlushFailed, Take, tcpVars
<1>6. ASSUME NEW t \in Threads,
             \/ \E n \in 1..Len(wire) : Receive(t, n)
             \/ \E n \in 1..Len(buffer) : ReadLine(t, n)
             \/ \E n \in 0..Len(wire) : FlushDrained(t, n)
      PROVE WithinTimeout'
  BY <1>1, <1>6 DEF Receive, ReadLine, FlushDrained, Take
<1>7. ASSUME Device \/ UNCHANGED tcpVars PROVE WithinTimeout'
  BY <1>1, <1>7 DEF Device, DeviceAnswers, DeviceIgnores, tcpVars
<1> QED BY <1>2, <1>3, <1>4, <1>5, <1>6, <1>7 DEF Next, Step, Finished, vars

\* The invariant holds when the transport is made.
LEMMA TcpInitially == Init => TcpInv
<1> SUFFICES ASSUME Init PROVE TcpInv
  OBVIOUS
<1> USE TransportAssumption, TcpAssumption DEF Init, MachineInit
<1>1. TypeOK
  BY DEF TypeOK, MachineTypeOK, NoResource, TransportStates, Places, Operations, Outcomes
<1>2. Serialized /\ ResourceMatchesState
  BY DEF Serialized, Inside, ResourceMatchesState, NoResource
<1>3. \A t \in Threads : PlaceOK(t) /\ LineOK(t)
  BY DEF PlaceOK, LineOK, Reading
<1>4. LineEmpty /\ ReplyMatchesRequest /\ WithinTimeout
  BY DEF LineEmpty, ReplyMatchesRequest, WithinTimeout
<1> QED BY <1>1, <1>2, <1>3, <1>4 DEF TcpInv

\* Every step preserves the invariant.
LEMMA TcpInvNext == TcpInv /\ [Next]_vars => TcpInv'
<1> SUFFICES ASSUME TcpInv, [Next]_vars PROVE TcpInv'
  OBVIOUS
<1>1. TypeOK' /\ Serialized' /\ ResourceMatchesState' /\ LineEmpty' /\ WithinTimeout'
  BY TcpTypeStep, SerializedStep, ResourceStep, LineEmptyStep, TimeoutStep
<1>2. \A u \in Threads : PlaceOK(u)' /\ LineOK(u)'
  BY PlaceStep, LineStep
<1>3. ReplyMatchesRequest'
  BY ReplyStep DEF ReplyMatchesRequest
<1> QED BY <1>1, <1>2, <1>3 DEF TcpInv

\* TcpInv is inductive: whatever threads call and in whatever order, a thread's
\* place, the connection and what is outstanding on it stay in agreement.
THEOREM TcpInvariant == Spec => []TcpInv
  BY TcpInvNext, TcpInitially, PTL DEF Spec

\* Only the thread that holds the lock is inside an operation (state.py _lock).
THEOREM TcpSerialized == Spec => []Serialized
<1>1. TcpInv => Serialized
  BY DEF TcpInv
<1> QED BY <1>1, TcpInvariant, PTL

\* No open, fault or close leaks a socket, and an OPEN transport has one (tcp.py
\* _release_resource, open, state.py _fault, close).
THEOREM TcpResourceMatchesState == Spec => []ResourceMatchesState
<1>1. TcpInv => ResourceMatchesState
  BY DEF TcpInv
<1> QED BY <1>1, TcpInvariant, PTL

\* A late or partial response never becomes another query's answer (base.py 85-87).
THEOREM TcpReplyMatchesRequest == Spec => []ReplyMatchesRequest
<1>1. TcpInv => ReplyMatchesRequest
  BY DEF TcpInv
<1> QED BY <1>1, TcpInvariant, PTL

\* An open transport nobody is using has nothing outstanding (state.py _faulting_io).
THEOREM TcpCleanWhenFree == Spec => []CleanWhenFree
<1>1. TcpInv => CleanWhenFree
  <2> SUFFICES ASSUME TcpInv, owner = NoThread PROVE buffer = <<>> /\ wire = <<>> /\ inbox = <<>>
    BY DEF CleanWhenFree
  <2>1. \A t \in Threads : pc[t] \in {"idle", "acquire"}
    BY TransportAssumption DEF TcpInv, Serialized, Inside
  <2> QED BY <2>1 DEF TcpInv, LineEmpty, Reading
<1> QED BY <1>1, TcpInvariant, PTL

\* One deadline bounds the write and the read of a transaction (tcp.py transact).
THEOREM TcpWithinTimeout == Spec => []WithinTimeout
<1>1. TcpInv => WithinTimeout
  BY DEF TcpInv
<1> QED BY <1>1, TcpInvariant, PTL

\* A request is transmitted only over the socket of an OPEN transport (tcp.py
\* _require_open).
THEOREM TcpSentOnlyWhenOpen == Spec => SentOnlyWhenOpen
<1> DEFINE Sent == Len(inbox') > Len(inbox) => state = "OPEN" /\ resource \in handles
<1>1. TcpInv /\ [Next]_vars => [Sent]_vars
  <2> SUFFICES ASSUME TcpInv, Next PROVE Sent
    OBVIOUS
  <2> USE DEF TcpInv, TypeOK
  <2>1. ASSUME Len(inbox') <= Len(inbox) PROVE Sent
    BY <2>1
  <2>2. ASSUME state = "OPEN" PROVE Sent
    BY <2>2 DEF ResourceMatchesState, NoResource
  <2>3. ASSUME NEW t \in Threads, SendDone(t) \/ SendFailed(t) PROVE Sent
    BY <2>2, <2>3 DEF SendDone, SendFailed, PlaceOK
  <2>4. ASSUME UNCHANGED inbox PROVE Sent
    BY <2>1, <2>4
  <2>5. ASSUME inbox' = <<>> PROVE Sent
    BY <2>1, <2>5
  <2>6. ASSUME Device PROVE Sent
    <3>1. inbox # <<>> /\ inbox' = Tail(inbox)
      BY <2>6 DEF Device, DeviceAnswers, DeviceIgnores
    <3>2. Len(inbox') = Len(inbox) - 1
      BY <3>1
    <3> QED BY <2>1, <3>2
  <2>7. ASSUME NEW t \in Threads, Lifecycle(t) PROVE Sent
    BY <2>4, <2>5, <2>7 DEF Lifecycle, tcpVars, Disconnected
  <2>8. ASSUME NEW t \in Threads,
               OpenAlready(t) \/ OpenBegin(t) \/ Opened(t) \/ OpenFailed(t) \/ OpenInterrupted(t)
               \/ SendBegin(t) \/ ReadUnsupported(t) \/ ReadBegin(t) \/ ReadHeader(t) \/
                   ReadBody(t)
               \/ ReadFailed(t) \/ Tick(t) \/ FlushOutput(t) \/ FlushBegin(t) \/ FlushFailed(t)
        PROVE Sent
    BY <2>4, <2>8 DEF OpenAlready, OpenBegin, Opened, OpenFailed, OpenInterrupted, SendBegin,
       ReadUnsupported, ReadBegin, ReadHeader, ReadBody, ReadFailed, Tick, FlushOutput,
           FlushBegin,
       FlushFailed, Take, tcpVars
  <2>9. ASSUME NEW t \in Threads,
               \/ \E n \in 1..Len(wire) : Receive(t, n)
               \/ \E n \in 1..Len(buffer) : ReadLine(t, n)
               \/ \E n \in 0..Len(wire) : FlushDrained(t, n)
        PROVE Sent
    BY <2>4, <2>9 DEF Receive, ReadLine, FlushDrained, Take
  <2>10. ASSUME UNCHANGED tcpVars PROVE Sent
    BY <2>4, <2>10 DEF tcpVars
  <2> QED BY <2>3, <2>6, <2>7, <2>8, <2>9, <2>10 DEF Next, Step, Finished, vars
<1> QED BY <1>1, TcpInvariant, PTL DEF Spec, SentOnlyWhenOpen

------------------------------------------------------------------------------
\* The refinement.

\* What a query of thread t awaits while t owns the lock.
AwaitedBy(t) ==
  state = "OPEN" /\ op[t] \in Sending \ {"write"} /\ pc[t] \in Reading \cup {"fault"}

\* What the invariant makes of Awaiting: it is about the owner's query alone.
AwaitingOK ==
  /\ Awaiting \in BOOLEAN
  /\ owner = NoThread => Awaiting = FALSE
  /\ \A t \in Threads : owner = t => Awaiting = AwaitedBy(t)

\* The invariant ties the awaited query to the lock's owner.
LEMMA AwaitingFacts == TcpInv => AwaitingOK
<1> SUFFICES ASSUME TcpInv PROVE AwaitingOK
  OBVIOUS
<1> USE DEF TcpInv
<1>1. Awaiting \in BOOLEAN
  BY DEF Awaiting
<1>2. ASSUME owner = NoThread PROVE Awaiting = FALSE
  <2>1. \A t \in Threads : pc[t] \in {"idle", "acquire"}
    BY <1>2, TransportAssumption DEF Serialized, Inside
  <2>2. buffer = <<>> /\ wire = <<>> /\ inbox = <<>>
    BY <2>1 DEF LineEmpty, Reading
  <2> QED BY <2>1, <2>2 DEF Awaiting, Reading
<1>3. ASSUME NEW t \in Threads, owner = t PROVE Awaiting = AwaitedBy(t)
  <2>1. \A u \in Threads \ {t} : pc[u] \in {"idle", "acquire"}
    BY <1>3 DEF Serialized, Inside
  <2> QED BY <1>3, <2>1, TransportAssumption DEF Awaiting, AwaitedBy, Reading
<1> QED BY <1>1, <1>2, <1>3 DEF AwaitingOK

\* The same of the next state.
LEMMA AwaitingFactsNext == TcpInv' => AwaitingOK'
  BY AwaitingFacts, PTL

\* Steps that leave the state, the owner and the awaited query alone do nothing in
\* the contract.
LEMMA ContractStutters ==
  ASSUME TcpInv, TcpInv', UNCHANGED <<state, owner>>,
         \A t \in Threads : owner = t => (AwaitedBy(t)' <=> AwaitedBy(t))
  PROVE  [Contract!Next]_(Contract!vars)
<1>1. AwaitingOK /\ AwaitingOK'
  BY AwaitingFacts, AwaitingFactsNext
<1>2. owner = NoThread \/ owner \in Threads
  BY DEF TcpInv, TypeOK, MachineTypeOK
<1>3. Awaiting' = Awaiting
  BY <1>1, <1>2 DEF AwaitingOK
<1> QED BY <1>3 DEF Contract!vars

\* The states the contract sees when an operation ends.
LEMMA ContractEnds ==
  ASSUME TcpInv, TcpInv', NEW t \in Threads, owner = t, owner' = NoThread, UNCHANGED state
  PROVE  Contract!Next
<1>1. AwaitingOK /\ AwaitingOK'
  BY AwaitingFacts, AwaitingFactsNext
<1>2. Contract!Busy /\ Awaiting' = FALSE /\ Awaiting \in BOOLEAN
  BY <1>1 DEF AwaitingOK, Contract!Busy
<1> QED BY <1>2 DEF Contract!Next, Contract!End, Contract!Answer

\* A step of a thread is a step of the contract, or none.
LEMMA ContractStep ==
  ASSUME TcpInv, TcpInv', NEW t \in Threads, Step(t)
  PROVE  [Contract!Next]_(Contract!vars)
<1> USE DEF TcpInv, TypeOK, MachineTypeOK, Goto, Leave, Raise
<1>a. AwaitingOK /\ AwaitingOK'
  BY AwaitingFacts, AwaitingFactsNext
<1>1. CASE Acquire(t)
  BY <1>1, <1>a DEF Acquire, AwaitingOK, AwaitedBy, Reading, Contract!Next, Contract!Start
<1>0. Inside(t) => owner = t /\ Contract!Busy
  BY DEF Serialized, Contract!Busy
<1>2. CASE /\ Inside(t) /\ owner' = NoThread /\ UNCHANGED state
  BY <1>0, <1>2, ContractEnds
<1>3. CASE /\ Inside(t) /\ pc'[t] \in Reading \cup {"fault"} /\ pc[t] \in Reading \cup {"fault"}
           /\ UNCHANGED <<state, owner, op>>
  BY <1>0, <1>3, ContractStutters, TransportAssumption DEF AwaitedBy
<1>4. CASE /\ Inside(t) /\ UNCHANGED <<state, owner, op>>
           /\ pc'[t] \notin Reading \cup {"fault"} /\ pc[t] \notin Reading \cup {"fault"}
  BY <1>0, <1>4, ContractStutters, TransportAssumption DEF AwaitedBy
<1>5. CASE /\ Inside(t) /\ UNCHANGED <<state, owner, op>>
           /\ pc'[t] \in Reading \cup {"fault"} /\ pc[t] \notin Reading \cup {"fault"}
  <2>1. Awaiting = FALSE
    BY <1>0, <1>5, <1>a DEF AwaitingOK, AwaitedBy
  <2>2. CASE AwaitedBy(t)'
    <3>1. Awaiting' = TRUE /\ state = "OPEN"
      BY <1>0, <1>5, <1>a, <2>2 DEF AwaitingOK, AwaitedBy
    <3> QED BY <1>0, <1>5, <2>1, <3>1 DEF Contract!Next, Contract!Ask
  <2>3. CASE ~AwaitedBy(t)'
    BY <1>0, <1>5, <2>3, ContractStutters, TransportAssumption DEF AwaitedBy
  <2> QED BY <2>2, <2>3
<1>6. ASSUME Inside(t), state # "OPEN", state' # "OPEN"
      PROVE  Awaiting = FALSE /\ Awaiting' = FALSE
  BY <1>6, <1>a DEF AwaitingOK, AwaitedBy
<1>7. CASE Lifecycle(t)
  <2>1. CASE CloseIdle(t) \/ InvalidateIdle(t) \/ RefuseIO(t)
    BY <1>2, <2>1 DEF CloseIdle, InvalidateIdle, RefuseIO, Running, Inside
  <2>2. CASE CloseBegin(t)
    <3>1. Inside(t) /\ pc[t] = "run" /\ pc'[t] = "closing"
      BY <2>2 DEF CloseBegin, Running, Inside
    <3>2. Awaiting = FALSE /\ Awaiting' = FALSE
      BY <1>0, <1>a, <2>2, <3>1 DEF CloseBegin, AwaitingOK, AwaitedBy, Reading
    <3> QED BY <1>0, <2>2, <3>1, <3>2 DEF CloseBegin, Contract!Next, Contract!Closing
  <2>3. CASE InvalidateOpen(t) \/ RefuseTransact(t)
    BY <1>5, <2>3 DEF InvalidateOpen, RefuseTransact, Running, Inside, Reading
  <2>4. CASE CloseEnd(t)
    <3>1. Inside(t) /\ state = "CLOSING" /\ state' = "CLOSED" /\ owner' = NoThread
      BY <2>4 DEF CloseEnd, Inside, PlaceOK
    <3> QED BY <1>0, <1>6, <3>1 DEF Contract!Next, Contract!Closed
  <2>5. CASE Fault(t)
    <3>1. Inside(t) /\ state' = "FAULTED" /\ owner' = NoThread
      BY <2>5 DEF Fault, Inside
    <3> QED BY <1>0, <1>a, <3>1 DEF AwaitingOK, Contract!Next, Contract!Fault
  <2> QED BY <1>1, <1>7, <2>1, <2>2, <2>3, <2>4, <2>5 DEF Lifecycle
<1>8. CASE OpenAlready(t) \/ OpenInterrupted(t) \/ ReadUnsupported(t) \/ FlushOutput(t)
  BY <1>2, <1>8 DEF OpenAlready, OpenInterrupted, ReadUnsupported, FlushOutput, Running, Inside
<1>9. CASE OpenBegin(t)
  <2>1. Inside(t) /\ state # "OPEN" /\ state' = "OPENING" /\ UNCHANGED owner
    BY <1>9 DEF OpenBegin, Running, Inside
  <2> QED BY <1>0, <1>6, <2>1 DEF Contract!Next, Contract!Opening
<1>10. CASE Opened(t) \/ OpenFailed(t)
  <2>1. /\ Inside(t) /\ state = "OPENING" /\ state' \in {"OPEN", "FAULTED"}
        /\ owner' = NoThread
    BY <1>10 DEF Opened, OpenFailed, Inside, PlaceOK
  <2>2. Awaiting = FALSE /\ Awaiting' = FALSE
    BY <1>0, <1>a, <2>1 DEF AwaitingOK, AwaitedBy
  <2> QED BY <1>0, <2>1, <2>2 DEF Contract!Next, Contract!Opened
<1>11. CASE SendBegin(t) \/ FlushBegin(t)
  BY <1>4, <1>11 DEF SendBegin, FlushBegin, Running, Inside, Reading
<1>12. CASE SendDone(t)
  BY <1>2, <1>5, <1>12 DEF SendDone, Inside, Reading
<1>13. CASE SendFailed(t) \/ FlushFailed(t) \/ ReadBegin(t)
  BY <1>5, <1>13 DEF SendFailed, FlushFailed, ReadBegin, Running, Inside, Reading
<1>14. CASE ReadHeader(t) \/ ReadFailed(t)
  BY <1>3, <1>14 DEF ReadHeader, ReadFailed, Inside, Reading
<1>15. CASE ReadBody(t) \/ \E n \in 1..Len(buffer) : ReadLine(t, n)
  BY <1>2, <1>15 DEF ReadBody, ReadLine, Inside
<1>16. CASE \E n \in 0..Len(wire) : FlushDrained(t, n)
  BY <1>2, <1>16 DEF FlushDrained, Inside
<1>17. CASE Tick(t) \/ \E n \in 1..Len(wire) : Receive(t, n)
  <2>1. UNCHANGED machineVars
    BY <1>17 DEF Tick, Receive
  <2> QED BY <2>1, ContractStutters DEF machineVars, AwaitedBy
<1> QED BY <1>7, <1>8, <1>9, <1>10, <1>11, <1>12, <1>13, <1>14, <1>15, <1>16, <1>17 DEF Step

\* The TCP transport implements the contract of base.py for any number of threads, any
\* reply lengths and any timeout: each of its steps is one step the contract allows, or
\* is invisible to it, and no query is left unanswered behind an open transport.
THEOREM TcpImplementsContract == Spec => ImplementsContract
<1>1. Init => Contract!Init
  <2> SUFFICES ASSUME Init PROVE Contract!Init
    OBVIOUS
  <2>1. Awaiting = FALSE
    BY DEF Init, MachineInit, Awaiting
  <2> QED BY <2>1 DEF Init, MachineInit, Contract!Init
<1>2. TcpInv /\ TcpInv' /\ [Next]_vars => [Contract!Next]_(Contract!vars)
  <2> SUFFICES ASSUME TcpInv, TcpInv', [Next]_vars PROVE [Contract!Next]_(Contract!vars)
    OBVIOUS
  <2>1. ASSUME NEW t \in Threads, Step(t) PROVE [Contract!Next]_(Contract!vars)
    BY <2>1, ContractStep
  <2>2. ASSUME NEW t \in Threads, NEW o \in Operations, Call(t, o) PROVE
      [Contract!Next]_(Contract!vars)
    <3>1. UNCHANGED <<state, owner>> /\ owner # t
      BY <2>2 DEF Call, TcpInv, Serialized, Inside
    <3>2. \A u \in Threads : u # t => (AwaitedBy(u)' <=> AwaitedBy(u))
      BY <2>2 DEF Call, Goto, AwaitedBy, TcpInv, TypeOK, MachineTypeOK
    <3> QED BY <3>1, <3>2, ContractStutters
  <2>3. ASSUME UNCHANGED machineVars PROVE [Contract!Next]_(Contract!vars)
    BY <2>3, ContractStutters DEF machineVars, AwaitedBy
  <2>4. ASSUME Device PROVE [Contract!Next]_(Contract!vars)
    BY <2>3, <2>4 DEF Device, DeviceAnswers, DeviceIgnores
  <2> QED BY <2>1, <2>2, <2>3, <2>4 DEF Next, Finished, vars
<1> QED BY <1>1, <1>2, TcpInvariant, PTL DEF Spec, ImplementsContract, Contract!Spec
==============================================================================
