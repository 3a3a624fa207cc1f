---------------------------- MODULE MockTransport ----------------------------
(***************************************************************************)
(* MockTransport (transport/mock.py): the in-memory transport every test and   *)
(* the scripted instrument run on.                                            *)
(*                                                                         *)
(* A call holds the operation lock from start to end, so it is one function    *)
(* from a mock to an outcome [mock, error, data].  A mock is a record:         *)
(*   state, held, opens, releases   the connection and its accounting          *)
(*   inbound                        the chunks fed and not yet read             *)
(*   failOpen, failWrite, failRead  the armed injections                        *)
(*   faults, quiet                  fault_on_timeout, and whether an AVAILABLE   *)
(*                                  read of nothing returns nothing             *)
(* A byte of a reply is [id, last, late]: the exchange it answers, whether it   *)
(* is the response terminator, and whether it was fed while the mock was not    *)
(* OPEN (auxiliary).                                                          *)
(***************************************************************************)
EXTENDS Integers, Sequences, FiniteSetsExt, SequencesExt

Live == {"OPEN", "FAULTED"}

\* An injection: the error it raises, whether it faults, and (auxiliary) the exchange whose
\* script armed it, 0 for the test itself, and whether the mock was not OPEN then.
NoInjection == [armed |-> FALSE, error |-> "none", fault |-> FALSE, id |-> 0, late |-> FALSE]

Arm(m, error, fault, id) ==
  [armed |-> TRUE, error |-> error, fault |-> fault, id |-> id, late |-> m.state # "OPEN"]

NewMock(faults, quiet) ==
  [state |-> "CREATED", held |-> FALSE, opens |-> 0, releases |-> 0, inbound |-> <<>>,
   failOpen |-> NoInjection, failWrite |-> NoInjection, failRead |-> NoInjection, faults |-> faults,
   quiet |-> quiet]

Returned(m, data) == [mock |-> m, error |-> "none", data |-> data]
Raised(m, error) == [mock |-> m, error |-> error, data |-> <<>>]

Release(m) == IF m.held THEN [m EXCEPT !.held = FALSE, !.releases = @ + 1] ELSE m

\* Faulty variant: the resource is kept for the next open().
FaultKeepsResource(m) == [m EXCEPT !.inbound = <<>>, !.state = "FAULTED"]

\* _fault with the mock's _on_closed.
Fault(m) == [Release(m) EXCEPT !.inbound = <<>>, !.state = "FAULTED"]

Invalidate(m) == IF m.state = "OPEN" THEN Fault(m) ELSE m

SimulateDisconnect(m) == Fault(m)

Feed(m, bytes) == [m EXCEPT !.inbound = Append(@, bytes)]

\* open() does not look at what was fed before it.
MockOpen(m) ==
  LET released == IF m.state = "FAULTED" THEN Release(m) ELSE m IN
  IF m.state = "OPEN" THEN Returned(m, <<>>)
  ELSE IF m.failOpen.armed
    THEN Raised([released EXCEPT !.failOpen = NoInjection, !.state = "FAULTED"], m.failOpen.error)
  ELSE Returned([released EXCEPT !.held = TRUE, !.opens = @ + 1, !.state = "OPEN"], <<>>)

MockClose(m) ==
  IF m.state \in Live THEN [Release(m) EXCEPT !.inbound = <<>>, !.state = "CLOSED"] ELSE m

MockWrite(m) ==
  LET taken == [m EXCEPT !.failWrite = NoInjection] IN
  IF m.state # "OPEN" THEN Raised(m, "NotConnectedError")
  ELSE IF m.failWrite.armed
    THEN Raised(IF m.failWrite.fault THEN Fault(taken) ELSE taken, m.failWrite.error)
  ELSE Returned(m, <<>>)

\* _timeout.
TimedOut(m) == Raised(IF m.faults THEN Fault(m) ELSE m, "TransportTimeoutError")

\* _consume: n bytes from the front, chunk boundaries kept behind them.
Consume(m, n) ==
  LET Size(k) == Len(FlattenSeq(SubSeq(m.inbound, 1, k)))
      whole == Max({k \in 0..Len(m.inbound) : Size(k) <= n})
      rest == SubSeq(m.inbound, whole + 1, Len(m.inbound))
      cut == n - Size(whole)
  IN Returned([m EXCEPT !.inbound =
                 IF cut = 0 THEN rest ELSE <<SubSeq(Head(rest), cut + 1, Len(Head(rest)))>> \o Tail(rest)],
              SubSeq(FlattenSeq(m.inbound), 1, n))

\* _read_buffered.  A message that is too long is dropped; a line that is too long stays.
\* Neither faults.
ReadBuffered(m, request) ==
  LET stream == FlattenSeq(m.inbound)
      ends == {i \in 1..Len(stream) : stream[i].last}
      tooLong == Raised(m, "TransportError")
  IN CASE request.mode = "message" ->
            IF m.inbound = <<>> THEN TimedOut(m)
            ELSE LET popped == [m EXCEPT !.inbound = Tail(@)] IN
                 IF Len(Head(m.inbound)) > request.size THEN Raised(popped, "TransportError")
                 ELSE Returned(popped, Head(m.inbound))
       [] request.mode = "exact" ->
            IF Len(stream) < request.size THEN TimedOut(m) ELSE Consume(m, request.size)
       [] request.mode \in {"available", "upto"} ->
            IF stream = <<>> THEN IF m.quiet /\ request.mode = "available" THEN Returned(m, <<>>) ELSE TimedOut(m)
            ELSE Consume(m, Min({Len(stream), request.size}))
       [] request.mode = "line" ->
            IF ends = {} THEN IF Len(stream) >= request.size THEN tooLong ELSE TimedOut(m)
            ELSE IF Min(ends) > request.size THEN tooLong
            ELSE Consume(m, Min(ends))

\* Faulty variant: an injection is raised and stays armed.
MockReadKeepsInjection(m, request) ==
  IF m.state # "OPEN" THEN Raised(m, "NotConnectedError")
  ELSE IF m.failRead.armed THEN Raised(IF m.failRead.fault THEN Fault(m) ELSE m, m.failRead.error)
  ELSE ReadBuffered(m, request)

MockRead(m, request) ==
  LET taken == [m EXCEPT !.failRead = NoInjection] IN
  IF m.state # "OPEN" THEN Raised(m, "NotConnectedError")
  ELSE IF m.failRead.armed
    THEN Raised(IF m.failRead.fault THEN Fault(taken) ELSE taken, m.failRead.error)
  ELSE ReadBuffered(m, request)

\* transact(): the midpoint callback feeds the answer.  Only a timeout invalidates, in
\* the default profile; every other error leaves what the failing step left.
MockTransact(m, chunks, request) ==
  LET written == MockWrite(m)
      end == IF written.error # "none" THEN written
             ELSE MockRead([written.mock EXCEPT !.inbound = @ \o chunks], request)
  IN IF end.error = "TransportTimeoutError" /\ m.faults
       THEN Raised(Invalidate(end.mock), end.error) ELSE end

MockFlush(m, input) ==
  IF m.state # "OPEN" THEN Raised(m, "NotConnectedError")
  ELSE Returned(IF input THEN [m EXCEPT !.inbound = <<>>] ELSE m, <<>>)
==============================================================================
