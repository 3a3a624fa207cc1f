--------------------------- MODULE BackendExchange ---------------------------
(***************************************************************************)
(* What the UDP, serial and VISA backends share on top of the state machine: *)
(* opening, the exchange (one deadline, a write, a read), and the instrument  *)
(* at the other end.  transact(), write() and read() have the same shape in   *)
(* udp.py, serial.py and visa.py; each backend's module says how it reads,     *)
(* flushes and what else it offers.  `backend` tells which one this is.        *)
(*                                                                         *)
(* A byte is the request it answers, its place in the reply, how many bytes of *)
(* the reply follow, and whether it is a terminator: the last byte is one and   *)
(* carries the message's END, and a reply of two lines has another inside.      *)
(***************************************************************************)
EXTENDS TransportStateMachine, Sequences

CONSTANTS
  Backends,     \* the backends to look at
  MaxSize,      \* maximum_size of a read request
  Length,       \* length of an exact-length or up-to-length request
  MaxReply,     \* longest reply the instrument sends
  Timeout,      \* the timeout of an operation, in ticks
  MaxRequests   \* bound on the queries of a behaviour

ASSUME BackendAssumption ==
  /\ Backends \subseteq {"udp", "serial", "visa"}
  /\ MaxSize \in Nat \ {0} /\ Length \in 1..MaxSize
  /\ MaxReply \in Nat \ {0} /\ Timeout \in Nat \ {0} /\ MaxRequests \in Nat

VARIABLES
  backend,      \* which backend it is
  mode,         \* the ReadMode of the running read
  previous,     \* the state that the latest open() found
  inbox,        \* requests the instrument has not answered, with their local port
  wire,         \* bytes of replies not yet read (serial, VISA)
  part,         \* bytes the running read has gathered
  buffer,       \* _buffer of the VISA transport
  requests,     \* requests numbered so far
  base,         \* those numbered before the present resource was opened
  asked,        \* the request of the latest exchange of every thread
  answer,       \* the bytes that exchange returned
  spent,        \* ticks since the running operation got its deadline
  pending,      \* a query may have reached the instrument and has no answer yet
  framed        \* replies are in step: on this resource none was read in part, came twice
                \* or was one to a query of an earlier resource

lineVars == <<inbox, wire, part, buffer>>
exchangeVars == <<mode, requests, asked, answer, spent, framed>>
backendVars == <<backend, previous, base, lineVars, exchangeVars, pending>>

Modes == {"line", "exact", "upTo", "available", "message"}

\* A reply of n bytes, each a record [req, at, more, eol]: the request it answers, its
\* place, the bytes after it, and whether it ends the first line, at byte cut.
Reply(r, n, cut) ==
  [i \in 1..n |-> [req |-> r, at |-> i, more |-> n - i, eol |-> i \in {cut, n}]]

Smaller(a, b) == IF a < b THEN a ELSE b

BackendInit ==
  /\ MachineInit
  /\ backend \in Backends
  /\ mode = "line"
  /\ previous = "CREATED"
  /\ inbox = <<>>
  /\ wire = <<>>
  /\ part = <<>>
  /\ buffer = <<>>
  /\ requests = 0
  /\ base = 0
  /\ asked = [t \in Threads |-> 0]
  /\ answer = [t \in Threads |-> <<>>]
  /\ spent = 0
  /\ pending = FALSE
  /\ framed = TRUE

\* Faulty variant: the local buffer outlives the resource.
ReleasedKeepsBuffer ==
  /\ wire' = IF backend = "visa" THEN wire ELSE <<>>
  /\ part' = <<>>
  /\ UNCHANGED <<inbox, buffer>>

\* The buffers end with the resource (_on_closed); bytes that had arrived on a serial
\* port are gone with it, those in the output queue of a VISA instrument stay there.
\* A request that was sent stays with the instrument, which may answer later.
Released ==
  /\ wire' = IF backend = "visa" THEN wire ELSE <<>>
  /\ part' = <<>>
  /\ buffer' = <<>>
  /\ UNCHANGED inbox

------------------------------------------------------------------------------
\* Opening.

OpenAlready(t) ==
  /\ Running(t, "open")
  /\ state = "OPEN"
  /\ Leave(t, "done")
  /\ UNCHANGED <<state, resource, handles, opened, op, calls, backendVars>>

\* pyserial or PyVISA is not installed: nothing has changed yet.
OpenUnavailable(t) ==
  /\ Running(t, "open")
  /\ state # "OPEN"
  /\ backend \in {"serial", "visa"}
  /\ Leave(t, "failed")
  /\ UNCHANGED <<state, resource, handles, opened, op, calls, backendVars>>

OpenBegin(t) ==
  /\ Running(t, "open")
  /\ state # "OPEN"
  /\ ReleaseResource
  /\ state' = "OPENING"
  /\ previous' = state
  /\ buffer' = <<>>
  /\ Goto(t, "connect")
  /\ UNCHANGED <<owner, opened, op, outcome, calls, backend, base, pending, inbox, wire, part, exchangeVars>>

Opened(t) ==
  /\ pc[t] = "connect"
  /\ opened' = opened + 1
  /\ resource' = opened + 1
  /\ handles' = handles \cup {opened + 1}
  /\ state' = "OPEN"
  /\ base' = requests
  /\ framed' = TRUE
  /\ Leave(t, "done")
  /\ UNCHANGED <<op, calls, backend, previous, pending, lineVars, mode, requests, asked, answer, spent>>

\* Faulty variant: the half-opened resource is not closed.
OpenFailedLeaks(t) ==
  /\ pc[t] = "connect"
  /\ state' = "FAULTED"
  /\ opened' = opened + 1
  /\ handles' = handles \cup {opened + 1}
  /\ Leave(t, "failed")
  /\ UNCHANGED <<resource, op, calls, backendVars>>

\* Acquiring or configuring the resource fails; what was acquired is closed.
OpenFailed(t) ==
  /\ pc[t] = "connect"
  /\ state' = "FAULTED"
  /\ Leave(t, "failed")
  /\ UNCHANGED <<resource, handles, opened, op, calls, backendVars>>

\* An interruption is no Exception: the state stays OPENING.
OpenInterrupted(t) ==
  /\ pc[t] = "connect"
  /\ Leave(t, "failed")
  /\ UNCHANGED <<state, resource, handles, opened, op, calls, backendVars>>

------------------------------------------------------------------------------
\* The exchange.

\* The request of a thread as it leaves the local port.
Request(t) == [req |-> asked[t], port |-> resource]

\* A write or a transaction on an open transport gets its deadline; place is
\* where it goes first.
SendBegin(t, place) ==
  /\ pc[t] = "run"
  /\ op[t] \in {"write", "transact"}
  /\ state = "OPEN"
  /\ Goto(t, place)
  /\ spent' = 0
  /\ IF op[t] = "write"
       THEN UNCHANGED <<mode, requests, asked, answer>>
       ELSE /\ mode' \in Modes
            /\ requests' = requests + 1
            /\ asked' = [asked EXCEPT ![t] = requests + 1]
            /\ answer' = [answer EXCEPT ![t] = <<>>]
  /\ UNCHANGED <<state, owner, resource, handles, opened, op, outcome, calls,
                 backend, previous, base, pending, lineVars, framed>>

\* Everything is written in time, in one piece or in several; a write ends, a
\* transaction goes on to read with what is left of its deadline.
SendDone(t) ==
  /\ pc[t] = "send"
  /\ spent < Timeout
  /\ \/ op[t] = "write" /\ Leave(t, "done")
     \/ op[t] = "transact" /\ Goto(t, "recv") /\ UNCHANGED <<owner, outcome>>
  /\ pending' = (op[t] = "transact")
  /\ UNCHANGED <<state, resource, handles, opened, op, calls,
                 backend, previous, base, part, buffer, exchangeVars>>

\* A timeout, an error, no progress or an interruption of a write: the
\* instrument may have got the request.
SendFailed(t) ==
  /\ pc[t] = "send"
  /\ Raise(t, "failed")
  /\ pending' = (op[t] = "transact")
  /\ UNCHANGED <<state, resource, handles, opened, op, calls,
                 backend, previous, base, wire, part, buffer, exchangeVars>>

ReadBegin(t) ==
  /\ Running(t, "read")
  /\ state = "OPEN"
  /\ Goto(t, "recv")
  /\ mode' \in Modes
  /\ spent' = 0
  /\ asked' = [asked EXCEPT ![t] = 0]
  /\ answer' = [answer EXCEPT ![t] = <<>>]
  /\ UNCHANGED <<state, owner, resource, handles, opened, op, outcome, calls,
                 backend, previous, base, pending, lineVars, requests, framed>>

\* Faulty variant: the transport stays open.
ReadFailedKeepsOpen(t) ==
  /\ pc[t] = "recv"
  /\ Leave(t, "failed")
  /\ part' = <<>>
  /\ UNCHANGED <<state, resource, handles, opened, op, calls,
                 backend, previous, base, pending, inbox, wire, buffer, exchangeVars>>

\* The deadline passed, the reply does not fit the request, an error or an
\* interruption: what was gathered is dropped and the transport faults.
ReadFailed(t) ==
  /\ pc[t] = "recv"
  /\ Raise(t, "failed")
  /\ part' = <<>>
  /\ UNCHANGED <<state, resource, handles, opened, op, calls,
                 backend, previous, base, pending, inbox, wire, buffer, exchangeVars>>

Return(t, bytes) ==
  /\ Leave(t, "reply")
  /\ answer' = [answer EXCEPT ![t] = bytes]
  /\ framed' = (/\ framed
                /\ bytes[Len(bytes)].more = 0
                /\ \A i \in 1..Len(bytes) : bytes[i].req > base)
  /\ part' = <<>>
  /\ pending' = FALSE
  /\ UNCHANGED <<state, resource, handles, opened, op, calls,
                 backend, previous, base, inbox, mode, requests, asked, spent>>

\* Time passes while the thread is blocked in the backend.
Tick(t) ==
  /\ pc[t] \in {"send", "recv"}
  /\ spent < Timeout
  /\ spent' = spent + 1
  /\ UNCHANGED <<machineVars, backend, previous, base, pending, lineVars,
                 mode, requests, asked, answer, framed>>

------------------------------------------------------------------------------
\* The state machine's own steps.

Lifecycle(t) ==
  \/ /\ \/ Acquire(t) \/ CloseIdle(t) \/ CloseBegin(t)
        \/ InvalidateIdle(t) \/ InvalidateOpen(t) \/ RefuseIO(t) \/ RefuseTransact(t)
     /\ UNCHANGED backendVars
  \/ /\ CloseEnd(t) \/ Fault(t)
     /\ Released
     /\ pending' = FALSE
     /\ UNCHANGED <<backend, previous, base, exchangeVars>>

CommonStep(t) ==
  \/ Lifecycle(t)
  \/ OpenAlready(t) \/ OpenUnavailable(t) \/ OpenBegin(t)
  \/ OpenFailed(t) \/ OpenInterrupted(t)
  \/ ReadBegin(t) \/ Tick(t)

\* The instrument on a line (external) answers its requests in order, late or never.
DeviceAnswers(n, cut) ==
  /\ backend # "udp"
  /\ inbox # <<>>
  /\ inbox' = Tail(inbox)
  /\ wire' = IF state = "OPEN" \/ backend = "visa"
               THEN wire \o Reply(Head(inbox).req, n, cut) ELSE wire
  /\ UNCHANGED <<machineVars, backend, previous, base, pending, part, buffer, exchangeVars>>

DeviceIgnores ==
  /\ inbox # <<>>
  /\ inbox' = Tail(inbox)
  /\ UNCHANGED <<machineVars, backend, previous, base, pending, wire, part, buffer, exchangeVars>>

Device == DeviceIgnores \/ \E n \in 1..MaxReply : \E cut \in {1, n} : DeviceAnswers(n, cut)
==============================================================================
