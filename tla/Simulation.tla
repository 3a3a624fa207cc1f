------------------------------ MODULE Simulation ------------------------------
(***************************************************************************)
(* A test program at work on the simulators.  One kind uses a plain            *)
(* MockTransport, the others the scripted instrument (wrapped): the second asks *)
(* queries through transact, one or two commands to a message, and the third    *)
(* writes program messages of commands that answer nothing.                    *)
(*                                                                         *)
(* A message to write is a sequence of items [lead, path, arg, payload, sep]:   *)
(* the leading ":" or "*" of the header or "", its mnemonics, the argument, and *)
(* the separator after it.  They give the reference the parser is held to.      *)
(***************************************************************************)
EXTENDS ScriptedTransport

CONSTANTS Characters,    \* of a program message
          Messages,      \* program messages a test writes
          Replies,       \* what a reply can be, the exchange left open
          Scripts,       \* what the script says to the commands of a query: rules
          Requests,      \* [mode, size]
          MaxExchanges, MaxOpens, MaxHistory, MaxErrors

\* A message is written with the header, argument and separator of each command.
Payloads == {text \in Seq(Characters) : Len(text) <= MaxBlock}
Arguments == {"none", "query", "string", "hex", "block", "cut"}
Items == [lead : {"", ":", "*"}, path : Seq(Characters), arg : Arguments, payload : Payloads,
          sep : Characters]

\* A mnemonic has none of these.
Special == {":", "*", ";", "#", ",", " ", "tab", "dq", "nl"}

\* The messages whose meaning is known: a block that is cut short is the last argument, so
\* that the message ends within its declared length.
WellFormed(message) ==
  \A k \in DOMAIN message :
    /\ message[k].path \in Seq(Characters \ Special) \ {<<>>}
    /\ message[k].arg # "block" => message[k].payload = <<>>
    /\ message[k].arg = "cut" => k = Len(message)
    /\ message[k].sep \in {";", "nl"}

Kinds == {"unknown", "silent", "raises", "error query", "reply"}
ScriptedReplies == [id : Nat, size : Nat, ended : BOOLEAN, delay : Nat, raises : BOOLEAN,
                    disconnect : BOOLEAN]
Rules == [kind : Kinds, reply : ScriptedReplies]

ASSUME SimulationAssumption ==
  /\ {Digit[v] : v \in 1..10} \subseteq Characters
  /\ {":", "*", ";", "#", "?", " ", "dq", "nl", "H", "Q", "R", "x"} \subseteq Characters
  /\ Messages \subseteq Seq(Items)
  /\ \A message \in Messages : WellFormed(message)
  /\ Replies \subseteq ScriptedReplies
  /\ Scripts \subseteq {script \in Seq(Rules) : Len(script) \in {1, 2}}
  /\ Requests \subseteq [mode : {"message", "available", "exact", "upto", "line"}, size : Nat]

VARIABLES inst,       \* the instrument with its mock
          test,       \* "mock", "query" or "write"
          clearing,   \* a call has released the lock and not yet cleared the delayed replies
          asked,      \* auxiliary: the connection each exchange was asked in
          failed,     \* auxiliary: the exchanges that raised where the connection must be dropped
          crowded,    \* auxiliary: the exchanges of two commands, or asked while a reply was due
          answer,     \* whose bytes the last read returned
          expected    \* auxiliary: the commands and blocks sent since the history was cleared

vars == <<inst, test, clearing, asked, failed, crowded, answer, expected>>
aux == <<test, clearing, asked, failed, crowded>>
mock == inst.mock
wrapped == test # "mock"

Init ==
  /\ test \in {"mock", "query", "write"}
  /\ \E faults, quiet \in BOOLEAN :
       /\ wrapped => ~quiet
       /\ inst = NewInstrument(NewMock(faults, quiet))
  /\ clearing = FALSE
  /\ asked = <<>>
  /\ failed = {}
  /\ crowded = {}
  /\ answer = {}
  /\ expected = <<>>

------------------------------------------------------------------------------
\* Messages as bytes, and what they mean.

Joined(path) ==
  [j \in 1..(2 * Len(path) - 1) |-> IF j % 2 = 0 THEN ":" ELSE path[(j + 1) \div 2]]

Argument(item) ==
  CASE item.arg = "none" -> <<>>
    [] item.arg = "query" -> <<"?">>
    [] item.arg = "string" -> <<" ", "dq", ";", "dq", "dq", "dq">>
    [] item.arg = "hex" -> <<" ", "#", "H", "1">>
    [] item.arg = "block" -> <<" ">> \o EncodeBlock(item.payload)
    [] item.arg = "cut" -> <<" ", "#", "1", "9", "x">>

Header(item) == (IF item.lead = "" THEN <<>> ELSE <<item.lead>>) \o Joined(item.path)

Written(item) == Header(item) \o Argument(item) \o <<item.sep>>

Rendered(message) == FlattenSeq([k \in DOMAIN message |-> Written(message[k])])

\* Every header stands under the branch of the one before it, unless it starts at the
\* root, is a common command or follows one.
Absolute(message) ==
  LET item[k \in 0..Len(message)] ==
        IF k = 0 THEN [lead |-> "*", path |-> <<>>]
        ELSE IF message[k].lead # "" \/ item[k - 1].lead = "*" THEN message[k]
        ELSE [message[k] EXCEPT !.path = Front(item[k - 1].path) \o @]
  IN item

Part(item) ==
  [text |-> (IF item.lead = "*" THEN <<"*">> ELSE <<>>) \o Joined(item.path)
              \o (IF item.arg = "block" THEN <<>> ELSE Argument(item)),
   block |-> item.arg = "block",
   payload |-> item.payload]

Meant(message) == [k \in DOMAIN message |-> Part(Absolute(message)[k])]

Ask(mnemonic, sep) ==
  [lead |-> "", path |-> <<mnemonic>>, arg |-> "query", payload |-> <<>>, sep |-> sep]

\* The message of an exchange, of one command or two.
Query(n) == IF n = 1 THEN <<Ask("Q", "nl")>> ELSE <<Ask("Q", ";"), Ask("R", "nl")>>

\* What the histories are of.
Texts(parts) ==
  FlattenSeq([k \in DOMAIN parts |-> IF parts[k].block THEN <<>> ELSE <<parts[k].text>>])

Blocks(parts) ==
  FlattenSeq([k \in DOMAIN parts |->
    IF parts[k].block /\ Len(parts[k].payload) <= MaxHistoryBytes /\ MaxHistoryBytes > 0
      THEN <<parts[k]>> ELSE <<>>])

Failing(rules) == {k \in DOMAIN rules : rules[k].kind = "raises"}

\* Commands of the message the handlers were called for.
Reached(rules) == Min(Failing(rules) \cup {Len(rules)})

QuietRules == {Rule(kind, NoReply) : kind \in {"unknown", "silent", "raises"}}

\* The rules at work in exchange id.
Numbered(script, id) == [k \in DOMAIN script |-> [script[k] EXCEPT !.reply.id = id]]

\* Whose bytes these are.
Origins(bytes) == {[id |-> bytes[i].id, late |-> bytes[i].late] : i \in DOMAIN bytes}

------------------------------------------------------------------------------
\* Operations.  The bounds: MaxExchanges, MaxOpens, MaxHistory and MaxErrors.

\* open(), close() and invalidate() clear the delayed replies under the lock taken anew,
\* after the mock's call has released it; open() only if that call succeeded.
Open ==
  LET end == MockOpen(mock) IN
  /\ ~clearing
  /\ mock.opens < MaxOpens
  /\ inst' = [inst EXCEPT !.mock = end.mock]
  /\ clearing' = (wrapped /\ end.error = "none")
  /\ UNCHANGED <<test, asked, failed, crowded, answer, expected>>

Close ==
  /\ ~clearing
  /\ inst' = [inst EXCEPT !.mock = MockClose(@)]
  /\ clearing' = wrapped
  /\ UNCHANGED <<test, asked, failed, crowded, answer, expected>>

InvalidateCall ==
  /\ ~clearing
  /\ inst' = [inst EXCEPT !.mock = Invalidate(@)]
  /\ clearing' = wrapped
  /\ UNCHANGED <<test, asked, failed, crowded, answer, expected>>

\* Faulty variant: the delayed replies are kept.
ClearPendingNot ==
  /\ clearing
  /\ clearing' = FALSE
  /\ UNCHANGED <<inst, test, asked, failed, crowded, answer, expected>>

ClearPending ==
  /\ clearing
  /\ inst' = [inst EXCEPT !.pending = <<>>]
  /\ clearing' = FALSE
  /\ UNCHANGED <<test, asked, failed, crowded, answer, expected>>

Write(message) ==
  /\ test = "write"
  /\ Len(expected) + Len(message) <= MaxHistory
  /\ \E rules \in [DOMAIN message -> QuietRules] :
     \E end \in {ScriptedWrite(inst, Rendered(message), rules)} :
       LET refused == MockWrite(mock).error # "none" \/ \E k \in DOMAIN message : message[k].arg = "cut"
       IN /\ Len(end.inst.errors) <= MaxErrors
          /\ inst' = end.inst
          /\ expected' = expected \o IF refused THEN <<>> ELSE SubSeq(Meant(message), 1, Reached(rules))
  /\ UNCHANGED <<aux, answer>>

WriteMock ==
  /\ ~wrapped
  /\ inst' = [inst EXCEPT !.mock = MockWrite(@).mock]
  /\ UNCHANGED <<aux, answer, expected>>

Transact(script, request) ==
  LET id == Len(asked) + 1
      n == Len(script)
  IN
  /\ test = "query"
  /\ id <= MaxExchanges
  /\ \E end \in {ScriptedTransact(inst, Rendered(Query(n)), Numbered(script, id), request)} :
       /\ Len(end.inst.errors) <= MaxErrors
       /\ inst' = end.inst
       /\ answer' = Origins(end.data)
       /\ failed' = failed \cup {k \in {id} : end.error # "none"}
  /\ expected' = expected \o IF MockWrite(mock).error # "none" THEN <<>>
                             ELSE SubSeq(Meant(Query(n)), 1, Reached(script))
  /\ asked' = Append(asked, mock.opens)
  /\ crowded' = crowded \cup {k \in {id} : n > 1 \/ inst.pending # <<>>}
  /\ UNCHANGED <<test, clearing>>

\* A plain mock: the test's midpoint callback feeds the reply.  The contract's rule that a
\* timeout drops the connection is the default profile's.
TransactMock(reply, request) ==
  LET id == Len(asked) + 1
      end == MockTransact(mock, <<Bytes(mock, [reply EXCEPT !.id = id])>>, request)
  IN /\ ~wrapped
     /\ id <= MaxExchanges
     /\ inst' = [inst EXCEPT !.mock = end.mock]
     /\ answer' = Origins(end.data)
     /\ failed' = failed \cup {k \in {id} : mock.faults /\ end.error = "TransportTimeoutError"}
     /\ asked' = Append(asked, mock.opens)
     /\ UNCHANGED <<test, clearing, crowded, expected>>

Read(request) ==
  LET end == IF wrapped THEN ScriptedRead(inst, request)
             ELSE LET read == MockRead(mock, request) IN
                  Outcome([inst EXCEPT !.mock = read.mock], read.error, read.data)
  IN /\ inst' = end.inst
     /\ answer' = Origins(end.data)
     /\ UNCHANGED <<aux, expected>>

Flush(input) ==
  /\ inst' = IF wrapped THEN ScriptedFlush(inst, input).inst
             ELSE [inst EXCEPT !.mock = MockFlush(@, input).mock]
  /\ UNCHANGED <<aux, answer, expected>>

Injectable == {"failOpen", "failWrite", "failRead"}

\* fail_next_open, fail_next_write, fail_next_read; one is armed at a time.
FailNext(kind, error, fault) ==
  /\ \A other \in Injectable : ~mock[other].armed
  /\ kind = "failOpen" => fault
  /\ inst' = [inst EXCEPT !.mock[kind] = Arm(mock, error, fault, 0)]
  /\ UNCHANGED <<aux, answer, expected>>

Disconnect ==
  /\ inst' = [inst EXCEPT !.mock = SimulateDisconnect(@)]
  /\ UNCHANGED <<aux, answer, expected>>

PushError ==
  /\ wrapped
  /\ Len(inst.errors) < MaxErrors
  /\ inst' = [inst EXCEPT !.errors = Append(@, "pushed")]
  /\ UNCHANGED <<aux, answer, expected>>

ClearHistoryCall ==
  /\ test = "write"
  /\ inst' = ClearHistory(inst)
  /\ expected' = <<>>
  /\ UNCHANGED <<aux, answer>>

Next ==
  \/ Open \/ Close \/ InvalidateCall \/ ClearPending
  \/ \E message \in Messages : Write(message)
  \/ WriteMock
  \/ \E script \in Scripts, request \in Requests : Transact(script, request)
  \/ \E reply \in Replies, request \in Requests : TransactMock(reply, request)
  \/ \E request \in Requests : Read(request)
  \/ \E input \in BOOLEAN : Flush(input)
  \/ \E kind \in Injectable, fault \in BOOLEAN,
        error \in {"TransportError", "TransportTimeoutError"} : FailNext(kind, error, fault)
  \/ Disconnect \/ PushError \/ ClearHistoryCall

Spec == Init /\ [][Next]_vars

------------------------------------------------------------------------------
\* Properties.

\* The mock's accounting (open_count, release_count), which tests of resource leaks rely
\* on: a resource is held exactly while the mock is OPEN, and every opening but the one
\* held has been released once, whatever faults, disconnects and failed openings came.
ResourceAccounted ==
  /\ mock.held <=> mock.state = "OPEN"
  /\ mock.opens - mock.releases = IF mock.held THEN 1 ELSE 0

\* An exchange that raised leaves nothing for a later read: no byte of its replies is ever
\* returned, unless it reached the mock when the connection was already lost, which
\* _deliver (scripted.py) does after a disconnecting reply.
FailedExchangeLeavesNothing ==
  \A byte \in answer : byte.id \in failed => byte.late

\* A failure that a script attached to its reply is raised by the read of that exchange:
\* it is not left armed in the mock for another one.  What can leave it is the connection
\* that is lost first, by a later command of the same message or a delayed reply of a
\* former exchange; and a read that delivers a delayed reply on a connection that is
\* already lost (scripted.py 286-293, 510-531).
ScriptedFailureIsForItsExchange ==
  mock.failRead.armed /\ mock.failRead.id # 0 =>
    mock.failRead.id \in crowded \/ mock.failRead.late

\* A delayed reply never outlives the connection it was asked on, once the call that
\* ended that connection or opened the next has returned.
DelayedReplyInItsConnection ==
  mock.state = "OPEN" /\ ~clearing =>
    \A i \in DOMAIN inst.pending : asked[inst.pending[i].id] = mock.opens

\* The text history holds the commands sent, each with its full header, in order, and
\* nothing else: blocks, quoted semicolons and non-decimal numbers do not split it, and
\* a message that is refused leaves no part behind.
HistoryIsWhatWasSent == inst.history = Texts(expected)

\* The binary history is the newest payloads that fit: a suffix of the blocks sent that
\* are not too large by themselves, the newest among them, within both limits, with its
\* byte count exact.
BinaryHistoryIsLatest ==
  /\ IsSuffix(inst.binary, Blocks(expected))
  /\ Blocks(expected) # <<>> => inst.binary # <<>>
  /\ Len(inst.binary) <= MaxEntries
  /\ inst.binaryBytes = TotalBytes(inst.binary)
  /\ inst.binaryBytes <= MaxHistoryBytes

\* A payload that came in as a block goes out as one (reply_block) and decodes to itself;
\* cut short by any number of bytes it is refused, and so it is with a byte too many
\* unless trailing bytes are allowed.
PayloadsRoundTrip ==
  \A i \in DOMAIN inst.binary :
    LET payload == inst.binary[i].payload
        block == EncodeBlock(payload)
    IN /\ DecodeBlock(block, FALSE) = [error |-> "none", payload |-> payload, end |-> Len(block) + 1]
       /\ \A n \in 0..(Len(block) - 1) : DecodeBlock(SubSeq(block, 1, n), TRUE).error # "none"
       /\ DecodeBlock(Append(block, "nl"), TRUE).payload = payload
       /\ DecodeBlock(Append(block, "nl"), FALSE).error # "none"

------------------------------------------------------------------------------
\* The inductive invariant behind the first four, and a bound on the binary history.

Byte == [id : Nat, last : BOOLEAN, late : BOOLEAN]
Injections ==
  {NoInjection} \cup
  [armed : {TRUE}, error : {"scripted", "TransportError", "TransportTimeoutError"},
   fault : BOOLEAN, id : Nat, late : BOOLEAN]
Mocks == [state : {"CREATED", "OPEN", "FAULTED", "CLOSED"}, held : BOOLEAN, opens : Nat,
          releases : Nat, inbound : Seq(Seq(Byte)), failOpen : Injections, failWrite : Injections,
          failRead : Injections, faults : BOOLEAN, quiet : BOOLEAN]
Parts == [text : Seq(Characters), block : BOOLEAN, payload : Payloads]
Instruments == [mock : Mocks, pending : Seq(ScriptedReplies), history : Seq(Seq(Characters)),
                binary : Seq(Parts), binaryBytes : Nat,
                errors : Seq({"undefined header", "pushed"})]

\* All but expected, whose type HistoryInv states.
TypeOK ==
  /\ inst \in Instruments
  /\ test \in {"mock", "query", "write"}
  /\ clearing \in BOOLEAN
  /\ asked \in Seq(Nat)
  /\ failed \subseteq 1..Len(asked)
  /\ crowded \subseteq 1..Len(asked)
  /\ answer \subseteq [id : Nat, late : BOOLEAN]

\* Whatever loses the connection empties the mock; what is in it then came later.
LostMeansLate(m) == m.state # "OPEN" => m.inbound \in Seq(Seq({b \in Byte : b.late}))

\* A byte that a later read may return.
Harmless(ids) == {b \in Byte : b.id \in ids => b.late}

\* The replies that may be due.
Due ==
  {r \in ScriptedReplies :
     /\ r.id \in (1..Len(asked)) \ failed
     /\ mock.state = "OPEN" /\ ~clearing => asked[r.id] = mock.opens}

\* BinaryHistoryIsLatest but for which blocks are in it.
BinaryBounded(i) ==
  /\ Len(i.binary) <= MaxEntries
  /\ i.binaryBytes = TotalBytes(i.binary)
  /\ i.binaryBytes <= MaxHistoryBytes

SimulationInv ==
  /\ TypeOK
  /\ ResourceAccounted
  /\ LostMeansLate(mock)
  /\ mock.inbound \in Seq(Seq(Harmless(failed)))
  /\ inst.pending \in Seq(Due)
  /\ FailedExchangeLeavesNothing
  /\ ScriptedFailureIsForItsExchange
  /\ BinaryBounded(inst)
  /\ ~wrapped => inst.pending = <<>>

\* With the histories, and the type of what they are compared with.
HistoryInv ==
  /\ SimulationInv
  /\ expected \in Seq(Parts)
  /\ HistoryIsWhatWasSent
  /\ BinaryHistoryIsLatest
==============================================================================
