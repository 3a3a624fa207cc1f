------------------------------- MODULE Tracing -------------------------------
(***************************************************************************)
(* Protocol tracing: InstrumentedTransport (tracing/instrumented.py) emitting   *)
(* into one Tracer (tracing/observer.py) shared by several clients, and the     *)
(* observer behind it.                                                        *)
(*                                                                         *)
(* A client serializes its operations, their events included, and numbers      *)
(* them itself: two clients use the same operation ids.  open, close, flush     *)
(* and invalidate emit outside any lock.  emit takes the tracer's lock twice,    *)
(* once to keep or take the command an answer is redacted by and once to number  *)
(* the event, and calls the observer without it.  What the observer raises is    *)
(* counted and goes no further.                                               *)
(***************************************************************************)
EXTENDS Integers, Sequences, FiniteSets, FiniteSetsExt, SequencesExt

CONSTANTS Threads, Clients, NoThread,
          MaxCalls,       \* bound: calls, those of open, close, flush and invalidate included
          MaxDropped,     \* bound: failures of the observer
          MaxCommands     \* _MAX_COMMAND_CONTEXT

ASSUME TracingAssumption ==
  /\ NoThread \notin Threads
  /\ MaxCalls \in Nat /\ MaxDropped \in Nat
  /\ MaxCommands \in Nat \ {0}

VARIABLES lock,        \* the client's lock: its holder
          counter,     \* operation ids handed out by each client
          calls,       \* calls made
          call,        \* the call of each thread and the events it has yet to emit
          pc,          \* where emit stands: "idle", "emit", "build", "deliver"
          command,     \* response_command of the emit in progress
          event,       \* the event being delivered
          commands,    \* _commands in insertion order
          sequence, dropped,
          latest,      \* the last operation of each client the observer took an event of
          delivered,   \* auxiliary: events the observer took
          since,       \* auxiliary: commands kept since this call's own, up to MaxCommands
          shared       \* auxiliary: another call has used this call's operation id

vars == <<lock, counter, calls, call, pc, command, event, commands, sequence, dropped,
          latest, delivered, since, shared>>

NoCommand == [client |-> NoThread, number |-> 0]
NoEvent == [sequence |-> 0, client |-> NoThread, number |-> 0]
NoCall == [client |-> NoThread, number |-> 0, kind |-> "none", events |-> <<>>, answered |-> TRUE]

Init ==
  /\ lock = [c \in Clients |-> NoThread]
  /\ counter = [c \in Clients |-> 0]
  /\ calls = 0
  /\ call = [t \in Threads |-> NoCall]
  /\ pc = [t \in Threads |-> "idle"]
  /\ command = [t \in Threads |-> NoCommand]
  /\ event = [t \in Threads |-> NoEvent]
  /\ commands = <<>>
  /\ sequence = 0 /\ dropped = 0
  /\ latest = [c \in Clients |-> 0]
  /\ delivered = 0
  /\ since = [t \in Threads |-> 0]
  /\ shared = [t \in Threads |-> FALSE]

------------------------------------------------------------------------------
\* What a call emits, by its outcome.  "LIFE" stands for OPEN, CLOSE, FLUSH and the ERROR
\* of invalidate(), which carry no operation id.  A read that fails emits what one that
\* succeeds does, without data.  A block is read in several reads; when one fails or its
\* bytes are malformed, the reader and the client's operation both invalidate.

Operations == {"transact", "write", "read", "block"}

Emit(direction, data) == [direction |-> direction, data |-> data]

Events(kind) ==
  CASE kind = "transact" -> {<<Emit("TX", TRUE), Emit("RX", TRUE)>>,
                             <<Emit("TX", TRUE), Emit("RX", FALSE)>>}
    [] kind = "write" -> {<<Emit("TX", TRUE)>>, <<Emit("ERROR", TRUE)>>}
    [] kind = "read" -> {<<Emit("RX", TRUE)>>}
    [] kind = "block" -> {<<Emit("TX", TRUE), Emit("RX", TRUE), Emit("RX", TRUE)>>,
                          <<Emit("TX", TRUE), Emit("RX", TRUE), Emit("LIFE", FALSE), Emit("LIFE", FALSE)>>,
                          <<Emit("TX", TRUE), Emit("RX", FALSE), Emit("LIFE", FALSE), Emit("LIFE", FALSE)>>,
                          <<Emit("ERROR", TRUE), Emit("LIFE", FALSE)>>}

\* Faulty variant: the events are emitted after the client's lock has been released.
OperateUnlocked(t, c, kind) ==
  /\ call[t] = NoCall
  /\ calls < MaxCalls
  /\ calls' = calls + 1
  /\ counter' = [counter EXCEPT ![c] = @ + 1]
  /\ \E events \in Events(kind) :
       call' = [call EXCEPT ![t] = [NoCall EXCEPT !.client = c, !.number = counter[c] + 1,
                                                  !.kind = kind, !.events = events]]
  /\ pc' = [pc EXCEPT ![t] = "emit"]
  /\ UNCHANGED <<lock, command, event, commands, sequence, dropped, latest, delivered, since, shared>>

\* An operation of a client: the backend's part of it is over and its events are due.
Operate(t, c, kind) ==
  /\ call[t] = NoCall
  /\ lock[c] = NoThread
  /\ calls < MaxCalls
  /\ calls' = calls + 1
  /\ lock' = [lock EXCEPT ![c] = t]
  /\ counter' = [counter EXCEPT ![c] = @ + 1]
  /\ \E events \in Events(kind) :
       call' = [call EXCEPT ![t] = [NoCall EXCEPT !.client = c, !.number = counter[c] + 1,
                                                  !.kind = kind, !.events = events]]
  /\ pc' = [pc EXCEPT ![t] = "emit"]
  /\ UNCHANGED <<command, event, commands, sequence, dropped, latest, delivered, since, shared>>

Lifecycle(t) ==
  /\ call[t] = NoCall
  /\ calls < MaxCalls
  /\ calls' = calls + 1
  /\ call' = [call EXCEPT ![t] = [NoCall EXCEPT !.kind = "lifecycle",
                                                !.events = <<Emit("LIFE", FALSE)>>]]
  /\ pc' = [pc EXCEPT ![t] = "emit"]
  /\ UNCHANGED <<lock, counter, command, event, commands, sequence, dropped, latest, delivered,
                 since, shared>>

------------------------------------------------------------------------------
\* Tracer.emit.

Due(t) == Head(call[t].events)

Positions(number) == {i \in DOMAIN commands : commands[i].number = number}

\* Faulty variant: the newest entry goes over the limit.
KeepOldest(entry) ==
  LET kept == IF Positions(entry.number) = {} THEN Append(commands, entry)
              ELSE [commands EXCEPT ![Min(Positions(entry.number))] = entry]
  IN IF Len(kept) > MaxCommands THEN Front(kept) ELSE kept

\* A dict entry that is assigned again keeps its place; the oldest goes over the limit.
Keep(entry) ==
  LET kept == IF Positions(entry.number) = {} THEN Append(commands, entry)
              ELSE [commands EXCEPT ![Min(Positions(entry.number))] = entry]
  IN IF Len(kept) > MaxCommands THEN Tail(kept) ELSE kept

WithoutKey(number) ==
  IF Positions(number) = {} THEN commands ELSE RemoveAt(commands, Min(Positions(number)))

\* Faulty variant: the command of an answer is looked up and left in place.
CorrelateLeaves(t) ==
  LET number == call[t].number
      found == Positions(number)
  IN /\ pc[t] = "emit"
     /\ command' = [command EXCEPT ![t] = IF Due(t).direction = "RX" /\ found # {}
                                            THEN [client |-> commands[Min(found)].client, number |-> number]
                                            ELSE NoCommand]
     /\ commands' = IF Due(t).direction = "TX"
                      THEN Keep([client |-> call[t].client, number |-> number, kind |-> call[t].kind])
                      ELSE commands
     /\ pc' = [pc EXCEPT ![t] = "build"]
     /\ UNCHANGED <<lock, counter, calls, call, event, sequence, dropped, latest, delivered,
                    since, shared>>

\* The first locked section.
Correlate(t) ==
  LET number == call[t].number
      direction == Due(t).direction
      found == Positions(number)
      same == {u \in Threads \ {t} : call[u].number = number /\ number # 0}
  IN /\ pc[t] = "emit"
     /\ command' = [command EXCEPT ![t] =
          IF direction = "RX" /\ found # {}
            THEN [client |-> commands[Min(found)].client, number |-> number] ELSE NoCommand]
     /\ commands' = CASE direction = "TX" ->
                           Keep([client |-> call[t].client, number |-> number, kind |-> call[t].kind])
                      [] direction \in {"RX", "ERROR"} -> WithoutKey(number)
                      [] OTHER -> commands
     /\ since' = IF direction # "TX" THEN since
                 ELSE [u \in Threads |-> IF u = t \/ call[u] = NoCall THEN 0 ELSE Min({since[u] + 1, MaxCommands})]
     /\ call' = [call EXCEPT ![t].answered = IF direction = "TX" THEN FALSE ELSE @]
     /\ shared' = [u \in Threads |->
          \/ shared[u]
          \/ direction # "LIFE" /\ u \in same
          \/ u = t /\ direction = "TX" /\ found # {}]
     /\ pc' = [pc EXCEPT ![t] = "build"]
     /\ UNCHANGED <<lock, counter, calls, event, sequence, dropped, latest, delivered>>

\* The second locked section.
Build(t) ==
  /\ pc[t] = "build"
  /\ sequence' = sequence + 1
  /\ event' = [event EXCEPT ![t] =
       [sequence |-> sequence + 1, client |-> call[t].client,
        number |-> IF Due(t).direction = "LIFE" THEN 0 ELSE call[t].number]]
  /\ pc' = [pc EXCEPT ![t] = "deliver"]
  /\ UNCHANGED <<lock, counter, calls, call, command, commands, dropped, latest, delivered,
                 since, shared>>

\* The emit returns: to the next event of the call, or the call ends and the client is free.
Returns(t) ==
  LET rest == Tail(call[t].events) IN
  /\ call' = [call EXCEPT ![t] = IF rest = <<>> THEN NoCall
                                 ELSE [@ EXCEPT !.events = rest,
                                                !.answered = call[t].answered \/ Due(t).direction = "RX"]]
  /\ pc' = [pc EXCEPT ![t] = IF rest = <<>> THEN "idle" ELSE "emit"]
  /\ lock' = [c \in Clients |-> IF rest = <<>> /\ lock[c] = t THEN NoThread ELSE lock[c]]
  /\ command' = [command EXCEPT ![t] = NoCommand]
  /\ event' = [event EXCEPT ![t] = NoEvent]
  /\ since' = IF rest = <<>> THEN [since EXCEPT ![t] = 0] ELSE since
  /\ shared' = IF rest = <<>> THEN [shared EXCEPT ![t] = FALSE] ELSE shared
  /\ UNCHANGED <<counter, calls, commands, sequence>>

\* on_event returns.
Deliver(t) ==
  /\ pc[t] = "deliver"
  /\ delivered' = delivered + 1
  /\ latest' = IF event[t].number = 0 THEN latest ELSE [latest EXCEPT ![event[t].client] = event[t].number]
  /\ Returns(t)
  /\ UNCHANGED dropped

\* Faulty variant: the loss is not counted.
DeliverFailedUncounted(t) ==
  /\ pc[t] = "deliver"
  /\ dropped' = dropped
  /\ Returns(t)
  /\ UNCHANGED <<delivered, latest>>

\* on_event raises: the loss is counted and the call goes on.
DeliverFailed(t) ==
  /\ pc[t] = "deliver"
  /\ dropped < MaxDropped
  /\ dropped' = dropped + 1
  /\ Returns(t)
  /\ UNCHANGED <<delivered, latest>>

Emitting(t) == Correlate(t) \/ Build(t) \/ Deliver(t) \/ DeliverFailed(t)

Next ==
  \E t \in Threads :
    \/ \E c \in Clients, kind \in Operations : Operate(t, c, kind)
    \/ Lifecycle(t)
    \/ Emitting(t)

Spec == Init /\ [][Next]_vars

------------------------------------------------------------------------------
\* Properties.

InFlight == {t \in Threads : pc[t] = "deliver"}

\* No event is lost without a trace: every number handed out belongs to an event the
\* observer took, to one counted in dropped_events, or to one on its way to it, and no
\* two of those at hand share a number.
NoSilentLoss ==
  /\ sequence = delivered + dropped + Cardinality(InFlight)
  /\ \A t, u \in InFlight : event[t].sequence = event[u].sequence => t = u

\* The events of one client's operations reach the observer in the order of the
\* operations, although every thread delivers on its own.
ClientOrder == [][\A c \in Clients : latest'[c] >= latest[c]]_vars

\* An answer is redacted by the command that asked for it.  It is not only when it is not
\* the first answer event of its operation (a block is read in several), when another
\* call has used the same operation id meanwhile or before (clients number from one), or
\* when as many commands as _commands holds were traced in between.
AnswerMeetsItsCommand ==
  \A t \in Threads :
    pc[t] \in {"build", "deliver"} /\ Due(t).direction = "RX" /\ Due(t).data =>
      \/ command[t] = [client |-> call[t].client, number |-> call[t].number]
      \/ call[t].answered
      \/ shared[t]
      \/ since[t] = MaxCommands

Awaited(entry) ==
  \/ entry.kind = "write"
  \/ \E t \in Threads : call[t].client = entry.client /\ call[t].number = entry.number

\* A command is kept for an answer only while its operation lasts, failed operations
\* included; those that expect no answer stay until the limit pushes them out.  There is
\* one for an operation id, and never more than the limit.
CommandsAreAwaited ==
  /\ Len(commands) <= MaxCommands
  /\ \A i \in DOMAIN commands : Positions(commands[i].number) = {i} /\ Awaited(commands[i])

------------------------------------------------------------------------------
\* The inductive invariant.

Kinds == Operations \cup {"none", "lifecycle"}
Emits == [direction : {"TX", "RX", "ERROR", "LIFE"}, data : BOOLEAN]
Commands == [client : Clients \cup {NoThread}, number : Nat, kind : Kinds]

TypeOK ==
  /\ lock \in [Clients -> Threads \cup {NoThread}]
  /\ counter \in [Clients -> Nat] /\ calls \in Nat
  /\ call \in [Threads -> [client : Clients \cup {NoThread}, number : Nat, kind : Kinds,
                           events : Seq(Emits), answered : BOOLEAN]]
  /\ pc \in [Threads -> {"idle", "emit", "build", "deliver"}]
  /\ command \in [Threads -> [client : Clients \cup {NoThread}, number : Nat]]
  /\ event \in [Threads -> [sequence : Nat, client : Clients \cup {NoThread}, number : Nat]]
  /\ commands \in Seq(Commands)
  /\ sequence \in Nat /\ dropped \in Nat /\ delivered \in Nat
  /\ latest \in [Clients -> Nat]
  /\ since \in [Threads -> 0 .. MaxCommands]
  /\ shared \in [Threads -> BOOLEAN]

\* A command is the first event of its operation, an answer follows the command or another
\* answer, and only a write is answered by nothing.
WellFormed(kind, events) ==
  /\ \A i \in 2 .. Len(events) :
       /\ events[i].direction # "TX"
       /\ events[i].direction = "RX" => events[i - 1].direction \in {"TX", "RX"}
  /\ kind # "write" /\ events # <<>> /\ Head(events).direction = "TX" =>
       Len(events) > 1 /\ events[2].direction = "RX"

\* A thread that emits is in a call; an operation holds its client's lock and has the last
\* number handed out; what has no number is no operation.
CallOK(t) ==
  /\ pc[t] = "idle" <=> call[t] = NoCall
  /\ pc[t] # "idle" => call[t].events # <<>>
  /\ WellFormed(call[t].kind, call[t].events)
  /\ call[t].number # 0 =>
       /\ call[t].client \in Clients
       /\ lock[call[t].client] = t
       /\ call[t].number = counter[call[t].client]
  /\ call[t].number = 0 => \A i \in 1 .. Len(call[t].events) : call[t].events[i].direction = "LIFE"

CallsOK == \A t \in Threads : CallOK(t)

\* An event on its way is of its call and has a number of its own.
EventsOK ==
  /\ \A t \in InFlight :
       /\ event[t].sequence <= sequence
       /\ event[t].client = call[t].client
       /\ event[t].number \in {0, call[t].number}
  /\ \A c \in Clients : latest[c] <= counter[c]

\* The command has been traced and its answer has not been correlated.
Asked(t) ==
  \/ pc[t] = "emit" /\ Due(t).direction = "RX"
  \/ pc[t] \in {"build", "deliver"} /\ Due(t).direction = "TX"

\* The keys of _commands are unique and all but those of writes are of calls still to be answered.
TableOK ==
  /\ Len(commands) <= MaxCommands
  /\ \A i, j \in DOMAIN commands : commands[i].number = commands[j].number => i = j
  /\ \A i \in DOMAIN commands :
       \/ commands[i].kind = "write"
       \/ \E t \in Threads :
            /\ Asked(t)
            /\ call[t].client = commands[i].client
            /\ call[t].number = commands[i].number
            /\ call[t].kind = commands[i].kind

\* As long as no exception applies, the command an answer waits for is in the table,
\* with no more commands behind it than have been kept since.
KeptOK ==
  \A t \in Threads :
    Asked(t) /\ ~call[t].answered /\ ~shared[t] /\ since[t] < MaxCommands =>
      \E i \in DOMAIN commands :
        /\ commands[i].client = call[t].client
        /\ commands[i].number = call[t].number
        /\ Len(commands) - i <= since[t]

TracerInv ==
  /\ TypeOK
  /\ CallsOK
  /\ IsFiniteSet(InFlight)
  /\ NoSilentLoss
  /\ EventsOK
  /\ TableOK
  /\ KeptOK
  /\ AnswerMeetsItsCommand
==============================================================================
