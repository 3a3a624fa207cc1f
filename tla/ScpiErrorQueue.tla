---------------------------- MODULE ScpiErrorQueue ----------------------------
(***************************************************************************)
(* Automatic checking of the instrument's error queue: _check_errors, write  *)
(* and query of scpi/client.py with drain and raise_if_errors of             *)
(* scpi/errors.py, on an instrument whose commands queue errors.              *)
(*                                                                         *)
(* Draining is itself made of queries, and a query checks the queue: the flag *)
(* _checking_errors keeps a check from checking itself, but a drain the       *)
(* caller makes is not a check, so each of its queries may start one.          *)
(* Threads interleave only where the client's lock is free.                   *)
(***************************************************************************)
EXTENDS Integers, Sequences

CONSTANTS
  Threads,        \* threads that use the client
  NoThread,       \* the owner of a free lock
  Policies,       \* execution policies callers enable: sets of "write" and "query"
  MaximumEntries, \* entries a drain reads before it gives up
  MaxErrors,      \* errors one command may queue
  MaxCalls,       \* bound on the operations a thread calls
  IoFails         \* whether exchanges may fail

ASSUME ErrorQueueAssumption ==
  /\ NoThread \notin Threads
  /\ Policies \subseteq SUBSET {"write", "query"}
  /\ MaximumEntries \in Nat \ {0}
  /\ MaxErrors \in Nat
  /\ MaxCalls \in Nat
  /\ IoFails \in BOOLEAN

VARIABLES
  owner,          \* the thread that holds the client's lock
  policy,         \* _execution_policy; empty when no queue is attached
  checking,       \* _checking_errors: "yes" or "no"
  queue,          \* the instrument's error queue
  commands,       \* commands sent so far
  pc,             \* where every thread is
  op,             \* the operation it is in, or called last
  command,        \* the number of its command
  level,          \* whose drain is running: the "caller"'s or the "check"'s
  reply,          \* the latest answer to the error query, at either level
  collected,      \* entries collected so far by the drain of either level
  result,         \* how the operation ended
  report,         \* entries the caller was given with it
  calls,          \* operations called so far
  popped,         \* history: entries the operation received from the instrument
  caused,         \* history: commands that queued errors
  passed          \* history: commands that were checked and returned normally

vars == <<owner, policy, checking, queue, commands, pc, op, command, level, reply, collected,
          result, report, calls, popped, caused, passed>>

Levels == {"caller", "check"}

Commands == {"write", "query"}

Operations == Commands \cup {"drain", "readOne"}

\* The errors a command queues.
Errors(c, k) == [i \in 1..k |-> [by |-> c, nr |-> i]]

\* Replies to the error query that hold no entry.
NoError == [by |-> 0, nr |-> 0]

Unparsable == [by |-> 0, nr |-> 1]

Members(s) == {s[i] : i \in 1..Len(s)}

Init ==
  /\ owner = NoThread
  /\ policy = {}
  /\ checking = "no"
  /\ queue = <<>>
  /\ commands = 0
  /\ pc = [t \in Threads |-> "idle"]
  /\ op = [t \in Threads |-> "drain"]
  /\ command = [t \in Threads |-> 0]
  /\ level = [t \in Threads |-> "caller"]
  /\ reply = [t \in Threads |-> [l \in Levels |-> NoError]]
  /\ collected = [t \in Threads |-> [l \in Levels |-> <<>>]]
  /\ result = [t \in Threads |-> "none"]
  /\ report = [t \in Threads |-> {}]
  /\ calls = [t \in Threads |-> 0]
  /\ popped = [t \in Threads |-> {}]
  /\ caused = {}
  /\ passed = {}

Goto(t, place) == pc' = [pc EXCEPT ![t] = place]

\* The operation returns, or raises with the entries it carries.
Leave(t, r, entries) ==
  /\ Goto(t, "idle")
  /\ owner' = NoThread
  /\ result' = [result EXCEPT ![t] = r]
  /\ report' = [report EXCEPT ![t] = entries]
  /\ level' = [level EXCEPT ![t] = "caller"]
  /\ reply' = [reply EXCEPT ![t] = [l \in Levels |-> NoError]]
  /\ collected' = [collected EXCEPT ![t] = [l \in Levels |-> <<>>]]

\* Faulty variant: the flag is reset only when the check succeeds.
RaiseFlagKept(t, r, entries) ==
  /\ Leave(t, r, entries)
  /\ UNCHANGED checking

\* An exception goes through everything to the caller; leaving _check_errors resets
\* the flag.
Raise(t, r, entries) ==
  /\ Leave(t, r, entries)
  /\ checking' = IF level[t] = "check" THEN "no" ELSE checking

------------------------------------------------------------------------------
\* enable_error_checking and disable_error_checking.
SetPolicy(p) ==
  /\ owner = NoThread
  /\ policy' = p
  /\ UNCHANGED <<owner, checking, queue, commands, pc, op, command, level, reply, collected,
                 result, report, calls, popped, caused, passed>>

Begin(t, o) ==
  /\ pc[t] = "idle"
  /\ calls[t] < MaxCalls
  /\ owner = NoThread
  /\ owner' = t
  /\ calls' = [calls EXCEPT ![t] = @ + 1]
  /\ op' = [op EXCEPT ![t] = o]
  /\ Goto(t, IF o \in Commands THEN "command" ELSE "pop")
  /\ result' = [result EXCEPT ![t] = "none"]
  /\ report' = [report EXCEPT ![t] = {}]
  /\ popped' = [popped EXCEPT ![t] = {}]
  /\ UNCHANGED <<policy, checking, queue, commands, command, level, reply, collected, caused, passed>>

\* The instrument executes the command, which may queue errors.
Executes(t, k) ==
  /\ commands' = commands + 1
  /\ command' = [command EXCEPT ![t] = commands + 1]
  /\ queue' = queue \o Errors(commands + 1, k)
  /\ caused' = IF k > 0 THEN caused \cup {commands + 1} ELSE caused

\* Faulty variant: the lock is released between the command and its check.
CommandUnlocks(t, k) ==
  /\ pc[t] = "command"
  /\ Executes(t, k)
  /\ Goto(t, "check")
  /\ owner' = NoThread
  /\ UNCHANGED <<policy, checking, op, level, reply, collected, result, report, calls,
                 popped, passed>>

Command(t, k) ==
  /\ pc[t] = "command"
  /\ Executes(t, k)
  /\ Goto(t, "check")
  /\ UNCHANGED <<owner, policy, checking, op, level, reply, collected, result, report, calls,
                 popped, passed>>

\* The exchange fails, before or after the instrument has executed the command;
\* nothing is checked.
CommandFails(t) ==
  /\ pc[t] = "command"
  /\ IoFails
  /\ \/ \E k \in 0..MaxErrors : Executes(t, k)
     \/ UNCHANGED <<commands, command, queue, caused>>
  /\ Raise(t, "TransportError", {})
  /\ UNCHANGED <<policy, op, calls, popped, passed>>

------------------------------------------------------------------------------
\* _check_errors, after a command and after every query of a drain.

\* Which setting of the policy applies: a drain reads the queue with queries.
Kind(t) == IF op[t] = "write" THEN "write" ELSE "query"

Wanted(t) == checking = "no" /\ Kind(t) \in policy

CheckBegins(t) ==
  /\ pc[t] = "check"
  /\ Wanted(t)
  /\ checking' = "yes"
  /\ level' = [level EXCEPT ![t] = "check"]
  /\ Goto(t, "pop")
  /\ UNCHANGED <<owner, policy, queue, commands, op, command, reply, collected, result, report,
                 calls, popped, caused, passed>>

\* Nothing to check after a query of a drain: its reply is looked at.
CheckSkippedInDrain(t) ==
  /\ pc[t] = "check"
  /\ ~Wanted(t)
  /\ level[t] = "check" \/ op[t] \notin Commands
  /\ Goto(t, "got")
  /\ UNCHANGED <<owner, policy, checking, queue, commands, op, command, level, reply, collected,
                 result, report, calls, popped, caused, passed>>

\* Nothing to check after a command: it returns.
CheckSkipped(t) ==
  /\ pc[t] = "check"
  /\ ~Wanted(t)
  /\ level[t] = "caller" /\ op[t] \in Commands
  /\ Leave(t, "ok", {})
  /\ UNCHANGED <<policy, checking, queue, commands, op, command, calls, popped, caused, passed>>

------------------------------------------------------------------------------
\* drain, of either level, and read_one.

Answered(t, r) == reply' = [reply EXCEPT ![t][level[t]] = r]

PopEntry(t) ==
  /\ pc[t] = "pop"
  /\ queue # <<>>
  /\ queue' = Tail(queue)
  /\ Answered(t, Head(queue))
  /\ popped' = [popped EXCEPT ![t] = @ \cup {Head(queue)}]
  /\ Goto(t, "check")
  /\ UNCHANGED <<owner, policy, checking, commands, op, command, level, collected, result, report,
                 calls, caused, passed>>

\* The queue is empty, or the reply makes no sense.
PopNothing(t, r) ==
  /\ pc[t] = "pop"
  /\ r = NoError => queue = <<>>
  /\ r = Unparsable => IoFails
  /\ Answered(t, r)
  /\ Goto(t, "check")
  /\ UNCHANGED <<owner, policy, checking, queue, commands, op, command, level, collected, result,
                 report, calls, popped, caused, passed>>

\* The exchange fails; an entry the instrument had already popped never arrives.
PopFails(t) ==
  /\ pc[t] = "pop"
  /\ IoFails
  /\ queue' \in {queue} \cup (IF queue = <<>> THEN {} ELSE {Tail(queue)})
  /\ Raise(t, "TransportError", {})
  /\ UNCHANGED <<policy, commands, op, command, calls, popped, caused, passed>>

Got(t, replies) == pc[t] = "got" /\ reply[t][level[t]] \in replies

Mine(t) == collected[t][level[t]]

\* parse_scpi_error raises; a drain wraps that with what it has collected.
GotUnparsable(t) ==
  /\ Got(t, {Unparsable})
  /\ Raise(t, "incomplete", Members(Mine(t)))
  /\ UNCHANGED <<policy, queue, commands, op, command, calls, popped, caused, passed>>

\* The caller's drain has emptied the queue, or read_one found it empty.
CallerDrained(t) ==
  /\ Got(t, {NoError})
  /\ level[t] = "caller"
  /\ Leave(t, "ok", Members(Mine(t)))
  /\ UNCHANGED <<policy, checking, queue, commands, op, command, calls, popped, caused, passed>>

\* raise_if_errors: the check's drain has emptied the queue and found errors.
CheckFoundErrors(t) ==
  /\ Got(t, {NoError})
  /\ level[t] = "check"
  /\ Mine(t) # <<>>
  /\ Raise(t, "complete", Members(Mine(t)))
  /\ UNCHANGED <<policy, queue, commands, op, command, calls, popped, caused, passed>>

\* The check found nothing: the command returns, or the caller's drain goes on with
\* the reply it was checking.
CheckPassed(t) ==
  /\ Got(t, {NoError})
  /\ level[t] = "check"
  /\ Mine(t) = <<>>
  /\ checking' = "no"
  /\ \/ /\ op[t] \in Commands
        /\ Leave(t, "ok", {})
        /\ passed' = passed \cup {command[t]}
     \/ /\ op[t] \notin Commands
        /\ level' = [level EXCEPT ![t] = "caller"]
        /\ UNCHANGED <<owner, pc, reply, collected, result, report, passed>>
  /\ UNCHANGED <<policy, queue, commands, op, command, calls, popped, caused>>

Entries == [by : 1..commands, nr : 1..MaxErrors]

\* read_one returns the entry.
ReadOneDone(t) ==
  /\ Got(t, Entries)
  /\ level[t] = "caller" /\ op[t] = "readOne"
  /\ Leave(t, "ok", {reply[t][level[t]]})
  /\ UNCHANGED <<policy, checking, queue, commands, op, command, calls, popped, caused, passed>>

Collect(t) ==
  /\ Got(t, Entries)
  /\ level[t] = "check" \/ op[t] # "readOne"
  /\ Len(Mine(t)) + 1 < MaximumEntries
  /\ collected' = [collected EXCEPT ![t][level[t]] = Append(@, reply[t][level[t]])]
  /\ Goto(t, "pop")
  /\ UNCHANGED <<owner, policy, checking, queue, commands, op, command, level, reply, result,
                 report, calls, popped, caused, passed>>

\* Faulty variant: the entry that reaches the limit is not reported.
CollectLastDropped(t) ==
  /\ Got(t, Entries)
  /\ level[t] = "check" \/ op[t] # "readOne"
  /\ Len(Mine(t)) + 1 >= MaximumEntries
  /\ Raise(t, "incomplete", Members(Mine(t)))
  /\ UNCHANGED <<policy, queue, commands, op, command, calls, popped, caused, passed>>

\* The last entry the limit allows: the drain did not see the queue empty.
CollectLast(t) ==
  /\ Got(t, Entries)
  /\ level[t] = "check" \/ op[t] # "readOne"
  /\ Len(Mine(t)) + 1 >= MaximumEntries
  /\ Raise(t, "incomplete", Members(Mine(t)) \cup {reply[t][level[t]]})
  /\ UNCHANGED <<policy, queue, commands, op, command, calls, popped, caused, passed>>

------------------------------------------------------------------------------

Drain(t) ==
  \/ PopEntry(t) \/ PopNothing(t, NoError) \/ PopNothing(t, Unparsable) \/ PopFails(t)
  \/ GotUnparsable(t) \/ CallerDrained(t) \/ CheckFoundErrors(t) \/ CheckPassed(t)
  \/ ReadOneDone(t) \/ Collect(t) \/ CollectLast(t)

Next ==
  \/ \E p \in Policies \cup {{}} : SetPolicy(p)
  \/ \E t \in Threads :
       \/ \E o \in Operations : Begin(t, o)
       \/ \E k \in 0..MaxErrors : Command(t, k)
       \/ CommandFails(t)
       \/ CheckBegins(t) \/ CheckSkippedInDrain(t) \/ CheckSkipped(t)
       \/ Drain(t)

Spec == Init /\ [][Next]_vars

------------------------------------------------------------------------------
\* The flag is set exactly while a check runs: no failure inside a check leaves it
\* set, which would turn automatic checking off for good, and no check runs inside
\* another (client.py 171-187).
FlagWhileChecking ==
  checking = "yes" <=> \E t \in Threads : level[t] = "check"

\* A command that is checked and returns normally has queued no error: its check sees
\* its own errors before anybody else can take them, because command and check are one
\* client operation (client.py 253-257, 281-296).
NormalReturnMeansNoError == passed \cap caused = {}

\* What a check, or a drain that ends by itself, took from the instrument reaches the
\* caller: with the exception of the check, at the entry limit and after an unparsable
\* reply too, and with the result of the drain (errors.py 81-104).  Entries are only
\* lost when an exchange fails or when a drain is cut short by a check of its own.  No
\* drain asks for another entry once it has collected as many as its limit.
CheckReportsAll ==
  \A t \in Threads :
    /\ /\ pc[t] = "idle"
       /\ \/ op[t] \in Commands /\ result[t] # "TransportError"
          \/ op[t] = "drain" /\ result[t] = "ok"
       => popped[t] \subseteq report[t]
    /\ \A l \in Levels : Len(collected[t][l]) < MaximumEntries

\* What the caller of a drain is told is what was popped: "Pop entries until empty, preserving every
\* popped entry on failure" (errors.py 72).
PoppedIsReported ==
  \A t \in Threads : pc[t] = "idle" /\ op[t] # "readOne" => popped[t] \subseteq report[t]
------------------------------------------------------------------------------
\* The inductive invariant behind the properties above.

Places == {"idle", "command", "check", "pop", "got"}

Results == {"none", "ok", "TransportError", "complete", "incomplete"}

\* Entries, of any command.
AnyEntry == [by : Nat \ {0}, nr : Nat \ {0}]

\* The types of the variables.
TypeOK ==
  /\ owner \in Threads \cup {NoThread}
  /\ policy \subseteq Commands
  /\ checking \in {"yes", "no"}
  /\ commands \in Nat
  /\ queue \in Seq(AnyEntry)
  /\ pc \in [Threads -> Places]
  /\ op \in [Threads -> Operations]
  /\ command \in [Threads -> Nat]
  /\ level \in [Threads -> Levels]
  /\ reply \in [Threads -> [Levels -> AnyEntry \cup {NoError, Unparsable}]]
  /\ collected \in [Threads -> [Levels -> Seq(AnyEntry)]]
  /\ result \in [Threads -> Results]
  /\ report \in [Threads -> SUBSET AnyEntry]
  /\ calls \in [Threads -> Nat]
  /\ popped \in [Threads -> SUBSET AnyEntry]
  /\ caused \subseteq 1..commands
  /\ passed \subseteq 1..commands

\* An operation runs under the client's lock; between operations nothing is left of it.
FrameOK(t) ==
  /\ pc[t] # "idle" <=> owner = t
  /\ level[t] = "check" => pc[t] \in {"pop", "check", "got"} /\ checking = "yes"
  /\ pc[t] \in {"pop", "got"} /\ level[t] = "caller" => op[t] \notin Commands
  /\ pc[t] = "command" => op[t] \in Commands
  /\ pc[t] \in {"idle", "command"} \/ level[t] = "caller" =>
       reply[t]["check"] = NoError /\ collected[t]["check"] = <<>>
  /\ pc[t] \in {"idle", "command"} \/ op[t] \in Commands =>
       reply[t]["caller"] = NoError /\ collected[t]["caller"] = <<>>
  /\ \A l \in Levels : Len(collected[t][l]) < MaximumEntries

\* The entries the drain of a level has at hand: a reply counts until it is collected.
AtHand(t, l) ==
  Members(collected[t][l])
    \cup (IF pc[t] = "pop" /\ level[t] = l THEN {} ELSE {reply[t][l]} \cap AnyEntry)

\* Every entry popped is at hand, or was given to the caller when the operation ended.
PoppedOK(t) ==
  IF pc[t] = "idle"
    THEN (op[t] \in Commands /\ result[t] # "TransportError") \/ (op[t] = "drain" /\ result[t] = "ok")
           => popped[t] \subseteq report[t]
    ELSE popped[t] \subseteq AtHand(t, "caller") \cup AtHand(t, "check")

\* The errors of a command that is being checked are in the queue or at hand.
CausedOK(t) ==
  pc[t] \notin {"idle", "command"} /\ op[t] \in Commands =>
    /\ command[t] \in 1..commands
    /\ command[t] \notin passed
    /\ command[t] \in caused =>
         \E e \in Members(queue) \cup AtHand(t, "check") : e.by = command[t]

\* A check that has seen the end of the queue has seen it empty.
EmptyOK(t) ==
  pc[t] \in {"check", "got"} /\ level[t] = "check" /\ reply[t]["check"] = NoError => queue = <<>>

QueueInv ==
  /\ TypeOK
  /\ FlagWhileChecking
  /\ NormalReturnMeansNoError
  /\ \A t \in Threads : FrameOK(t) /\ PoppedOK(t) /\ CausedOK(t) /\ EmptyOK(t)
==============================================================================
