------------------------- MODULE ScpiErrorQueueProofs -------------------------
(***************************************************************************)
(* Proofs about ScpiErrorQueue for any set of threads, any policy, any entry  *)
(* limit and any number of errors per command.  QueueInv is inductive: it says *)
(* where an entry is between its command and the report that carries it.  An    *)
(* entry a command caused is in the instrument's queue or at hand (CausedOK);    *)
(* a popped entry is at hand until the operation ends (PoppedOK); a drain that   *)
(* has seen "no error" has left the queue empty (EmptyOK), and since only the    *)
(* lock's owner talks to the instrument it still is when the check passes.       *)
(***************************************************************************)
EXTENDS ScpiErrorQueue, TLAPS

\* What sequences of entries hold, as they grow and shrink.
LEMMA MembersAppend ==
  ASSUME NEW s \in Seq(AnyEntry), NEW e \in AnyEntry
  PROVE  Append(s, e) \in Seq(AnyEntry) /\ Members(Append(s, e)) = Members(s) \cup {e}
         /\ Len(Append(s, e)) = Len(s) + 1
  BY DEF Members

\* The first entry and the rest are all there is.
LEMMA MembersTail ==
  ASSUME NEW s \in Seq(AnyEntry), s # <<>>
  PROVE  /\ Head(s) \in AnyEntry /\ Tail(s) \in Seq(AnyEntry)
         /\ Members(s) = {Head(s)} \cup Members(Tail(s))
<1>1. Head(s) \in AnyEntry /\ Tail(s) \in Seq(AnyEntry) /\ Len(Tail(s)) = Len(s) - 1
  OBVIOUS
<1>2. ASSUME NEW i \in 1..Len(s) PROVE s[i] \in {Head(s)} \cup Members(Tail(s))
  <2>1. CASE i = 1
    BY <2>1
  <2>2. CASE i > 1
    <3>1. i - 1 \in 1..Len(Tail(s)) /\ Tail(s)[i - 1] = s[i]
      BY <1>1, <2>2
    <3> QED BY <3>1 DEF Members
  <2> QED BY <2>1, <2>2
<1>3. ASSUME NEW i \in 1..Len(Tail(s)) PROVE Tail(s)[i] \in Members(s)
  <2>1. i + 1 \in 1..Len(s) /\ Tail(s)[i] = s[i + 1]
    BY <1>1
  <2> QED BY <2>1 DEF Members
<1>4. Head(s) \in Members(s)
  <2>1. 1 \in 1..Len(s) /\ s[1] = Head(s)
    OBVIOUS
  <2> QED BY <2>1 DEF Members
<1> QED BY <1>1, <1>2, <1>3, <1>4 DEF Members

\* A concatenation holds what its two parts hold.
LEMMA MembersConcat ==
  ASSUME NEW s \in Seq(AnyEntry), NEW r \in Seq(AnyEntry)
  PROVE  s \o r \in Seq(AnyEntry) /\ Members(s \o r) = Members(s) \cup Members(r)
<1>1. s \o r \in Seq(AnyEntry) /\ Len(s \o r) = Len(s) + Len(r)
  OBVIOUS
<1>2. ASSUME NEW i \in 1..Len(s \o r) PROVE (s \o r)[i] \in Members(s) \cup Members(r)
  <2>1. CASE i <= Len(s)
    BY <1>1, <2>1 DEF Members
  <2>2. CASE i > Len(s)
    <3>1. i - Len(s) \in 1..Len(r) /\ (s \o r)[i] = r[i - Len(s)]
      BY <1>1, <2>2
    <3> QED BY <3>1 DEF Members
  <2> QED BY <2>1, <2>2
<1>3. ASSUME NEW i \in 1..Len(s) PROVE s[i] \in Members(s \o r)
  <2>1. i \in 1..Len(s \o r) /\ (s \o r)[i] = s[i]
    BY <1>1
  <2> QED BY <2>1 DEF Members
<1>4. ASSUME NEW i \in 1..Len(r) PROVE r[i] \in Members(s \o r)
  <2>1. Len(s) + i \in 1..Len(s \o r) /\ (s \o r)[Len(s) + i] = r[i]
    BY <1>1
  <2> QED BY <2>1 DEF Members
<1> QED BY <1>1, <1>2, <1>3, <1>4 DEF Members

\* The empty sequence holds nothing.
LEMMA MembersEmpty == <<>> \in Seq(AnyEntry) /\ Members(<<>>) = {} /\ Len(<<>>) = 0
  BY DEF Members

\* The members of a sequence of entries are entries.
LEMMA MembersType ==
  ASSUME NEW s \in Seq(AnyEntry)
  PROVE  Members(s) \subseteq AnyEntry
  BY DEF Members

\* The errors of a command are entries that name it.
LEMMA ErrorsFacts ==
  ASSUME NEW c \in Nat \ {0}, NEW k \in Nat
  PROVE  /\ Errors(c, k) \in Seq(AnyEntry)
         /\ k > 0 => \E e \in Members(Errors(c, k)) : e.by = c
<1>1. Errors(c, k) \in Seq(AnyEntry) /\ Len(Errors(c, k)) = k
  BY DEF Errors, AnyEntry
<1>2. ASSUME k > 0 PROVE \E e \in Members(Errors(c, k)) : e.by = c
  <2>1. 1 \in 1..Len(Errors(c, k)) /\ Errors(c, k)[1].by = c
    BY <1>1, <1>2 DEF Errors
  <2> QED BY <2>1 DEF Members
<1> QED BY <1>1, <1>2

\* Replies that hold no entry.
LEMMA NotEntries ==
  /\ NoError \notin AnyEntry /\ Unparsable \notin AnyEntry /\ NoError # Unparsable
  /\ Entries \subseteq AnyEntry
  BY ErrorQueueAssumption DEF NoError, Unparsable, AnyEntry, Entries

\* The steps of a thread.
ThreadStep(t) ==
  \/ \E o \in Operations : Begin(t, o)
  \/ \E k \in 0..MaxErrors : Command(t, k)
  \/ CommandFails(t)
  \/ CheckBegins(t) \/ CheckSkippedInDrain(t) \/ CheckSkipped(t)
  \/ Drain(t)

\* What a step of another thread leaves alone of thread u.
Alone(u) ==
  /\ pc'[u] = pc[u] /\ op'[u] = op[u] /\ command'[u] = command[u] /\ level'[u] = level[u]
  /\ reply'[u] = reply[u] /\ collected'[u] = collected[u] /\ result'[u] = result[u]
  /\ report'[u] = report[u] /\ popped'[u] = popped[u]

\* A step of one thread leaves the frames of the others alone.
LEMMA OthersAlone ==
  ASSUME QueueInv, NEW t \in Threads, ThreadStep(t), NEW u \in Threads, u # t
  PROVE  Alone(u)
<1> USE ErrorQueueAssumption DEF QueueInv, TypeOK, Goto, Got, Mine
<1>1. CASE \E o \in Operations : Begin(t, o)
  BY <1>1 DEF Begin, Alone
<1>2. CASE \E k \in 0..MaxErrors : Command(t, k)
  BY <1>2 DEF Command, Executes, Alone
<1>3. CASE PopNothing(t, NoError) \/ PopNothing(t, Unparsable)
  BY <1>3 DEF PopNothing, Answered, Alone
<1>4. CASE CommandFails(t)
  BY <1>4 DEF CommandFails, Executes, Raise, Leave, Alone
<1>5. CASE CheckBegins(t)
  BY <1>5 DEF CheckBegins, Alone
<1>6. CASE CheckSkippedInDrain(t)
  BY <1>6 DEF CheckSkippedInDrain, Alone
<1>7. CASE CheckSkipped(t)
  BY <1>7 DEF CheckSkipped, Leave, Alone
<1>8. CASE PopEntry(t)
  BY <1>8 DEF PopEntry, Answered, Alone
<1>9. CASE PopFails(t)
  BY <1>9 DEF PopFails, Raise, Leave, Alone
<1>10. CASE GotUnparsable(t)
  BY <1>10 DEF GotUnparsable, Raise, Leave, Alone
<1>11. CASE CallerDrained(t)
  BY <1>11 DEF CallerDrained, Leave, Alone
<1>12. CASE CheckFoundErrors(t)
  BY <1>12 DEF CheckFoundErrors, Raise, Leave, Alone
<1>13. CASE CheckPassed(t)
  BY <1>13 DEF CheckPassed, Leave, Alone
<1>14. CASE ReadOneDone(t)
  BY <1>14 DEF ReadOneDone, Leave, Alone
<1>15. CASE Collect(t)
  BY <1>15 DEF Collect, Alone
<1>16. CASE CollectLast(t)
  BY <1>16 DEF CollectLast, Raise, Leave, Alone
<1> QED BY <1>1, <1>2, <1>3, <1>4, <1>5, <1>6, <1>7, <1>8, <1>9, <1>10, <1>11, <1>12, <1>13,
    <1>14, <1>15, <1>16 DEF ThreadStep, Drain

\* A thread moves with the lock, or takes a free one.
LEMMA LockHeld ==
  ASSUME QueueInv, NEW t \in Threads, ThreadStep(t)
  PROVE  \/ pc[t] # "idle" /\ owner = t
         \/ pc[t] = "idle" /\ owner = NoThread /\ \E o \in Operations : Begin(t, o)
<1>1. pc[t] # "idle" <=> owner = t
  BY DEF QueueInv, FrameOK
<1>2. (\E o \in Operations : Begin(t, o)) => owner = NoThread
  BY DEF Begin
<1>3. pc[t] = "idle" => \E o \in Operations : Begin(t, o)
  BY DEF ThreadStep, Drain, Command, CommandFails, CheckBegins, CheckSkippedInDrain,
      CheckSkipped, PopEntry,
     PopNothing, PopFails, GotUnparsable, CallerDrained, CheckFoundErrors, CheckPassed,
         ReadOneDone,
     Collect, CollectLast, Got
<1> QED BY <1>1, <1>2, <1>3

\* What the invariant says of a thread that is idle depends on its frame alone.
LEMMA OthersNext ==
  ASSUME QueueInv, NEW t \in Threads, ThreadStep(t), NEW u \in Threads, u # t
  PROVE  /\ FrameOK(u)' /\ PoppedOK(u)' /\ CausedOK(u)' /\ EmptyOK(u)'
         /\ level[u] = "caller" /\ level'[u] = "caller"
<1>1. Alone(u)
  BY OthersAlone
<1>2. FrameOK(u) /\ PoppedOK(u)
  BY DEF QueueInv
<1>3. owner # u /\ owner' # u
  <2>1. owner \in {t, NoThread}
    BY LockHeld
  <2>2. owner' \in {t, NoThread}
    BY <2>1 DEF ThreadStep, Drain, Begin, Command, CommandFails, CheckBegins,
        CheckSkippedInDrain, CheckSkipped,
     PopEntry, PopNothing, PopFails, GotUnparsable, CallerDrained, CheckFoundErrors, CheckPassed,
     ReadOneDone, Collect, CollectLast, Raise, Leave
  <2> QED BY <2>1, <2>2, ErrorQueueAssumption
<1>4. pc[u] = "idle" /\ pc'[u] = "idle"
  BY <1>1, <1>2, <1>3 DEF Alone, FrameOK
<1>5. level[u] = "caller" /\ level'[u] = "caller"
  BY <1>1, <1>2, <1>4 DEF Alone, FrameOK, QueueInv, TypeOK, Levels
<1>6. FrameOK(u)'
  BY <1>1, <1>2, <1>3, <1>4, <1>5 DEF Alone, FrameOK
<1>7. PoppedOK(u)'
  BY <1>1, <1>2, <1>4 DEF Alone, PoppedOK
<1> QED BY <1>4, <1>5, <1>6, <1>7 DEF CausedOK, EmptyOK

\* The end of an operation leaves nothing of it but its result and report.
LEMMA LeaveFacts ==
  ASSUME QueueInv, NEW t \in Threads, NEW r \in Results, NEW entries \in SUBSET AnyEntry,
         Leave(t, r, entries)
  PROVE  /\ owner' = NoThread /\ pc' \in [Threads -> Places] /\ level' \in [Threads -> Levels]
         /\ reply' \in [Threads -> [Levels -> AnyEntry \cup {NoError, Unparsable}]]
         /\ collected' \in [Threads -> [Levels -> Seq(AnyEntry)]]
         /\ result' \in [Threads -> Results] /\ report' \in [Threads -> SUBSET AnyEntry]
         /\ pc'[t] = "idle" /\ level'[t] = "caller" /\ result'[t] = r /\ report'[t] = entries
         /\ FrameOK(t)' /\ CausedOK(t)' /\ EmptyOK(t)'
<1> USE DEF QueueInv, TypeOK, Leave, Goto
<1>1. pc' \in [Threads -> Places] /\ level' \in [Threads -> Levels] /\ owner' = NoThread
  BY DEF Places, Levels
<1>2. reply' \in [Threads -> [Levels -> AnyEntry \cup {NoError, Unparsable}]]
  OBVIOUS
<1>3. collected' \in [Threads -> [Levels -> Seq(AnyEntry)]]
  BY MembersEmpty
<1>4. result' \in [Threads -> Results] /\ report' \in [Threads -> SUBSET AnyEntry]
  OBVIOUS
<1>5. pc'[t] = "idle" /\ level'[t] = "caller" /\ result'[t] = r /\ report'[t] = entries
  OBVIOUS
<1>6. \A l \in Levels : reply'[t][l] = NoError /\ collected'[t][l] = <<>>
  OBVIOUS
<1>7. FrameOK(t)'
  BY <1>1, <1>5, <1>6, MembersEmpty, ErrorQueueAssumption DEF FrameOK, Levels
<1>8. CausedOK(t)' /\ EmptyOK(t)'
  BY <1>5 DEF CausedOK, EmptyOK
<1> QED BY <1>1, <1>2, <1>3, <1>4, <1>5, <1>7, <1>8

\* The types at the end of an operation.
LEMMA LeaveType ==
  ASSUME QueueInv, NEW t \in Threads, NEW r \in Results, NEW entries \in SUBSET AnyEntry,
         Leave(t, r, entries), checking' \in {"yes", "no"}, commands' \in Nat,
         command' \in [Threads -> Nat], queue' \in Seq(AnyEntry), caused' \subseteq 1..commands',
         passed' \subseteq 1..commands', UNCHANGED <<policy, op, calls, popped>>
  PROVE  TypeOK'
<1>1. /\ owner' = NoThread /\ pc' \in [Threads -> Places] /\ level' \in [Threads -> Levels]
      /\ reply' \in [Threads -> [Levels -> AnyEntry \cup {NoError, Unparsable}]]
      /\ collected' \in [Threads -> [Levels -> Seq(AnyEntry)]]
      /\ result' \in [Threads -> Results] /\ report' \in [Threads -> SUBSET AnyEntry]
  BY LeaveFacts
<1>2. policy' \subseteq Commands /\ op' \in [Threads -> Operations] /\ calls' \in [Threads -> Nat]
      /\ popped' \in [Threads -> SUBSET AnyEntry]
  BY DEF QueueInv, TypeOK
<1> QED BY <1>1, <1>2 DEF TypeOK

\* What a drain hands over when it ends is entries.
LEMMA MineFacts ==
  ASSUME QueueInv, NEW t \in Threads
  PROVE  /\ level[t] \in Levels /\ Mine(t) \in Seq(AnyEntry)
         /\ Members(Mine(t)) \in SUBSET AnyEntry
         /\ reply[t][level[t]] \in AnyEntry \cup {NoError, Unparsable}
<1>1. level[t] \in Levels /\ Mine(t) \in Seq(AnyEntry)
  BY DEF QueueInv, TypeOK, Mine
<1>2. reply[t][level[t]] \in AnyEntry \cup {NoError, Unparsable}
  BY <1>1 DEF QueueInv, TypeOK
<1> QED BY <1>1, <1>2, MembersType

\* The instrument executes a command: what it queues is entries of that command.
LEMMA ExecutesFacts ==
  ASSUME QueueInv, NEW t \in Threads, NEW k \in 0..MaxErrors, Executes(t, k)
  PROVE  /\ commands' = commands + 1 /\ commands' \in Nat
         /\ command' \in [Threads -> Nat] /\ command'[t] = commands + 1
         /\ queue' \in Seq(AnyEntry) /\ caused' \subseteq 1..commands' /\ passed \subseteq
             1..commands'
         /\ caused' \subseteq caused \cup {commands + 1}
         /\ command'[t] \in caused' => \E e \in Members(queue') : e.by = command'[t]
<1> USE ErrorQueueAssumption DEF QueueInv, TypeOK, Executes
<1>1. commands' = commands + 1 /\ commands' \in Nat /\ command' \in [Threads -> Nat]
      /\ command'[t] = commands + 1
  OBVIOUS
<1>2. caused' \subseteq 1..commands' /\ passed \subseteq 1..commands' /\ caused' \subseteq
    caused \cup {commands + 1}
  OBVIOUS
<1>3. /\ Errors(commands + 1, k) \in Seq(AnyEntry)
      /\ k > 0 => \E e \in Members(Errors(commands + 1, k)) : e.by = commands + 1
  <2>1. commands + 1 \in Nat \ {0} /\ k \in Nat
    OBVIOUS
  <2> HIDE DEF QueueInv, TypeOK, Executes
  <2> QED BY <2>1, ErrorsFacts
<1>4. queue' \in Seq(AnyEntry) /\ Members(queue') = Members(queue) \cup Members(Errors(commands
    + 1, k))
  BY <1>3, MembersConcat
<1>5. ASSUME commands + 1 \in caused' PROVE \E e \in Members(queue') : e.by = commands + 1
  <2>1. k > 0
    BY <1>5
  <2> QED BY <1>3, <1>4, <2>1
<1> QED BY <1>1, <1>2, <1>4, <1>5

\* Every step keeps the types.
LEMMA TypeNext ==
  ASSUME QueueInv, NEW t \in Threads, ThreadStep(t)
  PROVE  TypeOK'
<1> USE DEF QueueInv, TypeOK, Goto
<1>1. CASE \E o \in Operations : Begin(t, o)
  <2>1. PICK o \in Operations : Begin(t, o)
    BY <1>1
  <2>2. pc' \in [Threads -> Places] /\ result' \in [Threads -> Results]
    BY <2>1 DEF Begin, Places, Results
  <2> QED BY <2>1, <2>2 DEF Begin
<1>2. CASE \E k \in 0..MaxErrors : Command(t, k)
  BY <1>2, ExecutesFacts DEF Command, Places
<1>3. CASE PopNothing(t, NoError) \/ PopNothing(t, Unparsable)
  <2>1. PICK r \in {NoError, Unparsable} : PopNothing(t, r)
    BY <1>3
  <2>2. level[t] \in Levels /\ reply' = [reply EXCEPT ![t][level[t]] = r]
    BY <2>1 DEF PopNothing, Answered
  <2>3. reply' \in [Threads -> [Levels -> AnyEntry \cup {NoError, Unparsable}]]
    BY <2>2
  <2> QED BY <2>1, <2>3 DEF PopNothing, Places
<1>4. CASE CommandFails(t)
  <2>1. Leave(t, "TransportError", {}) /\ "TransportError" \in Results /\ {} \in SUBSET AnyEntry
    BY <1>4 DEF CommandFails, Raise, Results
  <2>2. /\ commands' \in Nat /\ command' \in [Threads -> Nat] /\ queue' \in Seq(AnyEntry)
        /\ caused' \subseteq 1..commands' /\ passed \subseteq 1..commands'
    BY <1>4, ExecutesFacts DEF CommandFails
  <2>3. checking' \in {"yes", "no"} /\ UNCHANGED <<policy, op, calls, popped, passed>>
    BY <1>4 DEF CommandFails, Raise
  <2> HIDE DEF QueueInv, TypeOK
  <2> QED BY <2>1, <2>2, <2>3, LeaveType
<1>5. CASE CheckBegins(t)
  BY <1>5 DEF CheckBegins, Places, Levels
<1>6. CASE CheckSkippedInDrain(t)
  BY <1>6 DEF CheckSkippedInDrain, Places
<1>7. CASE CheckSkipped(t)
  <2>1. Leave(t, "ok", {})
    BY <1>7 DEF CheckSkipped
  <2>2. {} \in SUBSET AnyEntry
    OBVIOUS
  <2>3. "ok" \in Results
    BY DEF Results
  <2> QED BY <1>7, <2>1, <2>2, <2>3, LeaveType DEF CheckSkipped
<1>8. CASE PopEntry(t)
  <2>1. Head(queue) \in AnyEntry /\ queue' \in Seq(AnyEntry)
    BY <1>8, MembersTail DEF PopEntry
  <2>2. reply' \in [Threads -> [Levels -> AnyEntry \cup {NoError, Unparsable}]]
    BY <1>8, <2>1 DEF PopEntry, Answered
  <2>3. popped' \in [Threads -> SUBSET AnyEntry]
    BY <1>8, <2>1 DEF PopEntry
  <2> QED BY <1>8, <2>1, <2>2, <2>3 DEF PopEntry, Places
<1>9. CASE PopFails(t)
  <2>0. queue \in Seq(AnyEntry)
    OBVIOUS
  <2>1. Leave(t, "TransportError", {}) /\ "TransportError" \in Results /\ {} \in SUBSET AnyEntry
    BY <1>9 DEF PopFails, Raise, Results
  <2>2. queue' \in Seq(AnyEntry)
    BY <1>9, MembersTail, <2>0 DEF PopFails
  <2>3. /\ checking' \in {"yes", "no"} /\ UNCHANGED <<policy, op, calls, popped>>
        /\ commands' \in Nat /\ command' \in [Threads -> Nat]
        /\ caused' \subseteq 1..commands' /\ passed' \subseteq 1..commands'
    BY <1>9 DEF PopFails, Raise
  <2> HIDE DEF QueueInv, TypeOK
  <2> QED BY <2>1, <2>2, <2>3, LeaveType
<1>10. CASE GotUnparsable(t)
  <2>1. Leave(t, "incomplete", Members(Mine(t)))
    BY <1>10 DEF GotUnparsable, Raise
  <2>2. Members(Mine(t)) \in SUBSET AnyEntry
    BY MineFacts
  <2>3. "incomplete" \in Results
    BY DEF Results
  <2> QED BY <1>10, <2>1, <2>2, <2>3, LeaveType DEF GotUnparsable, Raise
<1>11. CASE CallerDrained(t)
  <2>1. Leave(t, "ok", Members(Mine(t)))
    BY <1>11 DEF CallerDrained
  <2>2. Members(Mine(t)) \in SUBSET AnyEntry
    BY MineFacts
  <2>3. "ok" \in Results
    BY DEF Results
  <2> QED BY <1>11, <2>1, <2>2, <2>3, LeaveType DEF CallerDrained
<1>12. CASE CheckFoundErrors(t)
  <2>1. Leave(t, "complete", Members(Mine(t)))
    BY <1>12 DEF CheckFoundErrors, Raise
  <2>2. Members(Mine(t)) \in SUBSET AnyEntry
    BY MineFacts
  <2>3. "complete" \in Results
    BY DEF Results
  <2> QED BY <1>12, <2>1, <2>2, <2>3, LeaveType DEF CheckFoundErrors, Raise
<1>13. CASE CheckPassed(t)
  <2>1. CASE op[t] \in Commands /\ Leave(t, "ok", {}) /\ passed' = passed \cup {command[t]}
    <3>1. "ok" \in Results /\ {} \in SUBSET AnyEntry
      BY DEF Results
    <3>2. command[t] \in 1..commands
      BY <1>13, <2>1 DEF CheckPassed, CausedOK, Got
    <3>3. /\ checking' \in {"yes", "no"} /\ UNCHANGED <<policy, op, calls, popped>>
          /\ commands' \in Nat /\ command' \in [Threads -> Nat] /\ queue' \in Seq(AnyEntry)
          /\ caused' \subseteq 1..commands' /\ passed' \subseteq 1..commands'
      BY <1>13, <2>1, <3>2 DEF CheckPassed
    <3> HIDE DEF QueueInv, TypeOK
    <3> QED BY <2>1, <3>1, <3>3, LeaveType
  <2>2. CASE op[t] \notin Commands
    BY <1>13, <2>2 DEF CheckPassed, Levels
  <2> QED BY <1>13, <2>1, <2>2 DEF CheckPassed
<1>14. CASE ReadOneDone(t)
  <2>1. Leave(t, "ok", {reply[t][level[t]]})
    BY <1>14 DEF ReadOneDone
  <2>2. {reply[t][level[t]]} \in SUBSET AnyEntry
    BY <1>14, MineFacts, NotEntries DEF ReadOneDone, Got
  <2>3. "ok" \in Results
    BY DEF Results
  <2> QED BY <1>14, <2>1, <2>2, <2>3, LeaveType DEF ReadOneDone
<1>15. CASE Collect(t)
  <2>1. Append(Mine(t), reply[t][level[t]]) \in Seq(AnyEntry)
    BY <1>15, MineFacts, NotEntries, MembersAppend DEF Collect, Got
  <2>2. collected' \in [Threads -> [Levels -> Seq(AnyEntry)]]
    BY <1>15, <2>1, MineFacts DEF Collect, Mine
  <2> QED BY <1>15, <2>2 DEF Collect, Places
<1>16. CASE CollectLast(t)
  <2>1. Leave(t, "incomplete", Members(Mine(t)) \cup {reply[t][level[t]]})
    BY <1>16 DEF CollectLast, Raise
  <2>2. Members(Mine(t)) \cup {reply[t][level[t]]} \in SUBSET AnyEntry
    BY <1>16, MineFacts, NotEntries DEF CollectLast, Got
  <2>3. "incomplete" \in Results
    BY DEF Results
  <2> QED BY <1>16, <2>1, <2>2, <2>3, LeaveType DEF CollectLast, Raise
<1> QED BY <1>1, <1>2, <1>3, <1>4, <1>5, <1>6, <1>7, <1>8, <1>9, <1>10, <1>11, <1>12, <1>13,
    <1>14, <1>15, <1>16 DEF ThreadStep, Drain

\* The steps that end an operation.
Ending(t) ==
  \/ CommandFails(t) \/ CheckSkipped(t) \/ PopFails(t) \/ GotUnparsable(t) \/ CallerDrained(t)
  \/ CheckFoundErrors(t) \/ ReadOneDone(t) \/ CollectLast(t) \/ (CheckPassed(t) /\ op[t] \in
      Commands)

\* Each of those steps leaves with some result and report.
LEMMA EndingLeaves ==
  ASSUME QueueInv, NEW t \in Threads, Ending(t)
  PROVE  \E r \in Results, entries \in SUBSET AnyEntry : Leave(t, r, entries)
<1>1. Results = {"none", "ok", "TransportError", "complete", "incomplete"} /\ {} \in SUBSET
    AnyEntry
  BY DEF Results
<1>2. Members(Mine(t)) \in SUBSET AnyEntry
  BY MineFacts
<1>3. CASE CommandFails(t) \/ PopFails(t)
  BY <1>1, <1>3 DEF CommandFails, PopFails, Raise
<1>4. CASE CheckSkipped(t) \/ (CheckPassed(t) /\ op[t] \in Commands)
  BY <1>1, <1>4 DEF CheckSkipped, CheckPassed
<1>5. CASE GotUnparsable(t) \/ CallerDrained(t) \/ CheckFoundErrors(t)
  BY <1>1, <1>2, <1>5 DEF GotUnparsable, CallerDrained, CheckFoundErrors, Raise
<1>6. CASE ReadOneDone(t)
  <2>1. {reply[t][level[t]]} \in SUBSET AnyEntry
    BY <1>6, NotEntries DEF ReadOneDone, Got
  <2> QED BY <1>1, <1>6, <2>1 DEF ReadOneDone
<1>7. CASE CollectLast(t)
  <2>1. Members(Mine(t)) \cup {reply[t][level[t]]} \in SUBSET AnyEntry
    BY <1>2, <1>7, NotEntries DEF CollectLast, Got
  <2> QED BY <1>1, <1>7, <2>1 DEF CollectLast, Raise
<1> QED BY <1>3, <1>4, <1>5, <1>6, <1>7 DEF Ending

\* What such a step leaves behind.
LEMMA EndingFacts ==
  ASSUME QueueInv, NEW t \in Threads, Ending(t)
  PROVE  /\ pc'[t] = "idle" /\ level'[t] = "caller" /\ owner' = NoThread
         /\ FrameOK(t)' /\ CausedOK(t)' /\ EmptyOK(t)'
  BY EndingLeaves, LeaveFacts

\* A thread holds the lock exactly while it is in an operation.
LEMMA FrameNext ==
  ASSUME QueueInv, NEW t \in Threads, ThreadStep(t)
  PROVE  FrameOK(t)'
<1> USE DEF QueueInv, TypeOK, Goto, Got
<1>1. CASE \E o \in Operations : Begin(t, o)
  <2>1. PICK o \in Operations : Begin(t, o)
    BY <1>1
  <2>2. pc[t] = "idle" /\ pc'[t] = (IF o \in Commands THEN "command" ELSE "pop") /\ op'[t] = o
        /\ owner' = t /\ UNCHANGED <<level, reply, collected, checking>>
    BY <2>1 DEF Begin
  <2>3. FrameOK(t)
    OBVIOUS
  <2>4. level[t] = "caller"
    BY <2>2, <2>3 DEF FrameOK, Levels
  <2> HIDE DEF QueueInv, TypeOK
  <2> QED BY <2>2, <2>3, <2>4 DEF FrameOK
<1>2. CASE \E k \in 0..MaxErrors : Command(t, k)
  BY <1>2 DEF Command, Executes, FrameOK, Places, Levels, Operations, Commands
<1>3. CASE PopNothing(t, NoError) \/ PopNothing(t, Unparsable)
  <2>1. PICK r \in {NoError, Unparsable} : PopNothing(t, r)
    BY <1>3
  <2>2. level[t] \in Levels /\ reply[t] \in [Levels -> AnyEntry \cup {NoError, Unparsable}]
    OBVIOUS
  <2>3. \A l \in Levels : l # level[t] => reply'[t][l] = reply[t][l]
    BY <2>1, <2>2 DEF PopNothing, Answered
  <2> QED BY <2>1, <2>3 DEF PopNothing, FrameOK, Places, Levels, Operations, Commands
<1>4. CASE CommandFails(t)
  BY <1>4, EndingFacts DEF Ending
<1>5. CASE CheckBegins(t)
  BY <1>5 DEF CheckBegins, FrameOK, Places, Levels, Operations, Commands
<1>6. CASE CheckSkippedInDrain(t)
  BY <1>6 DEF CheckSkippedInDrain, FrameOK, Places, Levels, Operations, Commands
<1>7. CASE CheckSkipped(t)
  BY <1>7, EndingFacts DEF Ending
<1>8. CASE PopEntry(t)
  <2>2. level[t] \in Levels /\ reply[t] \in [Levels -> AnyEntry \cup {NoError, Unparsable}]
    OBVIOUS
  <2>3. \A l \in Levels : l # level[t] => reply'[t][l] = reply[t][l]
    BY <1>8, <2>2 DEF PopEntry, Answered
  <2> QED BY <1>8, <2>3 DEF PopEntry, FrameOK, Places, Levels, Operations, Commands
<1>9. CASE PopFails(t)
  BY <1>9, EndingFacts DEF Ending
<1>10. CASE GotUnparsable(t)
  BY <1>10, EndingFacts DEF Ending
<1>11. CASE CallerDrained(t)
  BY <1>11, EndingFacts DEF Ending
<1>12. CASE CheckFoundErrors(t)
  BY <1>12, EndingFacts DEF Ending
<1>13. CASE CheckPassed(t)
  <2>1. CASE op[t] \in Commands
    BY <1>13, <2>1, EndingFacts DEF Ending
  <2>2. CASE op[t] \notin Commands
    BY <1>13, <2>2, MembersEmpty DEF CheckPassed, Mine, FrameOK, Places, Levels, Operations,
        Commands
  <2> QED BY <2>1, <2>2
<1>14. CASE ReadOneDone(t)
  BY <1>14, EndingFacts DEF Ending
<1>15. CASE Collect(t)
  <2>1. level[t] \in Levels /\ collected[t] \in [Levels -> Seq(AnyEntry)]
    OBVIOUS
  <2>2. \A l \in Levels : l # level[t] => collected'[t][l] = collected[t][l]
    BY <1>15, <2>1 DEF Collect
  <2>3. Len(collected'[t][level[t]]) < MaximumEntries
    <3>1. collected'[t][level[t]] = Append(Mine(t), reply[t][level[t]])
      BY <1>15, <2>1 DEF Collect, Mine
    <3> QED BY <1>15, <3>1, MineFacts, NotEntries, MembersAppend DEF Collect
  <2> QED BY <1>15, <2>2, <2>3 DEF Collect, FrameOK, Places, Levels, Operations, Commands
<1>16. CASE CollectLast(t)
  BY <1>16, EndingFacts DEF Ending
<1> QED BY <1>1, <1>2, <1>3, <1>4, <1>5, <1>6, <1>7, <1>8, <1>9, <1>10, <1>11, <1>12, <1>13,
    <1>14, <1>15, <1>16 DEF ThreadStep, Drain

\* The flag follows the level of the one thread that runs.
LEMMA FlagNext ==
  ASSUME QueueInv, NEW t \in Threads, ThreadStep(t)
  PROVE  FlagWhileChecking'
<1>1. checking = "yes" <=> level[t] = "check"
  BY OthersNext DEF QueueInv, FlagWhileChecking
<1>2. level[t] \in Levels /\ level \in [Threads -> Levels] /\ checking \in {"yes", "no"}
  BY DEF QueueInv, TypeOK
<1>3. checking' = "yes" <=> level'[t] = "check"
  <2>1. CASE \E o \in Operations : Begin(t, o)
    BY <1>1, <1>2, <2>1 DEF Begin, Levels
  <2>2. CASE \E k \in 0..MaxErrors : Command(t, k)
    BY <1>1, <1>2, <2>2 DEF Command, Executes, Levels
  <2>3. CASE PopNothing(t, NoError) \/ PopNothing(t, Unparsable)
    BY <1>1, <1>2, <2>3 DEF PopNothing, Answered, Levels
  <2>4. CASE CommandFails(t)
    <3>1. level'[t] = "caller"
      BY <1>1, <1>2, <2>4, EndingFacts DEF Ending
    <3> QED BY <1>1, <1>2, <2>4, <3>1 DEF CommandFails, Raise
  <2>5. CASE CheckBegins(t)
    BY <1>1, <1>2, <2>5 DEF CheckBegins, Levels
  <2>6. CASE CheckSkippedInDrain(t)
    BY <1>1, <1>2, <2>6 DEF CheckSkippedInDrain, Levels
  <2>7. CASE CheckSkipped(t)
    <3>1. level'[t] = "caller"
      BY <1>1, <1>2, <2>7, EndingFacts DEF Ending
    <3> QED BY <1>1, <1>2, <2>7, <3>1 DEF CheckSkipped
  <2>8. CASE PopEntry(t)
    BY <1>1, <1>2, <2>8 DEF PopEntry, Answered, Levels
  <2>9. CASE PopFails(t)
    <3>1. level'[t] = "caller"
      BY <1>1, <1>2, <2>9, EndingFacts DEF Ending
    <3> QED BY <1>1, <1>2, <2>9, <3>1 DEF PopFails, Raise
  <2>10. CASE GotUnparsable(t)
    <3>1. level'[t] = "caller"
      BY <1>1, <1>2, <2>10, EndingFacts DEF Ending
    <3> QED BY <1>1, <1>2, <2>10, <3>1 DEF GotUnparsable, Raise
  <2>11. CASE CallerDrained(t)
    <3>1. level'[t] = "caller"
      BY <1>1, <1>2, <2>11, EndingFacts DEF Ending
    <3> QED BY <1>1, <1>2, <2>11, <3>1 DEF CallerDrained
  <2>12. CASE CheckFoundErrors(t)
    <3>1. level'[t] = "caller"
      BY <1>1, <1>2, <2>12, EndingFacts DEF Ending
    <3> QED BY <1>1, <1>2, <2>12, <3>1 DEF CheckFoundErrors, Raise
  <2>13. CASE CheckPassed(t)
    <3>1. level'[t] = "caller"
      BY <1>1, <1>2, <2>13, EndingFacts DEF Ending, CheckPassed
    <3> QED BY <1>1, <1>2, <2>13, <3>1 DEF CheckPassed
  <2>14. CASE ReadOneDone(t)
    <3>1. level'[t] = "caller"
      BY <1>1, <1>2, <2>14, EndingFacts DEF Ending
    <3> QED BY <1>1, <1>2, <2>14, <3>1 DEF ReadOneDone
  <2>15. CASE Collect(t)
    BY <1>1, <1>2, <2>15 DEF Collect, Levels
  <2>16. CASE CollectLast(t)
    <3>1. level'[t] = "caller"
      BY <1>1, <1>2, <2>16, EndingFacts DEF Ending
    <3> QED BY <1>1, <1>2, <2>16, <3>1 DEF CollectLast, Raise
  <2> QED BY <2>1, <2>2, <2>3, <2>4, <2>5, <2>6, <2>7, <2>8, <2>9, <2>10, <2>11, <2>12, <2>13,
      <2>14, <2>15, <2>16 DEF ThreadStep, Drain
<1>4. \A u \in Threads : u # t => level'[u] = "caller"
  BY OthersNext
<1> QED BY <1>3, <1>4 DEF FlagWhileChecking

\* A check sees the end of the queue only when it is empty.
LEMMA EmptyNext ==
  ASSUME QueueInv, NEW t \in Threads, ThreadStep(t)
  PROVE  EmptyOK(t)'
<1> USE DEF QueueInv, TypeOK, Goto, Got
<1>1. CASE \E o \in Operations : Begin(t, o)
  BY <1>1 DEF Begin, EmptyOK, FrameOK
<1>2. CASE \E k \in 0..MaxErrors : Command(t, k)
  BY <1>2 DEF Command, Executes, EmptyOK, FrameOK
<1>3. CASE PopNothing(t, NoError) \/ PopNothing(t, Unparsable)
  <2>1. PICK r \in {NoError, Unparsable} : PopNothing(t, r)
    BY <1>3
  <2>2. level[t] \in Levels /\ reply[t] \in [Levels -> AnyEntry \cup {NoError, Unparsable}]
    OBVIOUS
  <2>3. reply'[t][level[t]] = r /\ level' = level /\ queue' = queue
    BY <2>1, <2>2 DEF PopNothing, Answered
  <2> QED BY <2>1, <2>3, NotEntries DEF PopNothing, EmptyOK
<1>4. CASE CommandFails(t)
  BY <1>4, EndingFacts DEF Ending
<1>5. CASE CheckBegins(t)
  BY <1>5 DEF CheckBegins, EmptyOK, FrameOK
<1>6. CASE CheckSkippedInDrain(t)
  BY <1>6 DEF CheckSkippedInDrain, EmptyOK, FrameOK
<1>7. CASE CheckSkipped(t)
  BY <1>7, EndingFacts DEF Ending
<1>8. CASE PopEntry(t)
  <2>1. Head(queue) \in AnyEntry /\ level[t] \in Levels
    BY <1>8, MembersTail DEF PopEntry
  <2>2. reply'[t][level[t]] = Head(queue) /\ level' = level
    BY <1>8, <2>1 DEF PopEntry, Answered
  <2> QED BY <2>1, <2>2, NotEntries DEF EmptyOK
<1>9. CASE PopFails(t)
  BY <1>9, EndingFacts DEF Ending
<1>10. CASE GotUnparsable(t)
  BY <1>10, EndingFacts DEF Ending
<1>11. CASE CallerDrained(t)
  BY <1>11, EndingFacts DEF Ending
<1>12. CASE CheckFoundErrors(t)
  BY <1>12, EndingFacts DEF Ending
<1>13. CASE CheckPassed(t)
  <2>1. CASE op[t] \in Commands
    BY <1>13, <2>1, EndingFacts DEF Ending
  <2>2. CASE op[t] \notin Commands
    BY <1>13, <2>2 DEF CheckPassed, Mine, EmptyOK, FrameOK
  <2> QED BY <2>1, <2>2
<1>14. CASE ReadOneDone(t)
  BY <1>14, EndingFacts DEF Ending
<1>15. CASE Collect(t)
  BY <1>15 DEF Collect, EmptyOK, FrameOK
<1>16. CASE CollectLast(t)
  BY <1>16, EndingFacts DEF Ending
<1> QED BY <1>1, <1>2, <1>3, <1>4, <1>5, <1>6, <1>7, <1>8, <1>9, <1>10, <1>11, <1>12, <1>13,
    <1>14, <1>15, <1>16 DEF ThreadStep, Drain

\* What is at hand by where the thread is.
LEMMA AtHandFacts ==
  ASSUME QueueInv, NEW t \in Threads
  PROVE  /\ op[t] \in Commands => AtHand(t, "caller") = {}
         /\ level[t] = "caller" => AtHand(t, "check") = {}
         /\ pc[t] = "got" => AtHand(t, level[t]) = Members(Mine(t)) \cup ({reply[t][level[t]]}
             \cap AnyEntry)
         /\ level[t] \in Levels
<1>1. FrameOK(t) /\ level[t] \in Levels
  BY DEF QueueInv, TypeOK
<1>2. op[t] \in Commands => AtHand(t, "caller") = {}
  BY <1>1, MembersEmpty, NotEntries DEF FrameOK, AtHand
<1>3. level[t] = "caller" => AtHand(t, "check") = {}
  BY <1>1, MembersEmpty, NotEntries DEF FrameOK, AtHand
<1>4. pc[t] = "got" => AtHand(t, level[t]) = Members(Mine(t)) \cup ({reply[t][level[t]]} \cap
    AnyEntry)
  BY DEF AtHand, Mine
<1> QED BY <1>1, <1>2, <1>3, <1>4

\* What is at hand stays so while the operation goes on; a popped entry joins it.
LEMMA AtHandNext ==
  ASSUME QueueInv, NEW t \in Threads, ThreadStep(t), pc[t] # "idle", pc'[t] # "idle"
  PROVE  /\ op' = op
         /\ \A l \in Levels : AtHand(t, l) \subseteq AtHand(t, l)'
         /\ \/ popped' = popped /\ (queue' = queue \/ pc[t] = "command")
            \/ /\ popped'[t] = popped[t] \cup {Head(queue)} /\ queue # <<>> /\ queue' =
                Tail(queue)
               /\ Head(queue) \in AtHand(t, level[t])'
<1> USE DEF QueueInv, TypeOK, Goto
<1>1. CASE \E k \in 0..MaxErrors : Command(t, k)
  BY <1>1 DEF Command, AtHand
<1>2. CASE CheckBegins(t)
  <2>1. level[t] = "caller"
    BY <1>2 DEF CheckBegins, Wanted, FrameOK, Levels
  <2>2. AtHand(t, "check") = {}
    BY <2>1, AtHandFacts
  <2>3. AtHand(t, "caller") \subseteq AtHand(t, "caller")'
    BY <1>2 DEF CheckBegins, AtHand
  <2> QED BY <1>2, <2>2, <2>3 DEF CheckBegins, Levels
<1>3. CASE CheckSkippedInDrain(t)
  BY <1>3 DEF CheckSkippedInDrain, AtHand
<1>4. CASE PopEntry(t)
  <2>1. Head(queue) \in AnyEntry /\ level[t] \in Levels
    BY <1>4, MembersTail DEF PopEntry
  <2>2. /\ reply'[t][level[t]] = Head(queue)
        /\ \A l \in Levels : l # level[t] => reply'[t][l] = reply[t][l]
    BY <1>4, <2>1 DEF PopEntry, Answered
  <2>3. pc[t] = "pop" /\ pc'[t] = "check" /\ level' = level /\ collected' = collected
    BY <1>4 DEF PopEntry
  <2>4. \A l \in Levels : AtHand(t, l) \subseteq AtHand(t, l)'
    BY <2>2, <2>3 DEF AtHand
  <2>5. Head(queue) \in AtHand(t, level[t])'
    BY <2>1, <2>2, <2>3 DEF AtHand
  <2> QED BY <1>4, <2>4, <2>5 DEF PopEntry
<1>5. CASE PopNothing(t, NoError) \/ PopNothing(t, Unparsable)
  <2>1. PICK r \in {NoError, Unparsable} : PopNothing(t, r)
    BY <1>5
  <2>2. \A l \in Levels : l # level[t] => reply'[t][l] = reply[t][l]
    BY <2>1 DEF PopNothing, Answered
  <2>3. pc[t] = "pop" /\ pc'[t] = "check" /\ level' = level /\ collected' = collected
    BY <2>1 DEF PopNothing
  <2>4. \A l \in Levels : AtHand(t, l) \subseteq AtHand(t, l)'
    BY <2>2, <2>3 DEF AtHand
  <2> QED BY <2>1, <2>4 DEF PopNothing
<1>6. CASE CheckPassed(t)
  <2>1. op[t] \notin Commands
    BY <1>6, EndingFacts DEF Ending
  <2>2. pc[t] = "got" /\ UNCHANGED <<pc, reply, collected, op>> /\ level[t] = "check" /\
      level'[t] = "caller"
    BY <1>6, <2>1 DEF CheckPassed, Got
  <2>3. AtHand(t, "check") = {}
    <3>1. Mine(t) = <<>> /\ reply[t][level[t]] = NoError
      BY <1>6 DEF CheckPassed, Got
    <3>2. AtHand(t, level[t]) = Members(Mine(t)) \cup ({reply[t][level[t]]} \cap AnyEntry)
      BY <2>2, AtHandFacts
    <3>3. {NoError} \cap AnyEntry = {}
      BY NotEntries
    <3> QED BY <2>2, <3>1, <3>2, <3>3, MembersEmpty
  <2>4. AtHand(t, "caller") \subseteq AtHand(t, "caller")'
    BY <2>2 DEF AtHand
  <2> QED BY <1>6, <2>2, <2>3, <2>4 DEF CheckPassed, Levels
<1>7. CASE Collect(t)
  <2>1. level[t] \in Levels /\ collected[t] \in [Levels -> Seq(AnyEntry)] /\ pc[t] = "got"
    BY <1>7 DEF Collect, Got
  <2>2. \A l \in Levels : l # level[t] => collected'[t][l] = collected[t][l]
    BY <1>7, <2>1 DEF Collect
  <2>3. collected'[t][level[t]] = Append(Mine(t), reply[t][level[t]])
    BY <1>7, <2>1 DEF Collect, Mine
  <2>4. Members(collected'[t][level[t]]) = Members(Mine(t)) \cup {reply[t][level[t]]}
    BY <1>7, <2>3, MineFacts, NotEntries, MembersAppend DEF Collect, Got
  <2>5. AtHand(t, level[t]) \subseteq AtHand(t, level[t])'
    BY <1>7, <2>1, <2>4, AtHandFacts DEF Collect, AtHand
  <2>6. \A l \in Levels : l # level[t] => AtHand(t, l) \subseteq AtHand(t, l)'
    BY <1>7, <2>2 DEF Collect, AtHand
  <2> QED BY <1>7, <2>5, <2>6 DEF Collect
<1>8. ~Ending(t) /\ ~(\E o \in Operations : Begin(t, o))
  BY EndingFacts DEF Begin
<1> QED BY <1>1, <1>2, <1>3, <1>4, <1>5, <1>6, <1>7, <1>8 DEF ThreadStep, Drain, Ending

\* A popped entry is at hand until the operation hands it to its caller.
LEMMA PoppedNext ==
  ASSUME QueueInv, NEW t \in Threads, ThreadStep(t)
  PROVE  PoppedOK(t)'
<1>1. PoppedOK(t) /\ FrameOK(t)
  BY DEF QueueInv
<1>2. CASE pc[t] = "idle"
  BY <1>2, LockHeld DEF Begin, PoppedOK, QueueInv, TypeOK, Goto
<1>3. CASE pc[t] # "idle" /\ pc'[t] # "idle"
  <2>1. popped[t] \subseteq AtHand(t, "caller") \cup AtHand(t, "check")
    BY <1>1, <1>3 DEF PoppedOK
  <2>2. AtHand(t, "caller") \subseteq AtHand(t, "caller")' /\ AtHand(t, "check") \subseteq
      AtHand(t, "check")'
    BY <1>3, AtHandNext DEF Levels
  <2>3. CASE popped' = popped
    BY <1>3, <2>1, <2>2, <2>3 DEF PoppedOK
  <2>4. CASE popped'[t] = popped[t] \cup {Head(queue)} /\ Head(queue) \in AtHand(t, level[t])'
    <3>1. level'[t] \in {"caller", "check"}
      BY TypeNext DEF TypeOK, Levels
    <3>2. Head(queue) \in AtHand(t, "caller")' \cup AtHand(t, "check")'
      BY <2>4, <3>1
    <3> QED BY <1>3, <2>1, <2>2, <2>4, <3>2 DEF PoppedOK
  <2> QED BY <1>3, <2>3, <2>4, AtHandNext
<1>4. CASE pc[t] # "idle" /\ pc'[t] = "idle"
  <2>1. popped[t] \subseteq AtHand(t, "caller") \cup AtHand(t, "check")
    BY <1>1, <1>4 DEF PoppedOK
  <2>2. Ending(t)
    <3>1. ~(\E o \in Operations : Begin(t, o)) /\ ~(\E k \in 0..MaxErrors : Command(t, k))
          /\ ~CheckBegins(t) /\ ~CheckSkippedInDrain(t) /\ ~PopEntry(t) /\ ~Collect(t)
          /\ ~PopNothing(t, NoError) /\ ~PopNothing(t, Unparsable)
      BY <1>4 DEF QueueInv, TypeOK, Goto, Begin, Command, CheckBegins, CheckSkippedInDrain,
          PopEntry,
         Collect, PopNothing
    <3>2. CheckPassed(t) => op[t] \in Commands
      BY <1>4 DEF CheckPassed, Got
    <3> QED BY <3>1, <3>2 DEF ThreadStep, Drain, Ending
  <2>3. op' = op /\ popped' = popped
    BY <2>2 DEF Ending, CommandFails, CheckSkipped, PopFails, GotUnparsable, CallerDrained,
       CheckFoundErrors, ReadOneDone, CollectLast, CheckPassed
  <2>4. ASSUME NEW r \in Results, NEW entries \in SUBSET AnyEntry, Leave(t, r, entries),
               \/ r = "TransportError"
               \/ popped[t] \subseteq entries
               \/ op[t] \notin Commands /\ (r # "ok" \/ op[t] = "readOne")
        PROVE  PoppedOK(t)'
    <3>1. result'[t] = r /\ report'[t] = entries
      BY <2>4, LeaveFacts
    <3> QED BY <1>4, <2>3, <2>4, <3>1 DEF PoppedOK, Commands
  <2>5. Results = {"none", "ok", "TransportError", "complete", "incomplete"} /\ {} \in SUBSET
      AnyEntry
    BY DEF Results
  <2>6. Members(Mine(t)) \in SUBSET AnyEntry
    BY MineFacts
  <2>7. CASE CommandFails(t) \/ PopFails(t)
    BY <2>4, <2>5, <2>7 DEF CommandFails, PopFails, Raise
  <2>8. CASE CheckSkipped(t)
    <3>1. popped[t] = {}
      BY <2>1, <2>8, AtHandFacts DEF CheckSkipped
    <3> QED BY <2>4, <2>5, <2>8, <3>1 DEF CheckSkipped
  <2>9. ASSUME pc[t] = "got", reply[t][level[t]] \in {NoError, Unparsable},
               op[t] \in Commands \/ level[t] = "caller"
        PROVE  popped[t] \subseteq Members(Mine(t))
    <3>1. AtHand(t, level[t]) = Members(Mine(t))
      BY <2>9, AtHandFacts, NotEntries
    <3>2. CASE level[t] = "caller"
      BY <2>1, <3>1, <3>2, AtHandFacts
    <3>3. CASE op[t] \in Commands /\ level[t] = "check"
      BY <2>1, <3>1, <3>3, AtHandFacts
    <3> QED BY <2>9, <3>2, <3>3, AtHandFacts DEF Levels
  <2>10. CASE GotUnparsable(t)
    <3>1. Leave(t, "incomplete", Members(Mine(t)))
      BY <2>10 DEF GotUnparsable, Raise
    <3>2. op[t] \in Commands => popped[t] \subseteq Members(Mine(t))
      BY <2>9, <2>10 DEF GotUnparsable, Got
    <3> QED BY <2>4, <2>5, <2>6, <3>1, <3>2
  <2>11. CASE CallerDrained(t)
    <3>1. Leave(t, "ok", Members(Mine(t))) /\ popped[t] \subseteq Members(Mine(t))
      BY <2>9, <2>11 DEF CallerDrained, Got
    <3> QED BY <2>4, <2>5, <2>6, <3>1
  <2>12. CASE CheckFoundErrors(t)
    <3>1. Leave(t, "complete", Members(Mine(t)))
      BY <2>12 DEF CheckFoundErrors, Raise
    <3>2. op[t] \in Commands => popped[t] \subseteq Members(Mine(t))
      BY <2>9, <2>12 DEF CheckFoundErrors, Got
    <3> QED BY <2>4, <2>5, <2>6, <3>1, <3>2
  <2>13. CASE ReadOneDone(t)
    <3>1. {reply[t][level[t]]} \in SUBSET AnyEntry /\ Leave(t, "ok", {reply[t][level[t]]})
          /\ op[t] \notin Commands /\ op[t] = "readOne"
      BY <2>13, NotEntries DEF ReadOneDone, Got, Commands
    <3> QED BY <2>4, <2>5, <3>1
  <2>14. CASE CollectLast(t)
    <3> DEFINE all == Members(Mine(t)) \cup {reply[t][level[t]]}
    <3>1. all \in SUBSET AnyEntry /\ Leave(t, "incomplete", all)
      BY <2>6, <2>14, NotEntries DEF CollectLast, Got, Raise
    <3>2. op[t] \in Commands => popped[t] \subseteq all
      <4>1. pc[t] = "got" /\ AtHand(t, level[t]) \subseteq all
        BY <2>14, AtHandFacts DEF CollectLast, Got
      <4>2. op[t] \in Commands => level[t] = "check"
        BY <1>1, <4>1, AtHandFacts DEF FrameOK, Levels
      <4> QED BY <2>1, <4>1, <4>2, AtHandFacts
    <3> HIDE DEF all
    <3> QED BY <2>4, <2>5, <3>1, <3>2
  <2>15. CASE CheckPassed(t) /\ op[t] \in Commands
    <3>1. popped[t] \subseteq {} /\ Leave(t, "ok", {})
      BY <2>9, <2>15, MembersEmpty DEF CheckPassed, Got
    <3> QED BY <2>4, <2>5, <3>1
  <2> QED BY <2>2, <2>7, <2>8, <2>10, <2>11, <2>12, <2>13, <2>14, <2>15 DEF Ending
<1> QED BY <1>2, <1>3, <1>4

\* The errors of a command stay in the queue or at hand until its check ends.
LEMMA CausedNext ==
  ASSUME QueueInv, NEW t \in Threads, ThreadStep(t)
  PROVE  CausedOK(t)'
<1>1. FrameOK(t) /\ CausedOK(t)
  BY DEF QueueInv
<1>2. CASE pc[t] = "idle"
  BY <1>2, LockHeld DEF Begin, CausedOK, QueueInv, TypeOK, Goto
<1>3. CASE pc'[t] = "idle"
  BY <1>3 DEF CausedOK
<1>4. CASE pc[t] = "command" /\ pc'[t] # "idle"
  <2>1. PICK k \in 0..MaxErrors : Command(t, k)
    <3>1. ~Ending(t)
      BY <1>4, EndingFacts
    <3> QED BY <1>4, <3>1 DEF ThreadStep, Drain, Ending, Begin, CheckBegins,
        CheckSkippedInDrain, PopEntry,
              PopNothing, CheckPassed, Collect, Got
  <2>2. Executes(t, k) /\ passed' = passed
    BY <2>1 DEF Command
  <2>3. /\ commands' = commands + 1 /\ command'[t] = commands + 1
        /\ command'[t] \in caused' => \E e \in Members(queue') : e.by = command'[t]
    BY <2>2, ExecutesFacts
  <2>4. command'[t] \in 1..commands' /\ command'[t] \notin passed'
    BY <2>2, <2>3 DEF QueueInv, TypeOK
  <2> QED BY <2>3, <2>4 DEF CausedOK
<1>5. CASE pc[t] \notin {"idle", "command"} /\ pc'[t] # "idle"
  <2>1. UNCHANGED <<commands, command, caused, passed, op>>
    <3>1. ~Ending(t)
      BY <1>5, EndingFacts
    <3> QED BY <1>5, <3>1 DEF ThreadStep, Drain, Ending, Begin, Command, CheckBegins,
        CheckSkippedInDrain,
              PopEntry, PopNothing, CheckPassed, Collect
  <2>2. AtHand(t, "check") \subseteq AtHand(t, "check")'
    BY <1>5, AtHandNext DEF Levels
  <2> SUFFICES ASSUME op[t] \in Commands, command[t] \in caused
               PROVE  \E e \in Members(queue') \cup AtHand(t, "check")' : e.by = command[t]
    BY <1>1, <1>5, <2>1 DEF CausedOK
  <2>3. PICK e \in Members(queue) \cup AtHand(t, "check") : e.by = command[t]
    BY <1>1, <1>5 DEF CausedOK
  <2>4. CASE queue' = queue
    BY <2>2, <2>3, <2>4
  <2>5. CASE queue # <<>> /\ queue' = Tail(queue) /\ Head(queue) \in AtHand(t, level[t])'
    <3>1. Members(queue) = {Head(queue)} \cup Members(queue')
      BY <2>5, MembersTail DEF QueueInv, TypeOK
    <3>2. AtHand(t, "caller")' = {}
      <4>1. FrameOK(t)' /\ op'[t] \in Commands
        BY <2>1, FrameNext
      <4> QED BY <4>1, MembersEmpty, NotEntries DEF FrameOK, AtHand
    <3>3. level'[t] \in {"caller", "check"}
      BY TypeNext DEF TypeOK, Levels
    <3>4. Head(queue) \in AtHand(t, "check")'
      BY <2>5, <3>2, <3>3
    <3> QED BY <2>2, <2>3, <3>1, <3>4
  <2> QED BY <1>5, <2>4, <2>5, AtHandNext
<1> QED BY <1>2, <1>3, <1>4, <1>5

\* A command is passed only when its check has emptied the queue and found nothing.
LEMMA NormalNext ==
  ASSUME QueueInv, NEW t \in Threads, ThreadStep(t)
  PROVE  NormalReturnMeansNoError'
<1> USE DEF NormalReturnMeansNoError
<1>1. passed \cap caused = {} /\ passed \subseteq 1..commands /\ commands \in Nat
  BY DEF QueueInv, TypeOK
<1>2. ASSUME UNCHANGED <<passed, caused>> PROVE NormalReturnMeansNoError'
  BY <1>1, <1>2
<1>3. ASSUME NEW k \in 0..MaxErrors, Executes(t, k), UNCHANGED passed PROVE
    NormalReturnMeansNoError'
  <2>1. caused' \subseteq caused \cup {commands + 1}
    BY <1>3, ExecutesFacts
  <2> QED BY <1>1, <1>3, <2>1
<1>4. CASE CheckPassed(t) /\ op[t] \in Commands
  <2>1. /\ pc[t] = "got" /\ level[t] = "check" /\ reply[t][level[t]] = NoError /\ Mine(t) = <<>>
        /\ caused' = caused /\ passed' = passed \cup {command[t]}
    BY <1>4 DEF CheckPassed, Got
  <2>2. queue = <<>>
    BY <2>1 DEF QueueInv, EmptyOK
  <2>3. AtHand(t, level[t]) = Members(Mine(t)) \cup ({reply[t][level[t]]} \cap AnyEntry)
    BY <2>1, AtHandFacts
  <2>4. AtHand(t, "check") = {}
    BY <2>1, <2>3, MembersEmpty, NotEntries
  <2>5. command[t] \notin caused
    BY <1>4, <2>1, <2>2, <2>4, MembersEmpty DEF QueueInv, CausedOK
  <2> QED BY <1>1, <2>1, <2>5
<1>5. CASE CommandFails(t) \/ \E k \in 0..MaxErrors : Command(t, k)
  BY <1>2, <1>3, <1>5 DEF CommandFails, Command
<1> QED BY <1>2, <1>4, <1>5 DEF ThreadStep, Drain, Begin, CheckBegins, CheckSkippedInDrain,
    CheckSkipped,
      PopEntry, PopNothing, PopFails, GotUnparsable, CallerDrained, CheckFoundErrors, CheckPassed,
      ReadOneDone, Collect, CollectLast

\* The invariant holds of a new client.
LEMMA QueueInvInit == Init => QueueInv
<1> SUFFICES ASSUME Init PROVE QueueInv
  OBVIOUS
<1> USE ErrorQueueAssumption DEF Init
<1>1. TypeOK
  BY MembersEmpty DEF TypeOK, Places, Results, Levels, Operations, Commands
<1>2. FlagWhileChecking /\ NormalReturnMeansNoError
  BY DEF FlagWhileChecking, NormalReturnMeansNoError
<1>3. ASSUME NEW t \in Threads PROVE FrameOK(t) /\ PoppedOK(t) /\ CausedOK(t) /\ EmptyOK(t)
  <2>1. FrameOK(t)
    BY MembersEmpty DEF FrameOK, Levels
  <2>2. PoppedOK(t)
    BY DEF PoppedOK
  <2> QED BY <2>1, <2>2 DEF CausedOK, EmptyOK
<1> QED BY <1>1, <1>2, <1>3 DEF QueueInv

\* Every step preserves the invariant.
LEMMA QueueInvNext == QueueInv /\ [Next]_vars => QueueInv'
<1> SUFFICES ASSUME QueueInv, [Next]_vars PROVE QueueInv'
  OBVIOUS
<1>1. ASSUME NEW t \in Threads, ThreadStep(t) PROVE QueueInv'
  <2>1. FrameOK(t)' /\ PoppedOK(t)' /\ CausedOK(t)' /\ EmptyOK(t)'
    BY <1>1, FrameNext, PoppedNext, CausedNext, EmptyNext
  <2>2. \A u \in Threads : FrameOK(u)' /\ PoppedOK(u)' /\ CausedOK(u)' /\ EmptyOK(u)'
    BY <1>1, <2>1, OthersNext
  <2>3. TypeOK' /\ FlagWhileChecking' /\ NormalReturnMeansNoError'
    BY <1>1, TypeNext, FlagNext, NormalNext
  <2> QED BY <2>2, <2>3 DEF QueueInv
<1>2. ASSUME policy' \subseteq Commands,
             UNCHANGED <<owner, checking, queue, commands, pc, op, command, level, reply,
                 collected,
                         result, report, calls, popped, caused, passed>>
      PROVE  QueueInv'
  <2>1. TypeOK' /\ FlagWhileChecking' /\ NormalReturnMeansNoError'
    BY <1>2 DEF QueueInv, TypeOK, FlagWhileChecking, NormalReturnMeansNoError
  <2>2. \A t \in Threads : FrameOK(t)' /\ EmptyOK(t)'
    BY <1>2 DEF QueueInv, FrameOK, EmptyOK
  <2>3. \A t \in Threads : PoppedOK(t)' /\ CausedOK(t)'
    BY <1>2 DEF QueueInv, PoppedOK, CausedOK, AtHand
  <2> QED BY <2>1, <2>2, <2>3 DEF QueueInv
<1>3. CASE \E p \in Policies \cup {{}} : SetPolicy(p)
  BY <1>2, <1>3, ErrorQueueAssumption DEF SetPolicy, Commands
<1>4. CASE UNCHANGED vars
  BY <1>2, <1>4 DEF vars, QueueInv, TypeOK
<1> QED BY <1>1, <1>3, <1>4 DEF Next, ThreadStep

------------------------------------------------------------------------------
\* Checking of the error queue keeps its books in order for any number of threads and
\* commands, any policy, any entry limit and any failing exchanges (client.py 171-187,
\* errors.py 72-104).
THEOREM QueueInvariant == Spec => []QueueInv
  BY QueueInvInit, QueueInvNext, PTL DEF Spec

\* No failure inside a check leaves _checking_errors set, and no check runs inside
\* another (client.py 171-187).
THEOREM QueueFlagWhileChecking == Spec => []FlagWhileChecking
<1>1. QueueInv => FlagWhileChecking
  BY DEF QueueInv
<1> QED BY <1>1, QueueInvariant, PTL

\* A checked command that returns normally has queued no error, whatever other threads
\* send, drain or read (client.py 253-257, 281-296).
THEOREM QueueNormalReturnMeansNoError == Spec => []NormalReturnMeansNoError
<1>1. QueueInv => NormalReturnMeansNoError
  BY DEF QueueInv
<1> QED BY <1>1, QueueInvariant, PTL

\* What a check, or a drain that ends by itself, took from the instrument reaches its
\* caller, and no drain goes beyond its limit (errors.py 81-104).
THEOREM QueueCheckReportsAll == Spec => []CheckReportsAll
<1>1. QueueInv => CheckReportsAll
  BY DEF QueueInv, PoppedOK, FrameOK, CheckReportsAll
<1> QED BY <1>1, QueueInvariant, PTL
==============================================================================
