--------------------------- MODULE TracingProofs ---------------------------
(***************************************************************************)
(* Proofs about Tracing, for any set of threads and clients and any value of    *)
(* the bounds.                                                                *)
(*                                                                         *)
(* TracerInv is inductive.  The order of a client's events rests on the client's  *)
(* lock (CallsOK, EventsOK), the accounting on the events at hand (LossStep).      *)
(* That an answer finds its command takes a bound on how far the command can be    *)
(* from the end of the table (KeptOK): what is kept or taken out in between        *)
(* (KeptLast, TakenOut) moves it by one at most.                                 *)
(***************************************************************************)
EXTENDS Tracing, FiniteSetTheorems, TLAPS

------------------------------------------------------------------------------
\* Min of a set with one element.
LEMMA MinOfOne ==
  ASSUME NEW S, NEW m \in Nat, S = {m} PROVE Min(S) = m
BY DEF Min

\* The smaller of two numbers.
LEMMA MinOfTwo ==
  ASSUME NEW a \in Nat, NEW b \in Nat
  PROVE  Min({a, b}) = IF a <= b THEN a ELSE b
<1> DEFINE M == Min({a, b})
<1>1. \E x \in {a, b} : \A y \in {a, b} : x <= y
  OBVIOUS
<1>2. M \in {a, b} /\ \A y \in {a, b} : M <= y
  BY <1>1 DEF Min
<1> QED BY <1>2

\* The empty sequence is the one of length 0.
LEMMA Emptiness ==
  ASSUME NEW S, NEW s \in Seq(S) PROVE s = <<>> <=> Len(s) = 0
OBVIOUS

\* The elements of a concatenation.
LEMMA Joined ==
  ASSUME NEW S, NEW a \in Seq(S), NEW b \in Seq(S)
  PROVE  /\ a \o b \in Seq(S) /\ Len(a \o b) = Len(a) + Len(b)
         /\ \A j \in 1 .. Len(a \o b) : (a \o b)[j] = IF j <= Len(a) THEN a[j] ELSE b[j - Len(a)]
OBVIOUS

\* The keys of the table are unique.
Unique(table) == \A i, j \in 1 .. Len(table) : table[i].number = table[j].number => i = j

\* A key is in the table once, or not at all.
LEMMA PositionsOf ==
  ASSUME commands \in Seq(Commands), Unique(commands), NEW number \in Nat
  PROVE  \/ Positions(number) = {} /\ \A i \in 1 .. Len(commands) : commands[i].number # number
         \/ \E k \in 1 .. Len(commands) :
              /\ commands[k].number = number
              /\ Positions(number) = {k}
              /\ Min(Positions(number)) = k
              /\ \A i \in 1 .. Len(commands) : commands[i].number = number => i = k
<1>1. DOMAIN commands = 1 .. Len(commands) /\ Len(commands) \in Nat
  OBVIOUS
<1>2. CASE \A i \in 1 .. Len(commands) : commands[i].number # number
  BY <1>1, <1>2 DEF Positions
<1>3. ASSUME NEW k \in 1 .. Len(commands), commands[k].number = number
      PROVE  /\ Positions(number) = {k} /\ Min(Positions(number)) = k
             /\ \A i \in 1 .. Len(commands) : commands[i].number = number => i = k
  <2>1. \A i \in 1 .. Len(commands) : commands[i].number = number => i = k
    BY <1>3 DEF Unique
  <2>2. Positions(number) = {k}
    BY <1>1, <1>3, <2>1 DEF Positions
  <2>3. k \in Nat
    BY <1>1
  <2> QED BY <2>1, <2>2, <2>3, MinOfOne
<1> QED BY <1>2, <1>3

\* A table that holds nothing but commands of other keys than the given one.
Remaining(table, number) ==
  \A j \in 1 .. Len(table) : \E i \in 1 .. Len(commands) :
    commands[i].number # number /\ table[j] = commands[i]

\* Taking a command out leaves the others in their order, none of them further from the end.
LEMMA TakenOut ==
  ASSUME commands \in Seq(Commands), Unique(commands), NEW number \in Nat, NEW table,
         table = WithoutKey(number)
  PROVE  /\ table \in Seq(Commands) /\ Unique(table) /\ Len(table) <= Len(commands)
         /\ Remaining(table, number)
         /\ \A i \in 1 .. Len(commands) : commands[i].number # number =>
              \E j \in 1 .. Len(table) :
                table[j] = commands[i] /\ Len(table) - j <= Len(commands) - i
<1>1. Len(commands) \in Nat
  OBVIOUS
<1>2. CASE Positions(number) = {} /\ \A i \in 1 .. Len(commands) : commands[i].number # number
  <2>1. table = commands
    BY <1>2 DEF WithoutKey
  <2> QED BY <1>1, <1>2, <2>1 DEF Remaining
<1>3. ASSUME NEW k \in 1 .. Len(commands),
             commands[k].number = number, Positions(number) = {k}, Min(Positions(number)) = k,
             \A i \in 1 .. Len(commands) : commands[i].number = number => i = k
      PROVE  /\ table \in Seq(Commands) /\ Unique(table) /\ Len(table) <= Len(commands)
             /\ Remaining(table, number)
             /\ \A i \in 1 .. Len(commands) : commands[i].number # number =>
                  \E j \in 1 .. Len(table) :
                    table[j] = commands[i] /\ Len(table) - j <= Len(commands) - i
  <2>1. table = SubSeq(commands, 1, k - 1) \o SubSeq(commands, k + 1, Len(commands))
    BY <1>3 DEF WithoutKey, RemoveAt
  <2> DEFINE a == SubSeq(commands, 1, k - 1)
             b == SubSeq(commands, k + 1, Len(commands))
  <2>2. a \in Seq(Commands) /\ Len(a) = k - 1 /\ \A i \in 1 .. (k - 1) : a[i] = commands[i]
    BY <1>1
  <2>3. /\ b \in Seq(Commands) /\ Len(b) = Len(commands) - k
        /\ \A i \in 1 .. (Len(commands) - k) : b[i] = commands[k + i]
    BY <1>1
  <2> HIDE DEF a, b
  <2>4. /\ table \in Seq(Commands) /\ Len(table) = Len(a) + Len(b)
        /\ \A j \in 1 .. Len(table) : table[j] = IF j <= Len(a) THEN a[j] ELSE b[j - Len(a)]
    <3>1. table = a \o b
      BY <2>1 DEF a, b
    <3>2. a \in Seq(Commands) /\ b \in Seq(Commands)
      BY <2>2, <2>3
    <3> QED BY <3>1, <3>2, Joined
  <2>9. Len(table) = Len(commands) - 1
    BY <1>1, <2>2, <2>3, <2>4
  <2>5. ASSUME NEW j \in 1 .. Len(table)
        PROVE  table[j] = commands[IF j < k THEN j ELSE j + 1]
    <3>1. CASE j < k
      BY <1>1, <2>2, <2>4, <2>9, <3>1
    <3>2. CASE ~(j < k)
      <4>1. ~(j <= Len(a)) /\ j - Len(a) \in 1 .. (Len(commands) - k) /\ k + (j - Len(a)) = j + 1
        BY <1>1, <2>2, <2>9, <3>2
      <4> QED BY <2>3, <2>4, <3>2, <4>1
    <3> QED BY <3>1, <3>2
  <2>6. Unique(table)
    BY <1>1, <2>5, <2>9 DEF Unique
  <2>7. ASSUME NEW j \in 1 .. Len(table)
        PROVE  \E i \in 1 .. Len(commands) : commands[i].number # number /\ table[j] = commands[i]
    <3>1. (IF j < k THEN j ELSE j + 1) \in 1 .. Len(commands) /\ (IF j < k THEN j ELSE j + 1) # k
      BY <1>1, <2>9
    <3> QED BY <1>3, <2>5, <3>1
  <2>8. ASSUME NEW i \in 1 .. Len(commands), commands[i].number # number
        PROVE  \E j \in 1 .. Len(table) : table[j] = commands[i] /\ Len(table) - j <= Len(commands) - i
    <3>1. i # k
      BY <1>3, <2>8
    <3>2. CASE i < k
      BY SMTT(20), <1>1, <2>5, <2>9, <3>2
    <3>3. CASE i > k
      <4>1. i - 1 \in 1 .. Len(table) /\ ~(i - 1 < k) /\ (i - 1) + 1 = i
        BY <1>1, <2>9, <3>3
      <4>2. table[i - 1] = commands[i]
        BY <2>5, <4>1
      <4>3. Len(table) - (i - 1) <= Len(commands) - i
        BY <1>1, <2>9
      <4> QED BY <4>1, <4>2, <4>3
    <3> QED BY <1>1, <3>1, <3>2, <3>3
  <2>10. Remaining(table, number)
    BY <2>7 DEF Remaining
  <2>11. Len(table) <= Len(commands)
    BY <1>1, <2>9
  <2> QED BY <2>4, <2>6, <2>8, <2>10, <2>11
<1> QED BY <1>2, <1>3, PositionsOf

\* Keeping a command loses none but the oldest, and leaves the others in their order and at
\* most one further from the end; a new one comes last.
LEMMA KeptLast ==
  ASSUME commands \in Seq(Commands), Unique(commands), Len(commands) <= MaxCommands,
         NEW entry \in Commands, NEW table, table = Keep(entry)
  PROVE  /\ table \in Seq(Commands) /\ Unique(table) /\ Len(table) <= MaxCommands
         /\ \A j \in 1 .. Len(table) :
              \/ table[j] = entry
              \/ \E i \in 1 .. Len(commands) :
                   commands[i].number # entry.number /\ table[j] = commands[i]
         /\ \A i \in 1 .. Len(commands) : commands[i].number # entry.number =>
              \/ Len(commands) - i >= MaxCommands - 1
              \/ \E j \in 1 .. Len(table) :
                   table[j] = commands[i] /\ Len(table) - j <= Len(commands) - i + 1
         /\ Positions(entry.number) = {} => Len(table) > 0 /\ table[Len(table)] = entry
<1>1. Len(commands) \in Nat /\ MaxCommands \in Nat \ {0} /\ entry.number \in Nat
  BY TracingAssumption DEF Commands
<1>2. CASE Positions(entry.number) = {} /\ \A i \in 1 .. Len(commands) : commands[i].number # entry.number
  <2> DEFINE kept == Append(commands, entry)
  <2>1. /\ kept \in Seq(Commands) /\ Len(kept) = Len(commands) + 1
        /\ \A i \in 1 .. Len(commands) : kept[i] = commands[i]
        /\ kept[Len(commands) + 1] = entry
    BY <1>1
  <2>2. table = IF Len(kept) > MaxCommands THEN Tail(kept) ELSE kept
    BY <1>2 DEF Keep
  <2> HIDE DEF kept
  <2>3. Unique(kept)
    BY <1>1, <1>2, <2>1 DEF Unique
  <2>4. CASE Len(kept) <= MaxCommands
    <3>1. table = kept
      BY <1>1, <2>1, <2>2, <2>4
    <3>2. ASSUME NEW j \in 1 .. Len(table)
          PROVE  \/ table[j] = entry
                 \/ \E i \in 1 .. Len(commands) :
                      commands[i].number # entry.number /\ table[j] = commands[i]
      BY <1>1, <1>2, <2>1, <3>1
    <3>3. ASSUME NEW i \in 1 .. Len(commands)
          PROVE  \E j \in 1 .. Len(table) :
                   table[j] = commands[i] /\ Len(table) - j <= Len(commands) - i + 1
      BY <1>1, <2>1, <3>1
    <3> QED BY <1>1, <2>1, <2>3, <2>4, <3>1, <3>2, <3>3
  <2>5. CASE Len(kept) > MaxCommands
    <3>1. /\ table \in Seq(Commands) /\ Len(table) = Len(commands)
          /\ \A j \in 1 .. Len(table) : table[j] = kept[j + 1]
      <4>1. table = Tail(kept) /\ kept # <<>>
        BY <1>1, <2>1, <2>2, <2>5
      <4> QED BY <1>1, <2>1, <4>1
    <3>2. Unique(table)
      BY SMTT(20), <1>1, <2>1, <2>3, <3>1 DEF Unique
    <3>3. Len(commands) = MaxCommands
      BY <1>1, <2>1, <2>5
    <3>4. ASSUME NEW j \in 1 .. Len(table)
          PROVE  \/ table[j] = entry
                 \/ \E i \in 1 .. Len(commands) :
                      commands[i].number # entry.number /\ table[j] = commands[i]
      BY SMTT(20), <1>1, <1>2, <2>1, <3>1
    <3>5. ASSUME NEW i \in 1 .. Len(commands)
          PROVE  \/ Len(commands) - i >= MaxCommands - 1
                 \/ \E j \in 1 .. Len(table) :
                      table[j] = commands[i] /\ Len(table) - j <= Len(commands) - i + 1
      <4>1. CASE i = 1
        BY <1>1, <3>3, <4>1
      <4>2. CASE i # 1
        <5>1. i - 1 \in 1 .. Len(table) /\ (i - 1) + 1 = i
          BY <1>1, <3>1, <4>2
        <5>2. table[i - 1] = commands[i]
          BY <2>1, <3>1, <5>1
        <5>3. Len(table) - (i - 1) <= Len(commands) - i + 1
          BY <1>1, <3>1
        <5> QED BY <5>1, <5>2, <5>3
      <4> QED BY <4>1, <4>2
    <3>6. Len(table) > 0 /\ table[Len(table)] = entry
      BY <1>1, <2>1, <3>1, <3>3
    <3> QED BY <1>1, <3>1, <3>2, <3>3, <3>4, <3>5, <3>6
  <2>6. Len(kept) <= MaxCommands \/ Len(kept) > MaxCommands
    BY <1>1, <2>1
  <2> QED BY <2>4, <2>5, <2>6
<1>3. ASSUME NEW k \in 1 .. Len(commands), commands[k].number = entry.number,
             Positions(entry.number) = {k}, Min(Positions(entry.number)) = k,
             \A i \in 1 .. Len(commands) : commands[i].number = entry.number => i = k
      PROVE  /\ table \in Seq(Commands) /\ Unique(table) /\ Len(table) = Len(commands)
             /\ table[k] = entry
             /\ \A i \in 1 .. Len(commands) : i # k => table[i] = commands[i]
  <2> DEFINE kept == [commands EXCEPT ![k] = entry]
  <2>0. Len(kept) = Len(commands)
    BY <1>1
  <2>1. table = kept
    <3>1. Positions(entry.number) # {}
      BY <1>3
    <3>2. ~(Len(kept) > MaxCommands)
      BY <1>1, <2>0
    <3> QED BY <1>3, <3>1, <3>2 DEF Keep
  <2>2. /\ table \in Seq(Commands) /\ Len(table) = Len(commands)
        /\ table[k] = entry
        /\ \A i \in 1 .. Len(commands) : i # k => table[i] = commands[i]
    BY <1>1, <2>1
  <2>3. Unique(table)
    BY <1>1, <1>3, <2>2 DEF Unique
  <2> QED BY <2>2, <2>3
<1>4. ASSUME NEW k \in 1 .. Len(commands), commands[k].number = entry.number,
             Positions(entry.number) = {k}, Min(Positions(entry.number)) = k,
             \A i \in 1 .. Len(commands) : commands[i].number = entry.number => i = k
      PROVE  /\ table \in Seq(Commands) /\ Unique(table) /\ Len(table) <= MaxCommands
             /\ \A j \in 1 .. Len(table) :
                  \/ table[j] = entry
                  \/ \E i \in 1 .. Len(commands) :
                       commands[i].number # entry.number /\ table[j] = commands[i]
             /\ \A i \in 1 .. Len(commands) : commands[i].number # entry.number =>
                  \E j \in 1 .. Len(table) :
                    table[j] = commands[i] /\ Len(table) - j <= Len(commands) - i + 1
             /\ Positions(entry.number) # {}
  <2>1. /\ table \in Seq(Commands) /\ Unique(table) /\ Len(table) = Len(commands)
        /\ table[k] = entry
        /\ \A i \in 1 .. Len(commands) : i # k => table[i] = commands[i]
    BY <1>3, <1>4
  <2>2. ASSUME NEW j \in 1 .. Len(table)
        PROVE  \/ table[j] = entry
               \/ \E i \in 1 .. Len(commands) :
                    commands[i].number # entry.number /\ table[j] = commands[i]
    BY <1>4, <2>1
  <2>3. ASSUME NEW i \in 1 .. Len(commands), commands[i].number # entry.number
        PROVE  \E j \in 1 .. Len(table) :
                 table[j] = commands[i] /\ Len(table) - j <= Len(commands) - i + 1
    <3>1. table[i] = commands[i] /\ i \in 1 .. Len(table) /\ Len(table) - i <= Len(commands) - i + 1
      BY <1>1, <1>4, <2>1, <2>3
    <3> QED BY <3>1
  <2> QED BY <1>1, <1>4, <2>1, <2>2, <2>3
<1>5. \/ Positions(entry.number) = {} /\ \A i \in 1 .. Len(commands) : commands[i].number # entry.number
      \/ \E k \in 1 .. Len(commands) :
           /\ commands[k].number = entry.number
           /\ Positions(entry.number) = {k}
           /\ Min(Positions(entry.number)) = k
           /\ \A i \in 1 .. Len(commands) : commands[i].number = entry.number => i = k
  BY <1>1, PositionsOf
<1>6. CASE \E k \in 1 .. Len(commands) :
             /\ commands[k].number = entry.number
             /\ Positions(entry.number) = {k}
             /\ Min(Positions(entry.number)) = k
             /\ \A i \in 1 .. Len(commands) : commands[i].number = entry.number => i = k
  <2> PICK k \in 1 .. Len(commands) :
             /\ commands[k].number = entry.number
             /\ Positions(entry.number) = {k}
             /\ Min(Positions(entry.number)) = k
             /\ \A i \in 1 .. Len(commands) : commands[i].number = entry.number => i = k
    BY <1>6
  <2> QED BY <1>4
<1> QED BY <1>2, <1>5, <1>6

------------------------------------------------------------------------------
\* What an operation emits is well formed, whatever its outcome.
LEMMA EventsOf ==
  ASSUME NEW kind \in Operations, NEW events \in Events(kind)
  PROVE  events \in Seq(Emits) /\ events # <<>> /\ WellFormed(kind, events)
<1>1. CASE kind = "transact"
  <2>1. CASE events = <<Emit("TX", TRUE), Emit("RX", TRUE)>>
    BY <1>1, <2>1 DEF Emit, Emits, WellFormed
  <2>2. CASE events = <<Emit("TX", TRUE), Emit("RX", FALSE)>>
    BY <1>1, <2>2 DEF Emit, Emits, WellFormed
  <2>3. events = <<Emit("TX", TRUE), Emit("RX", TRUE)>> \/ events = <<Emit("TX", TRUE), Emit("RX", FALSE)>>
    BY <1>1 DEF Events
  <2> QED BY <2>1, <2>2, <2>3
<1>2. CASE kind = "write"
  <2>1. CASE events = <<Emit("TX", TRUE)>>
    BY <1>2, <2>1 DEF Emit, Emits, WellFormed
  <2>2. CASE events = <<Emit("ERROR", TRUE)>>
    BY <1>2, <2>2 DEF Emit, Emits, WellFormed
  <2>3. events = <<Emit("TX", TRUE)>> \/ events = <<Emit("ERROR", TRUE)>>
    BY <1>2 DEF Events
  <2> QED BY <2>1, <2>2, <2>3
<1>3. CASE kind = "read"
  <2>1. CASE events = <<Emit("RX", TRUE)>>
    BY <1>3, <2>1 DEF Emit, Emits, WellFormed
  <2>2. events = <<Emit("RX", TRUE)>>
    BY <1>3 DEF Events
  <2> QED BY <2>1, <2>2
<1>4. CASE kind = "block"
  <2>1. CASE events = <<Emit("TX", TRUE), Emit("RX", TRUE), Emit("RX", TRUE)>>
    BY <1>4, <2>1 DEF Emit, Emits, WellFormed
  <2>2. CASE events = <<Emit("TX", TRUE), Emit("RX", TRUE), Emit("LIFE", FALSE), Emit("LIFE", FALSE)>>
    BY <1>4, <2>2 DEF Emit, Emits, WellFormed
  <2>3. CASE events = <<Emit("TX", TRUE), Emit("RX", FALSE), Emit("LIFE", FALSE), Emit("LIFE", FALSE)>>
    BY <1>4, <2>3 DEF Emit, Emits, WellFormed
  <2>4. CASE events = <<Emit("ERROR", TRUE), Emit("LIFE", FALSE)>>
    BY <1>4, <2>4 DEF Emit, Emits, WellFormed
  <2> QED BY <1>4, <2>1, <2>2, <2>3, <2>4 DEF Events
<1> QED BY <1>1, <1>2, <1>3, <1>4 DEF Operations

\* The rest of a call's events is as well formed.
LEMMA RestOf ==
  ASSUME NEW kind, NEW events \in Seq(Emits), events # <<>>, WellFormed(kind, events),
         NEW rest, rest = Tail(events)
  PROVE  /\ rest \in Seq(Emits) /\ WellFormed(kind, rest) /\ Head(events) = events[1]
         /\ events[1] \in Emits
         /\ rest # <<>> /\ Head(rest).direction = "RX" =>
              Head(events).direction = "TX" \/ Head(events).direction = "RX"
         /\ kind # "write" /\ Head(events).direction = "TX" =>
              rest # <<>> /\ Head(rest).direction = "RX"
         /\ \A i \in 1 .. Len(rest) : i + 1 \in 1 .. Len(events) /\ rest[i] = events[i + 1]
<1>1. /\ rest \in Seq(Emits) /\ Len(rest) = Len(events) - 1 /\ Len(events) \in Nat \ {0}
      /\ Head(events) = events[1] /\ events[1] \in Emits
      /\ \A i \in 1 .. Len(rest) : i + 1 \in 1 .. Len(events) /\ rest[i] = events[i + 1]
  OBVIOUS
<1>2. rest # <<>> <=> Len(events) > 1
  <2>1. rest \in Seq(Emits)
    BY <1>1
  <2>2. rest = <<>> <=> Len(rest) = 0
    BY <2>1, Emptiness
  <2> QED BY <1>1, <2>2
<1>3. rest # <<>> => Len(events) > 1 /\ Head(rest) = events[2]
  BY <1>1, <1>2
<1>4. rest # <<>> => /\ Head(rest).direction # "TX"
                     /\ Head(rest).direction = "RX" => Head(events).direction \in {"TX", "RX"}
  <2>1. rest # <<>> => 2 \in 2 .. Len(events) /\ 2 - 1 = 1
    BY <1>1, <1>2
  <2> QED BY <1>1, <1>3, <2>1 DEF WellFormed
<1>5. WellFormed(kind, rest)
  <2>1. ASSUME NEW i \in 2 .. Len(rest)
        PROVE  /\ rest[i].direction # "TX"
               /\ rest[i].direction = "RX" => rest[i - 1].direction \in {"TX", "RX"}
    <3>1. i + 1 \in 2 .. Len(events) /\ rest[i] = events[i + 1] /\ rest[i - 1] = events[(i + 1) - 1]
      BY <1>1
    <3> QED BY <3>1 DEF WellFormed
  <2> QED BY <1>4, <2>1 DEF WellFormed
<1>6. kind # "write" /\ Head(events).direction = "TX" => rest # <<>> /\ Head(rest).direction = "RX"
  BY <1>3, <1>2 DEF WellFormed
<1> QED BY <1>1, <1>3, <1>4, <1>5, <1>6

\* What an emit in progress knows of its call.
LEMMA CallOf ==
  ASSUME TypeOK, CallsOK, NEW t \in Threads, pc[t] # "idle"
  PROVE  /\ call[t] # NoCall
         /\ call[t].events \in Seq(Emits) /\ call[t].events # <<>>
         /\ WellFormed(call[t].kind, call[t].events)
         /\ Due(t) = call[t].events[1] /\ Due(t) \in Emits
         /\ call[t].client \in Clients \cup {NoThread} /\ call[t].number \in Nat
         /\ call[t].kind \in Kinds /\ call[t].answered \in BOOLEAN
         /\ call[t].number = 0 => Due(t).direction = "LIFE"
<1>1. call[t] \in [client : Clients \cup {NoThread}, number : Nat, kind : Kinds,
                   events : Seq(Emits), answered : BOOLEAN]
  BY DEF TypeOK
<1>2. /\ call[t].events \in Seq(Emits) /\ call[t].answered \in BOOLEAN
      /\ call[t].client \in Clients \cup {NoThread} /\ call[t].number \in Nat
      /\ call[t].kind \in Kinds
  BY <1>1, Zenon
<1>3. /\ call[t] # NoCall /\ call[t].events # <<>>
      /\ WellFormed(call[t].kind, call[t].events)
      /\ call[t].number = 0 => \A i \in 1 .. Len(call[t].events) : call[t].events[i].direction = "LIFE"
  BY DEF CallsOK, CallOK
<1>4. Due(t) = call[t].events[1] /\ Due(t) \in Emits /\ 1 \in 1 .. Len(call[t].events)
  BY <1>2, <1>3 DEF Due
<1> QED BY <1>2, <1>3, <1>4

------------------------------------------------------------------------------
\* An operation begins: its call is the only one that changes, and it is well formed.
LEMMA CallBegins ==
  ASSUME TypeOK, CallsOK, NEW t \in Threads, NEW c \in Clients,
         NEW kind \in Operations, Operate(t, c, kind)
  PROVE  /\ pc[t] = "idle" /\ pc' = [pc EXCEPT ![t] = "emit"] /\ lock[c] = NoThread
         /\ lock' = [lock EXCEPT ![c] = t]
         /\ counter' = [counter EXCEPT ![c] = @ + 1]
         /\ call'[t].client = c /\ call'[t].number = counter[c] + 1 /\ call'[t].kind = kind
         /\ call'[t].answered = TRUE /\ call'[t] # NoCall
         /\ call'[t].events \in Seq(Emits) /\ call'[t].events # <<>>
         /\ WellFormed(kind, call'[t].events)
         /\ call'[t] \in [client : Clients \cup {NoThread}, number : Nat, kind : Kinds,
                          events : Seq(Emits), answered : BOOLEAN]
         /\ call' = [call EXCEPT ![t] = call'[t]]
         /\ calls' = calls + 1
         /\ UNCHANGED <<command, event, commands, sequence, dropped, latest, delivered, since, shared>>
<1>1. PICK events \in Events(kind) :
        call' = [call EXCEPT ![t] = [NoCall EXCEPT !.client = c, !.number = counter[c] + 1,
                                                   !.kind = kind, !.events = events]]
  BY DEF Operate
<1>2. events \in Seq(Emits) /\ events # <<>> /\ WellFormed(kind, events)
  BY EventsOf
<1>3. call'[t] = [client |-> c, number |-> counter[c] + 1, kind |-> kind, events |-> events,
                  answered |-> TRUE]
  BY <1>1 DEF TypeOK, NoCall
<1>4. counter[c] + 1 \in Nat /\ kind \in Kinds
  BY DEF TypeOK, Kinds
<1>5. call'[t] # NoCall
  BY <1>2, <1>3 DEF NoCall
<1>6. call' = [call EXCEPT ![t] = call'[t]]
  BY <1>1 DEF TypeOK
<1>7. pc[t] = "idle"
  BY DEF Operate, CallsOK, CallOK
<1>8. call'[t] \in [client : Clients \cup {NoThread}, number : Nat, kind : Kinds,
                    events : Seq(Emits), answered : BOOLEAN]
  BY <1>2, <1>3, <1>4
<1>9. /\ call'[t].client = c /\ call'[t].number = counter[c] + 1 /\ call'[t].kind = kind
      /\ call'[t].answered = TRUE /\ call'[t].events = events
  BY <1>3
<1> QED BY <1>2, <1>5, <1>6, <1>7, <1>8, <1>9 DEF Operate

\* A call that is no operation begins.
LEMMA LifeBegins ==
  ASSUME TypeOK, CallsOK, NEW t \in Threads, Lifecycle(t)
  PROVE  /\ pc[t] = "idle" /\ pc' = [pc EXCEPT ![t] = "emit"]
         /\ call'[t].number = 0 /\ call'[t].answered = TRUE /\ call'[t] # NoCall
         /\ call'[t].events = <<Emit("LIFE", FALSE)>>
         /\ call'[t] \in [client : Clients \cup {NoThread}, number : Nat, kind : Kinds,
                          events : Seq(Emits), answered : BOOLEAN]
         /\ call' = [call EXCEPT ![t] = call'[t]]
         /\ calls' = calls + 1
         /\ UNCHANGED <<lock, counter, command, event, commands, sequence, dropped, latest, delivered,
                        since, shared>>
<1> DEFINE events == <<Emit("LIFE", FALSE)>>
<1>1. call' = [call EXCEPT ![t] = [NoCall EXCEPT !.kind = "lifecycle", !.events = events]]
  BY DEF Lifecycle
<1>2. events \in Seq(Emits) /\ events # <<>>
  BY DEF Emit, Emits
<1> HIDE DEF events
<1>3. call'[t] = [client |-> NoThread, number |-> 0, kind |-> "lifecycle", events |-> events,
                  answered |-> TRUE]
  BY <1>1 DEF TypeOK, NoCall
<1>4. call'[t] # NoCall
  BY <1>2, <1>3 DEF NoCall
<1>5. call' = [call EXCEPT ![t] = call'[t]]
  BY <1>1 DEF TypeOK
<1>6. /\ pc[t] = "idle" /\ pc' = [pc EXCEPT ![t] = "emit"] /\ calls' = calls + 1
      /\ UNCHANGED <<lock, counter, command, event, commands, sequence, dropped, latest, delivered,
                     since, shared>>
  BY DEF Lifecycle, CallsOK, CallOK
<1>7. call'[t] \in [client : Clients \cup {NoThread}, number : Nat, kind : Kinds,
                    events : Seq(Emits), answered : BOOLEAN]
  BY <1>2, <1>3 DEF Kinds
<1>8. call'[t].number = 0 /\ call'[t].answered = TRUE /\ call'[t].events = events
  BY <1>3
<1> QED BY <1>4, <1>5, <1>6, <1>7, <1>8 DEF events

\* The first locked section changes nothing of the call but whether it has been answered.
LEMMA CallCorrelated ==
  ASSUME TypeOK, CallsOK, NEW t \in Threads, Correlate(t)
  PROVE  /\ pc[t] = "emit" /\ pc' = [pc EXCEPT ![t] = "build"]
         /\ call'[t].client = call[t].client /\ call'[t].number = call[t].number
         /\ call'[t].kind = call[t].kind /\ call'[t].events = call[t].events
         /\ call'[t].answered = IF Due(t).direction = "TX" THEN FALSE ELSE call[t].answered
         /\ call'[t] \in [client : Clients \cup {NoThread}, number : Nat, kind : Kinds,
                          events : Seq(Emits), answered : BOOLEAN]
         /\ \A u \in Threads : u # t => call'[u] = call[u]
         /\ call'[t] # NoCall
<1>1. pc[t] = "emit" /\ pc' = [pc EXCEPT ![t] = "build"]
  BY DEF Correlate
<1> DEFINE answered == IF Due(t).direction = "TX" THEN FALSE ELSE call[t].answered
<1>2. call' = [call EXCEPT ![t].answered = answered]
  BY DEF Correlate
<1>3. answered \in BOOLEAN
  BY <1>1, CallOf
<1> HIDE DEF answered
<1>4. call[t] \in [client : Clients \cup {NoThread}, number : Nat, kind : Kinds,
                   events : Seq(Emits), answered : BOOLEAN]
  BY DEF TypeOK
<1>5. call'[t] = [call[t] EXCEPT !.answered = answered]
  BY <1>2 DEF TypeOK
<1>6. /\ call'[t].client = call[t].client /\ call'[t].number = call[t].number
      /\ call'[t].kind = call[t].kind /\ call'[t].events = call[t].events
      /\ call'[t].answered = answered
      /\ call'[t] \in [client : Clients \cup {NoThread}, number : Nat, kind : Kinds,
                       events : Seq(Emits), answered : BOOLEAN]
  BY <1>3, <1>4, <1>5, Zenon
<1>7. \A u \in Threads : u # t => call'[u] = call[u]
  BY <1>2 DEF TypeOK
<1>8. call'[t] # NoCall
  BY <1>1, <1>6, CallOf DEF NoCall
<1> QED BY <1>1, <1>6, <1>7, <1>8 DEF answered

\* An emit returns: the call ends, or its next event is due.
LEMMA CallGoesOn ==
  ASSUME TypeOK, CallsOK, NEW t \in Threads, Returns(t), pc[t] = "deliver"
  PROVE  /\ \A u \in Threads : u # t => call'[u] = call[u] /\ pc'[u] = pc[u]
         /\ call'[t] \in [client : Clients \cup {NoThread}, number : Nat, kind : Kinds,
                          events : Seq(Emits), answered : BOOLEAN]
         /\ \/ /\ Tail(call[t].events) = <<>>
               /\ call'[t] = NoCall /\ pc'[t] = "idle"
            \/ /\ Tail(call[t].events) # <<>> /\ pc'[t] = "emit" /\ call'[t] # NoCall
               /\ call'[t].client = call[t].client /\ call'[t].number = call[t].number
               /\ call'[t].kind = call[t].kind /\ call'[t].events = Tail(call[t].events)
               /\ call'[t].answered = (call[t].answered \/ Due(t).direction = "RX")
<1> DEFINE rest == Tail(call[t].events)
           answered == call[t].answered \/ Due(t).direction = "RX"
<1>1. /\ call' = [call EXCEPT ![t] = IF rest = <<>> THEN NoCall
                                     ELSE [@ EXCEPT !.events = rest, !.answered = answered]]
      /\ pc' = [pc EXCEPT ![t] = IF rest = <<>> THEN "idle" ELSE "emit"]
  BY DEF Returns
<1>2. rest \in Seq(Emits)
  BY CallOf, RestOf
<1>3. answered \in BOOLEAN
  OBVIOUS
<1>4. call[t] \in [client : Clients \cup {NoThread}, number : Nat, kind : Kinds,
                   events : Seq(Emits), answered : BOOLEAN]
  BY DEF TypeOK
<1> HIDE DEF rest, answered
<1>5. NoCall \in [client : Clients \cup {NoThread}, number : Nat, kind : Kinds,
                  events : Seq(Emits), answered : BOOLEAN]
  BY DEF NoCall, Kinds
<1>6. CASE rest = <<>>
  BY <1>1, <1>5, <1>6 DEF TypeOK, rest
<1>7. CASE rest # <<>>
  <2>1. call'[t] = [call[t] EXCEPT !.events = rest, !.answered = answered] /\ pc'[t] = "emit"
    BY <1>1, <1>7 DEF TypeOK
  <2>2. /\ call'[t].client = call[t].client /\ call'[t].number = call[t].number
        /\ call'[t].kind = call[t].kind /\ call'[t].events = rest
        /\ call'[t].answered = answered
        /\ call'[t] \in [client : Clients \cup {NoThread}, number : Nat, kind : Kinds,
                         events : Seq(Emits), answered : BOOLEAN]
    BY <1>2, <1>3, <1>4, <2>1, Zenon
  <2>3. call'[t] # NoCall
    BY <1>7, <2>2 DEF NoCall
  <2>4. \A u \in Threads : u # t => call'[u] = call[u] /\ pc'[u] = pc[u]
    BY <1>1 DEF TypeOK
  <2> QED BY <1>7, <2>1, <2>2, <2>3, <2>4 DEF rest, answered
<1> QED BY <1>6, <1>7

\* The rest of what returning from an emit does.
LEMMA OtherwiseGoesOn ==
  ASSUME NEW t \in Threads, Returns(t)
  PROVE  /\ lock' = [c \in Clients |->
                      IF Tail(call[t].events) = <<>> /\ lock[c] = t THEN NoThread ELSE lock[c]]
         /\ command' = [command EXCEPT ![t] = NoCommand]
         /\ event' = [event EXCEPT ![t] = NoEvent]
         /\ since' = IF Tail(call[t].events) = <<>> THEN [since EXCEPT ![t] = 0] ELSE since
         /\ shared' = IF Tail(call[t].events) = <<>> THEN [shared EXCEPT ![t] = FALSE] ELSE shared
         /\ pc' = [pc EXCEPT ![t] = IF Tail(call[t].events) = <<>> THEN "idle" ELSE "emit"]
         /\ UNCHANGED <<counter, calls, commands, sequence>>
BY DEF Returns

------------------------------------------------------------------------------
\* What the first locked section does to the table and to the auxiliary counts.
LEMMA TableCorrelated ==
  ASSUME TracerInv, NEW t \in Threads, Correlate(t)
  PROVE  /\ Unique(commands) /\ Len(commands) \in Nat
         /\ call[t].number \in Nat
         /\ Due(t).direction = "TX" =>
              /\ commands' = Keep([client |-> call[t].client, number |-> call[t].number,
                                   kind |-> call[t].kind])
              /\ [client |-> call[t].client, number |-> call[t].number, kind |-> call[t].kind]
                   \in Commands
              /\ \A u \in Threads :
                   since'[u] = IF u = t \/ pc[u] = "idle" THEN 0
                               ELSE IF since[u] + 1 <= MaxCommands THEN since[u] + 1 ELSE MaxCommands
         /\ Due(t).direction # "TX" => since' = since
         /\ Due(t).direction \in {"RX", "ERROR"} => commands' = WithoutKey(call[t].number)
         /\ Due(t).direction = "LIFE" => commands' = commands
         /\ Due(t).direction \in {"TX", "RX", "ERROR", "LIFE"}
         /\ since' \in [Threads -> 0 .. MaxCommands]
<1>1. TypeOK /\ CallsOK /\ pc[t] # "idle"
  BY DEF TracerInv, Correlate
<1>2. Unique(commands) /\ Len(commands) \in Nat
  <2>1. commands \in Seq(Commands)
    BY <1>1 DEF TypeOK
  <2>2. DOMAIN commands = 1 .. Len(commands) /\ Len(commands) \in Nat
    BY <2>1
  <2> QED BY <2>2 DEF TracerInv, TableOK, Unique
<1>3. /\ call[t].client \in Clients \cup {NoThread} /\ call[t].number \in Nat
      /\ call[t].kind \in Kinds /\ Due(t) \in Emits
  BY <1>1, CallOf
<1>4. Due(t).direction \in {"TX", "RX", "ERROR", "LIFE"}
  BY <1>3 DEF Emits
<1>5. ASSUME Due(t).direction = "TX"
      PROVE  \A u \in Threads :
               since'[u] = IF u = t \/ pc[u] = "idle" THEN 0
                           ELSE IF since[u] + 1 <= MaxCommands THEN since[u] + 1 ELSE MaxCommands
  <2> SUFFICES ASSUME NEW u \in Threads
               PROVE  since'[u] = IF u = t \/ pc[u] = "idle" THEN 0
                                  ELSE IF since[u] + 1 <= MaxCommands THEN since[u] + 1 ELSE MaxCommands
    OBVIOUS
  <2>1. since'[u] = IF u = t \/ call[u] = NoCall THEN 0 ELSE Min({since[u] + 1, MaxCommands})
    BY <1>5 DEF Correlate
  <2>2. pc[u] = "idle" <=> call[u] = NoCall
    BY <1>1 DEF CallsOK, CallOK
  <2>3. since[u] \in 0 .. MaxCommands
    BY <1>1 DEF TypeOK
  <2>4. MaxCommands \in Nat
    BY TracingAssumption
  <2>5. since[u] + 1 \in Nat
    BY <2>3, <2>4
  <2>6. Min({since[u] + 1, MaxCommands})
          = IF since[u] + 1 <= MaxCommands THEN since[u] + 1 ELSE MaxCommands
    BY <2>4, <2>5, MinOfTwo
  <2> QED BY <2>1, <2>2, <2>6
<1>6. Due(t).direction # "TX" => since' = since
  BY DEF Correlate
<1>7. since' \in [Threads -> 0 .. MaxCommands]
  <2>1. CASE Due(t).direction = "TX"
    <3>1. since' = [u \in Threads |-> since'[u]]
      BY <2>1 DEF Correlate
    <3>2. MaxCommands \in Nat /\ since \in [Threads -> 0 .. MaxCommands]
      BY <1>1, TracingAssumption DEF TypeOK
    <3>3. ASSUME NEW u \in Threads PROVE since'[u] \in 0 .. MaxCommands
      BY <1>5, <2>1, <3>2
    <3> QED BY <3>1, <3>3
  <2>2. CASE Due(t).direction # "TX"
    BY <1>1, <1>6, <2>2 DEF TypeOK
  <2> QED BY <2>1, <2>2
<1>8. /\ Due(t).direction = "TX" =>
           commands' = Keep([client |-> call[t].client, number |-> call[t].number,
                             kind |-> call[t].kind])
      /\ Due(t).direction \in {"RX", "ERROR"} => commands' = WithoutKey(call[t].number)
      /\ Due(t).direction = "LIFE" => commands' = commands
  BY DEF Correlate
<1>9. [client |-> call[t].client, number |-> call[t].number, kind |-> call[t].kind] \in Commands
  BY <1>3 DEF Commands
<1> QED BY <1>2, <1>3, <1>4, <1>5, <1>6, <1>7, <1>8, <1>9

\* Every step keeps the types.
LEMMA TypeStep ==
  ASSUME TracerInv, [Next]_vars PROVE TypeOK'
<1> USE TracingAssumption
<1>0. TypeOK /\ CallsOK
  BY DEF TracerInv
<1>1. ASSUME NEW t \in Threads, NEW c \in Clients,
             NEW kind \in Operations, Operate(t, c, kind)
      PROVE  TypeOK'
  <2>1. call' \in [Threads -> [client : Clients \cup {NoThread}, number : Nat, kind : Kinds,
                               events : Seq(Emits), answered : BOOLEAN]]
    <3> DEFINE new == call'[t]
    <3>1. /\ call' = [call EXCEPT ![t] = new]
          /\ new \in [client : Clients \cup {NoThread}, number : Nat, kind : Kinds,
                      events : Seq(Emits), answered : BOOLEAN]
      BY <1>0, <1>1, CallBegins
    <3> HIDE DEF new
    <3> QED BY <1>0, <3>1 DEF TypeOK
  <2>2. /\ pc' = [pc EXCEPT ![t] = "emit"] /\ lock' = [lock EXCEPT ![c] = t]
        /\ counter' = [counter EXCEPT ![c] = @ + 1] /\ calls' = calls + 1
        /\ UNCHANGED <<command, event, commands, sequence, dropped, latest, delivered, since, shared>>
    BY <1>0, <1>1, CallBegins
  <2> QED BY SMTT(20), <1>0, <2>1, <2>2 DEF TypeOK
<1>2. ASSUME NEW t \in Threads, Lifecycle(t) PROVE TypeOK'
  <2>1. call' \in [Threads -> [client : Clients \cup {NoThread}, number : Nat, kind : Kinds,
                               events : Seq(Emits), answered : BOOLEAN]]
    <3> DEFINE new == call'[t]
    <3>1. /\ call' = [call EXCEPT ![t] = new]
          /\ new \in [client : Clients \cup {NoThread}, number : Nat, kind : Kinds,
                      events : Seq(Emits), answered : BOOLEAN]
      BY <1>0, <1>2, LifeBegins
    <3> HIDE DEF new
    <3> QED BY <1>0, <3>1 DEF TypeOK
  <2>2. /\ pc' = [pc EXCEPT ![t] = "emit"] /\ calls' = calls + 1
        /\ UNCHANGED <<lock, counter, command, event, commands, sequence, dropped, latest, delivered,
                       since, shared>>
    BY <1>0, <1>2, LifeBegins
  <2>3. pc' \in [Threads -> {"idle", "emit", "build", "deliver"}] /\ calls' \in Nat
    BY <1>0, <2>2 DEF TypeOK
  <2> QED BY <1>0, <2>1, <2>2, <2>3 DEF TypeOK
<1>3. ASSUME NEW t \in Threads, Correlate(t) PROVE TypeOK'
  <2>1. call' \in [Threads -> [client : Clients \cup {NoThread}, number : Nat, kind : Kinds,
                               events : Seq(Emits), answered : BOOLEAN]]
    <3>1. /\ \A u \in Threads : u # t => call'[u] = call[u]
          /\ call'[t] \in [client : Clients \cup {NoThread}, number : Nat, kind : Kinds,
                           events : Seq(Emits), answered : BOOLEAN]
      BY <1>0, <1>3, CallCorrelated
    <3>2. call' = [u \in Threads |-> call'[u]]
      BY <1>0, <1>3 DEF Correlate, TypeOK
    <3> QED BY <1>0, <3>1, <3>2 DEF TypeOK
  <2>2. commands' \in Seq(Commands)
    <3>1. commands \in Seq(Commands) /\ Len(commands) <= MaxCommands
      BY <1>0 DEF TracerInv, TableOK, TypeOK
    <3> QED BY <1>3, <3>1, TableCorrelated, KeptLast, TakenOut
  <2>3. command' \in [Threads -> [client : Clients \cup {NoThread}, number : Nat]]
    <3> DEFINE found == Positions(call[t].number)
               new == IF Due(t).direction = "RX" /\ found # {}
                        THEN [client |-> commands[Min(found)].client, number |-> call[t].number]
                        ELSE NoCommand
    <3>1. command' = [command EXCEPT ![t] = new]
      BY <1>3 DEF Correlate
    <3>2. new \in [client : Clients \cup {NoThread}, number : Nat]
      <4>1. NoCommand \in [client : Clients \cup {NoThread}, number : Nat]
        BY DEF NoCommand
      <4>2. ASSUME found # {} PROVE commands[Min(found)].client \in Clients \cup {NoThread}
        <5>1. commands \in Seq(Commands) /\ Unique(commands) /\ call[t].number \in Nat
          BY <1>0, <1>3, TableCorrelated DEF TypeOK
        <5>2. PICK k \in 1 .. Len(commands) : Min(found) = k
          BY <4>2, <5>1, PositionsOf
        <5>3. commands[k] \in Commands
          BY <5>1
        <5> QED BY <5>2, <5>3 DEF Commands
      <4> QED BY <1>3, <4>1, <4>2, TableCorrelated
    <3> HIDE DEF new
    <3> QED BY <1>0, <3>1, <3>2 DEF TypeOK
  <2>4. pc' \in [Threads -> {"idle", "emit", "build", "deliver"}]
    BY <1>0, <1>3 DEF Correlate, TypeOK
  <2>5. shared' \in [Threads -> BOOLEAN]
    BY <1>0, <1>3 DEF Correlate, TypeOK
  <2>6. since' \in [Threads -> 0 .. MaxCommands]
    BY <1>3, TableCorrelated
  <2>7. UNCHANGED <<lock, counter, calls, event, sequence, dropped, latest, delivered>>
    BY <1>3 DEF Correlate
  <2> QED BY <1>0, <2>1, <2>2, <2>3, <2>4, <2>5, <2>6, <2>7 DEF TypeOK
<1>4. ASSUME NEW t \in Threads, Build(t) PROVE TypeOK'
  <2>1. call[t].client \in Clients \cup {NoThread} /\ call[t].number \in Nat
    BY <1>0, <1>4, CallOf DEF Build
  <2> QED BY SMTT(20), <1>0, <1>4, <2>1 DEF Build, TypeOK
<1>5. ASSUME NEW t \in Threads, Deliver(t) \/ DeliverFailed(t) PROVE TypeOK'
  <2>1. pc[t] = "deliver" /\ Returns(t)
    BY <1>5 DEF Deliver, DeliverFailed
  <2>2. call' \in [Threads -> [client : Clients \cup {NoThread}, number : Nat, kind : Kinds,
                               events : Seq(Emits), answered : BOOLEAN]]
    <3>1. /\ \A u \in Threads : u # t => call'[u] = call[u]
          /\ call'[t] \in [client : Clients \cup {NoThread}, number : Nat, kind : Kinds,
                           events : Seq(Emits), answered : BOOLEAN]
      BY <1>0, <2>1, CallGoesOn
    <3>2. call' = [u \in Threads |-> call'[u]]
      BY <1>0, <2>1 DEF Returns, TypeOK
    <3> QED BY <1>0, <3>1, <3>2 DEF TypeOK
  <2> DEFINE ends == Tail(call[t].events) = <<>>
  <2>10. /\ lock' = [c \in Clients |->
                     IF ends /\ lock[c] = t THEN NoThread ELSE lock[c]]
         /\ command' = [command EXCEPT ![t] = NoCommand]
         /\ event' = [event EXCEPT ![t] = NoEvent]
         /\ since' = IF ends THEN [since EXCEPT ![t] = 0] ELSE since
         /\ shared' = IF ends THEN [shared EXCEPT ![t] = FALSE] ELSE shared
         /\ pc' = [pc EXCEPT ![t] = IF ends THEN "idle" ELSE "emit"]
         /\ UNCHANGED <<counter, calls, commands, sequence>>
    BY <2>1, OtherwiseGoesOn
  <2> HIDE DEF ends
  <2>3. /\ pc' \in [Threads -> {"idle", "emit", "build", "deliver"}]
        /\ lock' \in [Clients -> Threads \cup {NoThread}]
        /\ counter' \in [Clients -> Nat] /\ calls' \in Nat /\ commands' \in Seq(Commands)
        /\ sequence' \in Nat
    BY <1>0, <2>10 DEF TypeOK
  <2>6. command' \in [Threads -> [client : Clients \cup {NoThread}, number : Nat]]
    BY <1>0, <2>10 DEF TypeOK, NoCommand
  <2>7. event' \in [Threads -> [sequence : Nat, client : Clients \cup {NoThread}, number : Nat]]
    BY <1>0, <2>10 DEF TypeOK, NoEvent
  <2>8. since' \in [Threads -> 0 .. MaxCommands]
    BY <1>0, <2>10 DEF TypeOK
  <2>9. shared' \in [Threads -> BOOLEAN]
    BY <1>0, <2>10 DEF TypeOK
  <2>4. dropped' \in Nat /\ delivered' \in Nat
    BY <1>0, <1>5 DEF Deliver, DeliverFailed, TypeOK
  <2>5. latest' \in [Clients -> Nat]
    BY <1>0, <1>5 DEF Deliver, DeliverFailed, TypeOK
  <2> QED BY <2>2, <2>3, <2>4, <2>5, <2>6, <2>7, <2>8, <2>9 DEF TypeOK
<1>6. CASE UNCHANGED vars
  BY <1>0, <1>6 DEF TypeOK, vars
<1> QED BY <1>1, <1>2, <1>3, <1>4, <1>5, <1>6 DEF Next, Emitting

\* Every step keeps each thread's call in order.
LEMMA CallsStep ==
  ASSUME TracerInv, [Next]_vars PROVE CallsOK'
<1>0. TypeOK /\ CallsOK /\ NoThread \notin Threads
  BY TracingAssumption DEF TracerInv
<1>1. ASSUME NEW t \in Threads, NEW c \in Clients, NEW kind \in Operations, Operate(t, c, kind),
             NEW u \in Threads
      PROVE  CallOK(u)'
  <2>1. /\ pc[t] = "idle" /\ pc' = [pc EXCEPT ![t] = "emit"] /\ lock[c] = NoThread
        /\ lock' = [lock EXCEPT ![c] = t]
        /\ counter' = [counter EXCEPT ![c] = @ + 1]
        /\ call'[t].client = c /\ call'[t].number = counter[c] + 1 /\ call'[t].kind = kind
        /\ call'[t] # NoCall /\ call'[t].events # <<>>
        /\ WellFormed(kind, call'[t].events)
        /\ call' = [call EXCEPT ![t] = call'[t]]
    BY <1>0, <1>1, CallBegins
  <2>2. CASE u = t
    <3>1. lock'[c] = t /\ counter'[c] = counter[c] + 1 /\ counter[c] \in Nat /\ pc'[t] = "emit"
      BY <1>0, <2>1 DEF TypeOK
    <3>2. call'[t].number # 0
      BY <2>1, <3>1
    <3> QED BY <2>1, <2>2, <3>1, <3>2 DEF CallOK, WellFormed
  <2>3. CASE u # t
    <3>1. call'[u] = call[u] /\ pc'[u] = pc[u]
      BY <1>0, <2>1, <2>3 DEF TypeOK
    <3>2. CallOK(u)
      BY <1>0 DEF CallsOK
    <3>3. ASSUME call[u].number # 0
          PROVE  /\ call[u].client \in Clients
                 /\ lock'[call[u].client] = u
                 /\ call[u].number = counter'[call[u].client]
      <4>1. /\ call[u].client \in Clients
            /\ lock[call[u].client] = u
            /\ call[u].number = counter[call[u].client]
        BY <3>2, <3>3 DEF CallOK
      <4>2. call[u].client # c
        BY <1>0, <2>1, <4>1
      <4> QED BY <1>0, <2>1, <4>1, <4>2 DEF TypeOK
    <3> QED BY <3>1, <3>2, <3>3 DEF CallOK, WellFormed
  <2> QED BY <2>2, <2>3
<1>2. ASSUME NEW t \in Threads, Lifecycle(t), NEW u \in Threads PROVE CallOK(u)'
  <2>1. /\ pc[t] = "idle" /\ pc' = [pc EXCEPT ![t] = "emit"]
        /\ call'[t].number = 0 /\ call'[t] # NoCall
        /\ call'[t].events = <<Emit("LIFE", FALSE)>>
        /\ call' = [call EXCEPT ![t] = call'[t]]
        /\ UNCHANGED <<lock, counter>>
    BY <1>0, <1>2, LifeBegins
  <2>2. CASE u = t
    <3>1. /\ Len(call'[t].events) = 1 /\ call'[t].events[1].direction = "LIFE"
          /\ Head(call'[t].events).direction = "LIFE" /\ call'[t].events # <<>>
      BY <2>1 DEF Emit
    <3>2. WellFormed(call[t].kind, call[t].events)'
      BY <3>1 DEF WellFormed
    <3>3. pc'[t] = "emit"
      BY <1>0, <2>1 DEF TypeOK
    <3>4. \A i \in 1 .. Len(call'[t].events) : call'[t].events[i].direction = "LIFE"
      BY <3>1
    <3> QED BY <2>1, <2>2, <3>1, <3>2, <3>3, <3>4 DEF CallOK
  <2>3. CASE u # t
    <3>1. call'[u] = call[u] /\ pc'[u] = pc[u]
      BY <1>0, <2>1, <2>3 DEF TypeOK
    <3>2. CallOK(u)
      BY <1>0 DEF CallsOK
    <3> QED BY <2>1, <3>1, <3>2 DEF CallOK, WellFormed
  <2> QED BY <2>2, <2>3
<1>3. ASSUME NEW t \in Threads, Correlate(t), NEW u \in Threads PROVE CallOK(u)'
  <2>1. /\ pc[t] = "emit" /\ pc' = [pc EXCEPT ![t] = "build"]
        /\ call'[t].client = call[t].client /\ call'[t].number = call[t].number
        /\ call'[t].kind = call[t].kind /\ call'[t].events = call[t].events
        /\ \A v \in Threads : v # t => call'[v] = call[v]
        /\ call'[t] # NoCall
    BY <1>0, <1>3, CallCorrelated
  <2>2. CallOK(u) /\ UNCHANGED <<lock, counter>>
    BY <1>0, <1>3 DEF CallsOK, Correlate
  <2>3. CASE u = t
    <3>1. pc'[t] = "build"
      BY <1>0, <2>1 DEF TypeOK
    <3> QED BY <2>1, <2>2, <2>3, <3>1 DEF CallOK, WellFormed
  <2>4. CASE u # t
    <3>1. call'[u] = call[u] /\ pc'[u] = pc[u]
      BY <1>0, <2>1, <2>4 DEF TypeOK
    <3> QED BY <2>2, <3>1 DEF CallOK, WellFormed
  <2> QED BY <2>3, <2>4
<1>4. ASSUME NEW t \in Threads, Build(t), NEW u \in Threads PROVE CallOK(u)'
  <2>1. CallOK(u) /\ UNCHANGED <<call, lock, counter>>
    BY <1>0, <1>4 DEF CallsOK, Build
  <2>2. pc'[u] = "idle" <=> pc[u] = "idle"
    BY <1>0, <1>4 DEF Build, TypeOK
  <2> QED BY <2>1, <2>2 DEF CallOK, WellFormed
<1>5. ASSUME NEW t \in Threads, pc[t] = "deliver", Returns(t), NEW u \in Threads PROVE CallOK(u)'
  <2>1. /\ \A v \in Threads : v # t => call'[v] = call[v] /\ pc'[v] = pc[v]
        /\ \/ /\ Tail(call[t].events) = <<>>
              /\ call'[t] = NoCall /\ pc'[t] = "idle"
           \/ /\ Tail(call[t].events) # <<>> /\ pc'[t] = "emit" /\ call'[t] # NoCall
              /\ call'[t].client = call[t].client /\ call'[t].number = call[t].number
              /\ call'[t].kind = call[t].kind /\ call'[t].events = Tail(call[t].events)
    BY <1>0, <1>5, CallGoesOn
  <2>2. CallOK(t) /\ CallOK(u)
    BY <1>0 DEF CallsOK
  <2>3. /\ \A c \in Clients :
             lock'[c] = IF Tail(call[t].events) = <<>> /\ lock[c] = t THEN NoThread ELSE lock[c]
        /\ UNCHANGED counter
    BY SMTT(20), <1>5, OtherwiseGoesOn
  <2>4. CASE u = t /\ Tail(call[t].events) = <<>>
    <3>1. call'[t] = NoCall /\ pc'[t] = "idle"
      BY <2>1, <2>4
    <3>2. WellFormed(NoCall.kind, NoCall.events) /\ NoCall.number = 0 /\ Len(NoCall.events) = 0
      BY DEF NoCall, WellFormed
    <3> QED BY <2>4, <3>1, <3>2 DEF CallOK, WellFormed
  <2>5. CASE u = t /\ Tail(call[t].events) # <<>>
    <3> DEFINE rest == Tail(call[t].events)
    <3>1. /\ pc'[t] = "emit" /\ call'[t] # NoCall
          /\ call'[t].client = call[t].client /\ call'[t].number = call[t].number
          /\ call'[t].kind = call[t].kind /\ call'[t].events = rest
      BY <2>1, <2>5
    <3>2. call[t].events \in Seq(Emits) /\ call[t].events # <<>> /\ WellFormed(call[t].kind, call[t].events)
      BY <1>0, <1>5, CallOf
    <3>4. rest # <<>> /\ rest = Tail(call[t].events)
      BY <2>5
    <3> HIDE DEF rest
    <3>3. WellFormed(call[t].kind, rest)
      BY <3>2, <3>4, RestOf
    <3>8. \A i \in 1 .. Len(rest) : i + 1 \in 1 .. Len(call[t].events) /\ rest[i] = call[t].events[i + 1]
      BY <3>2, <3>4, RestOf
    <3>5. WellFormed(call[t].kind, call[t].events)'
      BY <3>1, <3>3 DEF WellFormed
    <3>6. call[t].number # 0 => lock'[call[t].client] = t
      BY <2>2, <2>3, <2>5 DEF CallOK
    <3>7. call[t].number = 0 => \A i \in 1 .. Len(rest) : rest[i].direction = "LIFE"
      BY <2>2, <3>8 DEF CallOK
    <3> QED BY <2>2, <2>3, <2>5, <3>1, <3>4, <3>5, <3>6, <3>7 DEF CallOK
  <2>6. CASE u # t
    <3>1. call'[u] = call[u] /\ pc'[u] = pc[u]
      BY <2>1, <2>6
    <3>2. call[u].number # 0 => lock'[call[u].client] = u
      BY <2>2, <2>3, <2>6 DEF CallOK
    <3> QED BY <2>2, <2>3, <3>1, <3>2 DEF CallOK, WellFormed
  <2> QED BY <2>4, <2>5, <2>6
<1>6. ASSUME UNCHANGED vars, NEW u \in Threads PROVE CallOK(u)'
  <2>1. CallOK(u) /\ UNCHANGED <<lock, counter, call, pc>>
    BY <1>0, <1>6 DEF CallsOK, vars
  <2> QED BY <2>1 DEF CallOK, WellFormed
<1> QED BY <1>1, <1>2, <1>3, <1>4, <1>5, <1>6 DEF Next, Emitting, Deliver, DeliverFailed, CallsOK

------------------------------------------------------------------------------
\* The events at hand: none moves unless a thread builds or delivers one.
LEMMA InFlightStays ==
  ASSUME TypeOK, NEW t \in Threads, NEW place \in {"idle", "emit", "build"}, pc[t] # "deliver",
         pc' = [pc EXCEPT ![t] = place]
  PROVE  InFlight' = InFlight
BY DEF InFlight, TypeOK

\* The number of a call that is an operation is the last its client handed out.
LEMMA LastHandedOut ==
  ASSUME CallsOK, NEW t \in Threads, call[t].number # 0
  PROVE  call[t].client \in Clients /\ call[t].number = counter[call[t].client]
BY DEF CallsOK, CallOK

\* Every step accounts for every event and keeps the numbers of those at hand apart.
LEMMA LossStep ==
  ASSUME TracerInv, [Next]_vars
  PROVE  IsFiniteSet(InFlight') /\ NoSilentLoss' /\ EventsOK'
<1>0. /\ TypeOK /\ CallsOK /\ IsFiniteSet(InFlight) /\ NoSilentLoss /\ EventsOK
      /\ Cardinality(InFlight) \in Nat
      /\ sequence \in Nat /\ dropped \in Nat /\ delivered \in Nat
      /\ \A c \in Clients : latest[c] \in Nat /\ counter[c] \in Nat
  BY FS_CardinalityType DEF TracerInv, TypeOK
<1>1. ASSUME UNCHANGED <<event, sequence, dropped, delivered, latest>>, InFlight' = InFlight,
             \A c \in Clients : counter'[c] >= counter[c] /\ counter'[c] \in Nat,
             \A t \in InFlight : call'[t].client = call[t].client /\ call'[t].number = call[t].number
      PROVE  IsFiniteSet(InFlight') /\ NoSilentLoss' /\ EventsOK'
  <2>1. NoSilentLoss'
    BY <1>0, <1>1 DEF NoSilentLoss
  <2>2. \A c \in Clients : latest'[c] <= counter'[c]
    BY <1>0, <1>1 DEF EventsOK
  <2>3. EventsOK'
    BY <1>0, <1>1, <2>2 DEF EventsOK
  <2> QED BY <1>0, <1>1, <2>1, <2>3
<1>2. ASSUME NEW t \in Threads, NEW c \in Clients, NEW kind \in Operations, Operate(t, c, kind)
      PROVE  IsFiniteSet(InFlight') /\ NoSilentLoss' /\ EventsOK'
  <2>1. /\ pc[t] = "idle" /\ pc' = [pc EXCEPT ![t] = "emit"]
        /\ counter' = [counter EXCEPT ![c] = @ + 1]
        /\ call' = [call EXCEPT ![t] = call'[t]]
        /\ UNCHANGED <<event, sequence, dropped, latest, delivered>>
    BY <1>0, <1>2, CallBegins
  <2>2. InFlight' = InFlight
    BY <1>0, <2>1, InFlightStays
  <2>3. \A d \in Clients : counter'[d] >= counter[d] /\ counter'[d] \in Nat
    BY <1>0, <2>1 DEF TypeOK
  <2>4. \A u \in InFlight : call'[u] = call[u]
    BY <1>0, <2>1 DEF InFlight, TypeOK
  <2> QED BY <1>1, <2>1, <2>2, <2>3, <2>4
<1>3. ASSUME NEW t \in Threads, Lifecycle(t)
      PROVE  IsFiniteSet(InFlight') /\ NoSilentLoss' /\ EventsOK'
  <2>1. /\ pc[t] = "idle" /\ pc' = [pc EXCEPT ![t] = "emit"]
        /\ call' = [call EXCEPT ![t] = call'[t]]
        /\ UNCHANGED <<counter, event, sequence, dropped, latest, delivered>>
    BY <1>0, <1>3, LifeBegins
  <2>2. InFlight' = InFlight
    BY <1>0, <2>1, InFlightStays
  <2>3. \A d \in Clients : counter'[d] >= counter[d] /\ counter'[d] \in Nat
    BY <1>0, <2>1
  <2>4. \A u \in InFlight : call'[u] = call[u]
    BY <1>0, <2>1 DEF InFlight, TypeOK
  <2> QED BY <1>1, <2>1, <2>2, <2>3, <2>4
<1>4. ASSUME NEW t \in Threads, Correlate(t)
      PROVE  IsFiniteSet(InFlight') /\ NoSilentLoss' /\ EventsOK'
  <2>1. /\ pc[t] = "emit" /\ pc' = [pc EXCEPT ![t] = "build"]
        /\ \A u \in Threads : u # t => call'[u] = call[u]
    BY <1>0, <1>4, CallCorrelated
  <2>2. UNCHANGED <<counter, event, sequence, dropped, latest, delivered>>
    BY <1>4 DEF Correlate
  <2>3. InFlight' = InFlight
    BY <1>0, <2>1, InFlightStays
  <2>4. \A d \in Clients : counter'[d] >= counter[d] /\ counter'[d] \in Nat
    BY <1>0, <2>2
  <2>5. \A u \in InFlight : call'[u] = call[u]
    BY <1>0, <2>1 DEF InFlight
  <2> QED BY <1>1, <2>2, <2>3, <2>4, <2>5
<1>5. ASSUME NEW t \in Threads, Build(t)
      PROVE  IsFiniteSet(InFlight') /\ NoSilentLoss' /\ EventsOK'
  <2> DEFINE new == [sequence |-> sequence + 1, client |-> call[t].client,
                     number |-> IF Due(t).direction = "LIFE" THEN 0 ELSE call[t].number]
  <2>1. /\ pc[t] = "build" /\ pc' = [pc EXCEPT ![t] = "deliver"] /\ sequence' = sequence + 1
        /\ event' = [event EXCEPT ![t] = new]
        /\ UNCHANGED <<counter, call, dropped, latest, delivered>>
    BY <1>5 DEF Build
  <2>2. /\ new.sequence = sequence + 1 /\ new.client = call[t].client
        /\ new.number \in {0, call[t].number}
    OBVIOUS
  <2> HIDE DEF new
  <2>3. event'[t] = new /\ \A u \in Threads : u # t => event'[u] = event[u]
    BY <1>0, <2>1 DEF TypeOK
  <2>4. InFlight' = InFlight \cup {t} /\ t \notin InFlight
    BY <1>0, <2>1 DEF InFlight, TypeOK
  <2>5. IsFiniteSet(InFlight') /\ Cardinality(InFlight') = Cardinality(InFlight) + 1
    BY <1>0, <2>4, FS_AddElement
  <2>6. sequence' = delivered' + dropped' + Cardinality(InFlight')
    BY <1>0, <2>1, <2>5 DEF NoSilentLoss
  <2>7. \A u \in InFlight : event[u].sequence \in Nat /\ event[u].sequence <= sequence
    <3>1. \A u \in Threads : event[u].sequence \in Nat
      BY <1>0 DEF TypeOK
    <3> QED BY <1>0, <3>1 DEF EventsOK, InFlight
  <2>8. ASSUME NEW u \in InFlight', NEW v \in InFlight', event'[u].sequence = event'[v].sequence
        PROVE  u = v
    <3>1. CASE u = t /\ v # t
      <4>1. event'[v] = event[v] /\ v \in InFlight
        BY <2>3, <2>4, <3>1 DEF InFlight
      <4> QED BY <1>0, <2>2, <2>3, <2>7, <2>8, <3>1, <4>1
    <3>2. CASE u # t /\ v = t
      <4>1. event'[u] = event[u] /\ u \in InFlight
        BY <2>3, <2>4, <3>2 DEF InFlight
      <4> QED BY <1>0, <2>2, <2>3, <2>7, <2>8, <3>2, <4>1
    <3>3. CASE u # t /\ v # t
      <4>1. event'[u] = event[u] /\ u \in InFlight /\ event'[v] = event[v] /\ v \in InFlight
        BY <2>3, <2>4, <3>3 DEF InFlight
      <4> QED BY <1>0, <2>8, <4>1 DEF NoSilentLoss
    <3> QED BY <3>1, <3>2, <3>3
  <2>9. ASSUME NEW u \in InFlight'
        PROVE  /\ event'[u].sequence <= sequence'
               /\ event'[u].client = call'[u].client
               /\ event'[u].number \in {0, call'[u].number}
    <3>1. CASE u = t
      BY <1>0, <2>1, <2>2, <2>3, <3>1
    <3>2. CASE u # t
      <4>1. event'[u] = event[u] /\ u \in InFlight
        BY <2>3, <2>4, <3>2 DEF InFlight
      <4> QED BY <1>0, <2>1, <2>7, <4>1 DEF EventsOK
    <3> QED BY <3>1, <3>2
  <2>10. NoSilentLoss'
    BY <2>6, <2>8 DEF NoSilentLoss
  <2>11. EventsOK'
    BY <1>0, <2>1, <2>9 DEF EventsOK
  <2> QED BY <2>5, <2>10, <2>11
<1>6. ASSUME NEW t \in Threads, Deliver(t) \/ DeliverFailed(t)
      PROVE  IsFiniteSet(InFlight') /\ NoSilentLoss' /\ EventsOK'
  <2>1. pc[t] = "deliver" /\ Returns(t)
    BY <1>6 DEF Deliver, DeliverFailed
  <2>2. /\ event' = [event EXCEPT ![t] = NoEvent]
        /\ pc' = [pc EXCEPT ![t] = IF Tail(call[t].events) = <<>> THEN "idle" ELSE "emit"]
        /\ UNCHANGED <<counter, sequence>>
    BY <2>1, OtherwiseGoesOn
  <2>3. InFlight' = InFlight \ {t} /\ t \in InFlight
    BY <1>0, <2>1, <2>2 DEF InFlight, TypeOK
  <2>4. IsFiniteSet(InFlight') /\ Cardinality(InFlight') = Cardinality(InFlight) - 1
    BY <1>0, <2>3, FS_RemoveElement
  <2>5. \A u \in InFlight' : u \in InFlight /\ u \in Threads /\ event'[u] = event[u] /\ call'[u] = call[u]
    <3>1. \A u \in InFlight' : u # t /\ u \in InFlight /\ u \in Threads
      BY <2>3 DEF InFlight
    <3>2. \A u \in Threads : u # t => event'[u] = event[u]
      BY <1>0, <2>2 DEF TypeOK
    <3>3. \A u \in Threads : u # t => call'[u] = call[u]
      BY <1>0, <2>1, CallGoesOn
    <3> QED BY <3>1, <3>2, <3>3
  <2>6. NoSilentLoss'
    <3>1. sequence = delivered + dropped + Cardinality(InFlight)
      BY <1>0 DEF NoSilentLoss
    <3>2. ASSUME delivered' = delivered + 1 /\ dropped' = dropped
          PROVE  sequence' = delivered' + dropped' + Cardinality(InFlight')
      BY <1>0, <2>2, <2>4, <3>1, <3>2
    <3>3. ASSUME delivered' = delivered /\ dropped' = dropped + 1
          PROVE  sequence' = delivered' + dropped' + Cardinality(InFlight')
      BY <1>0, <2>2, <2>4, <3>1, <3>3
    <3>4. sequence' = delivered' + dropped' + Cardinality(InFlight')
      BY <1>6, <3>2, <3>3, Zenon DEF Deliver, DeliverFailed
    <3> QED BY <1>0, <2>5, <3>4 DEF NoSilentLoss
  <2>7. ASSUME NEW c \in Clients PROVE latest'[c] <= counter'[c]
    <3>1. CASE latest' = latest
      BY <1>0, <2>2, <3>1 DEF EventsOK
    <3>2. CASE event[t].number # 0 /\ latest' = [latest EXCEPT ![event[t].client] = event[t].number]
      <4>1. event[t].client = call[t].client /\ event[t].number = call[t].number
        BY <1>0, <2>3, <3>2 DEF EventsOK
      <4>2. call[t].client \in Clients /\ call[t].number = counter[call[t].client]
        BY <1>0, <3>2, <4>1, LastHandedOut
      <4>3. latest'[c] = IF c = call[t].client THEN counter[c] ELSE latest[c]
        BY <1>0, <3>2, <4>1, <4>2 DEF TypeOK
      <4> QED BY <1>0, <2>2, <4>3 DEF EventsOK
    <3> QED BY <1>6, <3>1, <3>2 DEF Deliver, DeliverFailed
  <2>8. EventsOK'
    BY <1>0, <2>2, <2>5, <2>7 DEF EventsOK
  <2> QED BY <2>4, <2>6, <2>8
<1>7. CASE UNCHANGED vars
  <2>1. InFlight' = InFlight /\ UNCHANGED <<event, sequence, dropped, delivered, latest, counter, call>>
    BY <1>7 DEF vars, InFlight
  <2>2. \A d \in Clients : counter'[d] >= counter[d] /\ counter'[d] \in Nat
    BY <1>0, <2>1
  <2> QED BY <1>1, <2>1, <2>2
<1> QED BY <1>2, <1>3, <1>4, <1>5, <1>6, <1>7 DEF Next, Emitting

------------------------------------------------------------------------------
\* A thread that does nothing waits for its answer as before.
LEMMA StillAsked ==
  ASSUME NEW u, call'[u] = call[u], pc'[u] = pc[u]
  PROVE  /\ Asked(u)' <=> Asked(u)
         /\ Due(u)' = Due(u)
BY DEF Asked, Due

\* Who has used the operation id of another call, or found it used.
LEMMA SharedCorrelated ==
  ASSUME TypeOK, NEW t \in Threads, Correlate(t)
  PROVE  \A u \in Threads :
           shared'[u] <=> \/ shared[u]
                          \/ /\ Due(t).direction # "LIFE" /\ u # t
                             /\ call[u].number = call[t].number /\ call[t].number # 0
                          \/ u = t /\ Due(t).direction = "TX" /\ Positions(call[t].number) # {}
<1> DEFINE same == {u \in Threads \ {t} : call[u].number = call[t].number /\ call[t].number # 0}
<1>1. shared' = [u \in Threads |->
        \/ shared[u]
        \/ Due(t).direction # "LIFE" /\ u \in same
        \/ u = t /\ Due(t).direction = "TX" /\ Positions(call[t].number) # {}]
  BY DEF Correlate
<1> SUFFICES ASSUME NEW u \in Threads
             PROVE  shared'[u] <=> \/ shared[u]
                                   \/ /\ Due(t).direction # "LIFE" /\ u # t
                                      /\ call[u].number = call[t].number /\ call[t].number # 0
                                   \/ u = t /\ Due(t).direction = "TX" /\ Positions(call[t].number) # {}
  OBVIOUS
<1>2. u \in same <=> u # t /\ call[u].number = call[t].number /\ call[t].number # 0
  OBVIOUS
<1> HIDE DEF same
<1>3. shared'[u] <=> \/ shared[u]
                     \/ Due(t).direction # "LIFE" /\ u \in same
                     \/ u = t /\ Due(t).direction = "TX" /\ Positions(call[t].number) # {}
  BY <1>1, Zenon
<1> QED BY <1>2, <1>3, Zenon

\* A step that leaves the table alone keeps it right if no call stops waiting for its answer.
LEMMA TableStays ==
  ASSUME TableOK, commands' = commands,
         \A u \in Threads : Asked(u) /\ call[u].kind # "write" =>
           /\ Asked(u)'
           /\ call'[u].client = call[u].client /\ call'[u].number = call[u].number
           /\ call'[u].kind = call[u].kind
  PROVE  TableOK'
<1>1. /\ Len(commands') <= MaxCommands
      /\ \A i, j \in DOMAIN commands' : commands'[i].number = commands'[j].number => i = j
  BY DEF TableOK
<1>2. ASSUME NEW i \in DOMAIN commands', commands'[i].kind # "write"
      PROVE  \E u \in Threads :
               /\ Asked(u)'
               /\ call'[u].client = commands'[i].client
               /\ call'[u].number = commands'[i].number
               /\ call'[u].kind = commands'[i].kind
  <2>1. PICK u \in Threads :
          /\ Asked(u)
          /\ call[u].client = commands[i].client
          /\ call[u].number = commands[i].number
          /\ call[u].kind = commands[i].kind
    BY <1>2 DEF TableOK
  <2>2. call[u].kind # "write"
    BY <1>2, <2>1
  <2>3. /\ Asked(u)'
        /\ call'[u].client = call[u].client /\ call'[u].number = call[u].number
        /\ call'[u].kind = call[u].kind
    BY <2>1, <2>2
  <2> QED BY <2>1, <2>3
<1> QED BY <1>1, <1>2 DEF TableOK

\* It keeps what is known of its entries if no call starts to wait, and no exception is lifted.
LEMMA KeptStays ==
  ASSUME KeptOK, commands' = commands,
         \A u \in Threads :
           Asked(u)' /\ ~call'[u].answered /\ ~shared'[u] /\ since'[u] < MaxCommands =>
             /\ Asked(u) /\ ~call[u].answered /\ ~shared[u] /\ since'[u] = since[u]
             /\ call'[u].client = call[u].client /\ call'[u].number = call[u].number
  PROVE  KeptOK'
<1> SUFFICES ASSUME NEW u \in Threads, Asked(u)', ~call'[u].answered, ~shared'[u],
                    since'[u] < MaxCommands
             PROVE  \E i \in DOMAIN commands' :
                      /\ commands'[i].client = call'[u].client
                      /\ commands'[i].number = call'[u].number
                      /\ Len(commands') - i <= since'[u]
  BY DEF KeptOK
<1>1. /\ Asked(u) /\ ~call[u].answered /\ ~shared[u] /\ since'[u] = since[u]
      /\ call'[u].client = call[u].client /\ call'[u].number = call[u].number
  OBVIOUS
<1>2. since[u] < MaxCommands
  BY <1>1
<1>3. PICK i \in DOMAIN commands :
        /\ commands[i].client = call[u].client
        /\ commands[i].number = call[u].number
        /\ Len(commands) - i <= since[u]
  BY <1>1, <1>2 DEF KeptOK
<1> QED BY <1>1, <1>3

\* An emit that returns leaves a call that waits for its answer waiting, and makes none wait.
LEMMA AskedGoesOn ==
  ASSUME TypeOK, CallsOK, NEW t \in Threads, pc[t] = "deliver", Returns(t)
  PROVE  /\ Asked(t) /\ call[t].kind # "write" =>
              /\ Asked(t)'
              /\ call'[t].client = call[t].client /\ call'[t].number = call[t].number
              /\ call'[t].kind = call[t].kind
         /\ Asked(t)' /\ ~call'[t].answered =>
              /\ Asked(t) /\ ~call[t].answered
              /\ call'[t].client = call[t].client /\ call'[t].number = call[t].number
              /\ UNCHANGED <<since, shared>>
         /\ pc'[t] \in {"idle", "emit"}
<1>1. \/ /\ Tail(call[t].events) = <<>>
         /\ call'[t] = NoCall /\ pc'[t] = "idle"
      \/ /\ Tail(call[t].events) # <<>> /\ pc'[t] = "emit"
         /\ call'[t].client = call[t].client /\ call'[t].number = call[t].number
         /\ call'[t].kind = call[t].kind /\ call'[t].events = Tail(call[t].events)
         /\ call'[t].answered = (call[t].answered \/ Due(t).direction = "RX")
  BY CallGoesOn
<1>2. call[t].events \in Seq(Emits) /\ call[t].events # <<>> /\ WellFormed(call[t].kind, call[t].events)
  BY CallOf
<1> DEFINE rest == Tail(call[t].events)
<1>3. rest = Tail(call[t].events)
  OBVIOUS
<1> HIDE DEF rest
<1>4. rest # <<>> /\ Head(rest).direction = "RX" =>
        Head(call[t].events).direction = "TX" \/ Head(call[t].events).direction = "RX"
  <2> DEFINE kind == call[t].kind
             events == call[t].events
  <2>1. events \in Seq(Emits) /\ events # <<>> /\ WellFormed(kind, events) /\ rest = Tail(events)
    BY <1>2, <1>3
  <2> HIDE DEF kind, events
  <2>2. rest # <<>> /\ Head(rest).direction = "RX" =>
          Head(events).direction = "TX" \/ Head(events).direction = "RX"
    BY <2>1, RestOf
  <2> QED BY <2>2 DEF events
<1>5. call[t].kind # "write" /\ Head(call[t].events).direction = "TX" =>
        rest # <<>> /\ Head(rest).direction = "RX"
  BY SMTT(20), <1>2, <1>3, RestOf
<1>6. Due(t) = Head(call[t].events)
  BY DEF Due
<1>7. CASE rest = <<>>
  <2>1. pc'[t] = "idle"
    BY <1>1, <1>3, <1>7
  <2>2. ~(Asked(t)')
    BY <2>1 DEF Asked
  <2>3. ~(Asked(t) /\ call[t].kind # "write")
    BY <1>5, <1>6, <1>7 DEF Asked
  <2> QED BY <2>1, <2>2, <2>3
<1>8. CASE rest # <<>>
  <2>1. /\ pc'[t] = "emit"
        /\ call'[t].client = call[t].client /\ call'[t].number = call[t].number
        /\ call'[t].kind = call[t].kind /\ call'[t].events = rest
    BY <1>1, <1>3, <1>8
  <2>2. call'[t].answered <=> (call[t].answered \/ Due(t).direction = "RX")
    BY <1>1, <1>3, <1>8, Zenon
  <2>3. Asked(t)' <=> Head(rest).direction = "RX"
    BY <2>1 DEF Asked, Due
  <2>4. Asked(t) <=> Due(t).direction = "TX"
    BY DEF Asked
  <2>5. UNCHANGED <<since, shared>>
    BY <1>3, <1>8, OtherwiseGoesOn
  <2>6. Asked(t) /\ call[t].kind # "write" => Asked(t)'
    BY <1>5, <1>6, <2>3, <2>4
  <2>7. Asked(t)' /\ ~call'[t].answered => Asked(t) /\ ~call[t].answered
    BY <1>4, <1>6, <1>8, <2>2, <2>3, <2>4
  <2> QED BY <2>1, <2>5, <2>6, <2>7
<1> QED BY <1>7, <1>8

\* The first locked section, when it takes a command out or has nothing to do with the table.
LEMMA TakingOut ==
  ASSUME TracerInv, NEW t \in Threads, Correlate(t), Due(t).direction \in {"RX", "ERROR"}
  PROVE  TableOK' /\ KeptOK'
<1>0. /\ TypeOK /\ CallsOK /\ TableOK /\ KeptOK
      /\ commands \in Seq(Commands) /\ MaxCommands \in Nat
  BY TracingAssumption DEF TracerInv, TypeOK
<1> DEFINE number == call[t].number
<1>1. /\ Unique(commands) /\ Len(commands) \in Nat /\ number \in Nat
      /\ since' = since /\ commands' = WithoutKey(number)
  BY TableCorrelated
<1>2. /\ pc[t] = "emit" /\ pc' = [pc EXCEPT ![t] = "build"]
      /\ call'[t].events = call[t].events
      /\ \A u \in Threads : u # t => call'[u] = call[u]
  BY <1>0, CallCorrelated
<1>3. number # 0
  BY <1>0, <1>2, CallOf
<1> HIDE DEF number
<1>4. /\ commands' \in Seq(Commands) /\ Unique(commands') /\ Len(commands') <= Len(commands)
      /\ \A j \in 1 .. Len(commands') : \E i \in 1 .. Len(commands) :
           commands[i].number # number /\ commands'[j] = commands[i]
      /\ \A i \in 1 .. Len(commands) : commands[i].number # number =>
           \E j \in 1 .. Len(commands') :
             commands'[j] = commands[i] /\ Len(commands') - j <= Len(commands) - i
  <2> DEFINE table == commands'
  <2>1. table = WithoutKey(number)
    BY <1>1
  <2> HIDE DEF table
  <2>2. table \in Seq(Commands) /\ Unique(table) /\ Len(table) <= Len(commands)
    BY <1>0, <1>1, <2>1, TakenOut
  <2>3. \A j \in 1 .. Len(table) : \E i \in 1 .. Len(commands) :
             commands[i].number # number /\ table[j] = commands[i]
    <3>1. Remaining(table, number)
      BY <1>0, <1>1, <2>1, TakenOut
    <3> QED BY <3>1 DEF Remaining
  <2>4. \A i \in 1 .. Len(commands) : commands[i].number # number =>
             \E j \in 1 .. Len(table) :
               table[j] = commands[i] /\ Len(table) - j <= Len(commands) - i
    BY <1>0, <1>1, <2>1, TakenOut
  <2> QED BY <2>2, <2>3, <2>4 DEF table
<1>5. /\ DOMAIN commands = 1 .. Len(commands) /\ DOMAIN commands' = 1 .. Len(commands')
      /\ Len(commands') \in Nat
  <2>1. commands' \in Seq(Commands)
    BY <1>4
  <2> QED BY <1>0, <2>1
<1>6. \A u \in Threads : u # t => /\ Asked(u)' <=> Asked(u)
                                  /\ call'[u] = call[u]
  <2>1. \A u \in Threads : u # t => pc'[u] = pc[u]
    BY <1>0, <1>2 DEF TypeOK
  <2> QED BY <1>2, <2>1, StillAsked
<1>7. ~(Asked(t)')
  <2>1. pc'[t] = "build"
    BY <1>0, <1>2 DEF TypeOK
  <2>2. Due(t)' = Due(t)
    BY <1>2 DEF Due
  <2> QED BY <2>1, <2>2 DEF Asked
<1>8. TableOK'
  <2>1. Len(commands') <= MaxCommands
    BY <1>0, <1>1, <1>4, <1>5 DEF TableOK
  <2>2. ASSUME NEW j \in 1 .. Len(commands'), commands'[j].kind # "write"
        PROVE  \E u \in Threads :
                 /\ Asked(u)'
                 /\ call'[u].client = commands'[j].client
                 /\ call'[u].number = commands'[j].number
                 /\ call'[u].kind = commands'[j].kind
    <3>1. PICK i \in 1 .. Len(commands) : commands[i].number # number /\ commands'[j] = commands[i]
      BY <1>4
    <3>2. PICK u \in Threads :
            /\ Asked(u)
            /\ call[u].client = commands[i].client
            /\ call[u].number = commands[i].number
            /\ call[u].kind = commands[i].kind
      BY <1>0, <1>5, <2>2, <3>1 DEF TableOK
    <3>3. u # t
      BY <3>1, <3>2 DEF number
    <3> QED BY <1>6, <3>1, <3>2, <3>3
  <2> QED BY <1>4, <1>5, <2>1, <2>2 DEF TableOK, Unique
<1>9. KeptOK'
  <2> SUFFICES ASSUME NEW u \in Threads, Asked(u)', ~call'[u].answered, ~shared'[u],
                      since'[u] < MaxCommands
               PROVE  \E j \in DOMAIN commands' :
                        /\ commands'[j].client = call'[u].client
                        /\ commands'[j].number = call'[u].number
                        /\ Len(commands') - j <= since'[u]
    BY DEF KeptOK
  <2>1. u # t
    BY <1>7
  <2>2. Asked(u) /\ call'[u] = call[u] /\ since'[u] = since[u] /\ ~call[u].answered
    BY <1>1, <1>6, <2>1
  <2>3. ~shared[u] /\ call[u].number # number
    BY <1>0, <1>3, <2>1, SharedCorrelated DEF number
  <2>4. PICK i \in 1 .. Len(commands) :
          /\ commands[i].client = call[u].client
          /\ commands[i].number = call[u].number
          /\ Len(commands) - i <= since[u]
    BY <1>0, <1>5, <2>2, <2>3 DEF KeptOK
  <2>5. PICK j \in 1 .. Len(commands') :
          commands'[j] = commands[i] /\ Len(commands') - j <= Len(commands) - i
    BY <1>4, <2>3, <2>4
  <2>6. Len(commands') - j <= since[u]
    <3>1. since[u] \in Nat
      BY <1>0 DEF TypeOK
    <3> QED BY <1>1, <1>5, <2>4, <2>5, <3>1
  <2> QED BY <1>5, <2>2, <2>4, <2>5, <2>6
<1> QED BY <1>8, <1>9

\* The first locked section, when it keeps a command.
LEMMA Keeping ==
  ASSUME TracerInv, NEW t \in Threads, Correlate(t), Due(t).direction = "TX"
  PROVE  TableOK' /\ KeptOK'
<1>0. /\ TypeOK /\ CallsOK /\ TableOK /\ KeptOK
      /\ commands \in Seq(Commands) /\ MaxCommands \in Nat \ {0} /\ Len(commands) <= MaxCommands
  BY TracingAssumption DEF TracerInv, TypeOK, TableOK
<1> DEFINE entry == [client |-> call[t].client, number |-> call[t].number, kind |-> call[t].kind]
<1>1. /\ Unique(commands) /\ Len(commands) \in Nat /\ call[t].number \in Nat
      /\ commands' = Keep(entry) /\ entry \in Commands
      /\ \A u \in Threads :
           since'[u] = IF u = t \/ pc[u] = "idle" THEN 0
                       ELSE IF since[u] + 1 <= MaxCommands THEN since[u] + 1 ELSE MaxCommands
  BY TableCorrelated
<1>2. /\ pc[t] = "emit" /\ pc' = [pc EXCEPT ![t] = "build"]
      /\ call'[t].client = call[t].client /\ call'[t].number = call[t].number
      /\ call'[t].kind = call[t].kind /\ call'[t].events = call[t].events
      /\ \A u \in Threads : u # t => call'[u] = call[u]
  BY <1>0, CallCorrelated
<1>3. call[t].number # 0
  BY <1>0, <1>2, CallOf
<1>10. /\ entry.client = call[t].client /\ entry.number = call[t].number
      /\ entry.kind = call[t].kind
  OBVIOUS
<1> HIDE DEF entry
<1>4. /\ commands' \in Seq(Commands) /\ Unique(commands') /\ Len(commands') <= MaxCommands
      /\ \A j \in 1 .. Len(commands') :
           \/ commands'[j] = entry
           \/ \E i \in 1 .. Len(commands) :
                commands[i].number # entry.number /\ commands'[j] = commands[i]
      /\ \A i \in 1 .. Len(commands) : commands[i].number # entry.number =>
           \/ Len(commands) - i >= MaxCommands - 1
           \/ \E j \in 1 .. Len(commands') :
                commands'[j] = commands[i] /\ Len(commands') - j <= Len(commands) - i + 1
      /\ Positions(entry.number) = {} => Len(commands') > 0 /\ commands'[Len(commands')] = entry
  <2> DEFINE table == commands'
  <2>1. table = Keep(entry)
    BY <1>1
  <2> HIDE DEF table
  <2>2. table \in Seq(Commands) /\ Unique(table) /\ Len(table) <= MaxCommands
    BY <1>0, <1>1, <2>1, KeptLast
  <2>3. \A j \in 1 .. Len(table) :
             \/ table[j] = entry
             \/ \E i \in 1 .. Len(commands) :
                  commands[i].number # entry.number /\ table[j] = commands[i]
    BY <1>0, <1>1, <2>1, KeptLast
  <2>4. \A i \in 1 .. Len(commands) : commands[i].number # entry.number =>
             \/ Len(commands) - i >= MaxCommands - 1
             \/ \E j \in 1 .. Len(table) :
                  table[j] = commands[i] /\ Len(table) - j <= Len(commands) - i + 1
    BY <1>0, <1>1, <2>1, KeptLast
  <2>5. Positions(entry.number) = {} => Len(table) > 0 /\ table[Len(table)] = entry
    BY <1>0, <1>1, <2>1, KeptLast
  <2> QED BY <2>2, <2>3, <2>4, <2>5 DEF table
<1>5. /\ DOMAIN commands = 1 .. Len(commands) /\ DOMAIN commands' = 1 .. Len(commands')
      /\ Len(commands') \in Nat
  <2>1. commands' \in Seq(Commands)
    BY <1>4
  <2> QED BY <1>0, <2>1
<1>6. \A u \in Threads : u # t => /\ Asked(u)' <=> Asked(u)
                                  /\ call'[u] = call[u]
  <2>1. \A u \in Threads : u # t => pc'[u] = pc[u]
    BY <1>0, <1>2 DEF TypeOK
  <2> QED BY <1>2, <2>1, StillAsked
<1>7. Asked(t)'
  <2>1. pc'[t] = "build"
    BY <1>0, <1>2 DEF TypeOK
  <2>2. Due(t)' = Due(t)
    BY <1>2 DEF Due
  <2> QED BY <2>1, <2>2 DEF Asked
<1>8. TableOK'
  <2>1. ASSUME NEW j \in 1 .. Len(commands'), commands'[j].kind # "write"
        PROVE  \E u \in Threads :
                 /\ Asked(u)'
                 /\ call'[u].client = commands'[j].client
                 /\ call'[u].number = commands'[j].number
                 /\ call'[u].kind = commands'[j].kind
    <3>1. CASE commands'[j] = entry
      BY <1>2, <1>10, <1>7, <3>1
    <3>2. CASE \E i \in 1 .. Len(commands) :
                 commands[i].number # entry.number /\ commands'[j] = commands[i]
      <4>1. PICK i \in 1 .. Len(commands) :
              commands[i].number # entry.number /\ commands'[j] = commands[i]
        BY <3>2
      <4>2. PICK u \in Threads :
              /\ Asked(u)
              /\ call[u].client = commands[i].client
              /\ call[u].number = commands[i].number
              /\ call[u].kind = commands[i].kind
        BY <1>0, <1>5, <2>1, <4>1 DEF TableOK
      <4>3. u # t
        BY <1>10, <4>1, <4>2
      <4> QED BY <1>6, <4>1, <4>2, <4>3
    <3> QED BY <1>4, <3>1, <3>2
  <2> QED BY <1>4, <1>5, <2>1 DEF TableOK, Unique
<1>9. KeptOK'
  <2> SUFFICES ASSUME NEW u \in Threads, Asked(u)', ~call'[u].answered, ~shared'[u],
                      since'[u] < MaxCommands
               PROVE  \E j \in DOMAIN commands' :
                        /\ commands'[j].client = call'[u].client
                        /\ commands'[j].number = call'[u].number
                        /\ Len(commands') - j <= since'[u]
    BY DEF KeptOK
  <2>1. CASE u = t
    <3>1. Positions(call[t].number) = {}
      BY <1>0, <2>1, SharedCorrelated
    <3>2. Len(commands') > 0 /\ commands'[Len(commands')] = entry
      BY <1>10, <1>4, <3>1
    <3>3. since'[t] = 0
      BY <1>1
    <3>4. Len(commands') \in DOMAIN commands' /\ Len(commands') - Len(commands') <= since'[t]
      BY <1>5, <3>2, <3>3
    <3> QED BY <1>2, <1>10, <2>1, <3>2, <3>4
  <2>2. CASE u # t
    <3>1. Asked(u) /\ call'[u] = call[u] /\ ~call[u].answered
      BY <1>6, <2>2
    <3>2. ~shared[u] /\ call[u].number # entry.number
      BY <1>0, <1>3, <1>10, <2>2, SharedCorrelated
    <3>3. since[u] \in Nat /\ since'[u] = since[u] + 1 /\ since[u] + 1 < MaxCommands
      <4>1. since[u] \in Nat
        BY <1>0 DEF TypeOK
      <4>2. pc[u] # "idle"
        BY <3>1 DEF Asked
      <4>3. since'[u] = IF since[u] + 1 <= MaxCommands THEN since[u] + 1 ELSE MaxCommands
        BY <1>1, <2>2, <4>2
      <4> QED BY <1>0, <4>1, <4>3
    <3>4. PICK i \in 1 .. Len(commands) :
            /\ commands[i].client = call[u].client
            /\ commands[i].number = call[u].number
            /\ Len(commands) - i <= since[u]
      <4>1. since[u] < MaxCommands
        BY <1>0, <3>3
      <4> QED BY <1>0, <1>5, <3>1, <3>2, <4>1 DEF KeptOK
    <3>5. ~(Len(commands) - i >= MaxCommands - 1)
      BY <1>0, <1>1, <3>3, <3>4
    <3>6. PICK j \in 1 .. Len(commands') :
            commands'[j] = commands[i] /\ Len(commands') - j <= Len(commands) - i + 1
      BY <1>4, <3>2, <3>4, <3>5
    <3>7. Len(commands') - j <= since'[u]
      BY <1>1, <1>5, <3>3, <3>4, <3>6
    <3> QED BY <1>5, <3>1, <3>4, <3>6, <3>7
  <2> QED BY <2>1, <2>2
<1> QED BY <1>8, <1>9

\* Every step keeps the table of commands right.
LEMMA TableStep ==
  ASSUME TracerInv, [Next]_vars PROVE TableOK' /\ KeptOK'
<1>0. TypeOK /\ CallsOK /\ TableOK /\ KeptOK
  BY DEF TracerInv
<1>1. ASSUME NEW t \in Threads, pc[t] = "idle", commands' = commands, since' = since, shared' = shared,
             call'[t].answered = TRUE, pc'[t] = "emit",
             \A u \in Threads : u # t => call'[u] = call[u] /\ pc'[u] = pc[u]
      PROVE  TableOK' /\ KeptOK'
  <2>1. ~Asked(t)
    BY <1>1 DEF Asked
  <2>2. \A u \in Threads : u # t => (Asked(u)' <=> Asked(u)) /\ call'[u] = call[u]
    BY <1>1, StillAsked
  <2>3. TableOK'
    BY <1>0, <1>1, <2>1, <2>2, TableStays
  <2>4. KeptOK'
    BY <1>0, <1>1, <2>2, KeptStays
  <2> QED BY <2>3, <2>4
<1>2. ASSUME NEW t \in Threads, NEW c \in Clients, NEW kind \in Operations, Operate(t, c, kind)
      PROVE  TableOK' /\ KeptOK'
  <2>1. /\ pc[t] = "idle" /\ pc' = [pc EXCEPT ![t] = "emit"]
        /\ call' = [call EXCEPT ![t] = call'[t]] /\ call'[t].answered = TRUE
        /\ UNCHANGED <<commands, since, shared>>
    BY <1>0, <1>2, CallBegins
  <2>2. /\ pc'[t] = "emit"
        /\ \A u \in Threads : u # t => call'[u] = call[u] /\ pc'[u] = pc[u]
    BY <1>0, <2>1 DEF TypeOK
  <2> QED BY <1>1, <2>1, <2>2
<1>3. ASSUME NEW t \in Threads, Lifecycle(t) PROVE TableOK' /\ KeptOK'
  <2>1. /\ pc[t] = "idle" /\ pc' = [pc EXCEPT ![t] = "emit"]
        /\ call' = [call EXCEPT ![t] = call'[t]] /\ call'[t].answered = TRUE
        /\ UNCHANGED <<commands, since, shared>>
    BY <1>0, <1>3, LifeBegins
  <2>2. /\ pc'[t] = "emit"
        /\ \A u \in Threads : u # t => call'[u] = call[u] /\ pc'[u] = pc[u]
    BY <1>0, <2>1 DEF TypeOK
  <2> QED BY <1>1, <2>1, <2>2
<1>4. ASSUME NEW t \in Threads, Correlate(t) PROVE TableOK' /\ KeptOK'
  <2>1. CASE Due(t).direction = "TX"
    BY <1>4, <2>1, Keeping
  <2>2. CASE Due(t).direction \in {"RX", "ERROR"}
    BY <1>4, <2>2, TakingOut
  <2>3. CASE Due(t).direction = "LIFE"
    <3>1. commands' = commands /\ since' = since
      BY <1>4, <2>3, TableCorrelated
    <3>2. /\ pc[t] = "emit" /\ pc' = [pc EXCEPT ![t] = "build"]
          /\ call'[t].events = call[t].events
          /\ \A u \in Threads : u # t => call'[u] = call[u]
      BY <1>0, <1>4, CallCorrelated
    <3>3. pc'[t] = "build" /\ \A u \in Threads : u # t => pc'[u] = pc[u]
      BY <1>0, <3>2 DEF TypeOK
    <3>4. \A u \in Threads : u # t => (Asked(u)' <=> Asked(u)) /\ call'[u] = call[u]
      BY <3>2, <3>3, StillAsked
    <3>5. ~Asked(t)
      BY <2>3, <3>2 DEF Asked
    <3>6. ~(Asked(t)')
      BY <2>3, <3>2, <3>3 DEF Asked, Due
    <3>7. \A u \in Threads : shared'[u] <=> shared[u]
      BY <1>0, <1>4, <2>3, SharedCorrelated
    <3>8. TableOK'
      BY <1>0, <3>1, <3>4, <3>5, TableStays
    <3>9. KeptOK'
      BY <1>0, <3>1, <3>4, <3>6, <3>7, KeptStays
    <3> QED BY <3>8, <3>9
  <2> QED BY <1>4, <2>1, <2>2, <2>3, TableCorrelated
<1>5. ASSUME NEW t \in Threads, Build(t) PROVE TableOK' /\ KeptOK'
  <2>1. /\ pc[t] = "build" /\ pc' = [pc EXCEPT ![t] = "deliver"]
        /\ UNCHANGED <<call, commands, since, shared>>
    BY <1>5 DEF Build
  <2>2. pc'[t] = "deliver" /\ \A u \in Threads : u # t => pc'[u] = pc[u]
    BY <1>0, <2>1 DEF TypeOK
  <2>3. \A u \in Threads : Asked(u)' <=> Asked(u)
    <3>1. Asked(t)' <=> Asked(t)
      BY <2>1, <2>2 DEF Asked, Due
    <3>2. \A u \in Threads : u # t => (Asked(u)' <=> Asked(u))
      BY <2>1, <2>2, StillAsked
    <3> QED BY <3>1, <3>2
  <2>4. TableOK'
    BY <1>0, <2>1, <2>3, TableStays
  <2>5. KeptOK'
    BY <1>0, <2>1, <2>3, KeptStays
  <2> QED BY <2>4, <2>5
<1>6. ASSUME NEW t \in Threads, pc[t] = "deliver", Returns(t) PROVE TableOK' /\ KeptOK'
  <2>1. \A u \in Threads : u # t => call'[u] = call[u] /\ pc'[u] = pc[u]
    BY <1>0, <1>6, CallGoesOn
  <2>2. \A u \in Threads : u # t => (Asked(u)' <=> Asked(u)) /\ call'[u] = call[u]
    BY <2>1, StillAsked
  <2>3. /\ since' = IF Tail(call[t].events) = <<>> THEN [since EXCEPT ![t] = 0] ELSE since
        /\ shared' = IF Tail(call[t].events) = <<>> THEN [shared EXCEPT ![t] = FALSE] ELSE shared
        /\ commands' = commands
    BY <1>6, OtherwiseGoesOn
  <2>4. \A u \in Threads : u # t => since'[u] = since[u] /\ (shared'[u] <=> shared[u])
    BY <1>0, <2>3 DEF TypeOK
  <2>5. TableOK'
    <3>1. Asked(t) /\ call[t].kind # "write" =>
            /\ Asked(t)'
            /\ call'[t].client = call[t].client /\ call'[t].number = call[t].number
            /\ call'[t].kind = call[t].kind
      BY <1>0, <1>6, AskedGoesOn
    <3> QED BY <1>0, <2>2, <2>3, <3>1, TableStays
  <2>6. KeptOK'
    <3>1. Asked(t)' /\ ~call'[t].answered =>
            /\ Asked(t) /\ ~call[t].answered
            /\ call'[t].client = call[t].client /\ call'[t].number = call[t].number
            /\ UNCHANGED <<since, shared>>
      BY <1>0, <1>6, AskedGoesOn
    <3>2. commands' = commands
      BY <2>3
    <3> QED BY <1>0, <2>2, <2>4, <3>1, <3>2, KeptStays
  <2> QED BY <2>5, <2>6
<1>7. CASE UNCHANGED vars
  <2>1. UNCHANGED <<call, pc, commands, since, shared>>
    BY <1>7 DEF vars
  <2>2. \A u \in Threads : Asked(u)' <=> Asked(u)
    BY <2>1 DEF Asked, Due
  <2>3. TableOK'
    BY <1>0, <2>1, <2>2, TableStays
  <2>4. KeptOK'
    BY <1>0, <2>1, <2>2, KeptStays
  <2> QED BY <2>3, <2>4
<1> QED BY <1>2, <1>3, <1>4, <1>5, <1>6, <1>7 DEF Next, Emitting, Deliver, DeliverFailed

\* An answer meets its command once it has, as long as its thread does not step.
LEMMA StillMet ==
  ASSUME AnswerMeetsItsCommand, NEW u \in Threads,
         pc'[u] = pc[u] \/ (pc[u] = "build" /\ pc'[u] = "deliver"),
         call'[u] = call[u], command'[u] = command[u], shared[u] => shared'[u],
         pc[u] # "idle" /\ since[u] = MaxCommands => since'[u] = MaxCommands
  PROVE  pc'[u] \in {"build", "deliver"} /\ Due(u)'.direction = "RX" /\ Due(u)'.data =>
           \/ command'[u] = [client |-> call'[u].client, number |-> call'[u].number]
           \/ call'[u].answered
           \/ shared'[u]
           \/ since'[u] = MaxCommands
<1> SUFFICES ASSUME pc'[u] \in {"build", "deliver"}, Due(u)'.direction = "RX", Due(u)'.data
             PROVE  \/ command'[u] = [client |-> call'[u].client, number |-> call'[u].number]
                    \/ call'[u].answered
                    \/ shared'[u]
                    \/ since'[u] = MaxCommands
  OBVIOUS
<1>1. Due(u)' = Due(u)
  BY DEF Due
<1>2. pc[u] \in {"build", "deliver"} /\ Due(u).direction = "RX" /\ Due(u).data
  BY <1>1
<1>3. \/ command[u] = [client |-> call[u].client, number |-> call[u].number]
      \/ call[u].answered
      \/ shared[u]
      \/ since[u] = MaxCommands
  BY <1>2 DEF AnswerMeetsItsCommand
<1> QED BY <1>2, <1>3

\* Every step: an answer is redacted by the command that asked for it, or is excused.
LEMMA MeetsStep ==
  ASSUME TracerInv, [Next]_vars PROVE AnswerMeetsItsCommand'
<1> DEFINE Meets(u) ==
      pc[u] \in {"build", "deliver"} /\ Due(u).direction = "RX" /\ Due(u).data =>
        \/ command[u] = [client |-> call[u].client, number |-> call[u].number]
        \/ call[u].answered
        \/ shared[u]
        \/ since[u] = MaxCommands
<1>0. TypeOK /\ CallsOK /\ AnswerMeetsItsCommand /\ KeptOK
  BY DEF TracerInv
<1>1. (\A u \in Threads : Meets(u)') => AnswerMeetsItsCommand'
  BY DEF AnswerMeetsItsCommand
<1>2. ASSUME NEW t \in Threads, NEW c \in Clients, NEW kind \in Operations, Operate(t, c, kind),
             NEW u \in Threads
      PROVE  Meets(u)'
  <2>1. /\ pc' = [pc EXCEPT ![t] = "emit"]
        /\ call' = [call EXCEPT ![t] = call'[t]]
        /\ UNCHANGED <<command, since, shared>>
    BY <1>0, <1>2, CallBegins
  <2>2. CASE u = t
    BY <1>0, <2>1, <2>2 DEF TypeOK
  <2>3. CASE u # t
    <3>1. pc'[u] = pc[u] /\ call'[u] = call[u]
      BY <1>0, <2>1, <2>3 DEF TypeOK
    <3> QED BY <1>0, <2>1, <3>1, StillMet
  <2> QED BY <2>2, <2>3
<1>3. ASSUME NEW t \in Threads, Lifecycle(t), NEW u \in Threads PROVE Meets(u)'
  <2>1. /\ pc' = [pc EXCEPT ![t] = "emit"]
        /\ call' = [call EXCEPT ![t] = call'[t]]
        /\ UNCHANGED <<command, since, shared>>
    BY <1>0, <1>3, LifeBegins
  <2>2. CASE u = t
    BY <1>0, <2>1, <2>2 DEF TypeOK
  <2>3. CASE u # t
    <3>1. pc'[u] = pc[u] /\ call'[u] = call[u]
      BY <1>0, <2>1, <2>3 DEF TypeOK
    <3> QED BY <1>0, <2>1, <3>1, StillMet
  <2> QED BY <2>2, <2>3
<1>4. ASSUME NEW t \in Threads, Correlate(t), NEW u \in Threads PROVE Meets(u)'
  <2>1. /\ pc[t] = "emit" /\ pc' = [pc EXCEPT ![t] = "build"]
        /\ call'[t].client = call[t].client /\ call'[t].number = call[t].number
        /\ call'[t].events = call[t].events
        /\ call'[t].answered = IF Due(t).direction = "TX" THEN FALSE ELSE call[t].answered
        /\ \A v \in Threads : v # t => call'[v] = call[v]
    BY <1>0, <1>4, CallCorrelated
  <2> DEFINE found == Positions(call[t].number)
             new == IF Due(t).direction = "RX" /\ found # {}
                      THEN [client |-> commands[Min(found)].client, number |-> call[t].number]
                      ELSE NoCommand
  <2>2. command' = [command EXCEPT ![t] = new]
    BY <1>4 DEF Correlate
  <2>3. CASE u = t
    <3> SUFFICES ASSUME Due(t)'.direction = "RX", ~call'[t].answered, ~shared'[t],
                        since'[t] # MaxCommands
                 PROVE  command'[t] = [client |-> call'[t].client, number |-> call'[t].number]
      BY <2>3
    <3>1. Due(t).direction = "RX"
      BY <2>1 DEF Due
    <3>2. Asked(t) /\ since' = since
      BY <1>4, <2>1, <3>1, TableCorrelated DEF Asked
    <3>3. ~call[t].answered /\ ~shared[t]
      BY <1>0, <1>4, <2>1, <3>1, SharedCorrelated
    <3>4. since[t] < MaxCommands
      <4>1. since[t] \in 0 .. MaxCommands /\ MaxCommands \in Nat
        BY <1>0, TracingAssumption DEF TypeOK
      <4> QED BY <3>2, <4>1
    <3>5. PICK i \in DOMAIN commands :
            commands[i].client = call[t].client /\ commands[i].number = call[t].number
      BY <1>0, <3>2, <3>3, <3>4 DEF KeptOK
    <3>6. commands \in Seq(Commands) /\ Unique(commands) /\ call[t].number \in Nat
      BY <1>0, <1>4, TableCorrelated DEF TypeOK
    <3>7. DOMAIN commands = 1 .. Len(commands)
      BY <3>6
    <3>8. Min(found) = i /\ found # {}
      BY <3>5, <3>6, <3>7, PositionsOf
    <3>9. new = [client |-> call[t].client, number |-> call[t].number]
      BY <3>1, <3>5, <3>8
    <3> HIDE DEF new
    <3>10. command'[t] = new
      BY <1>0, <2>2 DEF TypeOK
    <3> QED BY <2>1, <3>9, <3>10
  <2>4. CASE u # t
    <3> HIDE DEF new
    <3>1. pc'[u] = pc[u] /\ command'[u] = command[u] /\ call'[u] = call[u]
      BY <1>0, <2>1, <2>2, <2>4 DEF TypeOK
    <3>2. shared[u] => shared'[u]
      BY <1>0, <1>4, SharedCorrelated
    <3>3. pc[u] # "idle" /\ since[u] = MaxCommands => since'[u] = MaxCommands
      <4>1. MaxCommands \in Nat
        BY TracingAssumption
      <4>2. CASE Due(t).direction = "TX"
        <5>1. since'[u] = IF u = t \/ pc[u] = "idle" THEN 0
                          ELSE IF since[u] + 1 <= MaxCommands THEN since[u] + 1 ELSE MaxCommands
          BY <1>4, <4>2, TableCorrelated
        <5> QED BY <2>4, <4>1, <5>1
      <4>3. CASE Due(t).direction # "TX"
        BY <1>4, <4>3, TableCorrelated
      <4> QED BY <4>2, <4>3
    <3> QED BY <1>0, <3>1, <3>2, <3>3, StillMet
  <2> QED BY <2>3, <2>4
<1>5. ASSUME NEW t \in Threads, Build(t), NEW u \in Threads PROVE Meets(u)'
  <2>1. /\ pc[t] = "build" /\ pc' = [pc EXCEPT ![t] = "deliver"]
        /\ UNCHANGED <<call, command, since, shared>>
    BY <1>5 DEF Build
  <2>2. pc'[u] = pc[u] \/ (pc[u] = "build" /\ pc'[u] = "deliver")
    BY <1>0, <2>1 DEF TypeOK
  <2> QED BY <1>0, <2>1, <2>2, StillMet
<1>6. ASSUME NEW t \in Threads, pc[t] = "deliver", Returns(t), NEW u \in Threads PROVE Meets(u)'
  <2>1. /\ \A v \in Threads : v # t => call'[v] = call[v] /\ pc'[v] = pc[v]
        /\ pc'[t] \in {"idle", "emit"}
    BY <1>0, <1>6, CallGoesOn, AskedGoesOn
  <2>2. /\ command' = [command EXCEPT ![t] = NoCommand]
        /\ since' = IF Tail(call[t].events) = <<>> THEN [since EXCEPT ![t] = 0] ELSE since
        /\ shared' = IF Tail(call[t].events) = <<>> THEN [shared EXCEPT ![t] = FALSE] ELSE shared
    BY <1>6, OtherwiseGoesOn
  <2>3. CASE u = t
    BY <2>1, <2>3
  <2>4. CASE u # t
    <3>1. command'[u] = command[u] /\ since'[u] = since[u] /\ (shared'[u] <=> shared[u])
      BY <1>0, <2>2, <2>4 DEF TypeOK
    <3> QED BY <1>0, <2>1, <2>4, <3>1, StillMet
  <2> QED BY <2>3, <2>4
<1>7. ASSUME UNCHANGED vars, NEW u \in Threads PROVE Meets(u)'
  <2>1. UNCHANGED <<call, pc, command, since, shared>>
    BY <1>7 DEF vars
  <2> QED BY <1>0, <2>1, StillMet
<1> QED BY <1>1, <1>2, <1>3, <1>4, <1>5, <1>6, <1>7 DEF Next, Emitting, Deliver, DeliverFailed

------------------------------------------------------------------------------
\* The invariant holds at the beginning.
LEMMA TracerInit == Init => TracerInv
<1> SUFFICES ASSUME Init PROVE TracerInv
  OBVIOUS
<1>1. NoCall \in [client : Clients \cup {NoThread}, number : Nat, kind : Kinds,
                  events : Seq(Emits), answered : BOOLEAN]
  BY DEF NoCall, Kinds
<1>2. /\ NoCommand \in [client : Clients \cup {NoThread}, number : Nat]
      /\ NoEvent \in [sequence : Nat, client : Clients \cup {NoThread}, number : Nat]
  BY DEF NoCommand, NoEvent
<1>3. <<>> \in Seq(Commands) /\ MaxCommands \in Nat \ {0}
  BY TracingAssumption
<1>4. TypeOK
  BY <1>1, <1>2, <1>3 DEF Init, TypeOK
<1>5. CallsOK
  <2>1. WellFormed(NoCall.kind, NoCall.events) /\ NoCall.number = 0 /\ Len(NoCall.events) = 0
    BY DEF NoCall, WellFormed
  <2> SUFFICES ASSUME NEW t \in Threads PROVE CallOK(t)
    BY DEF CallsOK
  <2>2. call[t] = NoCall /\ pc[t] = "idle"
    BY DEF Init
  <2> QED BY <2>1, <2>2 DEF CallOK
<1>6. InFlight = {}
  BY DEF Init, InFlight
<1>7. IsFiniteSet(InFlight) /\ NoSilentLoss
  BY <1>6, FS_EmptySet DEF Init, NoSilentLoss
<1>8. EventsOK
  BY <1>6 DEF Init, EventsOK
<1>9. TableOK
  <2>1. commands = <<>> /\ Len(commands) = 0 /\ DOMAIN commands = {}
    BY DEF Init
  <2> QED BY <1>3, <2>1 DEF TableOK
<1>10. KeptOK /\ AnswerMeetsItsCommand
  BY DEF Init, KeptOK, Asked, AnswerMeetsItsCommand
<1> QED BY <1>4, <1>5, <1>7, <1>8, <1>9, <1>10 DEF TracerInv

\* The inductive invariant of the tracer.
THEOREM TracerInvariant == Spec => []TracerInv
<1>1. TracerInv /\ [Next]_vars => TracerInv'
  BY TypeStep, CallsStep, LossStep, TableStep, MeetsStep DEF TracerInv
<1> QED BY <1>1, TracerInit, PTL DEF Spec

\* Every number handed out belongs to an event the observer took, to one that was counted as
\* lost or to one on its way, and those on their way have different numbers.
THEOREM TracerLosesNothingSilently == Spec => []NoSilentLoss
<1>1. TracerInv => NoSilentLoss
  BY DEF TracerInv
<1> QED BY <1>1, TracerInvariant, PTL

\* An answer is redacted by the command that asked for it, but for the exceptions named.
THEOREM TracerAnswersMeetCommands == Spec => []AnswerMeetsItsCommand
<1>1. TracerInv => AnswerMeetsItsCommand
  BY DEF TracerInv
<1> QED BY <1>1, TracerInvariant, PTL

\* The table of commands is bounded, has one entry for an operation id, and keeps a command
\* that expects an answer only as long as its operation lasts, failed operations included.
THEOREM TracerCommandsAreAwaited == Spec => []CommandsAreAwaited
<1>1. TracerInv => CommandsAreAwaited
  <2> SUFFICES ASSUME TracerInv PROVE CommandsAreAwaited
    OBVIOUS
  <2>1. TableOK /\ commands \in Seq(Commands) /\ DOMAIN commands = 1 .. Len(commands)
    BY DEF TracerInv, TypeOK
  <2>2. Len(commands) <= MaxCommands
    BY <2>1 DEF TableOK
  <2>3. ASSUME NEW i \in DOMAIN commands PROVE Positions(commands[i].number) = {i}
    BY <2>1 DEF TableOK, Positions
  <2>4. ASSUME NEW i \in DOMAIN commands PROVE Awaited(commands[i])
    BY <2>1 DEF TableOK, Awaited
  <2> QED BY <2>2, <2>3, <2>4 DEF CommandsAreAwaited
<1> QED BY <1>1, TracerInvariant, PTL

\* The observer gets the events of one client in the order of its operations, because the
\* client's lock is held until the events of an operation are delivered.
THEOREM TracerKeepsClientOrder == Spec => ClientOrder
<1>1. ASSUME TracerInv, Next PROVE \A c \in Clients : latest'[c] >= latest[c]
  <2> SUFFICES ASSUME NEW c \in Clients PROVE latest'[c] >= latest[c]
    OBVIOUS
  <2>0. /\ TypeOK /\ CallsOK /\ EventsOK /\ latest[c] \in Nat /\ counter[c] \in Nat
        /\ latest[c] <= counter[c]
    BY <1>1 DEF TracerInv, TypeOK, EventsOK
  <2>1. CASE latest' = latest
    BY <2>0, <2>1
  <2>2. ASSUME NEW t \in Threads, pc[t] = "deliver", event[t].number # 0,
               latest' = [latest EXCEPT ![event[t].client] = event[t].number]
        PROVE  latest'[c] >= latest[c]
    <3>1. event[t].client = call[t].client /\ event[t].number = call[t].number
      BY <2>0, <2>2 DEF EventsOK, InFlight
    <3>2. call[t].client \in Clients /\ call[t].number = counter[call[t].client]
      BY <2>0, <2>2, <3>1, LastHandedOut
    <3>3. latest'[c] = IF c = call[t].client THEN counter[c] ELSE latest[c]
      BY <2>0, <2>2, <3>1, <3>2 DEF TypeOK
    <3> QED BY <2>0, <3>3
  <2>3. \/ latest' = latest
        \/ \E t \in Threads :
             /\ pc[t] = "deliver" /\ event[t].number # 0
             /\ latest' = [latest EXCEPT ![event[t].client] = event[t].number]
    <3>1. ASSUME NEW t \in Threads, NEW d \in Clients, NEW kind \in Operations, Operate(t, d, kind)
          PROVE  latest' = latest
      BY <3>1 DEF Operate
    <3>2. ASSUME NEW t \in Threads, Lifecycle(t) \/ Correlate(t) \/ Build(t) \/ DeliverFailed(t)
          PROVE  latest' = latest
      BY <3>2 DEF Lifecycle, Correlate, Build, DeliverFailed
    <3>3. ASSUME NEW t \in Threads, Deliver(t)
          PROVE  \/ latest' = latest
                 \/ /\ pc[t] = "deliver" /\ event[t].number # 0
                    /\ latest' = [latest EXCEPT ![event[t].client] = event[t].number]
      BY <3>3 DEF Deliver
    <3> QED BY <1>1, <3>1, <3>2, <3>3 DEF Next, Emitting
  <2> QED BY <2>1, <2>2, <2>3
<1>2. TracerInv /\ [Next]_vars => [\A c \in Clients : latest'[c] >= latest[c]]_vars
  BY <1>1
<1> QED BY <1>2, TracerInvariant, PTL DEF Spec, ClientOrder

==============================================================================
