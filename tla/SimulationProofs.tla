--------------------------- MODULE SimulationProofs ----------------------------
(*******************************************************************************)
(* Proofs about Simulation, for any set of scripts, replies and requests and any  *)
(* value of the bounds.                                                          *)
(*                                                                               *)
(* SimulationInv is inductive.  Every operation of MockTransport and of            *)
(* ScriptedTransport is shown to keep what it says of a mock (SoundMock: the       *)
(* receive buffer is harmless to the exchanges that failed; Owned: whose failure   *)
(* is armed) and of an instrument (SoundInst: its histories, and the exchanges     *)
(* whose replies may be due).  An exchange that raises drops the connection and    *)
(* all replies that are due (Dropped); what is delivered afterwards is late, or    *)
(* belongs to an exchange that may still be answered.                             *)
(*                                                                               *)
(* HistoryInv adds what the histories say.  It rests on the parser: ParserReads,   *)
(* for every message the tests may write, says which parts the parser reads, by    *)
(* showing where each command stands in the stream, that the scan and the split    *)
(* stop there and nowhere else, and that the completed headers are those meant.    *)
(* The histories are told (Told) when they hold those parts, up to the handler     *)
(* that raised; only a write and an exchange tell more (ServeAllTells), and        *)
(* everything else keeps them (Keeps).                                             *)
(*                                                                               *)
(* The recursive functions of the parser are reasoned about with sets of           *)
(* indices: Induction says that a set that holds 0, and k if it holds k - 1,       *)
(* holds all of 0..n, and Iteration, that such a function has a value.             *)
(*******************************************************************************)
EXTENDS Simulation, FiniteSetTheorems, SequenceTheorems, WellFoundedInduction, TLAPS

------------------------------------------------------------------------------
\* The order of the naturals, in the form the library's induction theorem takes.
LEMMA NatWellFounded == IsWellFoundedOn({p \in Nat \X Nat : p[1] < p[2]}, Nat)
<1>1. OpToRel(<, Nat) = {p \in Nat \X Nat : p[1] < p[2]}
  BY DEF OpToRel
<1> QED BY <1>1, NatLessThanWellFounded

\* A set of natural numbers has a least one.
LEMMA Least ==
  ASSUME NEW S, S \subseteq Nat, S # {}
  PROVE  \E x \in S : \A y \in S : x <= y
<1> DEFINE R == {p \in Nat \X Nat : p[1] < p[2]}
<1>1. IsWellFoundedOn(R, Nat)
  BY NatWellFounded
<1> HIDE DEF R
<1>2. PICK x \in S : \A y \in S : <<y, x>> \notin R
  BY <1>1, WFMin
<1>3. \A y \in S : ~(y < x)
  BY <1>2 DEF R
<1> QED BY <1>3

\* Induction, for a set of numbers instead of a predicate.
LEMMA Induction ==
  ASSUME NEW n \in Nat, NEW S, 0 \in S, \A k \in 1..n : k - 1 \in S => k \in S
  PROVE  \A k \in 0..n : k \in S
<1> DEFINE T == (0..n) \ S
<1> SUFFICES ASSUME T # {} PROVE FALSE
  OBVIOUS
<1>1. PICK x \in T : \A y \in T : x <= y
  <2>1. T \subseteq Nat
    OBVIOUS
  <2> HIDE DEF T
  <2> QED BY <2>1, Least
<1>2. x \in 1..n /\ x - 1 \in 0..n
  OBVIOUS
<1>3. x - 1 \in S
  BY <1>1, <1>2
<1> QED BY <1>2, <1>3

\* What a recursive function is built from: a value of D for every step.
Iterable(D, a, n, g) ==
  \E h \in [0..n -> D] : h[0] = a /\ \A k \in 1..n : h[k] = g[k][h[k - 1]]

\* The recursive function whose step k applies g[k] has a value at every k of 0..n, in D,
\* and satisfies its equations.
LEMMA Iteration ==
  ASSUME NEW D, NEW a \in D, NEW n \in Nat, NEW g \in [1..n -> [D -> D]]
  PROVE  Iterable(D, a, n, g)
<1> DEFINE Attempt(p, m) == /\ p \in [0..m -> D]
                            /\ p[0] = a
                            /\ \A k \in 1..m : p[k] = g[k][p[k - 1]]
           S == {m \in 0..n : \E p : Attempt(p, m)}
<1>1. 0 \in S
  <2> DEFINE p == [k \in 0..0 |-> a]
  <2>1. p \in [0..0 -> D] /\ p[0] = a /\ \A k \in 1..0 : p[k] = g[k][p[k - 1]]
    OBVIOUS
  <2> HIDE DEF p
  <2>2. Attempt(p, 0)
    BY <2>1
  <2>3. \E q : Attempt(q, 0)
    BY <2>2
  <2> HIDE DEF Attempt
  <2> QED BY <2>3
<1>2. ASSUME NEW m \in 1..n, m - 1 \in S PROVE m \in S
  <2>1. PICK p : Attempt(p, m - 1)
    BY <1>2
  <2> DEFINE q == [k \in 0..m |-> IF k = m THEN g[m][p[m - 1]] ELSE p[k]]
  <2>2. p[m - 1] \in D /\ g[m][p[m - 1]] \in D
    BY <2>1
  <2>3. q \in [0..m -> D]
    BY <2>1, <2>2
  <2>4. q[0] = a
    BY <2>1
  <2>5. \A k \in 1..m : q[k] = g[k][q[k - 1]]
    <3> SUFFICES ASSUME NEW k \in 1..m PROVE q[k] = g[k][q[k - 1]]
      OBVIOUS
    <3>1. k - 1 \in 0..m /\ q[k - 1] = p[k - 1]
      OBVIOUS
    <3>2. CASE k = m
      BY <3>1, <3>2
    <3>3. CASE k # m
      <4>1. k \in 1..(m - 1) /\ q[k] = p[k]
        BY <3>3
      <4> QED BY <2>1, <3>1, <4>1
    <3> QED BY <3>2, <3>3
  <2> HIDE DEF q
  <2> QED BY <2>3, <2>4, <2>5
<1>3. n \in S
  <2>1. \A m \in 1..n : m - 1 \in S => m \in S
    BY <1>2
  <2> HIDE DEF S
  <2>2. \A k \in 0..n : k \in S
    BY <1>1, <2>1, Induction
  <2> QED BY <2>2
<1> QED BY <1>3 DEF Iterable

\* What a recursive function never leaves.
LEMMA Kept ==
  ASSUME NEW n \in Nat, NEW f, NEW D, f[0] \in D, \A k \in 1..n : f[k - 1] \in D => f[k] \in D
  PROVE  \A k \in 0..n : f[k] \in D
<1> DEFINE S == {k \in 0..n : f[k] \in D}
<1>1. 0 \in S /\ \A k \in 1..n : k - 1 \in S => k \in S
  OBVIOUS
<1>2. \A k \in 0..n : k \in S
  <2> HIDE DEF S
  <2> QED BY <1>1, Induction
<1> QED BY <1>2

------------------------------------------------------------------------------
\* The least and the greatest.

\* The least element of a set of naturals.
LEMMA MinFacts ==
  ASSUME NEW S, S \subseteq Nat, S # {}
  PROVE  Min(S) \in S /\ \A y \in S : Min(S) <= y
BY Least DEF Min

\* The greatest element of a set of naturals that is bounded.
LEMMA MaxFacts ==
  ASSUME NEW n \in Nat, NEW S, S \subseteq 0..n, S # {}
  PROVE  Max(S) \in S /\ \A y \in S : Max(S) >= y
<1> DEFINE T == {n - x : x \in S}
<1>1. T \subseteq Nat /\ T # {}
  OBVIOUS
<1>2. PICK z \in T : \A y \in T : z <= y
  <2> HIDE DEF T
  <2> QED BY <1>1, Least
<1>3. PICK x \in S : z = n - x
  BY <1>2
<1>4. ASSUME NEW y \in S PROVE x >= y
  <2>1. n - y \in T
    OBVIOUS
  <2>2. z <= n - y
    BY <1>2, <2>1
  <2> QED BY <1>3, <2>2
<1>5. \E w \in S : \A y \in S : w >= y
  BY <1>4
<1> QED BY <1>5 DEF Max

------------------------------------------------------------------------------
\* FlattenSeq: its recursion, its type, and what one sequence more adds.

\* The folds that FlattenSeq is made of, one part at a time.
LEMMA Flattening ==
  ASSUME NEW S, NEW s \in Seq(Seq(S))
  PROVE  \E h \in [0..Len(s) -> Seq(S)] :
           /\ h[0] = <<>>
           /\ \A k \in 1..Len(s) : h[k] = h[k - 1] \o s[k]
           /\ FlattenSeq(s) = h[Len(s)]
<1> DEFINE n == Len(s)
           g == [k \in 1..n |-> [x \in Seq(S) |-> x \o s[k]]]
           F(f) == [i \in 1..n |-> IF i = 1 THEN s[i] ELSE f[i - 1] \o s[i]]
<1>1. n \in Nat /\ <<>> \in Seq(S) /\ \A k \in 1..n : s[k] \in Seq(S)
  OBVIOUS
<1>2. g \in [1..n -> [Seq(S) -> Seq(S)]]
  BY <1>1
<1>3. PICK h \in [0..n -> Seq(S)] : h[0] = <<>> /\ \A k \in 1..n : h[k] = g[k][h[k - 1]]
  <2> DEFINE D == Seq(S)
             a == <<>>
  <2>1. a \in D /\ n \in Nat /\ g \in [1..n -> [D -> D]]
    BY <1>1, <1>2
  <2> HIDE DEF g, n, D, a
  <2>2. Iterable(D, a, n, g)
    BY <2>1, Iteration
  <2> QED BY <2>2 DEF Iterable, D, a
<1>4. \A k \in 1..n : h[k - 1] \in Seq(S) /\ h[k] = h[k - 1] \o s[k]
  <2> SUFFICES ASSUME NEW k \in 1..n PROVE h[k - 1] \in Seq(S) /\ h[k] = h[k - 1] \o s[k]
    OBVIOUS
  <2> HIDE DEF n
  <2>3. k - 1 \in 0..n
    BY <1>1
  <2>1. h[k - 1] \in Seq(S)
    BY <2>3
  <2>2. g[k][h[k - 1]] = h[k - 1] \o s[k]
    BY <2>1
  <2> HIDE DEF g
  <2> QED BY <1>3, <2>1, <2>2
<1>5. CASE n = 0
  <2>1. FlattenSeq(s) = s
    BY <1>5 DEF FlattenSeq
  <2>2. s = <<>>
    BY <1>5
  <2> QED BY <1>3, <1>4, <1>5, <2>1, <2>2
<1>6. CASE n # 0
  <2> DEFINE r == [i \in 1..n |-> h[i]]
  <2>1. r = F(r)
    <3>1. ASSUME NEW i \in 1..n PROVE r[i] = F(r)[i]
      <4>1. CASE i = 1
        <5>1. h[1] = h[0] \o s[1]
          <6>1. 1 \in 1..n /\ 1 - 1 = 0
            BY <4>1
          <6> HIDE DEF n
          <6> QED BY <1>4, <6>1
        <5>2. <<>> \o s[1] = s[1]
          BY <1>1, <4>1, ConcatEmptySeq
        <5> QED BY <1>3, <4>1, <5>1, <5>2
      <4>2. CASE i # 1
        <5>1. i - 1 \in 1..n /\ r[i - 1] = h[i - 1]
          BY <1>1, <4>2
        <5> QED BY <1>4, <4>2, <5>1
      <4> QED BY <4>1, <4>2
    <3> HIDE DEF F
    <3>2. DOMAIN F(r) = 1..n /\ F(r) = [i \in 1..n |-> F(r)[i]]
      BY DEF F
    <3> QED BY <3>1, <3>2
  <2> DEFINE c == CHOOSE f : f = F(f)
  <2>2. FlattenSeq(s) = c[n]
    BY <1>6 DEF FlattenSeq
  <2>3. c = F(c)
    <3> HIDE DEF F, r
    <3> QED BY <2>1
  <2>4. \A k \in 0..n : k \in {i \in 0..n : i = 0 \/ c[i] = h[i]}
    <3> HIDE DEF c
    <3> DEFINE T == {i \in 0..n : i = 0 \/ c[i] = h[i]}
    <3>1. 0 \in T
      BY <1>1
    <3>2. \A k \in 1..n : k - 1 \in T => k \in T
      <4> SUFFICES ASSUME NEW k \in 1..n, k - 1 \in T PROVE c[k] = h[k]
        OBVIOUS
      <4> HIDE DEF c
      <4>1. c[k] = IF k = 1 THEN s[k] ELSE c[k - 1] \o s[k]
        BY <2>3
      <4>2. CASE k = 1
        <5>1. <<>> \o s[1] = s[1]
          BY <1>1, <4>2, ConcatEmptySeq
        <5>2. h[1] = h[0] \o s[1]
          <6>1. 1 \in 1..n /\ 1 - 1 = 0
            BY <4>2
          <6> HIDE DEF n
          <6> QED BY <1>4, <6>1
        <5> QED BY <1>3, <4>1, <4>2, <5>1, <5>2
      <4>3. CASE k # 1
        <5>1. c[k - 1] = h[k - 1]
          BY <4>3
        <5> QED BY <1>4, <4>1, <4>3, <5>1
      <4> QED BY <4>2, <4>3
    <3> HIDE DEF T
    <3>3. \A k \in 0..n : k \in T
      BY <1>1, <3>1, <3>2, Induction
    <3> QED BY <3>3 DEF T
  <2>5. c[n] = h[n]
    <3> HIDE DEF c
    <3> QED BY <1>1, <1>6, <2>4
  <2> HIDE DEF c
  <2> QED BY <1>3, <1>4, <2>2, <2>5
<1> QED BY <1>5, <1>6

\* The parts of a stream joined are a stream.
LEMMA FlattenType ==
  ASSUME NEW S, NEW s \in Seq(Seq(S))
  PROVE  FlattenSeq(s) \in Seq(S)
<1>1. PICK h \in [0..Len(s) -> Seq(S)] : FlattenSeq(s) = h[Len(s)]
  BY Flattening
<1>2. Len(s) \in 0..Len(s)
  OBVIOUS
<1> QED BY <1>1, <1>2

\* No parts, no bytes.
LEMMA FlattenEmpty == FlattenSeq(<<>>) = <<>>
BY DEF FlattenSeq

\* A part that is appended comes last in the stream.
LEMMA FlattenAppend ==
  ASSUME NEW S, NEW s \in Seq(Seq(S)), NEW x \in Seq(S)
  PROVE  FlattenSeq(Append(s, x)) = FlattenSeq(s) \o x
<1> DEFINE t == Append(s, x)
           n == Len(s)
<1>1. /\ t \in Seq(Seq(S)) /\ n \in Nat /\ Len(t) = n + 1
      /\ \A k \in 1..n : t[k] = s[k]
      /\ t[n + 1] = x
  BY AppendProperties
<1> HIDE DEF t
<1>2. PICK h \in [0..n -> Seq(S)] : /\ h[0] = <<>>
                                    /\ \A k \in 1..n : h[k] = h[k - 1] \o s[k]
                                    /\ FlattenSeq(s) = h[n]
  BY Flattening
<1>3. PICK g \in [0..(n + 1) -> Seq(S)] :
                                    /\ g[0] = <<>>
                                    /\ \A k \in 1..(n + 1) : g[k] = g[k - 1] \o t[k]
                                    /\ FlattenSeq(t) = g[n + 1]
  <2>1. \E g \in [0..Len(t) -> Seq(S)] :
                                    /\ g[0] = <<>>
                                    /\ \A k \in 1..Len(t) : g[k] = g[k - 1] \o t[k]
                                    /\ FlattenSeq(t) = g[Len(t)]
    BY <1>1, Flattening
  <2> QED BY <1>1, <2>1
<1>4. \A k \in 0..n : k \in {i \in 0..n : g[i] = h[i]}
  <2> DEFINE T == {i \in 0..n : g[i] = h[i]}
  <2>1. 0 \in T
    BY <1>1, <1>2, <1>3
  <2>2. \A k \in 1..n : k - 1 \in T => k \in T
    <3> SUFFICES ASSUME NEW k \in 1..n, k - 1 \in T PROVE g[k] = h[k]
      BY <1>1
    <3>2. k \in 1..(n + 1)
      BY <1>1
    <3> HIDE DEF n
    <3>1. g[k] = g[k - 1] \o t[k] /\ t[k] = s[k] /\ h[k] = h[k - 1] \o s[k]
      BY <1>1, <1>2, <1>3, <3>2, Zenon
    <3> QED BY <3>1
  <2> HIDE DEF T, n
  <2>3. \A k \in 0..n : k \in T
    BY <1>1, <2>1, <2>2, Induction
  <2> QED BY <2>3 DEF T
<1>5. g[n + 1] = g[n] \o t[n + 1] /\ g[n] = h[n]
  <2>1. n + 1 \in 1..(n + 1) /\ (n + 1) - 1 = n /\ n \in 0..n
    BY <1>1
  <2> QED BY <1>3, <1>4, <2>1
<1>6. FlattenSeq(t) = FlattenSeq(s) \o x
  <2>1. t[n + 1] = x
    BY <1>1, Zenon
  <2>2. FlattenSeq(s) = h[n]
    BY <1>2, Zenon
  <2>3. FlattenSeq(t) = g[n + 1]
    BY <1>3, Zenon
  <2> QED BY <1>5, <2>1, <2>2, <2>3, Zenon
<1> QED BY <1>6 DEF t

\* The bytes of the first k sequences: nothing, and with each its own.
LEMMA PrefixBytes ==
  ASSUME NEW S, NEW s \in Seq(Seq(S)), NEW m \in 1..(Len(s) + 1)
  PROVE  /\ Len(FlattenSeq(SubSeq(s, m, m - 1))) = 0
         /\ \A k \in m..Len(s) :
              /\ FlattenSeq(SubSeq(s, m, k)) = FlattenSeq(SubSeq(s, m, k - 1)) \o s[k]
              /\ Len(FlattenSeq(SubSeq(s, m, k))) = Len(FlattenSeq(SubSeq(s, m, k - 1))) + Len(s[k])
         /\ \A k \in (m - 1)..Len(s) : /\ FlattenSeq(SubSeq(s, m, k)) \in Seq(S)
                                       /\ SubSeq(s, m, k) \in Seq(Seq(S))
<1>1. SubSeq(s, m, m - 1) = <<>>
  OBVIOUS
<1>2. ASSUME NEW k \in (m - 1)..Len(s)
      PROVE  SubSeq(s, m, k) \in Seq(Seq(S)) /\ FlattenSeq(SubSeq(s, m, k)) \in Seq(S)
  <2>1. SubSeq(s, m, k) \in Seq(Seq(S))
    <3>1. \A i \in m..k : s[i] \in Seq(S)
      OBVIOUS
    <3> QED BY <3>1, SubSeqProperties
  <2> QED BY <2>1, FlattenType
<1>3. ASSUME NEW k \in m..Len(s)
      PROVE  /\ FlattenSeq(SubSeq(s, m, k)) = FlattenSeq(SubSeq(s, m, k - 1)) \o s[k]
             /\ Len(FlattenSeq(SubSeq(s, m, k))) = Len(FlattenSeq(SubSeq(s, m, k - 1))) + Len(s[k])
  <2>1. k - 1 \in (m - 1)..Len(s) /\ s[k] \in Seq(S)
    OBVIOUS
  <2>2. SubSeq(s, m, k) = Append(SubSeq(s, m, k - 1), s[k])
    <3>1. m \in 1..Len(s) /\ k \in m..Len(s)
      OBVIOUS
    <3>2. SubSeq(s, m, k) = SubSeq(s, m, k - 1) \o <<s[k]>>
      BY <3>1, SubSeqRecursiveSecond
    <3>3. Append(SubSeq(s, m, k - 1), s[k]) = SubSeq(s, m, k - 1) \o <<s[k]>>
      BY <1>2, <2>1, AppendIsConcat
    <3> QED BY <3>2, <3>3
  <2>3. FlattenSeq(SubSeq(s, m, k)) = FlattenSeq(SubSeq(s, m, k - 1)) \o s[k]
    BY <1>2, <2>1, <2>2, FlattenAppend
  <2>4. FlattenSeq(SubSeq(s, m, k - 1)) \in Seq(S)
    BY <1>2, <2>1
  <2>5. Len(FlattenSeq(SubSeq(s, m, k - 1)) \o s[k]) = Len(FlattenSeq(SubSeq(s, m, k - 1))) + Len(s[k])
    BY <2>1, <2>4, ConcatProperties
  <2> QED BY <2>3, <2>5, Zenon
<1>4. Len(FlattenSeq(SubSeq(s, m, m - 1))) = 0
  <2>1. FlattenSeq(SubSeq(s, m, m - 1)) = <<>>
    BY <1>1, FlattenEmpty, Zenon
  <2>2. Len(<<>>) = 0
    OBVIOUS
  <2> QED BY <2>1, <2>2, Zenon
<1> QED BY <1>2, <1>3, <1>4

\* Cutting a sequence of sequences loses no byte.
LEMMA BytesOfCut ==
  ASSUME NEW S, NEW s \in Seq(Seq(S)), NEW k \in 0..Len(s)
  PROVE  Len(FlattenSeq(s)) =
           Len(FlattenSeq(SubSeq(s, 1, k))) + Len(FlattenSeq(SubSeq(s, k + 1, Len(s))))
<1> DEFINE n == Len(s)
           Size(a, b) == Len(FlattenSeq(SubSeq(s, a, b)))
           T == {j \in 0..(n - k) : Size(1, k + j) = Size(1, k) + Size(k + 1, k + j)}
<1>1. n \in Nat /\ k \in Nat /\ k + 1 \in 1..(n + 1) /\ 1 \in 1..(n + 1) /\ n - k \in Nat
  OBVIOUS
<1>2. Size(1, k) \in Nat
  <2>1. k \in (1 - 1)..Len(s)
    BY <1>1
  <2>2. FlattenSeq(SubSeq(s, 1, k)) \in Seq(S)
    BY <1>1, <2>1, PrefixBytes
  <2> QED BY <2>2
<1>3. 0 \in T
  <2>1. Size(k + 1, (k + 1) - 1) = 0
    BY <1>1, PrefixBytes
  <2> QED BY <1>1, <1>2, <2>1
<1>4. \A j \in 1..(n - k) : j - 1 \in T => j \in T
  <2> SUFFICES ASSUME NEW j \in 1..(n - k), j - 1 \in T
               PROVE  Size(1, k + j) = Size(1, k) + Size(k + 1, k + j)
    BY <1>1
  <2>1. k + j \in 1..n /\ k + j \in (k + 1)..n /\ k + (j - 1) = (k + j) - 1
    BY <1>1
  <2>2. Size(1, k + j) = Size(1, (k + j) - 1) + Len(s[k + j])
    BY <1>1, <2>1, PrefixBytes
  <2>3. Size(k + 1, k + j) = Size(k + 1, (k + j) - 1) + Len(s[k + j])
    BY <1>1, <2>1, PrefixBytes
  <2>4. Size(k + 1, (k + j) - 1) \in Nat /\ Size(1, (k + j) - 1) \in Nat /\ Len(s[k + j]) \in Nat
    <3>1. (k + j) - 1 \in ((k + 1) - 1)..n /\ (k + j) - 1 \in (1 - 1)..n
      BY <2>1
    <3>2. FlattenSeq(SubSeq(s, k + 1, (k + j) - 1)) \in Seq(S)
      BY <1>1, <3>1, PrefixBytes
    <3>3. FlattenSeq(SubSeq(s, 1, (k + j) - 1)) \in Seq(S)
      BY <1>1, <3>1, PrefixBytes
    <3> QED BY <2>1, <3>2, <3>3
  <2>5. Size(1, (k + j) - 1) = Size(1, k) + Size(k + 1, (k + j) - 1)
    BY <2>1
  <2> HIDE DEF Size
  <2> QED BY <1>2, <2>2, <2>3, <2>4, <2>5
<1>5. n - k \in T
  <2> DEFINE m == n - k
  <2>1. m \in Nat /\ \A j \in 1..m : j - 1 \in T => j \in T
    BY <1>1, <1>4
  <2> HIDE DEF T, n, m
  <2>2. \A j \in 0..m : j \in T
    BY <1>3, <2>1, Induction
  <2> QED BY <2>1, <2>2 DEF m
<1>6. k + (n - k) = n /\ SubSeq(s, 1, n) = s
  BY SubSeqFull
<1>7. Size(1, k + (n - k)) = Size(1, k) + Size(k + 1, k + (n - k))
  BY <1>5
<1> QED BY <1>6, <1>7, Zenon
------------------------------------------------------------------------------
\* Digits, numbers and blocks.

\* The decimal digits and their values.
LEMMA DigitValue ==
  /\ \A v \in 1..10 : /\ Digit[v] \in Characters
                      /\ IsDigit(Digit[v])
                      /\ Value(Digit[v]) = v - 1
                      /\ Digit[v] = "0" <=> v = 1
  /\ \A c : IsDigit(c) => Value(c) \in 0..9
<1>1. \A v \in 1..10 : Digit[v] \in Characters /\ (Digit[v] = "0" <=> v = 1)
  <2>1. \A v \in 1..10 : \/ v = 1 \/ v = 2 \/ v = 3 \/ v = 4 \/ v = 5
                        \/ v = 6 \/ v = 7 \/ v = 8 \/ v = 9 \/ v = 10
    OBVIOUS
  <2>2. /\ Digit[1] = "0" /\ Digit[2] = "1" /\ Digit[3] = "2" /\ Digit[4] = "3" /\ Digit[5] = "4"
        /\ Digit[6] = "5" /\ Digit[7] = "6" /\ Digit[8] = "7" /\ Digit[9] = "8" /\ Digit[10] = "9"
    BY DEF Digit
  <2> SUFFICES ASSUME NEW v \in 1..10 PROVE Digit[v] \in Characters /\ (Digit[v] = "0" <=> v = 1)
    OBVIOUS
  <2>3. Digit[v] \in Characters
    BY SimulationAssumption
  <2>4. Digit[v] = "0" => v = 1
    BY <2>1, <2>2
  <2> QED BY <2>2, <2>3, <2>4
<1>2. \A v, u \in 1..10 : Digit[v] = Digit[u] => v = u
  BY DEF Digit
<1>3. ASSUME NEW c, IsDigit(c) PROVE Value(c) \in 0..9 /\ Digit[Value(c) + 1] = c
  <2> DEFINE x == CHOOSE v \in 1..10 : Digit[v] = c
  <2>1. x \in 1..10 /\ Digit[x] = c
    <3>1. \E v \in 1..10 : Digit[v] = c
      BY <1>3 DEF IsDigit
    <3> HIDE DEF x
    <3> QED BY <3>1 DEF x
  <2>2. Value(c) = x - 1
    BY DEF Value
  <2> HIDE DEF x
  <2> QED BY <2>1, <2>2
<1>4. \A v \in 1..10 : IsDigit(Digit[v])
  BY DEF IsDigit
<1>5. ASSUME NEW v \in 1..10 PROVE Value(Digit[v]) = v - 1
  <2>1. Value(Digit[v]) \in 0..9 /\ Digit[Value(Digit[v]) + 1] = Digit[v]
    BY <1>3, <1>4
  <2>2. Value(Digit[v]) + 1 = v
    BY <1>2, <2>1
  <2> QED BY <2>1, <2>2
<1> QED BY <1>1, <1>3, <1>4, <1>5

\* Number is the recursion it is written as.
LEMMA NumberSteps ==
  ASSUME NEW digits, Len(digits) \in Nat, \A k \in 1..Len(digits) : Value(digits[k]) \in Nat
  PROVE  \E h \in [0..Len(digits) -> Nat] :
           /\ h[0] = 0
           /\ \A k \in 1..Len(digits) : h[k] = 10 * h[k - 1] + Value(digits[k])
           /\ Number(digits) = h[Len(digits)]
<1> DEFINE n == Len(digits)
           g == [k \in 1..n |-> [x \in Nat |-> 10 * x + Value(digits[k])]]
           F(f) == [k \in 0..n |-> IF k = 0 THEN 0 ELSE 10 * f[k - 1] + Value(digits[k])]
           c == CHOOSE f : f = F(f)
<1>1. g \in [1..n -> [Nat -> Nat]]
  OBVIOUS
<1>2. PICK h \in [0..n -> Nat] : h[0] = 0 /\ \A k \in 1..n : h[k] = g[k][h[k - 1]]
  <2> HIDE DEF g, n
  <2>1. Iterable(Nat, 0, n, g)
    BY <1>1, Iteration DEF n
  <2> QED BY <2>1 DEF Iterable
<1>3. h = F(h)
  <2>1. ASSUME NEW k \in 1..n PROVE h[k] = 10 * h[k - 1] + Value(digits[k])
    <3>1. h[k - 1] \in Nat
      BY SMTT(30)
    <3>2. g[k][h[k - 1]] = 10 * h[k - 1] + Value(digits[k])
      BY <3>1
    <3> HIDE DEF g
    <3> QED BY <1>2, <3>2
  <2>2. \A k \in 0..n : h[k] = F(h)[k]
    BY <1>2, <2>1
  <2>3. DOMAIN F(h) = 0..n /\ F(h) = [k \in 0..n |-> F(h)[k]]
    OBVIOUS
  <2> HIDE DEF F
  <2> QED BY <2>2, <2>3
<1>4. c = F(c)
  <2> HIDE DEF F
  <2> QED BY <1>3
<1>5. Number(digits) = c[n]
  BY DEF Number
<1> HIDE DEF c
<1>6. c[0] = 0 /\ \A k \in 1..n : c[k] = 10 * c[k - 1] + Value(digits[k])
  BY <1>4
<1>7. \A k \in 0..n : c[k] \in Nat
  <2>1. \A k \in 1..n : c[k - 1] \in Nat => c[k] \in Nat
    BY <1>6
  <2>2. c[0] \in Nat /\ n \in Nat
    BY <1>6
  <2> HIDE DEF n
  <2> QED BY <2>1, <2>2, Kept
<1>8. c \in [0..n -> Nat]
  <2>1. DOMAIN c = 0..n /\ c = [k \in 0..n |-> c[k]]
    BY <1>4
  <2> QED BY <1>7, <2>1
<1> QED BY <1>5, <1>6, <1>8

\* int() of digits is a natural number.
LEMMA NumberType ==
  ASSUME NEW digits, Len(digits) \in Nat, \A k \in 1..Len(digits) : IsDigit(digits[k])
  PROVE  Number(digits) \in Nat
<1>1. \A k \in 1..Len(digits) : Value(digits[k]) \in Nat
  BY DigitValue
<1>2. PICK h \in [0..Len(digits) -> Nat] : Number(digits) = h[Len(digits)]
  BY <1>1, NumberSteps
<1>3. Len(digits) \in 0..Len(digits)
  OBVIOUS
<1> QED BY <1>2, <1>3

\* The length field of a block is read as what was written.
LEMMA DecimalRead ==
  ASSUME NEW n \in 0..99
  PROVE  /\ Decimal(n) \in Seq(Characters)
         /\ Len(Decimal(n)) \in 1..2
         /\ \A k \in 1..Len(Decimal(n)) : IsDigit(Decimal(n)[k])
         /\ Number(Decimal(n)) = n
<1>1. CASE n < 10
  <2> DEFINE d == Decimal(n)
  <2>1. n + 1 \in 1..10 /\ d = <<Digit[n + 1]>>
    BY <1>1 DEF Decimal
  <2>2. d \in Seq(Characters) /\ Len(d) = 1 /\ d[1] = Digit[n + 1] /\ IsDigit(d[1]) /\ Value(d[1]) = n
    <3>1. Digit[n + 1] \in Characters /\ IsDigit(Digit[n + 1]) /\ Value(Digit[n + 1]) = (n + 1) - 1
      BY <2>1, DigitValue
    <3> QED BY <2>1, <3>1
  <2> HIDE DEF d
  <2>3. \A k \in 1..Len(d) : Value(d[k]) \in Nat /\ IsDigit(d[k])
    <3>1. \A k \in 1..Len(d) : k = 1
      BY <2>2
    <3>2. Value(d[1]) \in Nat /\ IsDigit(d[1])
      BY <2>2
    <3> QED BY <3>1, <3>2, Zenon
  <2>4. PICK h \in [0..Len(d) -> Nat] : /\ h[0] = 0
                                        /\ \A k \in 1..Len(d) : h[k] = 10 * h[k - 1] + Value(d[k])
                                        /\ Number(d) = h[Len(d)]
    <3>1. Len(d) \in Nat
      BY <2>2
    <3> QED BY <2>3, <3>1, NumberSteps
  <2>5. h[1] = 10 * h[0] + Value(d[1])
    BY <2>2, <2>4
  <2>6. Number(d) = n
    BY <2>2, <2>4, <2>5
  <2> QED BY <2>2, <2>3, <2>6 DEF d
<1>2. CASE n >= 10
  <2> DEFINE d == Decimal(n)
             a == n \div 10
             b == n % 10
  <2>1. a \in 0..9 /\ b \in 0..9 /\ n = 10 * a + b
    BY <1>2
  <2>2. d = <<Digit[a + 1], Digit[b + 1]>>
    BY <1>2 DEF Decimal
  <2> HIDE DEF a, b
  <2>3. /\ d \in Seq(Characters) /\ Len(d) = 2
        /\ IsDigit(d[1]) /\ IsDigit(d[2])
        /\ Value(d[1]) = a /\ Value(d[2]) = b
    <3>1. Digit[a + 1] \in Characters /\ IsDigit(Digit[a + 1]) /\ Value(Digit[a + 1]) = (a + 1) - 1
      BY <2>1, DigitValue
    <3>2. Digit[b + 1] \in Characters /\ IsDigit(Digit[b + 1]) /\ Value(Digit[b + 1]) = (b + 1) - 1
      BY <2>1, DigitValue
    <3>3. d[1] = Digit[a + 1] /\ d[2] = Digit[b + 1] /\ Len(d) = 2
      BY <2>2
    <3>4. d \in Seq(Characters)
      BY <2>2, <3>1, <3>2
    <3>5. (a + 1) - 1 = a /\ (b + 1) - 1 = b
      BY <2>1
    <3> HIDE DEF d
    <3> QED BY <3>1, <3>2, <3>3, <3>4, <3>5, Zenon
  <2> HIDE DEF d
  <2>4. \A k \in 1..Len(d) : Value(d[k]) \in Nat /\ IsDigit(d[k])
    <3>1. \A k \in 1..Len(d) : k = 1 \/ k = 2
      BY <2>3
    <3> QED BY <2>1, <2>3, <3>1
  <2>5. PICK h \in [0..Len(d) -> Nat] : /\ h[0] = 0
                                        /\ \A k \in 1..Len(d) : h[k] = 10 * h[k - 1] + Value(d[k])
                                        /\ Number(d) = h[Len(d)]
    BY <2>3, <2>4, NumberSteps
  <2>6. h[1] = 10 * h[0] + Value(d[1]) /\ h[2] = 10 * h[1] + Value(d[2])
    BY <2>3, <2>5
  <2>7. h[1] = a /\ h[2] = 10 * a + b
    BY <2>1, <2>3, <2>5, <2>6
  <2>8. Number(d) = n
    BY <2>1, <2>3, <2>5, <2>7
  <2> QED BY <2>3, <2>4, <2>8 DEF d
<1> QED BY <1>1, <1>2

\* A block that is read has a payload of the configured size at most.
LEMMA BlockFromType ==
  ASSUME NEW data \in Seq(Characters), NEW i \in Nat \ {0}
  PROVE  /\ BlockFrom(data, i).error \in {"none", "ProtocolError", "UnsupportedOperationError"}
         /\ BlockFrom(data, i).payload \in Payloads
         /\ BlockFrom(data, i).end \in Nat
         /\ BlockFrom(data, i).error = "none" => BlockFrom(data, i).end > i
<1> DEFINE width == IF i < Len(data) /\ IsDigit(data[i + 1]) THEN Value(data[i + 1]) ELSE 0
           field == SubSeq(data, i + 2, i + 1 + width)
           size == Number(field)
           first == i + 2 + width
           block == [error |-> "none", payload |-> SubSeq(data, first, first + size - 1),
                     end |-> first + size]
           bad == \/ i >= Len(data) \/ data[i + 1] = "0" \/ width = 0 \/ first - 1 > Len(data)
                  \/ \E k \in 1..width : ~IsDigit(field[k])
                  \/ size > MaxBlock \/ first + size - 1 > Len(data)
<1>1. <<>> \in Payloads
  BY BlockAssumption DEF Payloads
<1>2. CASE bad
  <2>1. \E e \in {"ProtocolError", "UnsupportedOperationError"} : BlockFrom(data, i) = Malformed(e)
    BY <1>2 DEF BlockFrom
  <2>2. PICK e \in {"ProtocolError", "UnsupportedOperationError"} : BlockFrom(data, i) = Malformed(e)
    BY <2>1
  <2>3. Malformed(e).error = e /\ Malformed(e).payload = <<>> /\ Malformed(e).end = 0
    BY DEF Malformed
  <2>4. e # "none"
    OBVIOUS
  <2> QED BY <1>1, <2>2, <2>3, <2>4
<1>3. CASE ~bad
  <2>1. BlockFrom(data, i) = block
    BY <1>3 DEF BlockFrom
  <2>2. width \in 1..9
    BY <1>3, DigitValue
  <2>3. /\ Len(field) = width /\ \A k \in 1..Len(field) : IsDigit(field[k])
    <3>1. \A k \in (i + 2)..(i + 1 + width) : data[k] \in Characters
      BY <1>3, <2>2, SMTT(30)
    <3> HIDE DEF width
    <3>2. Len(field) = width
      BY <2>2, <3>1, SubSeqProperties
    <3> QED BY <1>3, <3>2
  <2>4. size \in Nat
    <3> HIDE DEF field
    <3> QED BY <2>2, <2>3, NumberType
  <2> HIDE DEF width, size
  <2>5. SubSeq(data, first, first + size - 1) \in Payloads
    <3>1. \A k \in first..(first + size - 1) : data[k] \in Characters
      BY <1>3, <2>2, <2>4
    <3>2. /\ SubSeq(data, first, first + size - 1) \in Seq(Characters)
          /\ Len(SubSeq(data, first, first + size - 1)) = size
      BY <2>2, <2>4, <3>1, SubSeqProperties
    <3>3. size <= MaxBlock
      BY <1>3, <2>4, BlockAssumption
    <3> QED BY <3>2, <3>3 DEF Payloads
  <2>6. first + size \in Nat /\ first + size > i
    BY <2>2, <2>4
  <2>7. /\ block.error = "none" /\ block.payload = SubSeq(data, first, first + size - 1)
        /\ block.end = first + size
    OBVIOUS
  <2>8. block.payload \in Payloads /\ block.end \in Nat /\ block.end > i
    BY <2>5, <2>6, <2>7
  <2> HIDE DEF block
  <2> QED BY <2>1, <2>7, <2>8
<1> QED BY <1>2, <1>3

\* A block is read where its bytes are, and refused where one of them is missing.
LEMMA BlockRead ==
  ASSUME NEW data \in Seq(Characters), NEW i \in 1..Len(data), NEW n \in 0..MaxBlock,
         i + 1 <= Len(data) => data[i + 1] = Digit[Len(Decimal(n)) + 1],
         \A k \in 1..Len(Decimal(n)) : i + 1 + k <= Len(data) => data[i + 1 + k] = Decimal(n)[k]
  PROVE  LET first == i + 2 + Len(Decimal(n)) IN
         IF Len(data) >= first + n - 1
           THEN BlockFrom(data, i) = [error |-> "none", payload |-> SubSeq(data, first, first + n - 1),
                                      end |-> first + n]
           ELSE BlockFrom(data, i).error # "none"
<1> DEFINE d == Decimal(n)
           w == Len(d)
           width == IF i < Len(data) /\ IsDigit(data[i + 1]) THEN Value(data[i + 1]) ELSE 0
           field == SubSeq(data, i + 2, i + 1 + width)
           first == i + 2 + width
           at == i + 2 + w
           block == [error |-> "none", payload |-> SubSeq(data, at, at + n - 1), end |-> at + n]
<1> SUFFICES IF Len(data) >= at + n - 1 THEN BlockFrom(data, i) = block
             ELSE BlockFrom(data, i).error # "none"
  OBVIOUS
<1>0. i \in Nat /\ Len(data) \in Nat /\ 1 <= i /\ i <= Len(data)
  OBVIOUS
<1>1. n \in 0..99 /\ n <= MaxBlock
  BY BlockAssumption
<1>2. d \in Seq(Characters) /\ w \in 1..2 /\ (\A k \in 1..w : IsDigit(d[k])) /\ Number(d) = n
  BY <1>1, DecimalRead
<1>3. /\ i + 1 <= Len(data) => data[i + 1] = Digit[w + 1]
      /\ \A k \in 1..w : i + 1 + k <= Len(data) => data[i + 1 + k] = d[k]
  OBVIOUS
<1>4. Len(d) = w /\ at = i + 2 + w
  OBVIOUS
<1>5. Malformed("ProtocolError").error # "none"
  BY DEF Malformed
<1> HIDE DEF d, w, block, at
<1>6. CASE i >= Len(data)
  <2>1. BlockFrom(data, i) = Malformed("ProtocolError")
    BY <1>6 DEF BlockFrom
  <2> QED BY <1>0, <1>1, <1>2, <1>4, <1>5, <1>6, <2>1
<1>7. CASE i < Len(data)
  <2>1. data[i + 1] = Digit[w + 1] /\ IsDigit(data[i + 1]) /\ width = w /\ data[i + 1] # "0"
    <3>1. data[i + 1] = Digit[w + 1] /\ w + 1 \in 1..10
      BY <1>0, <1>2, <1>3, <1>7
    <3>2. /\ IsDigit(data[i + 1]) /\ Value(data[i + 1]) = (w + 1) - 1
          /\ data[i + 1] = "0" <=> w + 1 = 1
      BY <3>1, DigitValue
    <3> QED BY <1>2, <1>7, <3>1, <3>2
  <2>2. CASE i + 1 + w > Len(data)
    <3>1. BlockFrom(data, i) = Malformed("ProtocolError")
      BY <1>0, <1>2, <1>7, <2>1, <2>2 DEF BlockFrom
    <3> QED BY <1>0, <1>1, <1>2, <1>4, <1>5, <2>2, <3>1
  <2>3. CASE i + 1 + w <= Len(data)
    <3>1. SubSeq(data, i + 2, i + 1 + w) = d
      <4>1. \A k \in (i + 2)..(i + 1 + w) : data[k] \in Characters
        BY <1>0, <1>2, <2>3
      <4>2. /\ SubSeq(data, i + 2, i + 1 + w) \in Seq(Characters)
            /\ Len(SubSeq(data, i + 2, i + 1 + w)) = w
            /\ \A k \in 1..w : SubSeq(data, i + 2, i + 1 + w)[k] = data[i + 1 + k]
        <5>1. i + 2 \in Int /\ i + 1 + w \in Int
          BY <1>0, <1>2
        <5>2. LET m == i + 2 p == i + 1 + w IN
              /\ SubSeq(data, m, p) \in Seq(Characters)
              /\ Len(SubSeq(data, m, p)) = IF m <= p THEN p - m + 1 ELSE 0
              /\ \A k \in 1..(p - m + 1) : SubSeq(data, m, p)[k] = data[m + k - 1]
          BY <4>1, <5>1, SubSeqProperties, SMTT(30)
        <5>3. \A k \in 1..w : k \in 1..((i + 1 + w) - (i + 2) + 1) /\ (i + 2) + k - 1 = i + 1 + k
          BY <1>0, <1>2
        <5>4. i + 2 <= i + 1 + w /\ (i + 1 + w) - (i + 2) + 1 = w
          BY <1>0, <1>2
        <5> DEFINE t == SubSeq(data, i + 2, i + 1 + w)
        <5>5. t \in Seq(Characters) /\ Len(t) = w
          BY <5>2, <5>4
        <5>6. \A k \in 1..w : t[k] = data[(i + 2) + k - 1]
          BY <5>2, <5>4
        <5> HIDE DEF t
        <5>7. \A k \in 1..w : t[k] = data[i + 1 + k]
          BY <5>3, <5>6
        <5> QED BY <5>5, <5>7 DEF t
      <4>3. \A k \in 1..w : data[i + 1 + k] = d[k]
        BY <1>0, <1>2, <1>3, <2>3
      <4> QED BY <1>2, <1>4, <4>2, <4>3, SeqEqual
    <3>2. field = d
      BY <1>2, <2>1, <3>1
    <3>3. ~(\E k \in 1..width : ~IsDigit(field[k])) /\ Number(field) = n /\ width # 0
      <4> HIDE DEF field, width
      <4> QED BY <1>2, <2>1, <3>2
    <3>4. first = at /\ ~(first - 1 > Len(data)) /\ ~(i >= Len(data)) /\ data[i + 1] # "0"
      BY <1>0, <1>2, <1>4, <1>7, <2>1, <2>3
    <3> DEFINE size == Number(field)
    <3>5. BlockFrom(data, i) =
            IF size > MaxBlock \/ first + size - 1 > Len(data) THEN Malformed("ProtocolError")
            ELSE [error |-> "none", payload |-> SubSeq(data, first, first + size - 1), end |-> first + size]
      BY <3>3, <3>4, Zenon DEF BlockFrom
    <3>6. size = n
      BY <3>3
    <3> HIDE DEF size, first, field, width
    <3>7. BlockFrom(data, i) =
            IF n > MaxBlock \/ at + n - 1 > Len(data) THEN Malformed("ProtocolError") ELSE block
      BY <3>4, <3>5, <3>6, Zenon DEF block
    <3>8. ~(n > MaxBlock) /\ (at + n - 1 > Len(data) <=> ~(Len(data) >= at + n - 1))
      <4>1. ~(n > MaxBlock)
        BY <1>1, BlockAssumption
      <4>2. at \in Nat /\ n \in Nat
        BY <1>0, <1>1, <1>2, <1>4
      <4> QED BY <1>0, <4>1, <4>2
    <3> QED BY <1>5, <3>7, <3>8, Zenon
  <2> QED BY <1>0, <1>2, <2>2, <2>3
<1> QED BY <1>0, <1>6, <1>7

\* The literals of the parser are characters.
LEMMA Letters ==
  /\ ":" \in Characters /\ "*" \in Characters /\ ";" \in Characters /\ "#" \in Characters
  /\ "?" \in Characters /\ " " \in Characters /\ "dq" \in Characters /\ "nl" \in Characters
  /\ "H" \in Characters /\ "Q" \in Characters /\ "R" \in Characters /\ "x" \in Characters
  /\ "1" \in Characters /\ "9" \in Characters
<1>1. {":", "*", ";", "#", "?", " ", "dq", "nl", "H", "Q", "R", "x"} \subseteq Characters
  BY SimulationAssumption
<1>2. Digit[2] = "1" /\ Digit[10] = "9"
  BY DEF Digit
<1>3. Digit[2] \in Characters /\ Digit[10] \in Characters
  BY DigitValue
<1> QED BY <1>1, <1>2, <1>3

\* The bytes of a block, one by one.
LEMMA Encoded ==
  ASSUME NEW payload \in Payloads
  PROVE  LET b == EncodeBlock(payload)
             d == Decimal(Len(payload))
         IN /\ Len(payload) \in 0..MaxBlock /\ Len(payload) \in 0..99
            /\ d \in Seq(Characters) /\ Len(d) \in 1..2
            /\ b \in Seq(Characters)
            /\ Len(b) = 2 + Len(d) + Len(payload)
            /\ b[1] = "#" /\ b[2] = Digit[Len(d) + 1]
            /\ \A k \in 1..Len(d) : b[2 + k] = d[k]
            /\ \A k \in 1..Len(payload) : b[2 + Len(d) + k] = payload[k]
<1> DEFINE d == Decimal(Len(payload))
           h == <<"#", Digit[Len(d) + 1]>>
<1>1. Len(payload) \in 0..MaxBlock /\ Len(payload) \in 0..99 /\ payload \in Seq(Characters)
  <2>1. payload \in Seq(Characters) /\ Len(payload) <= MaxBlock
    BY DEF Payloads
  <2>2. Len(payload) \in Nat
    BY <2>1
  <2>3. MaxBlock \in 0..99
    BY BlockAssumption
  <2>4. Len(payload) <= MaxBlock
    BY <2>1
  <2> DEFINE n == Len(payload)
  <2>5. n \in 0..MaxBlock /\ n \in 0..99
    <3> HIDE DEF n
    <3>1. n \in Nat /\ n <= MaxBlock
      BY <2>2, <2>4 DEF n
    <3> QED BY <2>3, <3>1
  <2> QED BY <2>1, <2>5
<1>2. d \in Seq(Characters) /\ Len(d) \in 1..2
  BY <1>1, DecimalRead
<1> HIDE DEF d
<1>3. h \in Seq(Characters) /\ Len(h) = 2 /\ h[1] = "#" /\ h[2] = Digit[Len(d) + 1]
  <2>1. "#" \in Characters
    BY Letters
  <2>2. Len(d) + 1 \in 1..10
    <3> DEFINE w == Len(d)
    <3>1. w \in 1..2
      BY <1>2
    <3> HIDE DEF w
    <3>2. w + 1 \in 1..10
      BY <3>1
    <3> QED BY <3>2 DEF w
  <2>3. Digit[Len(d) + 1] \in Characters
    BY <2>2, DigitValue
  <2> QED BY <2>1, <2>3
<1> HIDE DEF h
<1>4. /\ h \o d \in Seq(Characters) /\ Len(h \o d) = 2 + Len(d)
      /\ \A i \in 1..(2 + Len(d)) : (h \o d)[i] = IF i <= 2 THEN h[i] ELSE d[i - 2]
  BY <1>2, <1>3, ConcatProperties
<1> DEFINE b == (h \o d) \o payload
<1>5. /\ b \in Seq(Characters) /\ Len(b) = (2 + Len(d)) + Len(payload)
      /\ \A i \in 1..((2 + Len(d)) + Len(payload)) :
           b[i] = IF i <= 2 + Len(d) THEN (h \o d)[i] ELSE payload[i - (2 + Len(d))]
  <2> DEFINE c == h \o d
  <2>1. c \in Seq(Characters) /\ Len(c) = 2 + Len(d)
    BY <1>4
  <2> HIDE DEF c
  <2>2. /\ c \o payload \in Seq(Characters) /\ Len(c \o payload) = Len(c) + Len(payload)
        /\ \A i \in 1..(Len(c) + Len(payload)) :
             (c \o payload)[i] = IF i <= Len(c) THEN c[i] ELSE payload[i - Len(c)]
    BY <1>1, <2>1, ConcatProperties, ZenonT(40)
  <2>3. b = c \o payload
    BY DEF c
  <2> HIDE DEF b
  <2>4. /\ b \in Seq(Characters) /\ Len(b) = (2 + Len(d)) + Len(payload)
        /\ \A i \in 1..((2 + Len(d)) + Len(payload)) :
             b[i] = IF i <= 2 + Len(d) THEN c[i] ELSE payload[i - (2 + Len(d))]
    BY <2>1, <2>2, <2>3
  <2> QED BY <2>4 DEF c
<1>6. EncodeBlock(payload) = b
  BY DEF EncodeBlock, h, d
<1> HIDE DEF b
<1>7. b[1] = "#" /\ b[2] = Digit[Len(d) + 1]
  BY <1>1, <1>2, <1>3, <1>4, <1>5
<1>8. ASSUME NEW k \in 1..Len(d) PROVE b[2 + k] = d[k]
  <2>1. /\ 2 + k \in 1..((2 + Len(d)) + Len(payload)) /\ 2 + k <= 2 + Len(d)
        /\ 2 + k \in 1..(2 + Len(d)) /\ ~(2 + k <= 2) /\ (2 + k) - 2 = k
    BY <1>1, <1>2
  <2> QED BY <1>4, <1>5, <2>1
<1>9. ASSUME NEW k \in 1..Len(payload) PROVE b[2 + Len(d) + k] = payload[k]
  <2>1. /\ 2 + Len(d) + k \in 1..((2 + Len(d)) + Len(payload)) /\ ~(2 + Len(d) + k <= 2 + Len(d))
        /\ (2 + Len(d) + k) - (2 + Len(d)) = k
    BY <1>1, <1>2
  <2> QED BY <1>5, <2>1
<1> QED BY <1>1, <1>2, <1>5, <1>6, <1>7, <1>8, <1>9 DEF d

\* A sequence that begins as a block does, decoded: m bytes of it are that block's.
LEMMA Decoded ==
  ASSUME NEW payload \in Payloads, NEW data \in Seq(Characters), data # <<>>,
         \A k \in 1..Len(EncodeBlock(payload)) : k <= Len(data) => data[k] = EncodeBlock(payload)[k],
         NEW trailing \in BOOLEAN
  PROVE  LET end == Len(EncodeBlock(payload)) + 1 IN
         /\ Len(data) + 1 < end => DecodeBlock(data, trailing).error # "none"
         /\ Len(data) + 1 >= end /\ (trailing \/ Len(data) + 1 = end) =>
              DecodeBlock(data, trailing) = [error |-> "none", payload |-> payload, end |-> end]
         /\ Len(data) + 1 > end /\ ~trailing => DecodeBlock(data, trailing).error # "none"
<1> DEFINE b == EncodeBlock(payload)
           d == Decimal(Len(payload))
           n == Len(payload)
           first == 3 + Len(d)
<1>1. /\ n \in 0..MaxBlock /\ n \in 0..99
      /\ d \in Seq(Characters) /\ Len(d) \in 1..2
      /\ b \in Seq(Characters)
      /\ Len(b) = 2 + Len(d) + n
      /\ b[1] = "#" /\ b[2] = Digit[Len(d) + 1]
      /\ \A k \in 1..Len(d) : b[2 + k] = d[k]
      /\ \A k \in 1..n : b[2 + Len(d) + k] = payload[k]
  BY Encoded
<1>2. Len(data) \in Nat \ {0} /\ payload \in Seq(Characters)
  BY DEF Payloads
<1> HIDE DEF b
<1>3. \A k \in 1..Len(b) : k <= Len(data) => data[k] = b[k]
  BY DEF b
<1>4. data[1] = "#"
  BY <1>1, <1>2, <1>3
<1>5. /\ Len(data) >= 2 => data[2] = Digit[Len(d) + 1]
      /\ \A k \in 1..Len(d) : 2 + k <= Len(data) => data[2 + k] = d[k]
  <2> HIDE DEF d, n
  <2>1. Len(data) >= 2 => data[2] = Digit[Len(d) + 1]
    BY <1>1, <1>2, <1>3
  <2>2. ASSUME NEW k \in 1..Len(d), 2 + k <= Len(data) PROVE data[2 + k] = d[k]
    <3>1. 2 + k \in 1..Len(b)
      BY <1>1
    <3> QED BY <1>1, <1>3, <2>2, <3>1
  <2> QED BY <2>1, <2>2
<1> DEFINE block == [error |-> "none", payload |-> SubSeq(data, first, first + n - 1), end |-> first + n]
<1>6. IF Len(data) >= first + n - 1 THEN BlockFrom(data, 1) = block ELSE BlockFrom(data, 1).error # "none"
  BY <1>1, <1>5, BlockRead
<1> HIDE DEF n, d
<1>7. CASE Len(data) + 1 < Len(b) + 1
  <2>1. BlockFrom(data, 1).error # "none"
    BY <1>1, <1>2, <1>6, <1>7
  <2>2. DecodeBlock(data, trailing) = BlockFrom(data, 1)
    BY <1>4, <2>1, Zenon DEF DecodeBlock
  <2> QED BY <1>1, <1>2, <1>7, <2>1, <2>2 DEF b
<1>8. CASE Len(data) + 1 >= Len(b) + 1
  <2>1. SubSeq(data, first, first + n - 1) = payload
    <3>1. \A k \in first..(first + n - 1) : data[k] \in Characters
      BY <1>1, <1>2, <1>8
    <3>2. first \in Int /\ first + n - 1 \in Int
      BY <1>1
    <3>3. /\ SubSeq(data, first, first + n - 1) \in Seq(Characters)
          /\ Len(SubSeq(data, first, first + n - 1)) = IF first <= first + n - 1 THEN (first + n - 1) - first + 1 ELSE 0
          /\ \A k \in 1..((first + n - 1) - first + 1) :
               SubSeq(data, first, first + n - 1)[k] = data[first + k - 1]
      <4> HIDE DEF first
      <4> QED BY <3>1, <3>2, SubSeqProperties
    <3>4. Len(SubSeq(data, first, first + n - 1)) = n /\ n = Len(payload)
      BY <1>1, <3>3 DEF n
    <3>5. ASSUME NEW k \in 1..n PROVE SubSeq(data, first, first + n - 1)[k] = payload[k]
      <4>1. /\ first + k - 1 = 2 + Len(d) + k /\ 2 + Len(d) + k \in 1..Len(b)
            /\ 2 + Len(d) + k <= Len(data) /\ k \in 1..((first + n - 1) - first + 1)
        BY <1>1, <1>2, <1>8
      <4>2. data[2 + Len(d) + k] = payload[k]
        BY <1>1, <1>3, <4>1
      <4> HIDE DEF first
      <4> QED BY <3>3, <4>1, <4>2
    <3> HIDE DEF first
    <3> QED BY <1>2, <3>3, <3>4, <3>5, SeqEqual
  <2>2. BlockFrom(data, 1) = block /\ first + n = Len(b) + 1
    BY <1>1, <1>2, <1>6, <1>8
  <2>3. block = [error |-> "none", payload |-> payload, end |-> Len(b) + 1]
    BY <2>1, <2>2, Zenon
  <2> HIDE DEF block
  <2>4. BlockFrom(data, 1) = [error |-> "none", payload |-> payload, end |-> Len(b) + 1]
    BY <2>2, <2>3
  <2>5. CASE ~trailing /\ Len(b) + 1 <= Len(data)
    <3>1. DecodeBlock(data, trailing) = Malformed("ProtocolError")
      BY <1>4, <2>4, <2>5 DEF DecodeBlock
    <3> QED BY <1>1, <1>2, <1>8, <2>5, <3>1 DEF b, Malformed
  <2>6. CASE trailing \/ ~(Len(b) + 1 <= Len(data))
    <3>1. DecodeBlock(data, trailing) = BlockFrom(data, 1)
      BY <1>4, <2>4, <2>6 DEF DecodeBlock
    <3> QED BY <1>1, <1>2, <1>8, <2>4, <2>6, <3>1 DEF b
  <2> QED BY <2>5, <2>6
<1> QED BY <1>1, <1>2, <1>7, <1>8 DEF b

\* What PayloadsRoundTrip says of one payload.
LEMMA RoundTrip ==
  ASSUME NEW payload \in Payloads
  PROVE  LET block == EncodeBlock(payload) IN
         /\ DecodeBlock(block, FALSE) = [error |-> "none", payload |-> payload, end |-> Len(block) + 1]
         /\ \A n \in 0..(Len(block) - 1) : DecodeBlock(SubSeq(block, 1, n), TRUE).error # "none"
         /\ DecodeBlock(Append(block, "nl"), TRUE).payload = payload
         /\ DecodeBlock(Append(block, "nl"), FALSE).error # "none"
<1> DEFINE b == EncodeBlock(payload)
<1>1. b \in Seq(Characters) /\ Len(b) \in Nat \ {0, 1, 2} /\ b # <<>>
  <2>1. /\ Len(payload) \in 0..MaxBlock /\ Len(Decimal(Len(payload))) \in 1..2
        /\ b \in Seq(Characters)
        /\ Len(b) = 2 + Len(Decimal(Len(payload))) + Len(payload)
    BY Encoded
  <2> HIDE DEF b
  <2>2. Len(payload) \in Nat
    BY <2>1, BlockAssumption
  <2>3. Len(b) \in Nat \ {0, 1, 2}
    <3>1. Len(b) = 2 + Len(Decimal(Len(payload))) + Len(payload)
      BY <2>1
    <3>2. Len(Decimal(Len(payload))) \in 1..2
      BY <2>1
    <3> QED BY <2>2, <3>1, <3>2
  <2> QED BY <2>1, <2>3
<1> HIDE DEF b
<1>2. DecodeBlock(b, FALSE) = [error |-> "none", payload |-> payload, end |-> Len(b) + 1]
  <2>1. \A k \in 1..Len(b) : k <= Len(b) => b[k] = b[k]
    OBVIOUS
  <2>2. Len(b) + 1 >= Len(b) + 1
    BY <1>1
  <2> QED BY <1>1, <2>1, <2>2, Decoded DEF b
<1>3. ASSUME NEW n \in 0..(Len(b) - 1) PROVE DecodeBlock(SubSeq(b, 1, n), TRUE).error # "none"
  <2> DEFINE c == SubSeq(b, 1, n)
  <2>1. c \in Seq(Characters) /\ Len(c) = n /\ \A k \in 1..n : c[k] = b[k]
    BY <1>1
  <2> HIDE DEF c
  <2>2. CASE n = 0
    <3>1. c = <<>>
      BY <2>1, <2>2
    <3> QED BY <3>1 DEF DecodeBlock, Malformed, c
  <2>3. CASE n # 0
    <3>1. c # <<>> /\ Len(c) + 1 < Len(b) + 1
      BY <1>1, <2>1, <2>3
    <3>2. \A k \in 1..Len(b) : k <= Len(c) => c[k] = b[k]
      BY <1>1, <2>1
    <3>3. DecodeBlock(c, TRUE).error # "none"
      BY <2>1, <3>1, <3>2, Decoded DEF b
    <3> QED BY <3>3 DEF c
  <2> QED BY <2>2, <2>3
<1>4. ASSUME NEW trailing \in BOOLEAN
      PROVE  IF trailing THEN DecodeBlock(Append(b, "nl"), TRUE).payload = payload
             ELSE DecodeBlock(Append(b, "nl"), FALSE).error # "none"
  <2> DEFINE c == Append(b, "nl")
  <2>1. "nl" \in Characters
    BY SimulationAssumption
  <2>2. c \in Seq(Characters) /\ c # <<>> /\ Len(c) = Len(b) + 1 /\ \A k \in 1..Len(b) : c[k] = b[k]
    BY <1>1, <2>1, AppendProperties
  <2> HIDE DEF c
  <2>3. Len(c) + 1 > Len(b) + 1 /\ Len(c) + 1 >= Len(b) + 1
    BY <1>1, <2>2
  <2>4. \A k \in 1..Len(b) : k <= Len(c) => c[k] = b[k]
    BY <2>2
  <2>5. DecodeBlock(c, TRUE) = [error |-> "none", payload |-> payload, end |-> Len(b) + 1]
    BY <2>2, <2>3, <2>4, Decoded DEF b
  <2>6. DecodeBlock(c, FALSE).error # "none"
    BY <2>2, <2>3, <2>4, Decoded DEF b
  <2>7. [error |-> "none", payload |-> payload, end |-> Len(b) + 1].payload = payload
    OBVIOUS
  <2> QED BY <2>5, <2>6, <2>7, Zenon DEF c
<1> QED BY <1>2, <1>3, <1>4 DEF b
------------------------------------------------------------------------------
\* What the parser makes of any bytes.

RawParts == {part \in Parts : part.text # <<>>}
BlockErrors == {"none", "ProtocolError", "UnsupportedOperationError"}
Scans == [at : Nat, error : BlockErrors, parts : Seq(RawParts)]

\* strip() of a message.
LEMMA StripType ==
  ASSUME NEW s \in Seq(Characters)
  PROVE  Strip(s) \in Seq(Characters)
<1> DEFINE kept == {i \in 1..Len(s) : s[i] \notin Blank \cup {"nl"}}
<1>1. CASE kept = {}
  BY <1>1 DEF Strip
<1>2. CASE kept # {}
  <2>1. kept \subseteq Nat /\ kept \subseteq 0..Len(s) /\ Len(s) \in Nat /\ kept \subseteq 1..Len(s)
    OBVIOUS
  <2>2. Strip(s) = SubSeq(s, Min(kept), Max(kept))
    BY <1>2 DEF Strip
  <2> HIDE DEF kept
  <2>3. Min(kept) \in kept /\ Max(kept) \in kept
    <3>1. Min(kept) \in kept
      BY <1>2, <2>1, MinFacts
    <3>2. Max(kept) \in kept
      BY <1>2, <2>1, MaxFacts
    <3> QED BY <3>1, <3>2
  <2>4. Min(kept) \in 1..Len(s) /\ Max(kept) \in 1..Len(s)
    BY <2>1, <2>3
  <2>5. \A i \in Min(kept)..Max(kept) : s[i] \in Characters
    BY <2>4
  <2>6. SubSeq(s, Min(kept), Max(kept)) \in Seq(Characters)
    BY <2>4, <2>5, SubSeqProperties
  <2> QED BY <2>2, <2>6
<1> QED BY <1>1, <1>2

\* A command without its white space, appended to the parts if anything is left of it.
LEMMA AddTextType ==
  ASSUME NEW parts \in Seq(RawParts), NEW s \in Seq(Characters)
  PROVE  AddText(parts, s) \in Seq(RawParts)
<1>1. <<>> \in Payloads
  BY BlockAssumption DEF Payloads
<1>2. Strip(s) # <<>> => TextPart(Strip(s)) \in RawParts
  BY <1>1, StripType DEF TextPart, RawParts, Parts
<1> QED BY <1>2, AppendProperties DEF AddText

\* The n-th smallest of a set is one of it.
LEMMA NthFacts ==
  ASSUME NEW N \in Nat, NEW S, S \subseteq 0..N
  PROVE  /\ Cardinality(S) \in Nat
         /\ \A n \in 1..Cardinality(S) : Nth(S, n) \in S
<1> DEFINE below(i) == {j \in S : j <= i}
           count(i) == Cardinality(below(i))
           T == {m \in 0..N : \A n \in 1..count(m) : \E i \in S : count(i) = n}
<1>0. \A j \in S : j \in Nat /\ j <= N
  OBVIOUS
<1>1. IsFiniteSet(S)
  <2>1. IsFiniteSet(0..N)
    BY FS_Interval
  <2> QED BY <2>1, FS_Subset
<1>2. \A i : IsFiniteSet(below(i)) /\ count(i) \in Nat
  <2> TAKE i
  <2>1. below(i) \subseteq S
    OBVIOUS
  <2> HIDE DEF below
  <2>2. IsFiniteSet(below(i))
    BY <1>1, <2>1, FS_Subset
  <2> QED BY <2>2, FS_CardinalityType
<1>3. 0 \in T
  <2> SUFFICES ASSUME NEW n \in 1..count(0) PROVE \E i \in S : count(i) = n
    OBVIOUS
  <2>1. CASE 0 \in S
    <3>1. below(0) = {0}
      <4>1. \A j \in below(0) : j = 0
        BY <1>0
      <4>2. 0 \in below(0)
        BY <2>1
      <4> HIDE DEF below
      <4> QED BY <4>1, <4>2
    <3>2. count(0) = 1
      <4> HIDE DEF below
      <4> QED BY <3>1, FS_Singleton
    <3>3. n = 1
      BY <3>2
    <3> HIDE DEF count
    <3> QED BY <2>1, <3>2, <3>3
  <2>2. CASE 0 \notin S
    <3>1. below(0) = {}
      <4>1. \A j \in below(0) : FALSE
        BY <1>0, <2>2
      <4> HIDE DEF below
      <4> QED BY <4>1
    <3>2. count(0) = 0
      <4> HIDE DEF below
      <4> QED BY <3>1, FS_EmptySet
    <3> HIDE DEF count
    <3> QED BY <3>2
  <2> QED BY <2>1, <2>2
<1>4. ASSUME NEW m \in 1..N, m - 1 \in T PROVE m \in T
  <2> SUFFICES ASSUME NEW n \in 1..count(m) PROVE \E i \in S : count(i) = n
    OBVIOUS
  <2>0. \A k \in 1..count(m - 1) : \E i \in S : count(i) = k
    BY <1>4
  <2>1. CASE m \in S
    <3>1. below(m) = below(m - 1) \cup {m} /\ m \notin below(m - 1)
      <4>1. \A j \in below(m) : j \in below(m - 1) \/ j = m
        BY <1>0
      <4>2. \A j \in below(m - 1) : j \in below(m)
        BY <1>0
      <4>3. m \in below(m) /\ m \notin below(m - 1)
        BY <2>1
      <4> HIDE DEF below
      <4> QED BY <4>1, <4>2, <4>3
    <3>2. count(m) = count(m - 1) + 1
      <4>1. IsFiniteSet(below(m - 1))
        BY <1>2
      <4> HIDE DEF below
      <4> QED BY <3>1, <4>1, FS_AddElement
    <3>3. count(m - 1) \in Nat
      BY <1>2
    <3> HIDE DEF count
    <3>4. n \in 1..count(m - 1) \/ n = count(m)
      BY <3>2, <3>3
    <3> QED BY <2>0, <2>1, <3>4
  <2>2. CASE m \notin S
    <3>1. below(m) = below(m - 1)
      <4>1. \A j \in below(m) : j \in below(m - 1)
        BY <1>0, <2>2
      <4>2. \A j \in below(m - 1) : j \in below(m)
        BY <1>0
      <4> HIDE DEF below
      <4> QED BY <4>1, <4>2
    <3> HIDE DEF below
    <3> QED BY <2>0, <3>1
  <2> QED BY <2>1, <2>2
<1>5. N \in T
  <2>1. \A m \in 1..N : m - 1 \in T => m \in T
    BY <1>4
  <2> HIDE DEF T
  <2>2. \A m \in 0..N : m \in T
    BY <1>3, <2>1, Induction
  <2> QED BY <2>2
<1>6. below(N) = S
  BY <1>0
<1>7. Cardinality(S) \in Nat
  BY <1>1, FS_CardinalityType
<1>8. ASSUME NEW n \in 1..Cardinality(S) PROVE Nth(S, n) \in S
  <2>1. count(N) = Cardinality(S)
    BY <1>6
  <2>2. \E i \in S : count(i) = n
    BY <1>5, <2>1
  <2> QED BY <2>2 DEF Nth
<1> QED BY <1>7, <1>8

\* The commands of a text.
LEMMA SplitTextType ==
  ASSUME NEW data \in Seq(Characters)
  PROVE  SplitText(data) \in Seq(RawParts)
<1> DEFINE lines == {i \in 1..Len(data) : data[i] = "nl"}
           first(i) == Max({0} \cup {k \in lines : k < i}) + 1
           cuts == {0, Len(data) + 1} \cup lines \cup
                     {i \in 1..Len(data) : data[i] = ";" /\ ~Quoted(data, first(i), i)}
           Stop(cut) == Min({k \in cuts : k > cut})
           Piece(cut) == Strip(SubSeq(data, cut + 1, Stop(cut) - 1))
           kept == {cut \in cuts \ {Len(data) + 1} : Piece(cut) # <<>>}
           n == Len(data)
<1>1. n \in Nat /\ cuts \subseteq 0..(n + 1) /\ n + 1 \in cuts /\ cuts \subseteq Nat
  <2>1. n \in Nat
    OBVIOUS
  <2> HIDE DEF first
  <2>2. \A k \in cuts : k = 0 \/ k = n + 1 \/ k \in 1..n
    OBVIOUS
  <2>3. n + 1 \in cuts
    OBVIOUS
  <2> HIDE DEF cuts, n
  <2>4. \A k \in cuts : k \in 0..(n + 1) /\ k \in Nat
    BY <2>1, <2>2
  <2> QED BY <2>1, <2>3, <2>4
<1>2. SplitText(data) = [m \in 1..Cardinality(kept) |-> TextPart(Piece(Nth(kept, m)))]
  BY DEF SplitText
<1> HIDE DEF cuts
<1>3. ASSUME NEW cut \in cuts \ {n + 1} PROVE Piece(cut) \in Seq(Characters)
  <2> DEFINE after == {k \in cuts : k > cut}
  <2>0. n \in Nat
    OBVIOUS
  <2> HIDE DEF n
  <2>1. cut \in 0..n /\ n + 1 \in after /\ after \subseteq Nat /\ after # {}
    <3>1. cut \in 0..(n + 1) /\ cut # n + 1
      BY <1>1 DEF n
    <3>2. cut \in 0..n /\ n + 1 > cut
      BY <2>0, <3>1
    <3>3. n + 1 \in after
      BY <1>1, <3>2
    <3> QED BY <1>1, <3>2, <3>3
  <2> HIDE DEF after
  <2>2. Min(after) \in Nat /\ Min(after) <= n + 1
    BY <2>1, MinFacts
  <2>3. \A i \in (cut + 1)..(Min(after) - 1) : data[i] \in Characters
    BY <2>0, <2>1, <2>2 DEF n
  <2>4. SubSeq(data, cut + 1, Min(after) - 1) \in Seq(Characters)
    BY <2>1, <2>2, <2>3, SubSeqProperties
  <2>5. Strip(SubSeq(data, cut + 1, Min(after) - 1)) \in Seq(Characters)
    BY <2>4, StripType
  <2> QED BY <2>5 DEF after
<1> HIDE DEF Piece
<1>4. \A cut \in kept : TextPart(Piece(cut)) \in RawParts
  <2>1. <<>> \in Payloads
    BY BlockAssumption DEF Payloads
  <2> SUFFICES ASSUME NEW cut \in kept PROVE TextPart(Piece(cut)) \in RawParts
    OBVIOUS
  <2>2. Piece(cut) \in Seq(Characters) /\ Piece(cut) # <<>>
    BY <1>3
  <2> QED BY <2>1, <2>2 DEF TextPart, RawParts, Parts
<1>5. kept \subseteq 0..(n + 1) /\ n + 1 \in Nat
  BY <1>1
<1> HIDE DEF kept, n
<1>6. Cardinality(kept) \in Nat /\ \A m \in 1..Cardinality(kept) : Nth(kept, m) \in kept
  BY <1>5, NthFacts
<1>7. \A m \in 1..Cardinality(kept) : TextPart(Piece(Nth(kept, m))) \in RawParts
  BY <1>4, <1>6
<1>8. [m \in 1..Cardinality(kept) |-> TextPart(Piece(Nth(kept, m)))] \in Seq(RawParts)
  BY <1>6, <1>7
<1> QED BY <1>2, <1>8

\* Where a block ends, if it does.
LEMMA AfterBlockType ==
  ASSUME NEW data \in Seq(Characters), NEW i \in Nat
  PROVE  AfterBlock(data, i) \in Nat
<1> DEFINE S == {k \in i..Len(data) : data[k] \notin Blank} \cup {Len(data) + 1}
<1>1. S \subseteq Nat /\ S # {}
  OBVIOUS
<1> HIDE DEF S
<1>2. Min(S) \in Nat
  BY <1>1, MinFacts
<1>3. AfterBlock(data, i) \in {Min(S), Min(S) + 1, 0}
  BY DEF AfterBlock, S
<1> QED BY <1>2, <1>3

\* One step of the scan: up to the next block, and past it.
LEMMA NextSegmentType ==
  ASSUME NEW data \in Seq(Characters), NEW scan \in Scans
  PROVE  NextSegment(data, scan) \in Scans
<1> DEFINE stops == {i \in scan.at..Len(data) :
                       /\ ~Quoted(data, scan.at, i)
                       /\ data[i] \in {"nl", ";"} \/ OpensBlock(data, scan.at, i)}
           stop == Min(stops \cup {Len(data) + 1})
           segment == SubSeq(data, scan.at, stop - 1)
           block == BlockFrom(data, stop)
           next == AfterBlock(data, block.end)
<1>1. scan.at \in Nat /\ scan.error \in BlockErrors /\ scan.parts \in Seq(RawParts) /\ Len(data) \in Nat
  BY DEF Scans
<1>2. ASSUME NEW a \in Nat, NEW p \in Seq(RawParts)
      PROVE  [scan EXCEPT !.at = a, !.parts = p] \in Scans
  BY DEF Scans
<1>3. CASE scan.at = 0
  BY <1>3 DEF NextSegment
<1>4. CASE scan.at # 0
  <2> DEFINE S == stops \cup {Len(data) + 1}
  <2>1. S \subseteq Nat \ {0} /\ S \subseteq Nat /\ S # {} /\ Len(data) + 1 \in S
    <3> DEFINE a == scan.at
               n == Len(data)
    <3>1. a \in Nat \ {0} /\ n \in Nat
      BY <1>1, <1>4
    <3>2. \A k \in S : k = n + 1 \/ k \in a..n
      OBVIOUS
    <3>3. n + 1 \in S
      OBVIOUS
    <3> HIDE DEF a, n, S
    <3>4. \A k \in S : k \in Nat \ {0}
      BY <3>1, <3>2
    <3> QED BY <3>3, <3>4 DEF n
  <2> HIDE DEF S
  <2>2. Min(S) \in S /\ Min(S) <= Len(data) + 1
    BY <2>1, MinFacts
  <2>3. stop \in Nat \ {0} /\ stop <= Len(data) + 1
    BY <2>1, <2>2 DEF S
  <2> HIDE DEF stop
  <2>4. segment \in Seq(Characters)
    <3>1. \A i \in scan.at..(stop - 1) : data[i] \in Characters
      BY <1>1, <1>4, <2>3
    <3> QED BY <1>1, <2>3, <3>1, SubSeqProperties
  <2>5. block.error \in BlockErrors /\ block.payload \in Payloads /\ block.end \in Nat
    BY <2>3, BlockFromType DEF BlockErrors
  <2> HIDE DEF block
  <2>6. next \in Nat
    BY <2>5, AfterBlockType
  <2>7. AddText(scan.parts, segment) \in Seq(RawParts) /\ Strip(segment) \in Seq(Characters)
    BY <1>1, <2>4, AddTextType, StripType
  <2> HIDE DEF segment, next
  <2>8. CASE stop > Len(data)
    <3>1. NextSegment(data, scan) = [scan EXCEPT !.at = 0, !.parts = AddText(scan.parts, segment)]
      BY <1>4, <2>8, Zenon DEF NextSegment, stop, segment
    <3>2. 0 \in Nat
      OBVIOUS
    <3>3. [scan EXCEPT !.at = 0, !.parts = AddText(scan.parts, segment)] \in Scans
      BY <1>2, <2>7, <3>2, ZenonT(30)
    <3> QED BY <3>1, <3>3, Zenon
  <2>9. CASE ~(stop > Len(data)) /\ data[stop] # "#"
    <3>1. NextSegment(data, scan) = [scan EXCEPT !.at = stop + 1, !.parts = AddText(scan.parts, segment)]
      BY <1>4, <2>9, Zenon DEF NextSegment, stop, segment
    <3>2. stop + 1 \in Nat
      BY <2>3
    <3> QED BY <1>2, <2>7, <3>1, <3>2
  <2>10. CASE ~(stop > Len(data)) /\ data[stop] = "#"
    <3>1. NextSegment(data, scan) =
            IF block.error # "none" THEN Refused(block.error)
            ELSE IF Strip(segment) = <<>> \/ next = 0 THEN Refused("ProtocolError")
            ELSE [scan EXCEPT !.at = next,
                              !.parts = Append(scan.parts, [text |-> Strip(segment), block |-> TRUE,
                                                            payload |-> block.payload])]
      BY <1>4, <2>10, Zenon DEF NextSegment, stop, segment, block, next
    <3>2. \A e \in BlockErrors : Refused(e) \in Scans
      BY DEF Refused, Scans
    <3>3. "ProtocolError" \in BlockErrors
      BY DEF BlockErrors
    <3>4. CASE Strip(segment) # <<>>
      <4>1. [text |-> Strip(segment), block |-> TRUE, payload |-> block.payload] \in RawParts
        BY <2>5, <2>7, <3>4 DEF RawParts, Parts
      <4>2. Append(scan.parts, [text |-> Strip(segment), block |-> TRUE, payload |-> block.payload])
              \in Seq(RawParts)
        BY <1>1, <4>1, AppendProperties
      <4> QED BY <1>1, <2>5, <2>6, <3>1, <3>2, <3>3, <4>2 DEF Scans
    <3> QED BY <2>5, <3>1, <3>2, <3>3, <3>4
  <2> QED BY <2>8, <2>9, <2>10
<1> QED BY <1>3, <1>4

\* Sequences written out.
LEMMA Short ==
  ASSUME NEW S, NEW x \in S, NEW y \in S, NEW z \in S
  PROVE  <<x>> \in Seq(S) /\ <<x, y>> \in Seq(S) /\ <<x, y, z>> \in Seq(S)
OBVIOUS

\* The indices of a triple.
LEMMA OneToThree ==
  ASSUME NEW n, n = 3, NEW i \in 1..n
  PROVE  i = 1 \/ i = 2 \/ i = 3
OBVIOUS

\* The scan of a message, step by step.
LEMMA ScanSteps ==
  ASSUME NEW data \in Seq(Characters)
  PROVE  LET n == Len(data) + 1 IN
         \E c \in [0..n -> Scans] :
           /\ c[0] = [at |-> 1, error |-> "none", parts |-> <<>>]
           /\ \A k \in 1..n : c[k] = NextSegment(data, c[k - 1])
           /\ Scan(data) = c[n]
<1> DEFINE n == Len(data) + 1
           a == [at |-> 1, error |-> "none", parts |-> <<>>]
           g == [k \in 1..n |-> [x \in Scans |-> NextSegment(data, x)]]
           F(f) == [k \in 0..n |-> IF k = 0 THEN a ELSE NextSegment(data, f[k - 1])]
           c == CHOOSE f : f = F(f)
<1>1. a \in Scans
  BY DEF Scans, BlockErrors
<1>2. n \in Nat
  OBVIOUS
<1>3. Scan(data) = c[n]
  BY DEF Scan
<1> HIDE DEF a, n
<1>4. g \in [1..n -> [Scans -> Scans]]
  BY NextSegmentType
<1>5. PICK h \in [0..n -> Scans] : h[0] = a /\ \A k \in 1..n : h[k] = g[k][h[k - 1]]
  <2> HIDE DEF g
  <2>1. Iterable(Scans, a, n, g)
    BY <1>1, <1>2, <1>4, Iteration
  <2> QED BY <2>1 DEF Iterable
<1>6. h = F(h)
  <2>1. ASSUME NEW k \in 1..n PROVE h[k] = NextSegment(data, h[k - 1])
    <3>1. h[k - 1] \in Scans
      BY <1>2
    <3>2. g[k][h[k - 1]] = NextSegment(data, h[k - 1])
      BY <3>1
    <3> HIDE DEF g
    <3> QED BY <1>5, <3>2
  <2>2. \A k \in 0..n : h[k] = F(h)[k]
    BY <1>2, <1>5, <2>1
  <2>3. DOMAIN F(h) = 0..n /\ F(h) = [k \in 0..n |-> F(h)[k]]
    OBVIOUS
  <2> HIDE DEF F
  <2> QED BY <2>2, <2>3
<1>7. c = F(c)
  <2> HIDE DEF F
  <2> QED BY <1>6
<1> HIDE DEF c
<1>8. c[0] = a /\ \A k \in 1..n : c[k] = NextSegment(data, c[k - 1])
  BY <1>2, <1>7
<1>9. \A k \in 0..n : c[k] \in Scans
  <2>1. \A k \in 1..n : c[k - 1] \in Scans => c[k] \in Scans
    BY <1>8, NextSegmentType
  <2>2. c[0] \in Scans
    BY <1>1, <1>8
  <2> QED BY <1>2, <2>1, <2>2, Kept
<1>10. c \in [0..n -> Scans]
  <2>1. DOMAIN c = 0..n /\ c = [k \in 0..n |-> c[k]]
    BY <1>7
  <2> QED BY <1>9, <2>1
<1> QED BY <1>3, <1>8, <1>10 DEF a, n

\* The whole scan of a message.
LEMMA ScanType ==
  ASSUME NEW data \in Seq(Characters)
  PROVE  Scan(data) \in Scans
<1> DEFINE n == Len(data) + 1
<1>1. PICK c \in [0..n -> Scans] : Scan(data) = c[n]
  BY ScanSteps
<1>2. n \in 0..n
  OBVIOUS
<1> QED BY <1>1, <1>2

\* The header path of a command.
LEMMA ParentType ==
  ASSUME NEW text \in Seq(Characters)
  PROVE  Parent(text) \in Seq(Characters)
<1> DEFINE S == {i \in 1..Len(text) : text[i] \in Blank} \cup {Len(text) + 1}
           header == SubSeq(text, 1, Min(S) - 1)
           colons == {i \in 1..Len(header) : header[i] = ":"}
<1>1. Len(text) \in Nat /\ S \subseteq Nat \ {0} /\ S \subseteq Nat /\ S # {} /\ Len(text) + 1 \in S
  OBVIOUS
<1> HIDE DEF S
<1>2. Min(S) \in Nat \ {0} /\ Min(S) <= Len(text) + 1
  BY <1>1, MinFacts
<1>3. header \in Seq(Characters)
  <2>1. \A i \in 1..(Min(S) - 1) : text[i] \in Characters
    BY <1>1, <1>2
  <2> QED BY <1>2, <2>1, SubSeqProperties
<1> HIDE DEF header
<1>4. Parent(text) = IF colons = {} \/ header[1] = "*" THEN <<>> ELSE SubSeq(header, 1, Max(colons) - 1)
  BY Zenon DEF Parent, header, S
<1>5. Len(header) \in Nat /\ colons \subseteq 0..Len(header) /\ colons \subseteq 1..Len(header)
  BY <1>3
<1> HIDE DEF colons
<1>6. CASE colons # {}
  <2>1. Max(colons) \in 1..Len(header)
    BY <1>5, <1>6, MaxFacts
  <2>2. \A i \in 1..(Max(colons) - 1) : header[i] \in Characters
    BY <1>3, <1>5, <2>1
  <2>3. SubSeq(header, 1, Max(colons) - 1) \in Seq(Characters)
    BY <1>5, <2>1, <2>2, SubSeqProperties
  <2> QED BY <1>4, <2>3
<1>7. CASE colons = {}
  BY <1>4, <1>7
<1> QED BY <1>6, <1>7

\* A command under the header path of the former one.
LEMMA CompleteType ==
  ASSUME NEW text \in Seq(Characters), text # <<>>, NEW parent \in Seq(Characters)
  PROVE  Complete(text, parent) \in Seq(Characters)
<1>1. Tail(text) \in Seq(Characters)
  BY HeadTailProperties
<1>2. parent \o <<":">> \o text \in Seq(Characters)
  <2>1. <<":">> \in Seq(Characters)
    BY Letters, Short
  <2>2. parent \o <<":">> \in Seq(Characters)
    BY <2>1, ConcatProperties
  <2> QED BY <2>2, ConcatProperties
<1> QED BY <1>1, <1>2, Zenon DEF Complete

\* The completion of the headers, step by step.
LEMMA InheritSteps ==
  ASSUME NEW parts \in Seq(RawParts)
  PROVE  \E c \in [0..Len(parts) -> Seq(Characters)] :
           /\ c[0] = <<>>
           /\ \A k \in 1..Len(parts) : c[k] = Complete(parts[k].text, Parent(c[k - 1]))
           /\ InheritHeaderPaths(parts) = [k \in 1..Len(parts) |-> [parts[k] EXCEPT !.text = c[k]]]
<1> DEFINE n == Len(parts)
           D == Seq(Characters)
           Next1(k, x) == Complete(parts[k].text, Parent(x))
           g == [k \in 1..n |-> [x \in D |-> Next1(k, x)]]
           F(f) == [k \in 0..n |-> IF k = 0 THEN <<>> ELSE Next1(k, f[k - 1])]
           c == CHOOSE f : f = F(f)
<1>1. n \in Nat /\ DOMAIN parts = 1..n /\ <<>> \in D
  OBVIOUS
<1>2. InheritHeaderPaths(parts) = [k \in 1..n |-> [parts[k] EXCEPT !.text = c[k]]]
  BY <1>1 DEF InheritHeaderPaths
<1>3. ASSUME NEW k \in 1..n, NEW x \in D PROVE Next1(k, x) \in D
  <2>1. parts[k] \in RawParts
    OBVIOUS
  <2>2. parts[k].text \in Seq(Characters) /\ parts[k].text # <<>>
    BY <2>1 DEF RawParts, Parts
  <2>3. Parent(x) \in Seq(Characters)
    BY ParentType
  <2> QED BY <2>2, <2>3, CompleteType
<1> HIDE DEF Next1, D
<1>4. g \in [1..n -> [D -> D]]
  BY <1>3
<1>5. PICK h \in [0..n -> D] : h[0] = <<>> /\ \A k \in 1..n : h[k] = g[k][h[k - 1]]
  <2> DEFINE a == <<>>
  <2>1. a \in D
    BY <1>1
  <2> HIDE DEF g, n, a
  <2>2. Iterable(D, a, n, g)
    BY <1>1, <1>4, <2>1, Iteration
  <2> QED BY <2>2 DEF Iterable, a
<1> HIDE DEF n
<1>6. h = F(h)
  <2>1. ASSUME NEW k \in 1..n PROVE h[k] = Next1(k, h[k - 1])
    <3>1. h[k - 1] \in D
      BY <1>1
    <3>2. g[k][h[k - 1]] = Next1(k, h[k - 1])
      BY <3>1
    <3> HIDE DEF g
    <3> QED BY <1>5, <3>2
  <2>2. \A k \in 0..n : h[k] = F(h)[k]
    BY <1>1, <1>5, <2>1
  <2>3. DOMAIN F(h) = 0..n /\ F(h) = [k \in 0..n |-> F(h)[k]]
    OBVIOUS
  <2> HIDE DEF F
  <2> QED BY <2>2, <2>3
<1>7. c = F(c)
  <2> HIDE DEF F
  <2> QED BY <1>6
<1> HIDE DEF c
<1>8. c[0] = <<>> /\ \A k \in 1..n : c[k] = Next1(k, c[k - 1])
  BY <1>1, <1>7
<1>9. \A k \in 0..n : c[k] \in D
  <2>1. \A k \in 1..n : c[k - 1] \in D => c[k] \in D
    BY <1>3, <1>8
  <2>2. c[0] \in D
    BY <1>1, <1>8
  <2> QED BY <1>1, <2>1, <2>2, Kept
<1>10. c \in [0..n -> D]
  <2>1. DOMAIN c = 0..n /\ c = [k \in 0..n |-> c[k]]
    BY <1>7
  <2> QED BY <1>9, <2>1
<1> QED BY <1>2, <1>8, <1>10 DEF n, D, Next1

\* Every part gets its full header, and none is lost.
LEMMA InheritType ==
  ASSUME NEW parts \in Seq(RawParts)
  PROVE  /\ InheritHeaderPaths(parts) \in Seq(Parts)
         /\ Len(InheritHeaderPaths(parts)) = Len(parts)
<1> DEFINE n == Len(parts)
<1>1. n \in Nat
  OBVIOUS
<1>2. PICK c \in [0..n -> Seq(Characters)] :
        InheritHeaderPaths(parts) = [k \in 1..n |-> [parts[k] EXCEPT !.text = c[k]]]
  BY InheritSteps
<1>3. \A k \in 1..n : [parts[k] EXCEPT !.text = c[k]] \in Parts
  <2> SUFFICES ASSUME NEW k \in 1..n PROVE [parts[k] EXCEPT !.text = c[k]] \in Parts
    OBVIOUS
  <2>1. parts[k] \in Parts
    BY DEF RawParts
  <2>2. c[k] \in Seq(Characters)
    OBVIOUS
  <2> QED BY <2>1, <2>2 DEF Parts
<1>4. [k \in 1..n |-> [parts[k] EXCEPT !.text = c[k]]] \in Seq(Parts)
  BY <1>1, <1>3
<1>5. Len([k \in 1..n |-> [parts[k] EXCEPT !.text = c[k]]]) = n
  BY <1>1
<1> QED BY <1>2, <1>4, <1>5

\* Whatever is sent, the parser answers with parts or with an error and none.
LEMMA SplitOutboundType ==
  ASSUME NEW data \in Seq(Characters)
  PROVE  /\ SplitOutbound(data).parts \in Seq(Parts)
         /\ SplitOutbound(data).error \in BlockErrors
<1>1. Scan(data).error \in BlockErrors /\ Scan(data).parts \in Seq(RawParts)
  BY ScanType DEF Scans
<1>2. InheritHeaderPaths(Scan(data).parts) \in Seq(Parts)
  BY <1>1, InheritType
<1>3. InheritHeaderPaths(SplitText(data)) \in Seq(Parts)
  BY SplitTextType, InheritType
<1>4. "none" \in BlockErrors /\ <<>> \in Seq(Parts)
  BY DEF BlockErrors
<1>5. SplitOutbound(data) \in
        { [error |-> "none", parts |-> InheritHeaderPaths(SplitText(data))],
          [error |-> Scan(data).error, parts |-> <<>>],
          [error |-> "none", parts |-> InheritHeaderPaths(Scan(data).parts)] }
  BY Zenon DEF SplitOutbound
<1>6. ASSUME NEW e \in BlockErrors, NEW p \in Seq(Parts), SplitOutbound(data) = [error |-> e, parts |-> p]
      PROVE  SplitOutbound(data).parts \in Seq(Parts) /\ SplitOutbound(data).error \in BlockErrors
  BY <1>6
<1> QED BY <1>1, <1>2, <1>3, <1>4, <1>5, <1>6

\* A message as the test writes it is made of characters.
LEMMA JoinedType ==
  ASSUME NEW path \in Seq(Characters)
  PROVE  Joined(path) \in Seq(Characters)
<1> DEFINE e(j) == IF j % 2 = 0 THEN ":" ELSE path[(j + 1) \div 2]
           n == 2 * Len(path) - 1
<1>1. \A j \in 1..n : e(j) \in Characters
  <2> SUFFICES ASSUME NEW j \in 1..n PROVE e(j) \in Characters
    OBVIOUS
  <2>1. CASE j % 2 = 0
    BY <2>1, Letters
  <2>2. CASE j % 2 # 0
    <3>1. (j + 1) \div 2 \in 1..Len(path)
      OBVIOUS
    <3>2. path[(j + 1) \div 2] \in Characters
      BY <3>1
    <3> QED BY <2>2, <3>2
  <2> QED BY <2>1, <2>2
<1>2. Joined(path) = [j \in 1..n |-> e(j)]
  BY DEF Joined
<1>3. n \in Nat \/ n = -1
  OBVIOUS
<1> HIDE DEF e, n
<1>4. CASE n \in Nat
  BY <1>1, <1>2, <1>4
<1>5. CASE n = -1
  <2>1. 1..n = 1..0
    BY <1>5
  <2>2. Joined(path) = [j \in 1..0 |-> e(j)]
    BY <1>2, <2>1, Zenon
  <2>3. \A j \in 1..0 : e(j) \in Characters
    OBVIOUS
  <2> QED BY <2>2, <2>3
<1> QED BY <1>3, <1>4, <1>5

\* The text of a command that a test sends, its argument included.
LEMMA ArgumentType ==
  ASSUME NEW item \in Items
  PROVE  Argument(item) \in Seq(Characters)
<1>1. item.arg \in Arguments /\ item.payload \in Payloads
  BY DEF Items
<1>2. <<>> \in Seq(Characters)
  OBVIOUS
<1>3. <<" ", "dq", ";", "dq", "dq", "dq">> \in Seq(Characters)
  <2>1. ASSUME NEW s, NEW q, NEW b, s \in Characters, q \in Characters, b \in Characters
        PROVE  <<b, q, s, q, q, q>> \in Seq(Characters)
    BY <2>1
  <2> QED BY <2>1, Letters
<1>4. <<" ", "#", "H", "1">> \in Seq(Characters)
  <2>1. ASSUME NEW b, NEW h, NEW c, NEW d, b \in Characters, h \in Characters, c \in Characters, d \in Characters
        PROVE  <<b, h, c, d>> \in Seq(Characters)
    BY <2>1
  <2> QED BY <2>1, Letters
<1>5. <<" ", "#", "1", "9", "x">> \in Seq(Characters)
  <2>1. ASSUME NEW b, NEW h, NEW c, NEW d, NEW e,
               b \in Characters, h \in Characters, c \in Characters, d \in Characters, e \in Characters
        PROVE  <<b, h, c, d, e>> \in Seq(Characters)
    BY <2>1
  <2> QED BY <2>1, Letters
<1>6. <<" ">> \o EncodeBlock(item.payload) \in Seq(Characters)
  <2>1. EncodeBlock(item.payload) \in Seq(Characters)
    BY <1>1, Encoded
  <2>2. <<" ">> \in Seq(Characters)
    BY Letters, Short
  <2> QED BY <2>1, <2>2, ConcatProperties
<1>7. CASE item.arg = "none"
  BY <1>2, <1>7 DEF Argument
<1>8. CASE item.arg = "string"
  BY <1>3, <1>8 DEF Argument
<1>9. CASE item.arg = "hex"
  BY <1>4, <1>9 DEF Argument
<1>10. CASE item.arg = "block"
  BY <1>6, <1>10 DEF Argument
<1>11. CASE item.arg = "cut"
  BY <1>5, <1>11 DEF Argument
<1>12. CASE item.arg = "query"
  <2>1. <<"?">> \in Seq(Characters)
    BY Letters, Short
  <2> QED BY <1>12, <2>1 DEF Argument
<1> QED BY <1>1, <1>7, <1>8, <1>9, <1>10, <1>11, <1>12 DEF Arguments

\* A header as it is sent.
LEMMA HeaderType ==
  ASSUME NEW item \in Items
  PROVE  Header(item) \in Seq(Characters)
<1>1. item.lead \in {"", ":", "*"} /\ item.path \in Seq(Characters)
  BY DEF Items
<1>2. Joined(item.path) \in Seq(Characters)
  BY <1>1, JoinedType
<1>3. CASE item.lead = ""
  <2>1. Header(item) = <<>> \o Joined(item.path)
    BY <1>3 DEF Header
  <2> QED BY <1>2, <2>1, ConcatEmptySeq
<1>4. CASE item.lead # ""
  <2>1. <<item.lead>> \in Seq(Characters)
    BY <1>1, <1>4, Letters, Short
  <2>2. Header(item) = <<item.lead>> \o Joined(item.path)
    BY <1>4 DEF Header
  <2> QED BY <1>2, <2>1, <2>2, ConcatProperties
<1> QED BY <1>3, <1>4

\* A command as it is sent, with its separator.
LEMMA WrittenType ==
  ASSUME NEW item \in Items
  PROVE  Written(item) \in Seq(Characters)
<1>1. item.sep \in Characters
  BY DEF Items
<1>2. Header(item) \in Seq(Characters) /\ Argument(item) \in Seq(Characters) /\ <<item.sep>> \in Seq(Characters)
  BY <1>1, HeaderType, ArgumentType, Short
<1>3. Header(item) \o Argument(item) \in Seq(Characters)
  BY <1>2, ConcatProperties
<1> QED BY <1>2, <1>3, ConcatProperties DEF Written

\* A program message that a test sends.
LEMMA RenderedType ==
  ASSUME NEW message \in Seq(Items)
  PROVE  /\ Rendered(message) \in Seq(Characters)
         /\ [k \in DOMAIN message |-> Written(message[k])] \in Seq(Seq(Characters))
<1> DEFINE n == Len(message)
<1>1. n \in Nat /\ DOMAIN message = 1..n
  OBVIOUS
<1>2. \A k \in 1..n : Written(message[k]) \in Seq(Characters)
  BY WrittenType
<1> HIDE DEF n
<1>3. [k \in 1..n |-> Written(message[k])] \in Seq(Seq(Characters))
  BY <1>1, <1>2
<1> QED BY <1>1, <1>3, FlattenType DEF Rendered

\* The message of an exchange is one a test may write.
LEMMA QueryType ==
  ASSUME NEW n \in {1, 2}
  PROVE  /\ Query(n) \in Seq(Items) /\ Len(Query(n)) = n /\ WellFormed(Query(n))
         /\ \A k \in 1..n : Query(n)[k].arg = "query"
<1>0. <<>> \in Payloads
  BY BlockAssumption DEF Payloads
<1> DEFINE Asks == {Ask("Q", "nl"), Ask("Q", ";"), Ask("R", "nl")}
<1>1. ASSUME NEW item \in Asks
      PROVE  /\ item \in Items /\ item.arg = "query" /\ item.payload = <<>>
             /\ item.path \in Seq(Characters \ Special) \ {<<>>} /\ item.sep \in {";", "nl"}
  <2>1. "Q" \in Characters \ Special /\ "R" \in Characters \ Special /\ ";" \in Characters /\ "nl" \in Characters
    BY Letters DEF Special
  <2>2. PICK m \in {"Q", "R"}, sep \in {";", "nl"} : item = Ask(m, sep)
    OBVIOUS
  <2>3. m \in Characters \ Special /\ m \in Characters /\ sep \in Characters
    BY <2>1
  <2>4. <<m>> \in Seq(Characters \ Special) /\ <<m>> # <<>> /\ <<m>> \in Seq(Characters)
    BY <2>3, Short
  <2> QED BY <1>0, <2>2, <2>3, <2>4 DEF Ask, Items, Arguments
<1>2. Query(n) \in Seq(Asks) /\ Len(Query(n)) = n
  <2>1. Ask("Q", "nl") \in Asks /\ Ask("Q", ";") \in Asks /\ Ask("R", "nl") \in Asks
    OBVIOUS
  <2>2. ASSUME NEW a \in Asks, NEW b \in Asks
        PROVE  <<a>> \in Seq(Asks) /\ <<a, b>> \in Seq(Asks) /\ Len(<<a>>) = 1 /\ Len(<<a, b>>) = 2
    BY Short
  <2> HIDE DEF Asks
  <2> QED BY <2>1, <2>2 DEF Query
<1> HIDE DEF Asks
<1>3. \A k \in 1..n : Query(n)[k] \in Asks
  BY <1>2
<1>4. Query(n) \in Seq(Items)
  <2>1. \A k \in 1..n : Query(n)[k] \in Items
    BY <1>1, <1>3
  <2> QED BY <1>2, <2>1
<1>5. WellFormed(Query(n))
  <2> SUFFICES ASSUME NEW k \in DOMAIN Query(n)
               PROVE  /\ Query(n)[k].path \in Seq(Characters \ Special) \ {<<>>}
                      /\ Query(n)[k].arg # "block" => Query(n)[k].payload = <<>>
                      /\ Query(n)[k].arg = "cut" => k = Len(Query(n))
                      /\ Query(n)[k].sep \in {";", "nl"}
    BY DEF WellFormed
  <2>1. Query(n)[k] \in Asks
    BY <1>2, <1>3
  <2> QED BY <1>1, <2>1
<1> QED BY <1>1, <1>2, <1>3, <1>4, <1>5

------------------------------------------------------------------------------
\* Where the parts of a stream are.

\* What has to be shown of the least, and of the greatest element.
LEMMA LeastIs ==
  ASSUME NEW S, S \subseteq Nat, NEW m \in S, \A y \in S : m <= y
  PROVE  Min(S) = m
<1>1. Min(S) \in S /\ Min(S) <= m
  BY MinFacts
<1>2. Min(S) \in Nat /\ m \in Nat /\ m <= Min(S)
  BY <1>1
<1> QED BY <1>1, <1>2

\* The same of the greatest.
LEMMA GreatestIs ==
  ASSUME NEW n \in Nat, NEW S, S \subseteq 0..n, NEW m \in S, \A y \in S : m >= y
  PROVE  Max(S) = m
<1>1. Max(S) \in S /\ Max(S) >= m
  BY MaxFacts
<1>2. Max(S) \in 0..n /\ m \in 0..n /\ Max(S) <= m
  BY <1>1
<1> QED BY <1>1, <1>2

\* Where the bytes of a concatenation come from.
LEMMA Spots ==
  ASSUME NEW S, NEW x \in Seq(S), NEW y \in Seq(S)
  PROVE  /\ x \o y \in Seq(S) /\ Len(x \o y) = Len(x) + Len(y)
         /\ \A i \in 1..Len(x) : (x \o y)[i] = x[i]
         /\ \A j \in 1..Len(y) : (x \o y)[Len(x) + j] = y[j]
<1> DEFINE z == x \o y
           m == Len(x)
           n == Len(y)
<1>1. m \in Nat /\ n \in Nat
  OBVIOUS
<1>2. z \in Seq(S) /\ Len(z) = m + n /\ \A i \in 1..(m + n) : z[i] = IF i <= m THEN x[i] ELSE y[i - m]
  BY ConcatProperties
<1> HIDE DEF z, m, n
<1>3. \A i \in 1..m : z[i] = x[i]
  BY <1>1, <1>2
<1>4. \A j \in 1..n : z[m + j] = y[j]
  <2> TAKE j \in 1..n
  <2>1. m + j \in 1..(m + n) /\ ~(m + j <= m) /\ (m + j) - m = j
    BY <1>1
  <2> QED BY <1>2, <2>1
<1> QED BY <1>2, <1>3, <1>4 DEF z, m, n

\* The positions of the parts of s in data.
Places(s, data, off) ==
  /\ off[0] = 0 /\ off[Len(s)] = Len(data)
  /\ \A k \in 1..Len(s) : off[k] = off[k - 1] + Len(s[k])
  /\ \A k \in 1..Len(s) : off[k - 1] <= off[k] /\ off[k] <= Len(data)
  /\ \A k \in 1..Len(s) : \A j \in 1..Len(s[k]) : data[off[k - 1] + j] = s[k][j]

\* Every byte of a part is in the stream, behind the parts before it.
LEMMA Placed ==
  ASSUME NEW S, NEW s \in Seq(Seq(S))
  PROVE  \E off \in [0..Len(s) -> Nat] : Places(s, FlattenSeq(s), off)
<1> DEFINE n == Len(s)
<1>1. n \in Nat /\ \A k \in 1..n : s[k] \in Seq(S)
  OBVIOUS
<1>2. PICK h \in [0..n -> Seq(S)] : /\ h[0] = <<>>
                                    /\ \A k \in 1..n : h[k] = h[k - 1] \o s[k]
                                    /\ FlattenSeq(s) = h[n]
  BY Flattening
<1> HIDE DEF n
<1> DEFINE off == [k \in 0..n |-> Len(h[k])]
           At(m) == \A k \in 1..m : /\ off[k] <= off[m]
                                    /\ \A j \in 1..Len(s[k]) : h[m][off[k - 1] + j] = s[k][j]
           T == {m \in 0..n : At(m)}
<1>3. off \in [0..n -> Nat] /\ \A k \in 0..n : off[k] = Len(h[k]) /\ off[k] \in Nat
  BY <1>1, <1>2
<1>4. ASSUME NEW k \in 1..n
      PROVE  /\ k - 1 \in 0..n /\ k \in 0..n
             /\ Len(s[k]) \in Nat
             /\ off[k] = off[k - 1] + Len(s[k])
             /\ \A i \in 1..off[k - 1] : h[k][i] = h[k - 1][i]
             /\ \A j \in 1..Len(s[k]) : h[k][off[k - 1] + j] = s[k][j]
  <2>1. k - 1 \in 0..n /\ k \in 0..n /\ h[k - 1] \in Seq(S) /\ s[k] \in Seq(S)
    BY <1>1, <1>2
  <2>2. h[k] = h[k - 1] \o s[k]
    BY <1>2
  <2>3. /\ Len(h[k]) = Len(h[k - 1]) + Len(s[k])
        /\ \A i \in 1..Len(h[k - 1]) : h[k][i] = h[k - 1][i]
        /\ \A j \in 1..Len(s[k]) : h[k][Len(h[k - 1]) + j] = s[k][j]
    <3>1. LET x == h[k - 1] y == s[k] IN
          /\ Len(x \o y) = Len(x) + Len(y)
          /\ \A i \in 1..Len(x) : (x \o y)[i] = x[i]
          /\ \A j \in 1..Len(y) : (x \o y)[Len(x) + j] = y[j]
      BY <2>1, Spots
    <3> QED BY <2>2, <3>1, Zenon
  <2>4. off[k] = Len(h[k]) /\ off[k - 1] = Len(h[k - 1]) /\ Len(s[k]) \in Nat
    BY <1>3, <2>1
  <2> HIDE DEF off
  <2> QED BY <2>1, <2>3, <2>4, Zenon
<1> HIDE DEF off
<1>5. 0 \in T
  BY <1>1
<1>6. \A m \in 1..n : m - 1 \in T => m \in T
  <2> SUFFICES ASSUME NEW m \in 1..n, At(m - 1) PROVE At(m)
    <3>1. \A m \in 1..n : m \in 0..n /\ m - 1 \in 0..n
      BY <1>1
    <3> HIDE DEF At
    <3> QED BY <3>1
  <2>0. m \in Nat /\ m - 1 \in 0..n /\ m \in 0..n
    BY <1>1
  <2>1. off[m - 1] \in Nat /\ off[m] \in Nat /\ off[m] = off[m - 1] + Len(s[m]) /\ Len(s[m]) \in Nat
    BY <1>3, <1>4, <2>0
  <2> SUFFICES ASSUME NEW k \in 1..m
               PROVE  /\ off[k] <= off[m]
                      /\ \A j \in 1..Len(s[k]) : h[m][off[k - 1] + j] = s[k][j]
    OBVIOUS
  <2>2. CASE k = m
    BY <1>4, <2>1, <2>2
  <2>3. CASE k # m
    <3>1. k \in 1..(m - 1) /\ k \in 1..n /\ k \in 0..n /\ k - 1 \in 0..n
      BY <1>1, <2>0, <2>3
    <3>2. off[k] <= off[m - 1] /\ \A j \in 1..Len(s[k]) : h[m - 1][off[k - 1] + j] = s[k][j]
      BY <3>1
    <3>3. off[k] \in Nat /\ off[k - 1] \in Nat
      BY <1>3, <3>1
    <3>4. off[k] = off[k - 1] + Len(s[k]) /\ Len(s[k]) \in Nat
      BY <1>4, <3>1
    <3> HIDE DEF At
    <3>5. ASSUME NEW j \in 1..Len(s[k]) PROVE h[m][off[k - 1] + j] = s[k][j]
      <4> DEFINE a == off[k - 1]
                 b == off[m - 1]
                 l == Len(s[k])
      <4>1. a \in Nat /\ b \in Nat /\ l \in Nat /\ a + l <= b /\ j \in 1..l
        BY <2>1, <3>2, <3>3, <3>4
      <4> HIDE DEF a, b, l
      <4>2. a + j \in 1..b
        BY <4>1
      <4>3. h[m][a + j] = h[m - 1][a + j]
        BY <1>4, <4>2 DEF b
      <4> QED BY <3>2, <4>3 DEF a
    <3>6. off[k] <= off[m]
      <4> DEFINE a == off[k]
                 b == off[m - 1]
                 c == off[m]
                 l == Len(s[m])
      <4>1. a \in Nat /\ b \in Nat /\ c \in Nat /\ l \in Nat /\ c = b + l /\ a <= b
        BY <2>1, <3>2, <3>3
      <4> HIDE DEF a, b, c, l
      <4>2. a <= c
        BY <4>1
      <4> QED BY <4>2 DEF a, c
    <3> QED BY <3>5, <3>6
  <2> QED BY <2>2, <2>3
<1>7. At(n)
  <2> HIDE DEF T
  <2>1. \A m \in 0..n : m \in T
    BY <1>1, <1>5, <1>6, Induction
  <2>2. n \in T
    BY <1>1, <2>1
  <2> QED BY <2>2 DEF T
<1>8. off[0] = 0
  <2>1. 0 \in 0..n /\ Len(h[0]) = 0
    BY <1>1, <1>2
  <2> QED BY <1>3, <2>1
<1>9. \A k \in 1..n : off[k - 1] <= off[k]
  <2> TAKE k \in 1..n
  <2>1. off[k - 1] \in Nat
    BY <1>3, <1>4
  <2> QED BY <1>4, <2>1
<1>10. off[n] = Len(FlattenSeq(s))
  BY <1>1, <1>2, <1>3
<1>11. \A k \in 1..n : off[k] = off[k - 1] + Len(s[k])
  BY <1>4
<1>12. \A k \in 1..n : off[k] <= Len(FlattenSeq(s))
  BY <1>7, <1>10
<1>13. \A k \in 1..n : \A j \in 1..Len(s[k]) : FlattenSeq(s)[off[k - 1] + j] = s[k][j]
  BY <1>2, <1>7
<1> HIDE DEF off
<1>14. Places(s, FlattenSeq(s), off)
  BY <1>8, <1>9, <1>10, <1>11, <1>12, <1>13, Zenon DEF Places, n
<1> QED BY <1>1, <1>3, <1>14, Zenon DEF n

------------------------------------------------------------------------------
\* What a test writes: headers and arguments, byte by byte.

\* The characters of a header.
Plain == (Characters \ Special) \cup {":", "*"}

\* What WellFormed asks of an item, but for its place in the message.
Sound(item) ==
  /\ item \in Items
  /\ item.path \in Seq(Characters \ Special) \ {<<>>}
  /\ item.arg # "block" => item.payload = <<>>
  /\ item.sep \in {";", "nl"}

\* The argument that remains in the text of a command.
Behind(item) == IF item.arg \in {"block", "cut"} THEN <<>> ELSE Argument(item)

\* A command before its header is completed.
Raw(item) == [text |-> Header(item) \o Behind(item), block |-> item.arg = "block",
              payload |-> item.payload]

\* No character of a header is white space, a separator, or starts an argument.
LEMMA PlainFacts ==
  /\ Plain \subseteq Characters
  /\ \A c \in Plain : /\ c \notin Blank \cup {"nl"} /\ c # ";" /\ c # "#" /\ c # "," /\ c # "dq"
                      /\ c # "nl" /\ c # " " /\ c # "tab"
  /\ \A c \in Characters \ Special : c # ":" /\ c # "*" /\ c \in Plain
<1>1. Plain \subseteq Characters
  BY Letters DEF Plain
<1>2. \A c \in Characters \ Special : c # ":" /\ c # "*" /\ c \in Plain
  BY DEF Plain, Special
<1>3. \A c \in Plain : c = ":" \/ c = "*" \/ c \notin Special
  BY DEF Plain
<1>4. \A c \in Plain : /\ c # ";" /\ c # "#" /\ c # "," /\ c # "dq"
                       /\ c # "nl" /\ c # " " /\ c # "tab"
  BY <1>3 DEF Special
<1> QED BY <1>1, <1>2, <1>4 DEF Blank

\* Every index of a joined path is that of a mnemonic or of a colon.
LEMMA Halves ==
  ASSUME NEW n \in Nat, NEW j \in 1..(2 * n - 1)
  PROVE  \/ \E i \in 1..n : j = 2 * i - 1
         \/ \E i \in 1..(n - 1) : j = 2 * i
<1>1. CASE j % 2 = 0
  <2>1. j \div 2 \in 1..(n - 1) /\ j = 2 * (j \div 2)
    BY <1>1
  <2> QED BY <2>1
<1>2. CASE j % 2 # 0
  <2>1. (j + 1) \div 2 \in 1..n /\ j = 2 * ((j + 1) \div 2) - 1
    BY <1>2
  <2> QED BY <2>1
<1> QED BY <1>1, <1>2

\* The mnemonics of a path and the colons between them.
LEMMA JoinedFacts ==
  ASSUME NEW path \in Seq(Characters \ Special) \ {<<>>}
  PROVE  /\ Joined(path) \in Seq(Plain) /\ Joined(path) \in Seq(Characters)
         /\ Len(path) \in Nat \ {0} /\ Len(Joined(path)) = 2 * Len(path) - 1
         /\ \A i \in 1..Len(path) : Joined(path)[2 * i - 1] = path[i]
         /\ \A i \in 1..(Len(path) - 1) : Joined(path)[2 * i] = ":"
         /\ \A i \in 1..Len(path) : path[i] \in Plain /\ path[i] # ":" /\ path[i] # "*"
<1> DEFINE n == Len(path)
           e(j) == IF j % 2 = 0 THEN ":" ELSE path[(j + 1) \div 2]
           m == 2 * n - 1
<1>1. n \in Nat \ {0} /\ m \in Nat \ {0}
  OBVIOUS
<1>2. \A i \in 1..n : path[i] \in Plain /\ path[i] # ":" /\ path[i] # "*"
  <2>1. \A i \in 1..n : path[i] \in Characters \ Special
    OBVIOUS
  <2> QED BY <2>1, PlainFacts
<1>3. Joined(path) = [j \in 1..m |-> e(j)]
  BY DEF Joined
<1>4. \A i \in 1..n : 2 * i - 1 \in 1..m /\ e(2 * i - 1) = path[i]
  <2> TAKE i \in 1..n
  <2>1. 2 * i - 1 \in 1..m /\ (2 * i - 1) % 2 # 0 /\ ((2 * i - 1) + 1) \div 2 = i
    BY <1>1
  <2> QED BY <2>1
<1>5. \A i \in 1..(n - 1) : 2 * i \in 1..m /\ e(2 * i) = ":"
  <2> TAKE i \in 1..(n - 1)
  <2>1. 2 * i \in 1..m /\ (2 * i) % 2 = 0
    BY <1>1
  <2> QED BY <2>1
<1>6. \A j \in 1..m : e(j) \in Plain
  <2> TAKE j \in 1..m
  <2>0. n \in Nat /\ j \in 1..(2 * n - 1)
    BY <1>1
  <2> HIDE DEF n, m, e
  <2>1. CASE \E i \in 1..n : j = 2 * i - 1
    BY <1>2, <1>4, <2>1
  <2>2. CASE \E i \in 1..(n - 1) : j = 2 * i
    BY <1>5, <2>2 DEF Plain
  <2> QED BY <2>0, <2>1, <2>2, Halves
<1> HIDE DEF e, m
<1>7. Joined(path) \in Seq(Plain) /\ Len(Joined(path)) = m
  BY <1>1, <1>3, <1>6
<1>8. \A j \in 1..m : Joined(path)[j] = e(j)
  BY <1>3
<1>9. Joined(path) \in Seq(Characters)
  BY <1>7, PlainFacts, SeqMonotonic
<1>10. \A i \in 1..n : Joined(path)[2 * i - 1] = path[i]
  BY <1>4, <1>8
<1>11. \A i \in 1..(n - 1) : Joined(path)[2 * i] = ":"
  BY <1>5, <1>8
<1> QED BY <1>1, <1>2, <1>7, <1>9, <1>10, <1>11 DEF m

\* A header is plain, and shows by its first character where it stands.
LEMMA HeaderFacts ==
  ASSUME NEW item, Sound(item)
  PROVE  LET h == Header(item) IN
         /\ h \in Seq(Plain) /\ h \in Seq(Characters) /\ Len(h) \in Nat \ {0} /\ h # <<>>
         /\ \A j \in 1..Len(h) : h[j] \in Plain
         /\ h[1] = ":" <=> item.lead = ":"
         /\ h[1] = "*" <=> item.lead = "*"
         /\ Joined(item.path) \in Seq(Characters)
         /\ h = (IF item.lead = "" THEN <<>> ELSE <<item.lead>>) \o Joined(item.path)
<1> DEFINE h == Header(item)
           t == Joined(item.path)
<1>1. item.lead \in {"", ":", "*"} /\ item.path \in Seq(Characters \ Special) \ {<<>>}
  BY DEF Sound, Items
<1>2. /\ t \in Seq(Plain) /\ t \in Seq(Characters) /\ Len(t) \in Nat \ {0}
      /\ t[1] # ":" /\ t[1] # "*"
  <2>1. /\ t \in Seq(Plain) /\ t \in Seq(Characters)
        /\ Len(item.path) \in Nat \ {0} /\ Len(t) = 2 * Len(item.path) - 1
        /\ \A i \in 1..Len(item.path) : t[2 * i - 1] = item.path[i]
        /\ \A i \in 1..Len(item.path) : item.path[i] \in Plain /\ item.path[i] # ":" /\ item.path[i] # "*"
    BY <1>1, JoinedFacts
  <2> HIDE DEF t
  <2>2. t[2 * 1 - 1] = item.path[1] /\ item.path[1] # ":" /\ item.path[1] # "*"
    BY <2>1
  <2> QED BY <2>1, <2>2
<1> HIDE DEF t
<1>3. h = (IF item.lead = "" THEN <<>> ELSE <<item.lead>>) \o t
  BY DEF Header, t
<1> DEFINE Goal == /\ h \in Seq(Plain) /\ h \in Seq(Characters) /\ Len(h) \in Nat \ {0}
                   /\ h[1] = ":" <=> item.lead = ":"
                   /\ h[1] = "*" <=> item.lead = "*"
<1> SUFFICES Goal
  <2>1. Goal => h # <<>> /\ \A j \in 1..Len(h) : h[j] \in Plain
    <3> HIDE DEF h
    <3> QED OBVIOUS
  <2> HIDE DEF h
  <2> QED BY <1>2, <1>3, <2>1 DEF h, t
<1>4. CASE item.lead = ""
  <2>1. h = t
    BY <1>2, <1>3, <1>4, ConcatEmptySeq
  <2> HIDE DEF h
  <2>2. h \in Seq(Plain) /\ h \in Seq(Characters) /\ Len(h) \in Nat \ {0} /\ h[1] # ":" /\ h[1] # "*"
    BY <1>2, <2>1
  <2>3. item.lead # ":" /\ item.lead # "*"
    BY <1>4
  <2> QED BY <2>2, <2>3
<1>5. CASE item.lead # ""
  <2>1. item.lead \in Plain
    BY <1>1, <1>5 DEF Plain
  <2> DEFINE x == <<item.lead>>
  <2>2. x \in Seq(Plain) /\ Len(x) = 1 /\ x[1] = item.lead
    BY <2>1, Short
  <2>3. h = x \o t
    BY <1>3, <1>5
  <2> HIDE DEF x, h
  <2>4. /\ x \o t \in Seq(Plain) /\ Len(x \o t) = Len(x) + Len(t)
        /\ \A i \in 1..Len(x) : (x \o t)[i] = x[i]
    BY <1>2, <2>2, Spots
  <2>5. h \in Seq(Plain) /\ Len(h) \in Nat \ {0} /\ h[1] = item.lead
    BY <1>2, <2>2, <2>3, <2>4
  <2>6. h \in Seq(Characters)
    BY <2>5, PlainFacts, SeqMonotonic
  <2>7. (h[1] = ":" <=> item.lead = ":") /\ (h[1] = "*" <=> item.lead = "*")
    BY <2>5
  <2> QED BY <2>5, <2>6, <2>7
<1> QED BY <1>4, <1>5

\* What the parser tells apart in an argument: its quotation marks are around a semicolon,
\* and a hash starts a non-decimal number.
Readable(a, string) ==
  /\ a \in Seq(Characters) /\ Len(a) \in Nat
  /\ \A i \in 1..Len(a) : a[i] # "nl"
  /\ a # <<>> => a[Len(a)] \notin Blank \cup {"nl"}
  /\ a # <<>> => a[1] \in Blank \/ (a[1] = "?" /\ Len(a) = 1)
  /\ \A i \in 1..Len(a) : a[i] = ";" <=> string /\ i = 3
  /\ \A i \in 1..Len(a) : a[i] = "dq" <=> string /\ (i = 2 \/ i = 4 \/ i = 5 \/ i = 6)
  /\ \A i \in 1..Len(a) : a[i] = "#" => i = 2 /\ Len(a) = 4 /\ a[3] = "H"
  /\ string => Len(a) = 6

\* The arguments that have no block are so.
LEMMA BehindFacts ==
  ASSUME NEW item \in Items
  PROVE  Readable(Behind(item), item.arg = "string")
<1> DEFINE a == Behind(item)
<1> SUFFICES Readable(a, item.arg = "string")
  OBVIOUS
<1>1. item.arg \in {"none", "block", "cut", "query", "string", "hex"}
  BY DEF Items, Arguments
<1>2. a \in Seq(Characters) /\ Len(a) \in Nat
  <2>1. a \in Seq(Characters)
    BY ArgumentType DEF Behind
  <2> HIDE DEF a
  <2> QED BY <2>1
<1>3. CASE item.arg \in {"none", "block", "cut"}
  <2>1. a = <<>>
    BY <1>3 DEF Behind, Argument
  <2> HIDE DEF a
  <2>2. Len(a) = 0 /\ \A i \in 1..Len(a) : FALSE
    BY <2>1
  <2>3. ~(item.arg = "string")
    BY <1>3
  <2>4. \A i \in 1..Len(a) : a[i] # "nl"
    BY <2>1, <2>2, <2>3
  <2>5. a # <<>> => a[Len(a)] \notin Blank \cup {"nl"}
    BY <2>1, <2>2, <2>3
  <2>6. a # <<>> => a[1] \in Blank \/ (a[1] = "?" /\ Len(a) = 1)
    BY <2>1, <2>2, <2>3
  <2>7. \A i \in 1..Len(a) : a[i] = ";" <=> item.arg = "string" /\ i = 3
    BY <2>1, <2>2, <2>3
  <2>8. \A i \in 1..Len(a) : a[i] = "dq" <=> item.arg = "string" /\ (i = 2 \/ i = 4 \/ i = 5 \/ i = 6)
    BY <2>1, <2>2, <2>3
  <2>9. \A i \in 1..Len(a) : a[i] = "#" => i = 2 /\ Len(a) = 4 /\ a[3] = "H"
    BY <2>1, <2>2, <2>3
  <2>10. item.arg = "string" => Len(a) = 6
    BY <2>1, <2>2, <2>3
  <2> QED BY <1>2, <2>4, <2>5, <2>6, <2>7, <2>8, <2>9, <2>10, Zenon DEF Readable
<1>4. CASE item.arg = "query"
  <2>1. a = <<"?">>
    BY <1>4 DEF Behind, Argument
  <2> HIDE DEF a
  <2>2. Len(a) = 1 /\ a[1] = "?" /\ \A i \in 1..Len(a) : i = 1
    BY <2>1
  <2>3. "?" \notin Blank \cup {"nl"} /\ ~(item.arg = "string")
    BY <1>4 DEF Blank
  <2>4. \A i \in 1..Len(a) : a[i] # "nl"
    BY <2>2, <2>3
  <2>5. a # <<>> => a[Len(a)] \notin Blank \cup {"nl"}
    BY <2>2, <2>3
  <2>6. a # <<>> => a[1] \in Blank \/ (a[1] = "?" /\ Len(a) = 1)
    BY <2>2, <2>3
  <2>7. \A i \in 1..Len(a) : a[i] = ";" <=> item.arg = "string" /\ i = 3
    BY <2>2, <2>3
  <2>8. \A i \in 1..Len(a) : a[i] = "dq" <=> item.arg = "string" /\ (i = 2 \/ i = 4 \/ i = 5 \/ i = 6)
    BY <2>2, <2>3
  <2>9. \A i \in 1..Len(a) : a[i] = "#" => i = 2 /\ Len(a) = 4 /\ a[3] = "H"
    BY <2>2, <2>3
  <2>10. item.arg = "string" => Len(a) = 6
    BY <2>2, <2>3
  <2> QED BY <1>2, <2>4, <2>5, <2>6, <2>7, <2>8, <2>9, <2>10, Zenon DEF Readable
<1>5. CASE item.arg = "string"
  <2>1. a = <<" ", "dq", ";", "dq", "dq", "dq">>
    BY <1>5 DEF Behind, Argument
  <2> HIDE DEF a
  <2>2. Len(a) = 6 /\ a[1] = " " /\ a[2] = "dq" /\ a[3] = ";" /\ a[4] = "dq" /\ a[5] = "dq" /\ a[6] = "dq"
    BY <2>1
  <2>3. a[1] \in Blank /\ a[Len(a)] \notin Blank \cup {"nl"}
    BY <2>2 DEF Blank
  <2>4. ASSUME NEW i \in 1..Len(a)
        PROVE  /\ a[i] # "nl" /\ a[i] # "#"
               /\ a[i] = ";" <=> i = 3
               /\ a[i] = "dq" <=> i = 2 \/ i = 4 \/ i = 5 \/ i = 6
    <3>1. i = 1 \/ i = 2 \/ i = 3 \/ i = 4 \/ i = 5 \/ i = 6
      <4>1. Len(a) = 6
        BY <2>2
      <4> QED BY <4>1
    <3> QED BY <2>2, <3>1
  <2>5. \A i \in 1..Len(a) : a[i] # "nl"
    BY <1>5, <2>2, <2>3, <2>4
  <2>6. a # <<>> => a[Len(a)] \notin Blank \cup {"nl"}
    BY <1>5, <2>2, <2>3, <2>4
  <2>7. a # <<>> => a[1] \in Blank \/ (a[1] = "?" /\ Len(a) = 1)
    BY <1>5, <2>2, <2>3, <2>4
  <2>8. \A i \in 1..Len(a) : a[i] = ";" <=> item.arg = "string" /\ i = 3
    BY <1>5, <2>2, <2>3, <2>4
  <2>9. \A i \in 1..Len(a) : a[i] = "dq" <=> item.arg = "string" /\ (i = 2 \/ i = 4 \/ i = 5 \/ i = 6)
    BY <1>5, <2>2, <2>3, <2>4
  <2>10. \A i \in 1..Len(a) : a[i] = "#" => i = 2 /\ Len(a) = 4 /\ a[3] = "H"
    BY <1>5, <2>2, <2>3, <2>4
  <2>11. item.arg = "string" => Len(a) = 6
    BY <1>5, <2>2, <2>3, <2>4
  <2> QED BY <1>2, <2>5, <2>6, <2>7, <2>8, <2>9, <2>10, <2>11, Zenon DEF Readable
<1>6. CASE item.arg = "hex"
  <2>1. a = <<" ", "#", "H", "1">>
    BY <1>6 DEF Behind, Argument
  <2> HIDE DEF a
  <2>2. Len(a) = 4 /\ a[1] = " " /\ a[2] = "#" /\ a[3] = "H" /\ a[4] = "1"
    BY <2>1
  <2>3. a[1] \in Blank /\ a[Len(a)] \notin Blank \cup {"nl"} /\ ~(item.arg = "string")
    BY <1>6, <2>2 DEF Blank
  <2>4. ASSUME NEW i \in 1..Len(a)
        PROVE  a[i] # "nl" /\ a[i] # ";" /\ a[i] # "dq" /\ (a[i] = "#" => i = 2)
    <3>1. i = 1 \/ i = 2 \/ i = 3 \/ i = 4
      <4>1. Len(a) = 4
        BY <2>2
      <4> QED BY <4>1
    <3> QED BY <2>2, <3>1
  <2>5. \A i \in 1..Len(a) : a[i] # "nl"
    BY <2>2, <2>3, <2>4
  <2>6. a # <<>> => a[Len(a)] \notin Blank \cup {"nl"}
    BY <2>2, <2>3, <2>4
  <2>7. a # <<>> => a[1] \in Blank \/ (a[1] = "?" /\ Len(a) = 1)
    BY <2>2, <2>3, <2>4
  <2>8. \A i \in 1..Len(a) : a[i] = ";" <=> item.arg = "string" /\ i = 3
    BY <2>2, <2>3, <2>4
  <2>9. \A i \in 1..Len(a) : a[i] = "dq" <=> item.arg = "string" /\ (i = 2 \/ i = 4 \/ i = 5 \/ i = 6)
    BY <2>2, <2>3, <2>4
  <2>10. \A i \in 1..Len(a) : a[i] = "#" => i = 2 /\ Len(a) = 4 /\ a[3] = "H"
    BY <2>2, <2>3, <2>4
  <2>11. item.arg = "string" => Len(a) = 6
    BY <2>2, <2>3, <2>4
  <2> QED BY <1>2, <2>5, <2>6, <2>7, <2>8, <2>9, <2>10, <2>11, Zenon DEF Readable
<1> QED BY <1>1, <1>3, <1>4, <1>5, <1>6

------------------------------------------------------------------------------
\* Finding the bytes of an item in a stream.

\* The bytes x stand in data behind the first o.
Stands(data, o, x) ==
  /\ o \in Nat /\ o + Len(x) <= Len(data)
  /\ \A j \in 1..Len(x) : data[o + j] = x[j]

\* The two halves of what stands somewhere.
LEMMA StandsApart ==
  ASSUME NEW data \in Seq(Characters), NEW x \in Seq(Characters), NEW y \in Seq(Characters), NEW o,
         Stands(data, o, x \o y)
  PROVE  Stands(data, o, x) /\ Stands(data, o + Len(x), y)
<1> DEFINE m == Len(x)
           n == Len(y)
           z == x \o y
<1>1. m \in Nat /\ n \in Nat /\ Len(data) \in Nat
  OBVIOUS
<1>2. Len(z) = m + n /\ (\A i \in 1..m : z[i] = x[i]) /\ (\A j \in 1..n : z[m + j] = y[j])
  BY Spots
<1> HIDE DEF z, m, n
<1>3. o \in Nat /\ o + Len(z) <= Len(data) /\ \A j \in 1..Len(z) : data[o + j] = z[j]
  BY DEF Stands, z
<1>4. Stands(data, o, x)
  <2>1. \A j \in 1..m : j \in 1..Len(z)
    BY <1>1, <1>2
  <2>2. o + m <= Len(data)
    BY <1>1, <1>2, <1>3
  <2> QED BY <1>2, <1>3, <2>1, <2>2 DEF Stands, m
<1>5. Stands(data, o + m, y)
  <2>1. ASSUME NEW j \in 1..n PROVE data[(o + m) + j] = y[j]
    <3>1. m + j \in 1..Len(z) /\ (o + m) + j = o + (m + j)
      BY <1>1, <1>2, <1>3
    <3>2. data[o + (m + j)] = z[m + j]
      BY <1>3, <3>1
    <3> QED BY <1>2, <3>1, <3>2
  <2>2. o + m \in Nat /\ (o + m) + n <= Len(data)
    BY <1>1, <1>2, <1>3
  <2> QED BY <2>1, <2>2 DEF Stands, n
<1> QED BY <1>4, <1>5 DEF m

\* What stands somewhere is cut out whole.
LEMMA CutOut ==
  ASSUME NEW data \in Seq(Characters), NEW x \in Seq(Characters), NEW o, Stands(data, o, x)
  PROVE  SubSeq(data, o + 1, o + Len(x)) = x
<1> DEFINE n == Len(x)
           a == o + 1
           b == o + n
           t == SubSeq(data, a, b)
<1>1. /\ o \in Nat /\ n \in Nat /\ Len(data) \in Nat /\ o + n <= Len(data)
      /\ \A j \in 1..n : data[o + j] = x[j]
  BY SMTT(30) DEF Stands
<1> HIDE DEF n
<1>2. a \in Int /\ b \in Int /\ \A i \in a..b : data[i] \in Characters
  BY <1>1
<1>3. b - a + 1 = n /\ (a <= b <=> n # 0) /\ \A j \in 1..n : a + j - 1 = o + j
  BY <1>1
<1> HIDE DEF a, b
<1>4. /\ t \in Seq(Characters) /\ Len(t) = IF a <= b THEN b - a + 1 ELSE 0
      /\ \A i \in 1..(b - a + 1) : t[i] = data[a + i - 1]
  BY <1>2, SubSeqProperties
<1> HIDE DEF t
<1>5. Len(t) = n /\ \A j \in 1..n : t[j] = x[j]
  BY <1>1, <1>3, <1>4
<1>6. t = x
  BY <1>4, <1>5, SeqEqual DEF n
<1> QED BY <1>6 DEF t, a, b, n

\* strip() drops what is white at the end of a segment, and only that if it begins black.
LEMMA StripSegment ==
  ASSUME NEW data \in Seq(Characters), NEW a \in 1..Len(data), NEW b \in a..Len(data), NEW c \in b..Len(data),
         data[a] \notin Blank \cup {"nl"}, data[b] \notin Blank \cup {"nl"},
         \A i \in (b + 1)..c : data[i] \in Blank \cup {"nl"}
  PROVE  Strip(SubSeq(data, a, c)) = SubSeq(data, a, b)
<1> DEFINE s == SubSeq(data, a, c)
           n == c - a + 1
           m == b - a + 1
           kept == {i \in 1..Len(s) : s[i] \notin Blank \cup {"nl"}}
<1>1. n \in Nat /\ m \in 1..n /\ 1 \in 1..n /\ a \in Nat /\ b \in Nat /\ c \in Nat /\ a + m - 1 = b /\ a + 1 - 1 = a
  OBVIOUS
<1>2. s \in Seq(Characters) /\ Len(s) = n /\ \A i \in 1..n : s[i] = data[a + i - 1]
  <2>1. a <= c /\ a \in Int /\ c \in Int /\ \A i \in a..c : data[i] \in Characters
    OBVIOUS
  <2> QED BY <2>1, SubSeqProperties
<1>3. kept \subseteq 0..n /\ 1 \in kept /\ m \in kept
  <2>1. s[1] = data[a] /\ s[m] = data[b]
    <3> HIDE DEF s, n, m
    <3>1. s[1] = data[a + 1 - 1] /\ s[m] = data[a + m - 1]
      BY <1>1, <1>2
    <3> QED BY <1>1, <3>1
  <2> HIDE DEF s, n, m
  <2> QED BY <1>1, <1>2, <2>1
<1>4. \A i \in kept : 1 <= i /\ m >= i
  <2> SUFFICES ASSUME NEW i \in 1..n, s[i] \notin Blank \cup {"nl"} PROVE i <= m
    <3> HIDE DEF s, n, m
    <3> QED BY <1>1, <1>2
  <2> SUFFICES ASSUME i > m PROVE FALSE
    BY <1>1
  <2>1. a + i - 1 \in (b + 1)..c /\ s[i] = data[a + i - 1]
    BY <1>1, <1>2
  <2> HIDE DEF s, n, m
  <2> QED BY <2>1
<1>5. Strip(s) = IF kept = {} THEN <<>> ELSE SubSeq(s, Min(kept), Max(kept))
  BY DEF Strip
<1> HIDE DEF kept
<1>6. Min(kept) = 1
  <2>1. kept \subseteq Nat
    BY <1>1, <1>3
  <2> QED BY <1>3, <1>4, <2>1, LeastIs
<1>7. Max(kept) = m
  BY <1>1, <1>3, <1>4, GreatestIs
<1>8. Strip(s) = SubSeq(s, 1, m)
  BY <1>3, <1>5, <1>6, <1>7
<1>9. SubSeq(s, 1, m) = SubSeq(data, a, b)
  <2>1. SubSeq(SubSeq(data, a, c), 1, m) = SubSeq(data, a + 1 - 1, a + m - 1)
    <3>1. a \in 1..Len(data) /\ c \in 1..Len(data) /\ 1 \in 1..(c - a + 1) /\ m \in 1..(c - a + 1)
      BY <1>1
    <3> HIDE DEF m
    <3> QED BY <3>1, SubSeqOfSubSeq
  <2> QED BY <1>1, <2>1
<1> QED BY <1>8, <1>9

\* An empty segment.
LEMMA StripNothing ==
  ASSUME NEW data, NEW a \in Nat
  PROVE  Strip(SubSeq(data, a + 1, a)) = <<>>
<1>1. SubSeq(data, a + 1, a) = <<>>
  BY SubSeqEmpty
<1>2. Strip(<<>>) = <<>>
  <2>1. {i \in 1..Len(<<>>) : <<>>[i] \notin Blank \cup {"nl"}} = {}
    OBVIOUS
  <2> QED BY <2>1 DEF Strip
<1> QED BY <1>1, <1>2

------------------------------------------------------------------------------
\* One item in the stream.

\* Quotation marks from byte a up to byte b, excluded.
Marks(data, a, b) == Cardinality({k \in a..(b - 1) : data[k] = "dq"})

\* Quoted is the parity of the marks.
LEMMA QuotedIsOdd ==
  ASSUME NEW data, NEW a, NEW i
  PROVE  Quoted(data, a, i) <=> Marks(data, a, i) % 2 = 1
BY DEF Quoted, Marks

\* Four numbers.
LEMMA CardinalityFour ==
  ASSUME NEW b \in Nat
  PROVE  Cardinality({b + 2, b + 4, b + 5, b + 6}) = 4
<1> DEFINE A == {b + 2}
           B == A \cup {b + 4}
           C == B \cup {b + 5}
           D == C \cup {b + 6}
<1>1. IsFiniteSet(A) /\ Cardinality(A) = 1 /\ b + 4 \notin A /\ b + 5 \notin B /\ b + 6 \notin C
  <2>1. b + 4 \notin A /\ b + 5 \notin B /\ b + 6 \notin C
    OBVIOUS
  <2> QED BY <2>1, FS_Singleton
<1>2. D = {b + 2, b + 4, b + 5, b + 6}
  OBVIOUS
<1> HIDE DEF A
<1>3. IsFiniteSet(B) /\ Cardinality(B) = 2
  BY <1>1, FS_AddElement
<1> HIDE DEF B
<1>4. IsFiniteSet(C) /\ Cardinality(C) = 3
  BY <1>1, <1>3, FS_AddElement
<1> HIDE DEF C
<1>5. Cardinality(C \cup {b + 6}) = 4
  <2> DEFINE x == b + 6
  <2>1. IsFiniteSet(C) /\ Cardinality(C) = 3 /\ x \notin C
    BY <1>1, <1>4
  <2> HIDE DEF x
  <2>2. Cardinality(C \cup {x}) = Cardinality(C) + 1
    BY <2>1, FS_AddElement
  <2> QED BY <2>1, <2>2 DEF x
<1> QED BY <1>2, <1>5, Zenon DEF D

\* The header, the argument and the separator of an item in the stream.
LEMMA ItemStands ==
  ASSUME NEW data \in Seq(Characters), NEW item, Sound(item), NEW o, Stands(data, o, Written(item))
  PROVE  LET h == Header(item)
             a == Argument(item)
             p == o + Len(h) + Len(a) + 1
         IN /\ o \in Nat /\ p \in Nat /\ p <= Len(data) /\ Len(a) \in Nat
            /\ p = o + Len(Written(item))
            /\ Stands(data, o, h) /\ Stands(data, o + Len(h), a)
            /\ data[p] = item.sep
<1> DEFINE h == Header(item)
           a == Argument(item)
           e == <<item.sep>>
<1>1. h \in Seq(Characters) /\ a \in Seq(Characters) /\ e \in Seq(Characters)
  <2>1. item \in Items /\ item.sep \in Characters
    BY DEF Sound, Items
  <2> QED BY <2>1, HeaderType, ArgumentType, Short
<1>2. h \o a \in Seq(Characters) /\ Len(h \o a) = Len(h) + Len(a)
  BY <1>1, Spots
<1>3. Written(item) = (h \o a) \o e
  BY DEF Written
<1>4. Len(e) = 1 /\ e[1] = item.sep
  OBVIOUS
<1> HIDE DEF h, a, e
<1>5. Stands(data, o, h \o a) /\ Stands(data, o + Len(h \o a), e)
  BY <1>1, <1>2, <1>3, StandsApart
<1>6. Stands(data, o, h) /\ Stands(data, o + Len(h), a)
  BY <1>1, <1>5, StandsApart
<1>7. Len(Written(item)) = Len(h) + Len(a) + 1
  <2>1. Len((h \o a) \o e) = Len(h \o a) + Len(e)
    BY <1>1, <1>2, Spots
  <2> QED BY <1>2, <1>3, <1>4, <2>1
<1>8. o \in Nat /\ Len(h) \in Nat /\ Len(a) \in Nat
  BY <1>1, <1>6 DEF Stands
<1>9. /\ o + Len(h) + Len(a) + 1 <= Len(data)
      /\ data[o + Len(h) + Len(a) + 1] = item.sep
  <2>1. /\ (o + Len(h \o a)) + Len(e) <= Len(data) /\ \A j \in 1..Len(e) : data[(o + Len(h \o a)) + j] = e[j]
    BY <1>5 DEF Stands
  <2>2. data[(o + Len(h \o a)) + 1] = e[1]
    BY <1>4, <2>1
  <2>3. (o + Len(h \o a)) + 1 = o + Len(h) + Len(a) + 1
    BY <1>2, <1>8
  <2> QED BY <1>4, <2>1, <2>2, <2>3
<1> QED BY <1>6, <1>7, <1>8, <1>9 DEF h, a

\* A command without a block stands in the bytes o + 1 to p - 1: no line ends in it, its
\* semicolons are quoted, its quotation marks are even and its hashes open no block.
TextAt(data, o, p) ==
  /\ o \in Nat /\ p \in Nat /\ o + 1 < p /\ p <= Len(data)
  /\ data[p] \in {";", "nl"}
  /\ \A i \in (o + 1)..(p - 1) : /\ data[i] # "nl"
                                 /\ data[i] = ";" => Marks(data, o + 1, i) = 1
                                 /\ data[i] = "#" => data[i + 1] = "H"
  /\ Marks(data, o + 1, p) \in {0, 4}

\* So it is with every item that has no block.
LEMMA TextItem ==
  ASSUME NEW data \in Seq(Characters), NEW item, Sound(item), item.arg \notin {"block", "cut"},
         NEW o, Stands(data, o, Written(item))
  PROVE  LET p == o + Len(Written(item)) IN
         /\ TextAt(data, o, p)
         /\ Strip(SubSeq(data, o + 1, p - 1)) = Raw(item).text
         /\ Raw(item).text # <<>>
<1> DEFINE h == Header(item)
           a == Argument(item)
           string == item.arg = "string"
           l == Len(h)
           n == Len(a)
           b == o + l
           p == b + n + 1
<1>1. item \in Items /\ item.sep \in {";", "nl"} /\ Behind(item) = a
  BY DEF Sound, Behind
<1>2. /\ h \in Seq(Characters) /\ l \in Nat \ {0} /\ \A j \in 1..l : h[j] \in Plain
  BY HeaderFacts
<1>3. Readable(a, string)
  <2>1. Readable(Behind(item), item.arg = "string")
    BY <1>1, BehindFacts
  <2> QED BY <1>1, <2>1, Zenon
<1>4. a \in Seq(Characters) /\ n \in Nat
  BY <1>3 DEF Readable
<1>5. /\ o \in Nat /\ b \in Nat /\ p \in Nat /\ p <= Len(data) /\ data[p] = item.sep
      /\ p = o + Len(Written(item)) /\ Stands(data, o, h) /\ Stands(data, b, a)
  <2>1. /\ o \in Nat /\ p \in Nat /\ p <= Len(data) /\ data[p] = item.sep
        /\ p = o + Len(Written(item)) /\ Stands(data, o, h) /\ Stands(data, b, a)
    BY ItemStands
  <2> QED BY <1>2, <2>1
<1>6. Raw(item).text = h \o a
  BY <1>1 DEF Raw
<1> HIDE DEF h, a, string
<1>7. (\A j \in 1..l : data[o + j] = h[j]) /\ (\A j \in 1..n : data[b + j] = a[j])
  BY <1>5 DEF Stands
<1> HIDE DEF l, n
<1>8. \A i \in (o + 1)..b : data[i] \in Plain
  <2> TAKE i \in (o + 1)..b
  <2>1. i - o \in 1..l /\ o + (i - o) = i
    BY <1>2, <1>5
  <2> QED BY <1>2, <1>7, <2>1
<1>9. \A i \in (o + 1)..(p - 1) : i \in (o + 1)..b \/ (i - b \in 1..n /\ data[i] = a[i - b] /\ i = b + (i - b))
  <2> TAKE i \in (o + 1)..(p - 1)
  <2>1. i \in (o + 1)..b \/ (i - b \in 1..n /\ i = b + (i - b))
    BY <1>2, <1>4, <1>5
  <2> QED BY <1>7, <2>1
<1>10. o + 1 \in (o + 1)..b /\ b + n = p - 1
  BY <1>2, <1>4, <1>5, SMTT(30)
<1> HIDE DEF b, p
<1>11. \A i \in (o + 1)..(p - 1) :
         /\ data[i] # "nl"
         /\ data[i] = ";" <=> string /\ i = b + 3
         /\ data[i] = "dq" <=> string /\ (i = b + 2 \/ i = b + 4 \/ i = b + 5 \/ i = b + 6)
         /\ data[i] = "#" => data[i + 1] = "H"
  <2> SUFFICES ASSUME NEW i \in (o + 1)..(p - 1)
               PROVE  /\ data[i] # "nl"
                      /\ data[i] = ";" <=> string /\ i = b + 3
                      /\ data[i] = "dq" <=> string /\ (i = b + 2 \/ i = b + 4 \/ i = b + 5 \/ i = b + 6)
                      /\ data[i] = "#" => data[i + 1] = "H"
    OBVIOUS
  <2>1. CASE i \in (o + 1)..b
    <3>1. ~(i = b + 3) /\ ~(i = b + 2) /\ ~(i = b + 4) /\ ~(i = b + 5) /\ ~(i = b + 6)
      BY <1>5, <2>1
    <3>2. data[i] # "nl" /\ data[i] # ";" /\ data[i] # "dq" /\ data[i] # "#"
      BY <1>8, <2>1, PlainFacts
    <3> QED BY <3>1, <3>2
  <2>2. CASE i - b \in 1..n /\ data[i] = a[i - b] /\ i = b + (i - b)
    <3> DEFINE j == i - b
    <3>1. j \in 1..n /\ data[i] = a[j] /\ i = b + j
      BY <2>2
    <3> HIDE DEF j
    <3>2. /\ a[j] # "nl"
          /\ a[j] = ";" <=> string /\ j = 3
          /\ a[j] = "dq" <=> string /\ (j = 2 \/ j = 4 \/ j = 5 \/ j = 6)
          /\ a[j] = "#" => j = 2 /\ n = 4 /\ a[3] = "H"
      BY <1>3, <3>1 DEF Readable, n
    <3>3. /\ i = b + 3 <=> j = 3
          /\ i = b + 2 <=> j = 2
          /\ i = b + 4 <=> j = 4
          /\ i = b + 5 <=> j = 5
          /\ i = b + 6 <=> j = 6
      BY <1>4, <1>5, <3>1
    <3>4. data[i] = "#" => data[i + 1] = "H"
      <4> SUFFICES ASSUME data[i] = "#" PROVE data[i + 1] = "H"
        OBVIOUS
      <4>1. j = 2 /\ n = 4 /\ a[3] = "H"
        BY <3>1, <3>2
      <4>2. i + 1 = b + 3 /\ 3 \in 1..n
        BY <1>5, <3>1, <4>1
      <4> QED BY <1>7, <4>1, <4>2
    <3> QED BY <3>1, <3>2, <3>3, <3>4
  <2> QED BY <1>9, <2>1, <2>2
<1>12. string => n = 6 /\ p = b + 7
  <2>1. string => n = 6
    BY <1>3 DEF Readable, n
  <2> QED BY <1>5, <2>1 DEF p
<1>13. ASSUME NEW i \in (o + 1)..(p - 1), data[i] = ";" PROVE Marks(data, o + 1, i) = 1
  <2>1. string /\ i = b + 3
    BY <1>11, <1>13
  <2> DEFINE M == {k \in (o + 1)..(i - 1) : data[k] = "dq"}
  <2>2. b + 2 \in (o + 1)..(i - 1)
    BY <1>2, <1>5, <1>10, <2>1
  <2>3. \A k \in (o + 1)..(i - 1) : k \in (o + 1)..(p - 1) /\ k < b + 3
    BY <1>5, <2>1
  <2>4. \A k \in M : k = b + 2
    <3> TAKE k \in M
    <3>1. k \in (o + 1)..(p - 1) /\ k < b + 3 /\ data[k] = "dq"
      BY <2>3
    <3>2. k = b + 2 \/ k = b + 4 \/ k = b + 5 \/ k = b + 6
      BY <1>11, <3>1
    <3> QED BY <1>5, <3>1, <3>2
  <2>5. b + 2 \in M
    BY <1>11, <2>1, <2>2, <2>3
  <2> HIDE DEF M
  <2>6. M = {b + 2}
    BY <2>4, <2>5
  <2> QED BY <2>6, FS_Singleton DEF Marks, M
<1>14. Marks(data, o + 1, p) \in {0, 4}
  <2> DEFINE M == {k \in (o + 1)..(p - 1) : data[k] = "dq"}
  <2>1. CASE string
    <3>1. \A k \in M : k \in {b + 2, b + 4, b + 5, b + 6}
      BY <1>11
    <3>2. \A k \in {b + 2, b + 4, b + 5, b + 6} : k \in (o + 1)..(p - 1)
      <4>1. o + 1 <= b /\ p = b + 7
        BY <1>5, <1>10, <1>12, <2>1
      <4> QED BY <1>5, <4>1
    <3>3. \A k \in {b + 2, b + 4, b + 5, b + 6} : k \in M
      BY <1>11, <2>1, <3>2
    <3> HIDE DEF M
    <3>4. M = {b + 2, b + 4, b + 5, b + 6}
      BY <3>1, <3>3
    <3>5. Cardinality(M) = 4
      BY <1>5, <3>4, CardinalityFour
    <3> QED BY <3>5 DEF Marks, M
  <2>2. CASE ~string
    <3>1. M = {}
      BY <1>11, <2>2
    <3> HIDE DEF M
    <3>2. Cardinality(M) = 0
      BY <3>1, FS_EmptySet
    <3> QED BY <3>2 DEF Marks, M
  <2> QED BY <2>1, <2>2
<1>15. TextAt(data, o, p)
  <2>1. o + 1 < p
    BY <1>2, <1>4, <1>5 DEF b, p
  <2> QED BY <1>1, <1>5, <1>11, <1>13, <1>14, <2>1 DEF TextAt
<1>16. h \o a # <<>> /\ h \o a \in Seq(Characters) /\ Len(h \o a) = l + n
  <2>1. h \o a \in Seq(Characters) /\ Len(h \o a) = l + n
    BY <1>2, <1>4, Spots DEF l, n
  <2>2. l + n # 0
    BY <1>2, <1>4
  <2> QED BY <2>1, <2>2
<1>17. Strip(SubSeq(data, o + 1, p - 1)) = h \o a
  <2>1. SubSeq(data, o + 1, p - 1) = h \o a
    <3>1. \A j \in 1..Len(h \o a) : data[o + j] = (h \o a)[j]
      <4> SUFFICES ASSUME NEW j \in 1..(l + n) PROVE data[o + j] = (h \o a)[j]
        BY <1>16
      <4>0. (\A i \in 1..l : (h \o a)[i] = h[i]) /\ (\A i \in 1..n : (h \o a)[l + i] = a[i])
        BY <1>2, <1>4, Spots DEF l, n
      <4>1. CASE j \in 1..l
        BY <1>7, <4>0, <4>1
      <4>2. CASE j - l \in 1..n
        <5> DEFINE i == j - l
        <5>1. i \in 1..n /\ j = l + i /\ o + j = b + i
          BY <1>2, <1>5, <4>2 DEF b
        <5> HIDE DEF i
        <5> QED BY <1>7, <4>0, <5>1
      <4>3. j \in 1..l \/ j - l \in 1..n
        BY <1>2, <1>4
      <4> QED BY <4>1, <4>2, <4>3
    <3>2. o + Len(h \o a) = p - 1 /\ o + Len(h \o a) <= Len(data)
      BY <1>2, <1>4, <1>5, <1>10, <1>16 DEF b
    <3>3. Stands(data, o, h \o a)
      BY <1>5, <3>1, <3>2 DEF Stands
    <3> QED BY <1>16, <3>2, <3>3, CutOut, ZenonT(40)
  <2>2. data[o + 1] \notin Blank \cup {"nl"}
    BY <1>8, <1>10, PlainFacts
  <2>3. data[p - 1] \notin Blank \cup {"nl"}
    <3>1. CASE n = 0
      <4>1. p - 1 = b /\ b \in (o + 1)..b
        BY <1>2, <1>5, <1>10, <3>1 DEF b
      <4> QED BY <1>8, <4>1, PlainFacts
    <3>2. CASE n # 0
      <4>1. a # <<>> /\ n \in 1..n
        BY <1>4, <3>2 DEF n
      <4>2. a[n] \notin Blank \cup {"nl"}
        BY <1>3, <4>1 DEF Readable, n
      <4> QED BY <1>7, <1>10, <4>1, <4>2
    <3> QED BY <3>1, <3>2
  <2>4. o + 1 \in 1..Len(data) /\ p - 1 \in (o + 1)..Len(data) /\ p - 1 \in (p - 1)..Len(data)
    <3>1. o \in Nat /\ p \in Nat /\ o + 1 < p /\ p <= Len(data)
      BY <1>15 DEF TextAt
    <3>2. Len(data) \in Nat
      OBVIOUS
    <3> QED BY <3>1, <3>2
  <2>5. Strip(SubSeq(data, o + 1, p - 1)) = SubSeq(data, o + 1, p - 1)
    <3> DEFINE c == p - 1
               d == o + 1
    <3>1. d \in 1..Len(data) /\ c \in d..Len(data) /\ c \in c..Len(data)
      BY <2>4
    <3>2. \A i \in (c + 1)..c : FALSE
      BY <2>4
    <3>3. data[d] \notin Blank \cup {"nl"} /\ data[c] \notin Blank \cup {"nl"}
      BY <2>2, <2>3
    <3> HIDE DEF c, d
    <3>4. Strip(SubSeq(data, d, c)) = SubSeq(data, d, c)
      BY <3>1, <3>2, <3>3, StripSegment
    <3> QED BY <3>4 DEF c, d
  <2> QED BY <2>1, <2>5
<1> QED BY <1>5, <1>6, <1>15, <1>16, <1>17

------------------------------------------------------------------------------
\* One step of the scan.

\* A segment that began at byte a ends at byte i.
Stopping(data, a, i) ==
  /\ ~Quoted(data, a, i)
  /\ data[i] \in {"nl", ";"} \/ OpensBlock(data, a, i)

\* Where the segment from byte a on ends.
Stop(data, a) == Min({i \in a..Len(data) : Stopping(data, a, i)} \cup {Len(data) + 1})

\* The scan gone on to byte r with a part more.
Went(scan, r, part) == [scan EXCEPT !.at = r, !.parts = Append(@, part)]

\* What has to be shown of it.
LEMMA StopIs ==
  ASSUME NEW data \in Seq(Characters), NEW a \in Nat, NEW p \in a..Len(data),
         Stopping(data, a, p), \A i \in a..(p - 1) : ~Stopping(data, a, i)
  PROVE  Stop(data, a) = p
<1> DEFINE stops == {i \in a..Len(data) : Stopping(data, a, i)}
           S == stops \cup {Len(data) + 1}
<1>1. p \in S
  OBVIOUS
<1>2. S \subseteq Nat
  OBVIOUS
<1>3. \A i \in S : p <= i
  <2> SUFFICES ASSUME NEW i \in stops, i < p PROVE FALSE
    OBVIOUS
  <2>1. i \in a..(p - 1)
    OBVIOUS
  <2> QED BY <2>1
<1> HIDE DEF S
<1>4. Min(S) = p
  BY <1>1, <1>2, <1>3, LeastIs
<1> QED BY <1>4 DEF Stop, S

\* A segment that ends in a separator is a command.
LEMMA StepText ==
  ASSUME NEW data \in Seq(Characters), NEW o, NEW p, TextAt(data, o, p),
         Strip(SubSeq(data, o + 1, p - 1)) # <<>>, NEW scan, scan.at = o + 1
  PROVE  NextSegment(data, scan) =
           Went(scan, p + 1, TextPart(Strip(SubSeq(data, o + 1, p - 1))))
<1>1. /\ o \in Nat /\ p \in Nat /\ o + 1 < p /\ p <= Len(data)
      /\ data[p] \in {";", "nl"}
      /\ \A i \in (o + 1)..(p - 1) : /\ data[i] # "nl"
                                     /\ data[i] = ";" => Marks(data, o + 1, i) = 1
                                     /\ data[i] = "#" => data[i + 1] = "H"
      /\ Marks(data, o + 1, p) \in {0, 4}
  BY DEF TextAt
<1>0. o \in Nat /\ p \in Nat /\ o + 1 < p /\ p <= Len(data) /\ Len(data) \in Nat
  <2>1. o \in Nat /\ p \in Nat /\ o + 1 < p /\ p <= Len(data)
    BY DEF TextAt
  <2>2. Len(data) \in Nat
    OBVIOUS
  <2> QED BY <2>1, <2>2
<1>2. ~Quoted(data, o + 1, p)
  <2>1. \A m \in {0, 4} : m % 2 # 1
    OBVIOUS
  <2>2. Marks(data, o + 1, p) % 2 # 1
    BY <1>1, <2>1
  <2> QED BY <2>2, QuotedIsOdd, Zenon
<1>3. ASSUME NEW i \in (o + 1)..(p - 1), ~Quoted(data, o + 1, i)
      PROVE  ~Stopping(data, o + 1, i)
  <2>1. data[i] # "nl"
    BY <1>1
  <2>2. data[i] # ";"
    <3>1. Marks(data, o + 1, i) = 1 => Marks(data, o + 1, i) % 2 = 1
      OBVIOUS
    <3>2. Marks(data, o + 1, i) = 1 => Quoted(data, o + 1, i)
      BY <3>1, QuotedIsOdd, Zenon
    <3> QED BY <1>1, <1>3, <3>2
  <2>3. i < Len(data)
    BY <1>0
  <2>4. ~OpensBlock(data, o + 1, i)
    BY <1>1, <2>3 DEF OpensBlock
  <2> QED BY <2>1, <2>2, <2>4 DEF Stopping
<1>4. Stop(data, o + 1) = p
  <2>1. o + 1 \in Nat /\ p \in (o + 1)..Len(data)
    BY <1>0
  <2>2. Stopping(data, o + 1, p) /\ \A i \in (o + 1)..(p - 1) : ~Stopping(data, o + 1, i)
    BY <1>1, <1>2, <1>3 DEF Stopping
  <2> DEFINE a == o + 1
  <2> HIDE DEF a
  <2>3. Stop(data, a) = p
    BY <2>1, <2>2, StopIs DEF a
  <2> QED BY <2>3 DEF a
<1>5. ~(p > Len(data)) /\ data[p] # "#" /\ scan.at # 0
  <2>1. ~(p > Len(data)) /\ o + 1 # 0
    BY <1>0
  <2> QED BY <1>1, <2>1
<1> DEFINE segment == SubSeq(data, o + 1, p - 1)
<1>6. NextSegment(data, scan) = [scan EXCEPT !.at = p + 1, !.parts = AddText(@, segment)]
  <2>1. Stop(data, scan.at) = p
    BY <1>4
  <2>2. SubSeq(data, scan.at, p - 1) = segment
    OBVIOUS
  <2> HIDE DEF segment
  <2> QED BY <1>5, <2>1, <2>2, Zenon DEF NextSegment, Stop, Stopping
<1>7. AddText(scan.parts, segment) = Append(scan.parts, TextPart(Strip(segment)))
  BY DEF AddText
<1> HIDE DEF segment
<1> QED BY <1>6, <1>7 DEF segment, Went

\* A hash at byte q that opens a block if it is not quoted.
HashAt(data, q) ==
  q < Len(data) /\ data[q - 1] = " " /\ data[q] = "#" /\ data[q + 1] \notin {"H", "Q", "B"}

\* A hash after the blank behind a header, of which no letter makes a number, ends the
\* segment; what was before it is the header.
LEMMA BlockStarts ==
  ASSUME NEW data \in Seq(Characters), NEW item, Sound(item), NEW o, Stands(data, o, Header(item)),
         NEW q, q = o + Len(Header(item)) + 2, HashAt(data, q)
  PROVE  Stop(data, o + 1) = q /\ Strip(SubSeq(data, o + 1, q - 1)) = Header(item)
<1> DEFINE h == Header(item)
           l == Len(h)
<1>1. /\ h \in Seq(Characters) /\ l \in Nat \ {0} /\ \A j \in 1..l : h[j] \in Plain
  BY HeaderFacts
<1>2. o \in Nat /\ o + l <= Len(data) /\ \A j \in 1..l : data[o + j] = h[j]
  BY DEF Stands
<1>3. Stands(data, o, h) /\ q = o + l + 2 /\ q < Len(data) /\ Len(data) \in Nat
  <2>1. q < Len(data)
    BY DEF HashAt
  <2>2. Len(data) \in Nat
    OBVIOUS
  <2> QED BY <2>1, <2>2
<1>0. o \in Nat /\ l \in Nat \ {0} /\ q = o + l + 2
  BY <1>1, <1>2, <1>3
<1> HIDE DEF h
<1>4. SubSeq(data, o + 1, o + l) = h
  BY <1>1, <1>3, CutOut
<1> HIDE DEF l
<1>5. \A i \in (o + 1)..(o + l) : data[i] \in Plain
  <2> TAKE i \in (o + 1)..(o + l)
  <2>1. i - o \in 1..l /\ o + (i - o) = i
    BY <1>0
  <2> QED BY <1>1, <1>2, <2>1
<1>6. \A i \in (o + 1)..(q - 1) : data[i] \in Plain \cup {" "}
  <2> TAKE i \in (o + 1)..(q - 1)
  <2>1. i \in (o + 1)..(o + l) \/ i = q - 1
    BY <1>0
  <2>2. data[q - 1] = " "
    BY DEF HashAt
  <2> QED BY <1>5, <2>1, <2>2
<1>7. \A i \in (o + 1)..(q - 1) : data[i] \notin {"nl", ";"} /\ data[i] # "#" /\ data[i] # "dq"
  <2>1. \A c \in Plain \cup {" "} : c \notin {"nl", ";"} /\ c # "#" /\ c # "dq"
    BY PlainFacts
  <2> QED BY <1>6, <2>1
<1>8. ~Quoted(data, o + 1, q)
  <2>1. {k \in (o + 1)..(q - 1) : data[k] = "dq"} = {}
    BY <1>7
  <2>2. Marks(data, o + 1, q) = 0
    BY <2>1, FS_EmptySet DEF Marks
  <2>3. Marks(data, o + 1, q) % 2 # 1
    BY <2>2
  <2> QED BY <2>3, QuotedIsOdd, Zenon
<1>9. OpensBlock(data, o + 1, q)
  <2>1. q > o + 1
    BY <1>0
  <2> QED BY <2>1 DEF OpensBlock, Blank, HashAt
<1>10. Stop(data, o + 1) = q
  <2> DEFINE a == o + 1
  <2>1. a \in Nat /\ q \in a..Len(data)
    <3>1. o \in Nat /\ l \in Nat \ {0} /\ q = o + l + 2 /\ q < Len(data) /\ Len(data) \in Nat
      BY <1>0, <1>3
    <3> QED BY <3>1
  <2>2. Stopping(data, a, q) /\ \A i \in a..(q - 1) : ~Stopping(data, a, i)
    BY <1>7, <1>8, <1>9 DEF OpensBlock, Stopping
  <2> HIDE DEF a
  <2>3. Stop(data, a) = q
    BY <2>1, <2>2, StopIs DEF a
  <2> QED BY <2>3 DEF a
<1>11. Strip(SubSeq(data, o + 1, q - 1)) = h
  <2> DEFINE a == o + 1
             b == o + l
             c == q - 1
  <2>1. a \in 1..Len(data) /\ b \in a..Len(data) /\ c \in b..Len(data) /\ c = b + 1
    <3>1. o \in Nat /\ l \in Nat \ {0} /\ q = o + l + 2 /\ q < Len(data) /\ Len(data) \in Nat
      BY <1>0, <1>3
    <3> QED BY <3>1
  <2>2. data[a] \notin Blank \cup {"nl"} /\ data[b] \notin Blank \cup {"nl"}
    <3>1. a \in (o + 1)..(o + l) /\ b \in (o + 1)..(o + l)
      BY <1>0
    <3> QED BY <1>5, <3>1, PlainFacts
  <2>3. \A i \in (b + 1)..c : data[i] \in Blank \cup {"nl"}
    <3>1. \A i \in (b + 1)..c : i = c
      BY <1>0
    <3>2. data[c] \in Blank
      BY DEF Blank, HashAt
    <3> QED BY <3>1, <3>2
  <2> HIDE DEF a, b, c
  <2>4. Strip(SubSeq(data, a, c)) = SubSeq(data, a, b)
    BY <2>1, <2>2, <2>3, StripSegment
  <2> QED BY <1>4, <2>4 DEF a, b, c
<1> QED BY <1>10, <1>11 DEF h

\* The step that comes to a hash.
LEMMA StepAtHash ==
  ASSUME NEW data \in Seq(Characters), NEW scan, NEW q \in Nat, scan.at # 0, Stop(data, scan.at) = q,
         q <= Len(data), data[q] = "#"
  PROVE  NextSegment(data, scan) =
           IF BlockFrom(data, q).error # "none" THEN Refused(BlockFrom(data, q).error)
           ELSE IF Strip(SubSeq(data, scan.at, q - 1)) = <<>> \/ AfterBlock(data, BlockFrom(data, q).end) = 0
             THEN Refused("ProtocolError")
           ELSE Went(scan, AfterBlock(data, BlockFrom(data, q).end),
                     [text |-> Strip(SubSeq(data, scan.at, q - 1)),
                      block |-> TRUE, payload |-> BlockFrom(data, q).payload])
<1>1. ~(q > Len(data))
  <2>1. Len(data) \in Nat
    OBVIOUS
  <2> QED BY <2>1
<1> QED BY <1>1, Zenon DEF NextSegment, Stop, Stopping, Went

\* A header is followed at byte q by a block that ends before byte p, and its separator
\* before byte r; together they are this part.
BlockAt(data, a, q, part, p, r) ==
  /\ a # 0 /\ q \in Nat /\ Stop(data, a) = q /\ q <= Len(data) /\ data[q] = "#"
  /\ part = [text |-> Strip(SubSeq(data, a, q - 1)), block |-> TRUE, payload |-> BlockFrom(data, q).payload]
  /\ Strip(SubSeq(data, a, q - 1)) # <<>>
  /\ BlockFrom(data, q).error = "none" /\ BlockFrom(data, q).end = p
  /\ AfterBlock(data, p) = r /\ r # 0

\* The step that reads this part and goes on at byte r.
Takes(data, scan, r, part) == NextSegment(data, scan) = Went(scan, r, part)

\* If the block is whole.
LEMMA StepAtBlock ==
  ASSUME NEW data \in Seq(Characters), NEW scan, NEW q, NEW part, NEW p, NEW r,
         BlockAt(data, scan.at, q, part, p, r)
  PROVE  Takes(data, scan, r, part)
<1> DEFINE block == BlockFrom(data, q)
           v == Strip(SubSeq(data, scan.at, q - 1))
           next == AfterBlock(data, block.end)
<1>2. NextSegment(data, scan) =
        IF block.error # "none" THEN Refused(block.error)
        ELSE IF v = <<>> \/ next = 0 THEN Refused("ProtocolError")
        ELSE Went(scan, next, [text |-> v, block |-> TRUE, payload |-> block.payload])
  <2>1. q \in Nat /\ scan.at # 0 /\ Stop(data, scan.at) = q /\ q <= Len(data) /\ data[q] = "#"
    BY Zenon DEF BlockAt
  <2> QED BY <2>1, StepAtHash, Zenon
<1>3. v # <<>> /\ next = r /\ r # 0 /\ block.error = "none"
  BY Zenon DEF BlockAt
<1>4. part = [text |-> v, block |-> TRUE, payload |-> block.payload]
  BY Zenon DEF BlockAt
<1> HIDE DEF block, v, next
<1> QED BY <1>2, <1>3, <1>4, Zenon DEF Takes

\* A digit is none of the letters of a non-decimal number.
LEMMA DigitIsNoLetter == \A v \in 1..10 : Digit[v] \notin {"H", "Q", "B"}
<1>1. \A v \in 1..10 : \/ v = 1 \/ v = 2 \/ v = 3 \/ v = 4 \/ v = 5
                      \/ v = 6 \/ v = 7 \/ v = 8 \/ v = 9 \/ v = 10
  OBVIOUS
<1>2. /\ Digit[1] = "0" /\ Digit[2] = "1" /\ Digit[3] = "2" /\ Digit[4] = "3" /\ Digit[5] = "4"
      /\ Digit[6] = "5" /\ Digit[7] = "6" /\ Digit[8] = "7" /\ Digit[9] = "8" /\ Digit[10] = "9"
  BY DEF Digit
<1> QED BY <1>1, <1>2

\* Where the bytes are behind one that is put in front.
LEMMA FirstSpot ==
  ASSUME NEW S, NEW c \in S, NEW y \in Seq(S)
  PROVE  /\ <<c>> \o y \in Seq(S) /\ Len(<<c>> \o y) = 1 + Len(y)
         /\ (<<c>> \o y)[1] = c
         /\ \A j \in 1..Len(y) : (<<c>> \o y)[1 + j] = y[j]
<1> DEFINE x == <<c>>
<1>1. x \in Seq(S) /\ Len(x) = 1 /\ x[1] = c /\ 1 \in 1..Len(x)
  OBVIOUS
<1> HIDE DEF x
<1>2. /\ x \o y \in Seq(S) /\ Len(x \o y) = Len(x) + Len(y)
      /\ \A i \in 1..Len(x) : (x \o y)[i] = x[i]
      /\ \A j \in 1..Len(y) : (x \o y)[Len(x) + j] = y[j]
  BY <1>1, Spots
<1>3. (x \o y)[1] = c
  BY <1>1, <1>2
<1> QED BY <1>1, <1>2, <1>3 DEF x

\* A block is read whole, and the scan goes on behind its separator.
LEMMA StepBlock ==
  ASSUME NEW data \in Seq(Characters), NEW item, Sound(item), item.arg = "block",
         NEW o, Stands(data, o, Written(item)), NEW scan, scan.at = o + 1
  PROVE  NextSegment(data, scan) = Went(scan, o + Len(Written(item)) + 1, Raw(item))
<1> DEFINE h == Header(item)
           a == Argument(item)
           l == Len(h)
           w == item.payload
           e == EncodeBlock(w)
           d == Decimal(Len(w))
           m == Len(d)
           n == Len(w)
           q == o + l + 2
           p == q + m + n + 2
<1>1. item \in Items /\ item.sep \in {";", "nl"} /\ w \in Payloads
  BY DEF Sound, Items
<1>2. h \in Seq(Characters) /\ l \in Nat \ {0} /\ h # <<>>
  BY HeaderFacts
<1>3. /\ n \in 0..MaxBlock /\ n \in 0..99
      /\ d \in Seq(Characters) /\ m \in 1..2
      /\ e \in Seq(Characters)
      /\ Len(e) = 2 + m + n
      /\ e[1] = "#" /\ e[2] = Digit[m + 1]
      /\ \A k \in 1..m : e[2 + k] = d[k]
      /\ \A k \in 1..n : e[2 + m + k] = w[k]
  BY <1>1, Encoded
<1>4. a = <<" ">> \o e
  BY DEF Argument
<1>5. Len(a) = 1 + Len(e) /\ a[1] = " " /\ \A k \in 1..Len(e) : a[1 + k] = e[k]
  <2> DEFINE c == " "
  <2>1. c \in Characters /\ e \in Seq(Characters)
    BY <1>3, Letters
  <2>2. a = <<c>> \o e /\ c = " "
    BY <1>4
  <2> HIDE DEF c, e, a
  <2>3. /\ Len(<<c>> \o e) = 1 + Len(e) /\ (<<c>> \o e)[1] = c
        /\ \A j \in 1..Len(e) : (<<c>> \o e)[1 + j] = e[j]
    BY <2>1, FirstSpot
  <2> QED BY <2>2, <2>3
<1>6. /\ o \in Nat /\ o + l + Len(a) + 1 <= Len(data) /\ o + l + Len(a) + 1 = o + Len(Written(item))
      /\ Stands(data, o, h) /\ Stands(data, o + l, a)
      /\ data[o + l + Len(a) + 1] = item.sep
  BY ItemStands
<1>7. \A j \in 1..Len(a) : data[o + l + j] = a[j]
  BY <1>6 DEF Stands
<1>8. Raw(item) = [text |-> h, block |-> TRUE, payload |-> w]
  <2>1. Behind(item) = <<>>
    BY DEF Behind
  <2>2. h \o <<>> = h
    BY <1>2, ConcatEmptySeq
  <2> QED BY <2>1, <2>2 DEF Raw
<1>9. Stands(data, o, Header(item)) /\ q = o + Len(Header(item)) + 2
  BY <1>6
<1> HIDE DEF h, a, e, d, w
<1>10. o \in Nat /\ l \in Nat \ {0} /\ m \in 1..2 /\ n \in Nat /\ Len(a) = 3 + m + n /\ Len(data) \in Nat
  <2>1. Len(data) \in Nat
    OBVIOUS
  <2>2. m \in 1..2 /\ n \in Nat
    BY <1>3
  <2>3. Len(a) = 1 + Len(e) /\ Len(e) = 2 + m + n
    BY <1>3, <1>5
  <2>4. Len(a) = 3 + m + n
    BY <2>2, <2>3
  <2> QED BY <1>2, <1>6, <2>1, <2>2, <2>4
<1> HIDE DEF l, m, n
<1>11. p = o + l + Len(a) + 1 /\ q \in 1..Len(data) /\ p <= Len(data) /\ q + 1 < p /\ p \in Nat
  BY <1>6, <1>10
<1>12. /\ data[q - 1] = " " /\ data[q] = "#" /\ data[q + 1] = Digit[m + 1]
       /\ \A k \in 1..m : data[q + 1 + k] = d[k]
       /\ \A k \in 1..n : data[q + 1 + m + k] = w[k]
  <2>1. ASSUME NEW k \in 1..Len(e) PROVE data[q - 1 + k] = e[k]
    <3>1. 1 + k \in 1..Len(a) /\ o + l + (1 + k) = q - 1 + k
      BY <1>3, <1>10
    <3> QED BY <1>5, <1>7, <3>1
  <2>2. data[q - 1] = " "
    <3>1. 1 \in 1..Len(a) /\ o + l + 1 = q - 1
      BY <1>10
    <3> QED BY <1>5, <1>7, <3>1
  <2>3. data[q] = "#" /\ data[q + 1] = Digit[m + 1]
    <3>1. 1 \in 1..Len(e) /\ 2 \in 1..Len(e) /\ q - 1 + 1 = q /\ q - 1 + 2 = q + 1
      BY <1>3, <1>10
    <3> QED BY <1>3, <2>1, <3>1
  <2>4. ASSUME NEW k \in 1..m PROVE data[q + 1 + k] = d[k]
    <3>1. 2 + k \in 1..Len(e) /\ q - 1 + (2 + k) = q + 1 + k
      BY <1>3, <1>10
    <3> QED BY <1>3, <2>1, <3>1
  <2>5. ASSUME NEW k \in 1..n PROVE data[q + 1 + m + k] = w[k]
    <3>1. 2 + m + k \in 1..Len(e) /\ q - 1 + (2 + m + k) = q + 1 + m + k
      BY <1>3, <1>10
    <3> QED BY <1>3, <2>1, <3>1
  <2> QED BY <2>2, <2>3, <2>4, <2>5
<1>13. HashAt(data, q)
  <2>1. m + 1 \in 1..10 /\ q < Len(data)
    BY <1>10, <1>11
  <2>2. data[q + 1] \notin {"H", "Q", "B"}
    BY <1>12, <2>1, DigitIsNoLetter
  <2> QED BY <1>12, <2>1, <2>2 DEF HashAt
<1>14. Stop(data, o + 1) = q /\ Strip(SubSeq(data, o + 1, q - 1)) = h
  BY <1>9, <1>13, BlockStarts DEF h
<1> DEFINE first == q + 2 + m
<1>15. BlockFrom(data, q) = [error |-> "none", payload |-> SubSeq(data, first, first + n - 1), end |-> p]
  <2>1. first + n = p /\ Len(data) >= first + n - 1
    BY <1>10, <1>11
  <2>2. /\ q + 1 <= Len(data) => data[q + 1] = Digit[Len(Decimal(n)) + 1]
        /\ \A k \in 1..Len(Decimal(n)) : q + 1 + k <= Len(data) => data[q + 1 + k] = Decimal(n)[k]
    BY <1>12 DEF m, d, n
  <2> HIDE DEF q, p
  <2>3. LET f == q + 2 + Len(Decimal(n)) IN
        IF Len(data) >= f + n - 1
          THEN BlockFrom(data, q) = [error |-> "none", payload |-> SubSeq(data, f, f + n - 1), end |-> f + n]
          ELSE BlockFrom(data, q).error # "none"
    BY <1>3, <1>11, <2>2, BlockRead DEF n
  <2>4. q + 2 + Len(Decimal(n)) = first
    BY DEF m, d, n
  <2> HIDE DEF first
  <2> QED BY <2>1, <2>3, <2>4, Zenon
<1>16. SubSeq(data, first, first + n - 1) = w
  <2> DEFINE c == first - 1
  <2>1. c \in Nat /\ c + n <= Len(data) /\ c + 1 = first /\ c + n = first + n - 1
    BY <1>10, <1>11
  <2>2. \A k \in 1..n : data[c + k] = w[k]
    <3> TAKE k \in 1..n
    <3>1. c + k = q + 1 + m + k
      BY <1>10, <1>11
    <3> QED BY <1>12, <3>1
  <2>3. Stands(data, c, w)
    BY <2>1, <2>2 DEF Stands, n
  <2>4. w \in Seq(Characters)
    BY <1>1 DEF Payloads, w
  <2> HIDE DEF c, first
  <2>5. SubSeq(data, c + 1, c + n) = w
    BY <2>3, <2>4, CutOut DEF n
  <2> QED BY <2>1, <2>5
<1>17. AfterBlock(data, p) = p + 1 /\ p + 1 # 0
  <2> DEFINE S == {k \in p..Len(data) : data[k] \notin Blank} \cup {Len(data) + 1}
  <2>1. data[p] = item.sep
    BY <1>6, <1>11
  <2>2. data[p] \in {"nl", ";"}
    BY <1>1, <2>1
  <2>6. data[p] \notin Blank
    BY <1>1, <2>1 DEF Blank
  <2> HIDE DEF p
  <2>3. p \in S /\ S \subseteq Nat /\ \A k \in S : p <= k
    <3>1. p \in S
      BY <1>10, <1>11, <2>6
    <3> QED BY <1>10, <1>11, <3>1
  <2> HIDE DEF S
  <2>4. Min(S) = p
    BY <2>3, LeastIs
  <2>5. ~(p > Len(data)) /\ p + 1 # 0
    BY <1>10, <1>11
  <2> QED BY <2>2, <2>4, <2>5 DEF AfterBlock, S
<1>18. BlockFrom(data, q) = [error |-> "none", payload |-> w, end |-> p]
  BY <1>15, <1>16, Zenon
<1>22. NextSegment(data, scan) = Went(scan, p + 1, Raw(item))
  <2>1. q \in Nat /\ q <= Len(data) /\ scan.at # 0
    BY <1>10, <1>11
  <2>2. data[q] = "#"
    BY <1>12
  <2>3. Stop(data, scan.at) = q /\ Strip(SubSeq(data, scan.at, q - 1)) = h
    BY <1>14, Zenon
  <2>4. AfterBlock(data, p) = p + 1 /\ p + 1 # 0
    BY <1>17
  <2> HIDE DEF q, p
  <2> DEFINE part == [text |-> h, block |-> TRUE, payload |-> w]
             block == BlockFrom(data, q)
  <2>6. block.error = "none" /\ block.payload = w /\ block.end = p
    <3>1. block = [error |-> "none", payload |-> w, end |-> p]
      BY <1>18
    <3> HIDE DEF block
    <3> QED BY <3>1
  <2>7. part = [text |-> Strip(SubSeq(data, scan.at, q - 1)), block |-> TRUE, payload |-> block.payload]
    BY <2>3, <2>6, Zenon
  <2>8. Strip(SubSeq(data, scan.at, q - 1)) # <<>>
    BY <1>2, <2>3, Zenon
  <2> HIDE DEF part
  <2>9. BlockAt(data, scan.at, q, part, p, p + 1)
    BY <2>1, <2>2, <2>3, <2>4, <2>6, <2>7, <2>8, Zenon DEF BlockAt
  <2>10. NextSegment(data, scan) = Went(scan, p + 1, part)
    <3>1. Takes(data, scan, p + 1, part)
      BY <2>9, StepAtBlock, Zenon
    <3> QED BY <3>1, Zenon DEF Takes
  <2> QED BY <1>8, <2>10, Zenon DEF part
<1>23. p + 1 = o + Len(Written(item)) + 1
  BY <1>6, <1>11
<1> QED BY <1>22, <1>23

\* A block of nine bytes of which one came.
LEMMA CutBlock ==
  ASSUME NEW data \in Seq(Characters), NEW q \in Nat \ {0}, Len(data) = q + 4,
         data[q + 1] = Digit[2], data[q + 2] = Digit[10]
  PROVE  BlockFrom(data, q).error # "none"
<1> DEFINE width == IF q < Len(data) /\ IsDigit(data[q + 1]) THEN Value(data[q + 1]) ELSE 0
           field == SubSeq(data, q + 2, q + 1 + width)
           size == Number(field)
           first == q + 2 + width
<1>1. width = 1 /\ data[q + 1] # "0"
  <2>1. IsDigit(data[q + 1]) /\ Value(data[q + 1]) = 2 - 1 /\ data[q + 1] # "0"
    BY DigitValue
  <2> QED BY <2>1
<1> HIDE DEF width
<1>2. field = <<Digit[10]>>
  <2> DEFINE b == q + 1
             x == <<Digit[10]>>
  <2>1. x \in Seq(Characters) /\ Len(x) = 1 /\ x[1] = Digit[10]
    BY DigitValue
  <2>2. b \in Nat /\ b + 1 = q + 2 /\ b + 1 <= Len(data)
    OBVIOUS
  <2>3. data[b + 1] = Digit[10]
    BY <2>2
  <2> HIDE DEF b, x
  <2>4. Stands(data, b, x)
    BY <2>1, <2>2, <2>3 DEF Stands
  <2>5. SubSeq(data, b + 1, b + 1) = x
    BY <2>1, <2>4, CutOut
  <2>6. field = SubSeq(data, b + 1, b + 1)
    BY <1>1, <2>2
  <2> QED BY <2>5, <2>6 DEF x
<1>3. Decimal(9) = <<Digit[10]>> /\ Number(Decimal(9)) = 9
  <2>1. Number(Decimal(9)) = 9
    BY DecimalRead
  <2> QED BY <2>1 DEF Decimal
<1>4. size = 9
  BY <1>2, <1>3
<1> HIDE DEF field, size
<1>5. first + size - 1 > Len(data)
  BY <1>1, <1>4
<1>6. \E e \in {"ProtocolError", "UnsupportedOperationError"} : BlockFrom(data, q) = Malformed(e)
  BY <1>5 DEF BlockFrom, width, field, size
<1>7. \A e \in {"ProtocolError", "UnsupportedOperationError"} : Malformed(e).error # "none"
  BY DEF Malformed
<1> QED BY <1>6, <1>7

\* A message that ends within a block is refused.
LEMMA StepCut ==
  ASSUME NEW data \in Seq(Characters), NEW item, Sound(item), item.arg = "cut",
         NEW o, Stands(data, o, Written(item)), o + Len(Written(item)) = Len(data),
         NEW scan, scan.at = o + 1
  PROVE  NextSegment(data, scan).error # "none" /\ NextSegment(data, scan).at = 0
<1> DEFINE l == Len(Header(item))
           a == Argument(item)
           q == o + Len(Header(item)) + 2
<1>1. a = <<" ", "#", "1", "9", "x">>
  BY DEF Argument
<1>2. a[1] = " " /\ a[2] = "#" /\ a[3] = Digit[2] /\ a[4] = Digit[10]
  <2>1. Digit[2] = "1" /\ Digit[10] = "9"
    BY DEF Digit
  <2> HIDE DEF a
  <2>2. a[1] = " " /\ a[2] = "#" /\ a[3] = "1" /\ a[4] = "9"
    BY <1>1
  <2> QED BY <2>1, <2>2
<1>13. Len(a) = 5
  <2> HIDE DEF a
  <2> QED BY <1>1
<1>3. /\ o \in Nat /\ o + l + Len(a) + 1 = Len(data)
      /\ Stands(data, o, Header(item)) /\ Stands(data, o + l, a)
  BY ItemStands
<1>4. l \in Nat \ {0}
  BY HeaderFacts
<1>5. \A j \in 1..5 : data[o + l + j] = a[j]
  BY <1>13, <1>3 DEF Stands
<1> HIDE DEF a, l
<1>6. q = o + l + 2 /\ q \in Nat \ {0} /\ Len(data) = q + 4 /\ q - 1 = o + l + 1
  <2>1. q = o + l + 2
    BY DEF l
  <2>2. Len(data) = o + l + 6
    BY <1>13, <1>3, <1>4
  <2> HIDE DEF q
  <2> QED BY <1>3, <1>4, <2>1, <2>2
<1>7. data[q - 1] = a[1] /\ data[q] = a[2] /\ data[q + 1] = a[3] /\ data[q + 2] = a[4]
  <2>1. q = o + l + 2 /\ q + 1 = o + l + 3 /\ q + 2 = o + l + 4 /\ q - 1 = o + l + 1
    BY <1>3, <1>4, <1>6
  <2> HIDE DEF q
  <2> QED BY <1>5, <2>1
<1> HIDE DEF q
<1>8. HashAt(data, q)
  <2>1. q < Len(data)
    BY <1>6
  <2>2. data[q + 1] = Digit[2]
    BY <1>2, <1>7, Zenon
  <2>3. data[q + 1] \notin {"H", "Q", "B"}
    BY <2>2, DigitIsNoLetter
  <2> QED BY <1>2, <1>7, <2>1, <2>3 DEF HashAt
<1>9. Stop(data, o + 1) = q
  BY <1>3, <1>8, BlockStarts DEF q
<1>10. BlockFrom(data, q).error # "none"
  BY <1>2, <1>6, <1>7, CutBlock
<1>11. NextSegment(data, scan) = Refused(BlockFrom(data, q).error)
  <2>1. q \in Nat /\ q <= Len(data) /\ scan.at # 0
    BY <1>3, <1>6
  <2>2. Stop(data, scan.at) = q
    BY <1>9, Zenon
  <2>3. data[q] = "#"
    BY <1>2, <1>7
  <2> QED BY <1>10, <2>1, <2>2, <2>3, StepAtHash, Zenon
<1>12. \A e : Refused(e).error = e /\ Refused(e).at = 0
  BY DEF Refused
<1> QED BY <1>10, <1>11, <1>12

\* A scan that has come to byte at.
ScanAt(at, parts) == [at |-> at, error |-> "none", parts |-> parts]

\* The scan gone on to byte r, with these parts.
Changed(scan, r, more) == [scan EXCEPT !.at = r, !.parts = more]

\* The record a step makes of it.
LEMMA ScanMoved ==
  ASSUME NEW at \in Nat, NEW parts \in Seq(RawParts), NEW r \in Nat, NEW more \in Seq(RawParts)
  PROVE  /\ ScanAt(at, parts).at = at /\ ScanAt(at, parts).error = "none" /\ ScanAt(at, parts).parts = parts
         /\ Changed(ScanAt(at, parts), r, more) = ScanAt(r, more)
<1> DEFINE scan == ScanAt(at, parts)
           j == [scan EXCEPT !.at = r, !.parts = more]
           e == ScanAt(r, more)
<1>1. scan \in Scans /\ scan.at = at /\ scan.error = "none" /\ scan.parts = parts
  BY DEF Scans, ScanAt, BlockErrors
<1>2. e \in Scans /\ e.at = r /\ e.error = "none" /\ e.parts = more
  BY DEF Scans, ScanAt, BlockErrors
<1> HIDE DEF scan, e
<1>3. j \in Scans /\ j.at = r /\ j.error = scan.error /\ j.parts = more
  BY <1>1 DEF Scans
<1> HIDE DEF j
<1>4. j = e
  BY <1>1, <1>2, <1>3 DEF Scans
<1> QED BY <1>1, <1>4, Zenon DEF scan, j, e, Changed

\* Behind the last separator there is nothing.
LEMMA StepEnd ==
  ASSUME NEW data \in Seq(Characters), NEW parts \in Seq(RawParts)
  PROVE  NextSegment(data, ScanAt(Len(data) + 1, parts)) = ScanAt(0, parts)
<1> DEFINE b == Len(data)
           a == b + 1
           scan == ScanAt(a, parts)
<1>1. b \in Nat /\ a - 1 = b
  OBVIOUS
<1>2. {i \in a..Len(data) : Stopping(data, a, i)} = {} /\ a # 0 /\ a > Len(data) /\ a \in Nat
  OBVIOUS
<1> HIDE DEF a
<1>3. Stop(data, a) = a
  <2>1. Stop(data, a) = Min({a})
    BY <1>2 DEF Stop, a
  <2> DEFINE S == {a}
  <2>3. S \subseteq Nat /\ a \in S /\ \A y \in S : a <= y
    BY <1>2
  <2> HIDE DEF S
  <2>4. Min(S) = a
    BY <2>3, LeastIs
  <2> QED BY <2>1, <2>4 DEF S
<1>4. AddText(parts, SubSeq(data, a, a - 1)) = parts
  <2>1. Strip(SubSeq(data, b + 1, b)) = <<>>
    BY <1>1, StripNothing
  <2> QED BY <1>1, <2>1 DEF AddText, a
<1>5. scan.at = a /\ scan.parts = parts
  BY <1>2, ScanMoved
<1>6. Changed(scan, 0, parts) = ScanAt(0, parts)
  BY <1>2, ScanMoved
<1> HIDE DEF scan
<1>7. Stop(data, scan.at) = a /\ scan.at # 0 /\ SubSeq(data, scan.at, a - 1) = SubSeq(data, a, a - 1)
  BY <1>2, <1>3, <1>5
<1>8. NextSegment(data, scan) = Changed(scan, 0, AddText(scan.parts, SubSeq(data, scan.at, a - 1)))
  BY <1>2, <1>7, Zenon DEF NextSegment, Stop, Stopping, Changed
<1>9. NextSegment(data, scan) = Changed(scan, 0, parts)
  BY <1>4, <1>5, <1>7, <1>8, Zenon
<1> QED BY <1>6, <1>9 DEF scan, a

\* The scan has ended.
LEMMA StepStay ==
  ASSUME NEW data, NEW scan, scan.at = 0
  PROVE  NextSegment(data, scan) = scan
BY DEF NextSegment

\* A step that goes on.
LEMMA WentOn ==
  ASSUME NEW at \in Nat, NEW parts \in Seq(RawParts), NEW r \in Nat, NEW part \in RawParts
  PROVE  Went(ScanAt(at, parts), r, part) = ScanAt(r, Append(parts, part))
<1> DEFINE scan == ScanAt(at, parts)
           more == Append(parts, part)
<1>1. more \in Seq(RawParts)
  BY AppendProperties
<1>2. scan.parts = parts
  BY ScanMoved
<1>3. Changed(scan, r, more) = ScanAt(r, more)
  BY <1>1, ScanMoved
<1> HIDE DEF scan
<1> QED BY <1>2, <1>3, Zenon DEF Went, Changed, scan

------------------------------------------------------------------------------
\* The scan of a message.

\* The items of a message one behind the other, the k-th up to byte off[k].
Laid(message, data, off) ==
  /\ off \in [0..Len(message) -> Nat]
  /\ off[0] = 0 /\ off[Len(message)] = Len(data)
  /\ \A k \in 1..Len(message) :
       /\ Stands(data, off[k - 1], Written(message[k]))
       /\ off[k] = off[k - 1] + Len(Written(message[k]))
       /\ off[k - 1] + 1 < off[k] /\ off[k] <= Len(data)

\* Its bytes are characters, and its items have their places.
LEMMA LaidOut ==
  ASSUME NEW message \in Seq(Items), WellFormed(message)
  PROVE  /\ Rendered(message) \in Seq(Characters)
         /\ \E off : Laid(message, Rendered(message), off)
         /\ Len(message) \in Nat
         /\ \A k \in 1..Len(message) :
              /\ message[k] \in Items /\ Sound(message[k]) /\ Raw(message[k]) \in RawParts
              /\ message[k].arg = "cut" => k = Len(message)
<1> DEFINE data == Rendered(message)
           s == [k \in DOMAIN message |-> Written(message[k])]
           n == Len(message)
<1>1. n \in Nat /\ DOMAIN message = 1..n /\ \A k \in 1..n : message[k] \in Items
  OBVIOUS
<1>2. ASSUME NEW k \in 1..n
      PROVE  Sound(message[k]) /\ (message[k].arg = "cut" => k = n)
  BY <1>1 DEF WellFormed, Sound
<1>3. data \in Seq(Characters) /\ s \in Seq(Seq(Characters))
  BY RenderedType
<1>4. Len(s) = n /\ \A k \in 1..n : s[k] = Written(message[k])
  <2>1. DOMAIN s = 1..n /\ \A k \in 1..n : s[k] = Written(message[k])
    BY <1>1
  <2> HIDE DEF s
  <2> QED BY <1>1, <1>3, <2>1
<1>5. data = FlattenSeq(s)
  BY DEF Rendered
<1> HIDE DEF data, s, n
<1>6. PICK off \in [0..Len(s) -> Nat] : Places(s, data, off)
  BY <1>3, <1>5, Placed
<1>7. ASSUME NEW k \in 1..n
      PROVE  /\ Stands(data, off[k - 1], Written(message[k]))
             /\ off[k] = off[k - 1] + Len(Written(message[k]))
             /\ off[k - 1] + 1 < off[k] /\ off[k] <= Len(data)
  <2> DEFINE x == Written(message[k])
             o == off[k - 1]
  <2>1. off[k] = o + Len(x) /\ off[k] <= Len(data) /\ \A j \in 1..Len(x) : data[o + j] = x[j]
    BY <1>4, <1>6 DEF Places
  <2>2. o \in Nat
    <3>1. k - 1 \in 0..Len(s)
      BY <1>1, <1>4
    <3> QED BY <1>6, <3>1
  <2> HIDE DEF x, o
  <2>3. Stands(data, o, x)
    BY <2>1, <2>2 DEF Stands
  <2>4. o + Len(Header(message[k])) + Len(Argument(message[k])) + 1 = o + Len(x)
        /\ Len(Argument(message[k])) \in Nat /\ Len(Header(message[k])) \in Nat \ {0}
    BY <1>2, <1>3, <2>3, ItemStands, HeaderFacts DEF x
  <2>5. o + 1 < o + Len(x)
    BY <2>2, <2>4
  <2> QED BY <2>1, <2>3, <2>5 DEF x, o
<1>8. Laid(message, data, off)
  BY <1>4, <1>6, <1>7 DEF Laid, Places, n
<1>9. ASSUME NEW k \in 1..n PROVE Raw(message[k]) \in RawParts
  <2> DEFINE item == message[k]
             h == Header(item)
             b == Behind(item)
  <2>1. item \in Items /\ Sound(item)
    BY <1>1, <1>2
  <2> HIDE DEF item
  <2>2. h \in Seq(Characters) /\ Len(h) \in Nat \ {0}
    BY <2>1, HeaderFacts
  <2>3. b \in Seq(Characters)
    BY <2>1, BehindFacts DEF Readable
  <2> HIDE DEF h, b
  <2>4. h \o b \in Seq(Characters) /\ Len(h \o b) = Len(h) + Len(b)
    BY <2>2, <2>3, Spots
  <2>5. h \o b # <<>>
    <3>1. Len(h \o b) # 0
      BY <2>2, <2>3, <2>4
    <3> HIDE DEF h, b
    <3> QED BY <3>1
  <2>6. item.payload \in Payloads
    BY <2>1 DEF Items
  <2> QED BY <2>4, <2>5, <2>6 DEF Raw, RawParts, Parts, h, b, item
<1> QED BY <1>1, <1>2, <1>3, <1>8, <1>9 DEF data, n

\* An item is one step of the scan.
LEMMA StepItem ==
  ASSUME NEW data \in Seq(Characters), NEW item, Sound(item), item.arg # "cut", Raw(item) \in RawParts,
         NEW o, Stands(data, o, Written(item)), NEW parts \in Seq(RawParts)
  PROVE  NextSegment(data, ScanAt(o + 1, parts)) =
           ScanAt(o + Len(Written(item)) + 1, Append(parts, Raw(item)))
<1> DEFINE scan == ScanAt(o + 1, parts)
           p == o + Len(Written(item))
<1>1. o \in Nat /\ p \in Nat
  BY ItemStands
<1>2. scan.at = o + 1
  <2>1. o + 1 \in Nat
    BY <1>1
  <2> QED BY <2>1, ScanMoved
<1> HIDE DEF scan
<1>3. NextSegment(data, scan) = Went(scan, p + 1, Raw(item))
  <2>1. CASE item.arg = "block"
    BY <1>2, <2>1, StepBlock
  <2>2. CASE item.arg # "block"
    <3>1. item.arg \notin {"block", "cut"}
      BY <2>2
    <3>2. TextAt(data, o, p) /\ Strip(SubSeq(data, o + 1, p - 1)) = Raw(item).text /\ Raw(item).text # <<>>
      BY <3>1, TextItem
    <3>3. NextSegment(data, scan) = Went(scan, p + 1, TextPart(Strip(SubSeq(data, o + 1, p - 1))))
      <4> HIDE DEF p
      <4>1. Strip(SubSeq(data, o + 1, p - 1)) # <<>>
        BY <3>2
      <4> QED BY <1>2, <3>2, <4>1, StepText
    <3>4. TextPart(Raw(item).text) = Raw(item)
      BY <2>2 DEF TextPart, Raw, Sound
    <3> HIDE DEF p
    <3> QED BY <3>2, <3>3, <3>4
  <2> QED BY <2>1, <2>2
<1>4. o + 1 \in Nat /\ p + 1 \in Nat
  BY <1>1
<1>5. Went(scan, p + 1, Raw(item)) = ScanAt(p + 1, Append(parts, Raw(item)))
  <2> HIDE DEF p
  <2> QED BY <1>4, WentOn DEF scan
<1> QED BY <1>3, <1>5 DEF scan

\* The commands of a message, before their headers are completed.
Raws(message) == [k \in DOMAIN message |-> Raw(message[k])]

\* The first k of them.
LEMMA RawsType ==
  ASSUME NEW n \in Nat, NEW message, \A k \in 1..n : Raw(message[k]) \in RawParts
  PROVE  /\ \A k \in 0..n : [i \in 1..k |-> Raw(message[i])] \in Seq(RawParts)
         /\ [i \in 1..0 |-> Raw(message[i])] = <<>>
         /\ \A k \in 1..n : Append([i \in 1..(k - 1) |-> Raw(message[i])], Raw(message[k])) =
                              [i \in 1..k |-> Raw(message[i])]
<1> DEFINE R(k) == [i \in 1..k |-> Raw(message[i])]
<1>1. \A k \in 0..n : /\ R(k) \in Seq(RawParts) /\ Len(R(k)) = k
                      /\ \A i \in 1..k : R(k)[i] = Raw(message[i])
  OBVIOUS
<1> HIDE DEF R
<1>2. R(0) = <<>>
  <2>1. R(0) \in Seq(RawParts) /\ Len(R(0)) = 0
    BY <1>1
  <2> QED BY <2>1, EmptySeq
<1>3. ASSUME NEW k \in 1..n PROVE Append(R(k - 1), Raw(message[k])) = R(k)
  <2> DEFINE s == R(k - 1)
             e == Raw(message[k])
             t == Append(s, e)
  <2>1. k - 1 \in 0..n /\ k \in 0..n /\ k \in Nat
    OBVIOUS
  <2>2. s \in Seq(RawParts) /\ Len(s) = k - 1 /\ \A i \in 1..(k - 1) : s[i] = Raw(message[i])
    BY <1>1, <2>1
  <2>3. e \in RawParts
    OBVIOUS
  <2> HIDE DEF s, e
  <2>4. /\ t \in Seq(RawParts) /\ Len(t) = Len(s) + 1
        /\ \A i \in 1..Len(s) : t[i] = s[i]
        /\ t[Len(s) + 1] = e
    BY <2>2, <2>3, AppendProperties
  <2> HIDE DEF t
  <2>5. Len(t) = k
    BY <2>1, <2>2, <2>4
  <2>6. \A i \in 1..k : t[i] = Raw(message[i])
    <3> TAKE i \in 1..k
    <3>1. CASE i = k
      BY <2>1, <2>2, <2>4, <3>1 DEF e
    <3>2. CASE i # k
      <4>1. i \in 1..(k - 1)
        BY <2>1, <3>2
      <4> QED BY <2>2, <2>4, <4>1
    <3> QED BY <3>1, <3>2
  <2>7. R(k) \in Seq(RawParts) /\ Len(R(k)) = k /\ \A i \in 1..k : R(k)[i] = Raw(message[i])
    BY <1>1, <2>1
  <2>8. t = R(k)
    BY <2>4, <2>5, <2>6, <2>7, SeqEqual
  <2> QED BY <2>8 DEF t, s, e
<1> QED BY <1>1, <1>2, <1>3 DEF R

\* Some command has a block that is cut short.
Cut(message) == \E k \in DOMAIN message : message[k].arg = "cut"

\* The scan reads what is meant, or refuses a message that ends within a block.
LEMMA ScanReads ==
  ASSUME NEW message \in Seq(Items), WellFormed(message)
  PROVE  LET scan == Scan(Rendered(message)) IN
         IF Cut(message) THEN scan.error # "none"
         ELSE scan.error = "none" /\ scan.parts = Raws(message)
<1> DEFINE data == Rendered(message)
           n == Len(message)
           size == Len(data) + 1
           R(k) == [i \in 1..k |-> Raw(message[i])]
<1>1. /\ data \in Seq(Characters) /\ n \in Nat
      /\ \A k \in 1..n : /\ Sound(message[k]) /\ Raw(message[k]) \in RawParts
                         /\ message[k].arg = "cut" => k = n
  BY LaidOut
<1>2. PICK off : Laid(message, data, off)
  BY LaidOut
<1>3. PICK c \in [0..size -> Scans] :
        /\ c[0] = [at |-> 1, error |-> "none", parts |-> <<>>]
        /\ \A k \in 1..size : c[k] = NextSegment(data, c[k - 1])
        /\ Scan(data) = c[size]
  BY <1>1, ScanSteps
<1>4. DOMAIN message = 1..n
  OBVIOUS
<1> HIDE DEF data, n
<1>5. size \in Nat /\ size = Len(data) + 1 /\ Len(data) \in Nat
  BY <1>1
<1> HIDE DEF size
<1>6. /\ off \in [0..n -> Nat] /\ off[0] = 0 /\ off[n] = Len(data)
      /\ \A k \in 1..n : /\ Stands(data, off[k - 1], Written(message[k]))
                         /\ off[k] = off[k - 1] + Len(Written(message[k]))
                         /\ off[k - 1] + 1 < off[k] /\ off[k] <= Len(data)
  BY <1>2 DEF Laid, n
<1>7. n < size /\ n \in 0..size
  <2> DEFINE S == {k \in 0..n : k <= off[k]}
  <2>1. 0 \in S
    BY <1>1, <1>6
  <2>2. ASSUME NEW k \in 1..n, k - 1 \in S PROVE k \in S
    <3>1. k - 1 <= off[k - 1] /\ off[k - 1] \in Nat /\ off[k] \in Nat /\ off[k - 1] + 1 < off[k]
      BY <1>1, <1>6, <2>2
    <3> QED BY <3>1
  <2> HIDE DEF S
  <2>3. \A k \in 0..n : k \in S
    BY <1>1, <2>1, <2>2, Induction
  <2>4. n <= off[n]
    BY <1>1, <2>3 DEF S
  <2> QED BY <1>1, <1>5, <1>6, <2>4
<1>8. /\ \A k \in 0..n : R(k) \in Seq(RawParts)
      /\ R(0) = <<>>
      /\ \A k \in 1..n : Append(R(k - 1), Raw(message[k])) = R(k)
  BY <1>1, RawsType
<1> HIDE DEF R
<1>9. ASSUME NEW k \in 1..n, message[k].arg # "cut", c[k - 1] = ScanAt(off[k - 1] + 1, R(k - 1))
      PROVE  c[k] = ScanAt(off[k] + 1, R(k))
  <2> DEFINE item == message[k]
             o == off[k - 1]
             parts == R(k - 1)
  <2>1. k - 1 \in 0..n /\ k \in 1..size
    BY <1>1, <1>5, <1>7
  <2>2. c[k] = NextSegment(data, c[k - 1])
    BY <1>3, <2>1
  <2>3. Sound(item) /\ item.arg # "cut" /\ Raw(item) \in RawParts /\ Stands(data, o, Written(item))
        /\ parts \in Seq(RawParts) /\ off[k] = o + Len(Written(item))
    BY <1>1, <1>6, <1>8, <1>9, <2>1
  <2>4. Append(parts, Raw(item)) = R(k)
    BY <1>8
  <2> HIDE DEF item, o, parts
  <2>5. NextSegment(data, ScanAt(o + 1, parts)) =
          ScanAt(o + Len(Written(item)) + 1, Append(parts, Raw(item)))
    BY <1>1, <2>3, StepItem
  <2> QED BY <1>9, <2>2, <2>3, <2>4, <2>5, Zenon DEF o, parts
<1>10. c[0] = ScanAt(off[0] + 1, R(0))
  <2>1. off[0] + 1 = 1
    BY <1>6
  <2> QED BY <1>3, <1>8, <2>1, Zenon DEF ScanAt
<1>11. ASSUME NEW m \in 0..n, \A k \in 1..m : message[k].arg # "cut"
       PROVE  c[m] = ScanAt(off[m] + 1, R(m))
  <2> DEFINE S == {k \in 0..m : c[k] = ScanAt(off[k] + 1, R(k))}
  <2>1. 0 \in S
    BY <1>1, <1>10
  <2>2. ASSUME NEW k \in 1..m, k - 1 \in S PROVE k \in S
    <3>1. k \in 1..n
      BY <1>1
    <3>2. c[k] = ScanAt(off[k] + 1, R(k))
      BY <1>9, <1>11, <2>2, <3>1
    <3> QED BY <3>2
  <2> HIDE DEF S
  <2>3. m \in Nat
    OBVIOUS
  <2>4. \A k \in 0..m : k \in S
    BY <2>1, <2>2, <2>3, Induction
  <2> QED BY <2>3, <2>4 DEF S
<1>12. ASSUME NEW m \in 0..size, c[m].at = 0 PROVE c[size] = c[m]
  <2> DEFINE S == {k \in 0..(size - m) : c[m + k] = c[m]}
  <2>1. m \in Nat /\ size - m \in Nat /\ m + (size - m) = size /\ m + 0 = m
    BY <1>5
  <2>2. 0 \in S
    BY <2>1
  <2>3. ASSUME NEW k \in 1..(size - m), k - 1 \in S PROVE k \in S
    <3>1. m + k \in 1..size /\ (m + k) - 1 = m + (k - 1)
      BY <1>5
    <3>2. c[m + k] = NextSegment(data, c[m + (k - 1)])
      BY <1>3, <3>1
    <3>3. c[m + k] = c[m]
      BY <1>12, <2>3, <3>2, StepStay
    <3> QED BY <3>3
  <2> HIDE DEF S
  <2>4. \A k \in 0..(size - m) : k \in S
    BY <2>1, <2>2, <2>3, Induction
  <2> QED BY <2>1, <2>4 DEF S
<1>13. CASE Cut(message)
  <2>1. n \in 1..n /\ message[n].arg = "cut" /\ \A k \in 1..(n - 1) : message[k].arg # "cut"
    <3>1. PICK k \in 1..n : message[k].arg = "cut"
      BY <1>4, <1>13 DEF Cut
    <3>2. k = n
      BY <1>1, <3>1
    <3>3. \A i \in 1..(n - 1) : i \in 1..n /\ i # n
      BY <1>1
    <3> QED BY <1>1, <3>1, <3>2, <3>3
  <2>2. n - 1 \in 0..n /\ n \in 1..size
    BY <1>1, <1>5, <1>7, <2>1
  <2>3. c[n - 1] = ScanAt(off[n - 1] + 1, R(n - 1))
    BY <1>11, <2>1, <2>2
  <2> DEFINE item == message[n]
             o == off[n - 1]
             scan == c[n - 1]
  <2>4. Sound(item) /\ item.arg = "cut" /\ Stands(data, o, Written(item))
        /\ o + Len(Written(item)) = Len(data) /\ o \in Nat /\ R(n - 1) \in Seq(RawParts)
    BY <1>1, <1>6, <1>8, <2>1, <2>2
  <2>5. scan.at = o + 1
    <3>1. o + 1 \in Nat
      BY <2>4
    <3> QED BY <2>3, <2>4, <3>1, ScanMoved
  <2>6. c[n] = NextSegment(data, scan)
    BY <1>3, <2>2
  <2> HIDE DEF item, o, scan
  <2>7. NextSegment(data, scan).error # "none" /\ NextSegment(data, scan).at = 0
    BY <1>1, <2>4, <2>5, StepCut
  <2>8. c[size] = c[n]
    BY <1>7, <1>12, <2>6, <2>7
  <2> QED BY <1>3, <1>13, <2>6, <2>7, <2>8 DEF data
<1>14. CASE ~Cut(message)
  <2>1. \A k \in 1..n : message[k].arg # "cut"
    BY <1>4, <1>14 DEF Cut
  <2>2. n \in 0..n /\ n + 1 \in 1..size /\ (n + 1) - 1 = n /\ n + 1 \in 0..size
    BY <1>1, <1>5, <1>7
  <2>3. c[n] = ScanAt(Len(data) + 1, R(n)) /\ R(n) \in Seq(RawParts)
    BY <1>6, <1>8, <1>11, <2>1, <2>2
  <2>4. c[n + 1] = NextSegment(data, c[n])
    BY <1>3, <2>2
  <2>5. c[n + 1] = ScanAt(0, R(n))
    BY <1>1, <2>3, <2>4, StepEnd
  <2>6. ScanAt(0, R(n)).at = 0 /\ ScanAt(0, R(n)).error = "none" /\ ScanAt(0, R(n)).parts = R(n)
    BY <2>3, ScanMoved
  <2>7. c[size] = ScanAt(0, R(n))
    BY <1>12, <2>2, <2>5, <2>6
  <2>8. R(n) = Raws(message)
    BY <1>4 DEF R, Raws
  <2> QED BY <1>3, <1>14, <2>6, <2>7, <2>8 DEF data
<1> QED BY <1>13, <1>14

------------------------------------------------------------------------------
\* Messages without a block are split as text.

\* Commands without a block, one behind the other, the k-th in the bytes up to off[k].
Segmented(data, n, off) ==
  /\ n \in Nat /\ off \in [0..n -> Nat] /\ off[0] = 0 /\ off[n] = Len(data)
  /\ \A k \in 1..n : TextAt(data, off[k - 1], off[k])

\* The arithmetic of it.
LEMMA SegmentBounds ==
  ASSUME NEW data, NEW n, NEW off, Segmented(data, n, off)
  PROVE  /\ n \in Nat /\ off[0] = 0 /\ off[n] = Len(data) /\ \A k \in 0..n : off[k] \in Nat
         /\ \A k \in 1..n : off[k - 1] + 1 < off[k] /\ off[k] <= Len(data)
         /\ \A j, k \in 0..n : j < k => off[j] < off[k]
         /\ \A j, k \in 0..n : off[j] <= off[k] => j <= k
<1>1. /\ n \in Nat /\ off[0] = 0 /\ off[n] = Len(data) /\ \A k \in 0..n : off[k] \in Nat
  BY DEF Segmented
<1>2. \A k \in 1..n : off[k - 1] + 1 < off[k] /\ off[k] <= Len(data)
  BY DEF Segmented, TextAt
<1>3. ASSUME NEW j \in 0..n, NEW k \in 0..n, j < k PROVE off[j] < off[k]
  <2> DEFINE S == {m \in 0..n : j < m => off[j] < off[m]}
  <2>1. 0 \in S
    BY <1>1
  <2>2. ASSUME NEW m \in 1..n, m - 1 \in S PROVE m \in S
    <3>1. CASE j < m - 1
      <4>1. off[j] < off[m - 1] /\ off[m - 1] + 1 < off[m] /\ m - 1 \in 0..n /\ m \in 0..n
        BY <1>1, <1>2, <2>2, <3>1
      <4>2. off[j] \in Nat /\ off[m - 1] \in Nat /\ off[m] \in Nat
        BY <1>1, <4>1
      <4> QED BY <1>1, <4>1, <4>2
    <3>2. CASE j = m - 1
      <4>1. off[j] + 1 < off[m] /\ off[j] \in Nat /\ off[m] \in Nat
        BY <1>1, <1>2, <3>2
      <4> QED BY <1>1, <4>1
    <3>3. CASE j > m - 1
      BY <1>1, <3>3
    <3> QED BY <1>1, <3>1, <3>2, <3>3
  <2> HIDE DEF S
  <2>3. \A m \in 0..n : m \in S
    BY <1>1, <2>1, <2>2, Induction
  <2> QED BY <1>3, <2>3 DEF S
<1>4. ASSUME NEW j \in 0..n, NEW k \in 0..n, off[j] <= off[k] PROVE j <= k
  <2>1. off[j] \in Nat /\ off[k] \in Nat /\ j \in Nat /\ k \in Nat
    BY <1>1
  <2>2. CASE k < j
    BY <1>3, <1>4, <2>1, <2>2
  <2> QED BY <2>1, <2>2
<1> QED BY <1>1, <1>2, <1>3, <1>4

\* Every byte is in one of the commands, or the separator behind it.
LEMMA EveryByte ==
  ASSUME NEW data, NEW n, NEW off, Segmented(data, n, off), NEW i \in 1..Len(data)
  PROVE  \E k \in 1..n : off[k - 1] < i /\ i <= off[k]
<1>1. /\ n \in Nat /\ off[0] = 0 /\ off[n] = Len(data) /\ \A k \in 0..n : off[k] \in Nat
  BY SegmentBounds
<1> DEFINE S == {m \in 0..n : i <= off[m] => \E k \in 1..n : off[k - 1] < i /\ i <= off[k]}
<1>2. 0 \in S
  BY <1>1
<1>3. ASSUME NEW m \in 1..n, m - 1 \in S PROVE m \in S
  <2>1. off[m - 1] \in Nat /\ i \in Int /\ m \in 0..n
    BY <1>1
  <2>2. CASE i <= off[m - 1]
    BY <1>3, <2>1, <2>2
  <2>3. CASE off[m - 1] < i
    BY <2>1, <2>3
  <2> QED BY <2>1, <2>2, <2>3
<1> HIDE DEF S
<1>4. n \in S
  <2>1. \A k \in 0..n : k \in S
    BY <1>1, <1>2, <1>3, Induction
  <2> QED BY <1>1, <2>1
<1> QED BY <1>1, <1>4 DEF S

\* The marks of two ranges, one behind the other.
LEMMA MarksAdd ==
  ASSUME NEW data, NEW a \in Nat, NEW b \in Nat, NEW c \in Nat, a <= b, b <= c
  PROVE  /\ Marks(data, a, b) \in Nat /\ Marks(data, b, c) \in Nat
         /\ Marks(data, a, c) = Marks(data, a, b) + Marks(data, b, c)
<1> DEFINE S(x, y) == {k \in x..(y - 1) : data[k] = "dq"}
<1>1. \A x, y \in Nat : IsFiniteSet(S(x, y))
  <2> TAKE x \in Nat, y \in Nat
  <2>1. S(x, y) \subseteq x..(y - 1)
    OBVIOUS
  <2> HIDE DEF S
  <2>2. IsFiniteSet(x..(y - 1))
    BY FS_Interval
  <2> QED BY <2>1, <2>2, FS_Subset
<1>2. S(a, c) = S(a, b) \cup S(b, c) /\ S(a, b) \cap S(b, c) = {}
  <2>1. \A k : k \in a..(c - 1) <=> k \in a..(b - 1) \/ k \in b..(c - 1)
    OBVIOUS
  <2>2. \A k : ~(k \in a..(b - 1) /\ k \in b..(c - 1))
    OBVIOUS
  <2>3. S(a, c) = S(a, b) \cup S(b, c)
    BY <2>1
  <2>4. S(a, b) \cap S(b, c) = {}
    BY <2>2
  <2> QED BY <2>3, <2>4
<1> DEFINE U == S(a, b)
           V == S(b, c)
           W == S(a, c)
<1>3. Marks(data, a, b) = Cardinality(U) /\ Marks(data, b, c) = Cardinality(V) /\ Marks(data, a, c) = Cardinality(W)
  BY Zenon DEF Marks
<1>4. IsFiniteSet(U) /\ IsFiniteSet(V)
  BY <1>1
<1>5. W = U \cup V /\ U \cap V = {}
  BY <1>2
<1> HIDE DEF U, V, W
<1>6. Cardinality(U) \in Nat /\ Cardinality(V) \in Nat /\ Cardinality({}) = 0
  BY <1>4, FS_CardinalityType, FS_EmptySet
<1>7. Cardinality(U \cup V) = Cardinality(U) + Cardinality(V) - Cardinality(U \cap V)
  BY <1>4, FS_Union
<1> QED BY <1>3, <1>5, <1>6, <1>7

\* From one command to a later one the marks are even.
LEMMA EvenMarks ==
  ASSUME NEW data, NEW n, NEW off, Segmented(data, n, off), NEW j \in 0..n, NEW k \in 0..n, j <= k
  PROVE  /\ off[j] + 1 \in Nat /\ off[k] + 1 \in Nat /\ off[j] + 1 <= off[k] + 1
         /\ Marks(data, off[j] + 1, off[k] + 1) \in Nat
         /\ Marks(data, off[j] + 1, off[k] + 1) % 2 = 0
<1>1. /\ n \in Nat /\ (\A m \in 0..n : off[m] \in Nat)
      /\ (\A m \in 1..n : off[m - 1] + 1 < off[m])
      /\ (\A x, y \in 0..n : x < y => off[x] < off[y])
  BY SegmentBounds
<1>2. \A m \in 0..n : j <= m => off[j] <= off[m]
  <2> TAKE m \in 0..n
  <2>1. off[j] \in Nat /\ off[m] \in Nat
    BY <1>1
  <2> QED BY <1>1, <2>1
<1>3. ASSUME NEW m \in 1..n
      PROVE  Marks(data, off[m - 1] + 1, off[m] + 1) \in {0, 4}
  <2> DEFINE o == off[m - 1]
             p == off[m]
  <2>1. TextAt(data, o, p)
    BY DEF Segmented
  <2>2. o \in Nat /\ p \in Nat /\ o + 1 < p
    BY <2>1 DEF TextAt
  <2>3. Marks(data, o + 1, p) \in {0, 4} /\ data[p] # "dq"
    BY <2>1 DEF TextAt
  <2> HIDE DEF o, p
  <2>4. Marks(data, p, p + 1) = 0
    <3>1. {k_1 \in p..((p + 1) - 1) : data[k_1] = "dq"} = {}
      BY <2>2, <2>3
    <3> QED BY <3>1, FS_EmptySet DEF Marks
  <2> DEFINE a == o + 1
             c == p + 1
  <2>5. a \in Nat /\ c \in Nat /\ a <= p /\ p <= c
    BY <2>2
  <2> HIDE DEF a, c
  <2>6. Marks(data, a, c) = Marks(data, a, p) + Marks(data, p, c)
    BY <2>2, <2>5, MarksAdd
  <2>7. Marks(data, a, c) \in {0, 4}
    BY <2>3, <2>4, <2>6 DEF a, c
  <2> QED BY <2>7 DEF a, c, o, p
<1> DEFINE M(m) == Marks(data, off[j] + 1, off[m] + 1)
           S == {m \in 0..n : j <= m => M(m) \in Nat /\ M(m) % 2 = 0}
<1>4. M(j) = 0
  <2> DEFINE a == off[j] + 1
  <2>1. a \in Nat
    BY <1>1
  <2> HIDE DEF a
  <2>2. {i \in a..(a - 1) : data[i] = "dq"} = {}
    BY <2>1
  <2>3. Marks(data, a, a) = 0
    BY <2>2, FS_EmptySet DEF Marks
  <2> QED BY <2>3 DEF a
<1>5. 0 \in S
  <2>1. j <= 0 => j = 0
    OBVIOUS
  <2>2. j <= 0 => M(0) = 0
    BY <1>4, <2>1
  <2> HIDE DEF M
  <2> QED BY <1>1, <2>2
<1>6. ASSUME NEW m \in 1..n, m - 1 \in S PROVE m \in S
  <2>1. CASE j = m
    <3>1. M(m) = 0
      BY <1>4, <2>1
    <3> HIDE DEF M
    <3> QED BY <1>1, <3>1
  <2>2. CASE j < m
    <3> DEFINE a == off[j] + 1
               b == off[m - 1] + 1
               c == off[m] + 1
    <3>1. j <= m - 1 /\ m - 1 \in 0..n /\ m \in 0..n
      BY <1>1, <2>2
    <3>2. off[j] \in Nat /\ off[m - 1] \in Nat /\ off[m] \in Nat /\ off[j] <= off[m - 1] /\ off[m - 1] + 1 < off[m]
      BY <1>1, <1>2, <3>1
    <3>3. a \in Nat /\ b \in Nat /\ c \in Nat /\ a <= b /\ b <= c
      BY <3>2
    <3>4. Marks(data, b, c) \in {0, 4}
      BY <1>3
    <3>5. M(m - 1) \in Nat /\ M(m - 1) % 2 = 0
      BY <1>6, <3>1
    <3>6. M(m - 1) = Marks(data, a, b) /\ M(m) = Marks(data, a, c)
      OBVIOUS
    <3> HIDE DEF a, b, c, M
    <3>7. Marks(data, a, c) = Marks(data, a, b) + Marks(data, b, c)
      BY <3>3, MarksAdd
    <3>8. M(m) \in Nat /\ M(m) % 2 = 0
      <4>1. \A x \in Nat : \A y \in {0, 4} : x % 2 = 0 => (x + y) % 2 = 0 /\ x + y \in Nat
        OBVIOUS
      <4> QED BY <3>4, <3>5, <3>6, <3>7, <4>1
    <3> QED BY <1>1, <3>8
  <2>3. CASE m < j
    BY <1>1, <2>3
  <2> QED BY <1>1, <2>1, <2>2, <2>3
<1> HIDE DEF S
<1>7. k \in S
  BY <1>1, <1>5, <1>6, Induction
<1>8. M(k) \in Nat /\ M(k) % 2 = 0
  BY <1>7 DEF S
<1>9. off[j] \in Nat /\ off[k] \in Nat /\ off[j] <= off[k]
  BY <1>1, <1>2
<1> QED BY <1>8, <1>9

\* What is quoted does not depend on the command the count starts from.
LEMMA QuotedWithin ==
  ASSUME NEW data, NEW n, NEW off, Segmented(data, n, off), NEW k \in 1..n, NEW j \in 0..(k - 1),
         NEW i \in Nat, off[k - 1] < i
  PROVE  Quoted(data, off[j] + 1, i) <=> Marks(data, off[k - 1] + 1, i) % 2 = 1
<1> DEFINE a == off[j] + 1
           b == off[k - 1] + 1
<1>1. n \in Nat /\ j \in 0..n /\ k - 1 \in 0..n /\ j <= k - 1
  <2>1. n \in Nat
    BY SegmentBounds
  <2> QED BY <2>1
<1>2. a \in Nat /\ b \in Nat /\ a <= b /\ Marks(data, a, b) \in Nat /\ Marks(data, a, b) % 2 = 0
  BY <1>1, EvenMarks
<1>3. off[k - 1] \in Nat /\ b <= i
  <2>1. off[k - 1] \in Nat
    BY <1>1, SegmentBounds
  <2> QED BY <2>1
<1> HIDE DEF a, b
<1>4. Marks(data, b, i) \in Nat /\ Marks(data, a, i) = Marks(data, a, b) + Marks(data, b, i)
  BY <1>2, <1>3, MarksAdd
<1>5. Marks(data, a, i) % 2 = 1 <=> Marks(data, b, i) % 2 = 1
  <2>1. \A x, y \in Nat : x % 2 = 0 => ((x + y) % 2 = 1 <=> y % 2 = 1)
    OBVIOUS
  <2> QED BY <1>2, <1>4, <2>1
<1> QED BY <1>5, QuotedIsOdd, Zenon DEF a, b

\* The parts of SplitText.
LineEnds(data) == {i \in 1..Len(data) : data[i] = "nl"}
LineStart(data, i) == Max({0} \cup {k \in LineEnds(data) : k < i}) + 1
Cuts(data) ==
  {0, Len(data) + 1} \cup LineEnds(data) \cup
    {i \in 1..Len(data) : data[i] = ";" /\ ~Quoted(data, LineStart(data, i), i)}
PieceAt(data, cut) == Strip(SubSeq(data, cut + 1, Min({k \in Cuts(data) : k > cut}) - 1))
KeptCuts(data) == {cut \in Cuts(data) \ {Len(data) + 1} : PieceAt(data, cut) # <<>>}

\* It is made of them.
LEMMA SplitTextIs ==
  ASSUME NEW data
  PROVE  SplitText(data) =
           [m \in 1..Cardinality(KeptCuts(data)) |-> TextPart(PieceAt(data, Nth(KeptCuts(data), m)))]
BY Zenon DEF SplitText, KeptCuts, PieceAt, Cuts, LineStart, LineEnds

\* Byte i is of a command that began behind byte o, or of the separator of one.
Inner(data, o, i) == data[i] # "nl" /\ (data[i] = ";" => Marks(data, o + 1, i) % 2 = 1)
Outer(data, o, i) == data[i] \in {";", "nl"} /\ Marks(data, o + 1, i) % 2 # 1

\* Inside a command no line ends, and no semicolon is outside quotation marks; what is
\* behind it is a separator that is not quoted.
LEMMA InsideCommand ==
  ASSUME NEW data, NEW n, NEW off, Segmented(data, n, off), NEW k \in 1..n,
         NEW i \in Nat, off[k - 1] < i, i <= off[k]
  PROVE  /\ i # off[k] => Inner(data, off[k - 1], i)
         /\ i = off[k] => Outer(data, off[k - 1], i)
<1> DEFINE o == off[k - 1]
           p == off[k]
<1>1. TextAt(data, o, p)
  BY DEF Segmented
<1>2. o \in Nat /\ p \in Nat /\ o < i /\ i <= p
  BY <1>1 DEF TextAt
<1> HIDE DEF o, p
<1>3. i # p => i \in (o + 1)..(p - 1)
  BY <1>2
<1>4. \A m \in {1} : m % 2 = 1
  OBVIOUS
<1>5. \A m \in {0, 4} : m % 2 # 1
  OBVIOUS
<1>6. i # p => data[i] # "nl" /\ (data[i] = ";" => Marks(data, o + 1, i) = 1)
  BY <1>1, <1>3 DEF TextAt
<1>7. i # p => (data[i] = ";" => Marks(data, o + 1, i) % 2 = 1)
  BY <1>4, <1>6
<1>8. i = p => data[i] \in {";", "nl"} /\ Marks(data, o + 1, i) \in {0, 4}
  BY <1>1 DEF TextAt
<1>9. i = p => Marks(data, o + 1, i) % 2 # 1
  BY <1>5, <1>8
<1> QED BY <1>6, <1>7, <1>8, <1>9, Zenon DEF o, p, Inner, Outer

\* A line starts behind a command.
LEMMA LineStartIs ==
  ASSUME NEW data \in Seq(Characters), NEW n, NEW off, Segmented(data, n, off), NEW k \in 1..n,
         NEW i \in Nat, off[k - 1] < i, i <= off[k]
  PROVE  \E j \in 0..(k - 1) : LineStart(data, i) = off[j] + 1
<1> DEFINE S == {0} \cup {m \in LineEnds(data) : m < i}
<1>1. /\ n \in Nat /\ off[0] = 0 /\ (\A m \in 0..n : off[m] \in Nat)
      /\ \A x, y \in 0..n : off[x] <= off[y] => x <= y
  BY SegmentBounds
<1>2. Len(data) \in Nat /\ S \subseteq 0..Len(data) /\ S # {}
  BY DEF LineEnds
<1>3. LineStart(data, i) = Max(S) + 1
  BY DEF LineStart
<1>4. \A x \in S : x = 0 \/ (x \in 1..Len(data) /\ data[x] = "nl" /\ x < i)
  BY DEF LineEnds
<1> HIDE DEF S
<1>5. Max(S) \in S
  BY <1>2, MaxFacts
<1>6. CASE Max(S) = 0
  <2>1. 0 \in 0..(k - 1) /\ Max(S) = off[0]
    BY <1>1, <1>6
  <2> QED BY <1>3, <2>1
<1>7. CASE Max(S) # 0
  <2> DEFINE x == Max(S)
  <2>1. x \in 1..Len(data) /\ data[x] = "nl" /\ x < i
    BY <1>4, <1>5, <1>7
  <2> HIDE DEF x
  <2>2. PICK m \in 1..n : off[m - 1] < x /\ x <= off[m]
    BY <2>1, EveryByte
  <2>3. x \in Nat
    BY <2>1
  <2>4. x = off[m]
    <3>1. x # off[m] => Inner(data, off[m - 1], x)
      BY <2>2, <2>3, InsideCommand
    <3> QED BY <2>1, <3>1, Zenon DEF Inner
  <2>5. m \in 0..n /\ k \in 0..n /\ off[m] \in Nat /\ off[k] \in Nat /\ off[m] < i
    BY <1>1, <2>1, <2>4
  <2>6. m <= k - 1
    <3>1. off[m] < off[k]
      BY <2>5
    <3>2. m <= k /\ m # k
      BY <1>1, <2>5, <3>1
    <3> QED BY <1>1, <2>5, <3>2
  <2>7. m \in 0..(k - 1)
    BY <2>5, <2>6
  <2> QED BY <1>3, <2>4, <2>7 DEF x
<1> QED BY <1>6, <1>7

\* The cuts are between the commands.
LEMMA CutsAre ==
  ASSUME NEW data \in Seq(Characters), NEW n, NEW off, Segmented(data, n, off)
  PROVE  Cuts(data) = {off[k] : k \in 0..n} \cup {Len(data) + 1}
<1>1. /\ n \in Nat /\ off[0] = 0 /\ (\A m \in 0..n : off[m] \in Nat) /\ Len(data) \in Nat
      /\ \A k \in 1..n : off[k - 1] + 1 < off[k] /\ off[k] <= Len(data)
  <2>1. Len(data) \in Nat
    OBVIOUS
  <2> QED BY <2>1, SegmentBounds
<1>2. ASSUME NEW i \in 1..Len(data), NEW k \in 1..n, off[k - 1] < i, i <= off[k]
      PROVE  /\ i # off[k] => data[i] # "nl" /\ (data[i] = ";" => Quoted(data, LineStart(data, i), i))
             /\ i = off[k] => data[i] \in {";", "nl"} /\ ~Quoted(data, LineStart(data, i), i)
  <2>1. i \in Nat
    OBVIOUS
  <2>2. PICK j \in 0..(k - 1) : LineStart(data, i) = off[j] + 1
    BY <1>2, <2>1, LineStartIs
  <2>3. Quoted(data, off[j] + 1, i) <=> Marks(data, off[k - 1] + 1, i) % 2 = 1
    BY <1>2, <2>1, QuotedWithin
  <2>4. Quoted(data, LineStart(data, i), i) <=> Marks(data, off[k - 1] + 1, i) % 2 = 1
    BY <2>2, <2>3, Zenon
  <2>5. /\ i # off[k] => Inner(data, off[k - 1], i)
        /\ i = off[k] => Outer(data, off[k - 1], i)
    BY <1>2, <2>1, InsideCommand
  <2> QED BY <2>4, <2>5, Zenon DEF Inner, Outer
<1>3. ASSUME NEW x \in Cuts(data) PROVE x \in {off[k] : k \in 0..n} \cup {Len(data) + 1}
  <2>1. CASE x = 0
    BY <1>1, <2>1
  <2>2. CASE x = Len(data) + 1
    BY <2>2
  <2>3. CASE x \notin {0, Len(data) + 1}
    <3>1. x \in 1..Len(data) /\ (data[x] = "nl" \/ (data[x] = ";" /\ ~Quoted(data, LineStart(data, x), x)))
      BY <2>3 DEF Cuts, LineEnds
    <3>2. PICK k \in 1..n : off[k - 1] < x /\ x <= off[k]
      BY <3>1, EveryByte
    <3>3. x = off[k]
      BY <1>2, <3>1, <3>2
    <3> QED BY <3>3
  <2> QED BY <2>1, <2>2, <2>3
<1>4. ASSUME NEW k \in 0..n PROVE off[k] \in Cuts(data)
  <2>1. CASE k = 0
    BY <1>1, <2>1 DEF Cuts
  <2>2. CASE k # 0
    <3> DEFINE i == off[k]
    <3>1. k \in 1..n
      BY <1>1, <2>2
    <3>2. k - 1 \in 0..n /\ off[k - 1] \in Nat /\ off[k] \in Nat /\ off[k - 1] + 1 < off[k] /\ off[k] <= Len(data)
      BY <1>1, <3>1
    <3>3. i \in 1..Len(data) /\ off[k - 1] < i /\ i <= off[k]
      BY <1>1, <3>2
    <3>4. data[i] \in {";", "nl"} /\ ~Quoted(data, LineStart(data, i), i)
      BY <1>2, <3>1, <3>3
    <3> QED BY <3>3, <3>4 DEF Cuts, LineEnds
  <2> QED BY <2>1, <2>2
<1>5. Len(data) + 1 \in Cuts(data)
  BY DEF Cuts
<1> QED BY <1>3, <1>4, <1>5

\* The n-th of increasing numbers.
LEMMA NthIs ==
  ASSUME NEW n \in Nat, NEW f, \A k \in 1..n : f[k] \in Nat,
         \A j, k \in 1..n : j < k => f[j] < f[k]
  PROVE  LET S == {f[k] : k \in 1..n} IN
         Cardinality(S) = n /\ \A m \in 1..n : Nth(S, m) = f[m]
<1> DEFINE A(m) == {f[k] : k \in 1..m}
           T == {m \in 0..n : IsFiniteSet(A(m)) /\ Cardinality(A(m)) = m}
           S == {f[k] : k \in 1..n}
<1>1. 0 \in T
  <2>1. A(0) = {}
    OBVIOUS
  <2> HIDE DEF A
  <2> QED BY <2>1, FS_EmptySet
<1>2. ASSUME NEW m \in 1..n, m - 1 \in T PROVE m \in T
  <2> DEFINE B == A(m - 1)
             x == f[m]
  <2>1. m - 1 \in Nat /\ \A k \in 1..m : k \in 1..(m - 1) \/ k = m
    OBVIOUS
  <2>2. A(m) = B \cup {x}
    BY <2>1
  <2>3. x \notin B
    <3> SUFFICES ASSUME NEW k \in 1..(m - 1), x = f[k] PROVE FALSE
      OBVIOUS
    <3>1. k \in 1..n /\ m \in 1..n /\ k < m
      OBVIOUS
    <3>2. f[k] \in Nat /\ f[m] \in Nat /\ f[k] < f[m]
      BY <3>1
    <3> QED BY <3>2
  <2>4. IsFiniteSet(B) /\ Cardinality(B) = m - 1
    BY <1>2
  <2> HIDE DEF B, x, A
  <2>5. IsFiniteSet(B \cup {x}) /\ Cardinality(B \cup {x}) = (m - 1) + 1
    BY <2>3, <2>4, FS_AddElement
  <2> QED BY <2>1, <2>2, <2>5
<1>3. \A m \in 0..n : Cardinality(A(m)) = m
  <2> HIDE DEF T
  <2>1. \A m \in 0..n : m \in T
    BY <1>1, <1>2, Induction
  <2> QED BY <2>1 DEF T
<1>4. ASSUME NEW m \in 1..n PROVE Cardinality({j \in S : j <= f[m]}) = m
  <2>1. {j \in S : j <= f[m]} = A(m)
    <3>1. ASSUME NEW k \in 1..n PROVE f[k] <= f[m] <=> k \in 1..m
      <4>1. f[k] \in Nat /\ f[m] \in Nat
        OBVIOUS
      <4>2. CASE k < m
        BY <4>1, <4>2
      <4>3. CASE k = m
        BY <4>1, <4>3
      <4>4. CASE m < k
        BY <4>1, <4>4
      <4> QED BY <4>2, <4>3, <4>4
    <3>2. \A k \in 1..m : k \in 1..n
      OBVIOUS
    <3> QED BY <3>1, <3>2
  <2>2. m \in 0..n
    OBVIOUS
  <2> HIDE DEF A
  <2> QED BY <1>3, <2>1, <2>2
<1>5. ASSUME NEW m \in 1..n PROVE Nth(S, m) = f[m]
  <2> DEFINE C(i) == Cardinality({j \in S : j <= i})
  <2>1. f[m] \in S /\ C(f[m]) = m
    BY <1>4
  <2>2. ASSUME NEW i \in S, C(i) = m PROVE i = f[m]
    <3>1. PICK k \in 1..n : i = f[k]
      OBVIOUS
    <3>2. C(f[k]) = k
      BY <1>4
    <3> HIDE DEF C
    <3> QED BY <2>2, <3>1, <3>2
  <2>3. Nth(S, m) = CHOOSE i \in S : C(i) = m
    BY DEF Nth
  <2> HIDE DEF C, S
  <2> QED BY <2>1, <2>2, <2>3
<1>6. Cardinality(S) = n
  <2>1. S = A(n) /\ n \in 0..n
    OBVIOUS
  <2> HIDE DEF A, S
  <2> QED BY <1>3, <2>1
<1> QED BY <1>5, <1>6

\* Behind each cut there is a command, and behind the last one nothing.
LEMMA PieceIs ==
  ASSUME NEW data \in Seq(Characters), NEW n, NEW off, Segmented(data, n, off)
  PROVE  /\ \A k \in 1..n : PieceAt(data, off[k - 1]) = Strip(SubSeq(data, off[k - 1] + 1, off[k] - 1))
         /\ PieceAt(data, off[n]) = <<>>
<1>1. /\ n \in Nat /\ off[0] = 0 /\ off[n] = Len(data) /\ (\A m \in 0..n : off[m] \in Nat) /\ Len(data) \in Nat
      /\ (\A k \in 1..n : off[k - 1] + 1 < off[k] /\ off[k] <= Len(data))
      /\ \A x, y \in 0..n : off[x] <= off[y] => x <= y
  <2>1. Len(data) \in Nat
    OBVIOUS
  <2> QED BY <2>1, SegmentBounds
<1>2. Cuts(data) = {off[k] : k \in 0..n} \cup {Len(data) + 1}
  BY CutsAre
<1>3. ASSUME NEW k \in 1..n PROVE Min({c \in Cuts(data) : c > off[k - 1]}) = off[k]
  <2> DEFINE S == {c \in Cuts(data) : c > off[k - 1]}
             p == off[k]
  <2>1. k \in 0..n /\ k - 1 \in 0..n
    BY <1>1
  <2>2. off[k - 1] \in Nat /\ off[k] \in Nat /\ off[k - 1] + 1 < off[k] /\ off[k] <= Len(data)
    BY <1>1, <2>1
  <2>3. p \in S
    BY <1>2, <2>1, <2>2
  <2>4. S \subseteq Nat
    BY <1>1, <1>2
  <2>5. ASSUME NEW c \in S PROVE p <= c
    <3>1. CASE c = Len(data) + 1
      BY <1>1, <2>2, <3>1
    <3>2. CASE c # Len(data) + 1
      <4>1. PICK j \in 0..n : c = off[j]
        BY <1>2, <3>2
      <4>2. off[j] > off[k - 1] /\ off[j] \in Nat /\ j \in Nat
        BY <1>1, <4>1
      <4>3. CASE j <= k - 1
        <5>1. CASE j = k - 1
          BY <2>2, <4>2, <5>1
        <5>2. CASE j # k - 1
          <6>1. ~(k - 1 <= j)
            BY <1>1, <4>2, <4>3, <5>2
          <6>2. ~(off[k - 1] <= off[j])
            BY <1>1, <2>1, <6>1
          <6> QED BY <2>2, <4>2, <6>2
        <5> QED BY <5>1, <5>2
      <4>4. CASE ~(j <= k - 1)
        <5>1. CASE j = k
          BY <2>2, <4>1, <5>1
        <5>2. CASE j # k
          <6>1. ~(j <= k)
            BY <1>1, <4>2, <4>4, <5>2
          <6>2. ~(off[j] <= off[k])
            BY <1>1, <2>1, <6>1
          <6> QED BY <2>2, <4>1, <4>2, <6>2
        <5> QED BY <5>1, <5>2
      <4> QED BY <4>3, <4>4
    <3> QED BY <3>1, <3>2
  <2> HIDE DEF S, p
  <2>6. Min(S) = p
    BY <2>3, <2>4, <2>5, LeastIs
  <2> QED BY <2>6 DEF S, p
<1>4. Min({c \in Cuts(data) : c > off[n]}) = Len(data) + 1
  <2> DEFINE S == {c \in Cuts(data) : c > off[n]}
             p == Len(data) + 1
  <2>1. \A j \in 0..n : ~(off[j] > off[n])
    <3> TAKE j \in 0..n
    <3>1. off[j] \in Nat /\ off[n] \in Nat /\ off[n] = Len(data)
      BY <1>1
    <3>2. off[j] <= Len(data)
      <4>1. CASE j = 0
        BY <1>1, <4>1
      <4>2. CASE j # 0
        <5>1. j \in 1..n
          BY <1>1, <4>2
        <5> QED BY <1>1, <5>1
      <4> QED BY <4>1, <4>2
    <3> QED BY <3>1, <3>2
  <2>2. p > off[n] /\ p \in Nat
    BY <1>1
  <2>3. S = {p}
    BY <1>2, <2>1, <2>2
  <2> HIDE DEF S, p
  <2>4. S \subseteq Nat /\ p \in S /\ \A y \in S : p <= y
    BY <2>2, <2>3
  <2>5. Min(S) = p
    BY <2>4, LeastIs
  <2> QED BY <2>5 DEF S, p
<1>5. PieceAt(data, off[n]) = <<>>
  <2> DEFINE b == Len(data)
  <2>1. b \in Nat /\ (b + 1) - 1 = b /\ off[n] = b
    BY <1>1
  <2>2. PieceAt(data, off[n]) = Strip(SubSeq(data, off[n] + 1, (b + 1) - 1))
    BY <1>4, Zenon DEF PieceAt
  <2>3. Strip(SubSeq(data, b + 1, b)) = <<>>
    BY <2>1, StripNothing
  <2> HIDE DEF b
  <2> QED BY <2>1, <2>2, <2>3
<1>6. ASSUME NEW k \in 1..n
      PROVE  PieceAt(data, off[k - 1]) = Strip(SubSeq(data, off[k - 1] + 1, off[k] - 1))
  BY <1>3, Zenon DEF PieceAt
<1> QED BY <1>5, <1>6

\* A message without a block is split into its commands.
LEMMA SplitReads ==
  ASSUME NEW message \in Seq(Items), WellFormed(message),
         \A k \in DOMAIN message : message[k].arg \notin {"block", "cut"}
  PROVE  SplitText(Rendered(message)) = Raws(message)
<1> DEFINE data == Rendered(message)
           n == Len(message)
<1>1. /\ data \in Seq(Characters) /\ n \in Nat /\ DOMAIN message = 1..n
      /\ \A k \in 1..n : /\ Sound(message[k]) /\ Raw(message[k]) \in RawParts
                         /\ message[k].arg \notin {"block", "cut"}
  <2>1. DOMAIN message = 1..n
    OBVIOUS
  <2> QED BY <2>1, LaidOut
<1>2. PICK off : Laid(message, data, off)
  BY LaidOut
<1> HIDE DEF data
<1>3. /\ off \in [0..n -> Nat] /\ off[0] = 0 /\ off[n] = Len(data)
      /\ \A k \in 1..n : /\ Stands(data, off[k - 1], Written(message[k]))
                         /\ off[k] = off[k - 1] + Len(Written(message[k]))
  BY <1>2 DEF Laid
<1> HIDE DEF n
<1>4. ASSUME NEW k \in 1..n
      PROVE  /\ TextAt(data, off[k - 1], off[k])
             /\ TextPart(Strip(SubSeq(data, off[k - 1] + 1, off[k] - 1))) = Raw(message[k])
             /\ Strip(SubSeq(data, off[k - 1] + 1, off[k] - 1)) # <<>>
  <2> DEFINE item == message[k]
             o == off[k - 1]
             p == off[k]
  <2>1. Sound(item) /\ item.arg \notin {"block", "cut"} /\ Stands(data, o, Written(item))
        /\ p = o + Len(Written(item))
    BY <1>1, <1>3
  <2> HIDE DEF item, o, p
  <2>2. /\ TextAt(data, o, o + Len(Written(item)))
        /\ Strip(SubSeq(data, o + 1, (o + Len(Written(item))) - 1)) = Raw(item).text
        /\ Raw(item).text # <<>>
    BY <1>1, <2>1, TextItem
  <2>3. TextPart(Raw(item).text) = Raw(item)
    BY <2>1 DEF TextPart, Raw, Sound
  <2>4. TextAt(data, o, p) /\ Strip(SubSeq(data, o + 1, p - 1)) = Raw(item).text
    BY <2>1, <2>2, Zenon
  <2> QED BY <2>2, <2>3, <2>4, Zenon DEF item, o, p
<1>5. Segmented(data, n, off)
  BY <1>1, <1>3, <1>4 DEF Segmented
<1>6. /\ \A m \in 0..n : off[m] \in Nat /\ off[m] <= off[n]
      /\ \A k \in 1..n : off[k - 1] < off[k]
      /\ \A j, k \in 0..n : j < k => off[j] < off[k]
  <2>1. /\ \A m \in 0..n : off[m] \in Nat
        /\ \A k \in 1..n : off[k - 1] + 1 < off[k]
        /\ \A j, k \in 0..n : j < k => off[j] < off[k]
    BY <1>5, SegmentBounds
  <2>2. ASSUME NEW m \in 0..n PROVE off[m] <= off[n]
    <3>1. n \in 0..n /\ off[m] \in Nat /\ off[n] \in Nat
      BY <1>1, <2>1
    <3>2. CASE m = n
      BY <3>1, <3>2
    <3>3. CASE m # n
      <4>1. m < n
        BY <1>1, <3>3
      <4>2. off[m] < off[n]
        BY <2>1, <3>1, <4>1
      <4> QED BY <3>1, <4>2
    <3> QED BY <3>2, <3>3
  <2>3. ASSUME NEW k \in 1..n PROVE off[k - 1] < off[k]
    <3>1. k - 1 \in 0..n /\ k \in 0..n /\ k - 1 < k
      BY <1>1
    <3> QED BY <2>1, <3>1
  <2> QED BY <2>1, <2>2, <2>3
<1> DEFINE f == [k \in 1..n |-> off[k - 1]]
           D == {f[k] : k \in 1..n}
<1>7. \A k \in 1..n : f[k] = off[k - 1] /\ f[k] \in Nat
  <2>1. \A k \in 1..n : k - 1 \in 0..n
    BY <1>1
  <2> QED BY <1>6, <2>1
<1>8. \A j, k \in 1..n : j < k => f[j] < f[k]
  <2> SUFFICES ASSUME NEW j \in 1..n, NEW k \in 1..n, j < k PROVE f[j] < f[k]
    OBVIOUS
  <2>1. j - 1 \in 0..n /\ k - 1 \in 0..n /\ j - 1 < k - 1
    BY <1>1
  <2> QED BY <1>6, <1>7, <2>1
<1> HIDE DEF f
<1>9. Cardinality(D) = n /\ \A m \in 1..n : Nth(D, m) = f[m]
  BY <1>1, <1>7, <1>8, NthIs
<1>10. KeptCuts(data) = D
  <2>1. Cuts(data) = {off[k] : k \in 0..n} \cup {Len(data) + 1}
    BY <1>1, <1>5, CutsAre
  <2>2. PieceAt(data, off[n]) = <<>> /\ \A k \in 1..n : PieceAt(data, off[k - 1]) # <<>>
    BY <1>1, <1>4, <1>5, PieceIs, ZenonT(40)
  <2>3. Len(data) \in Nat
    BY <1>1
  <2>4. ASSUME NEW x \in KeptCuts(data) PROVE x \in D
    <3>1. x \in Cuts(data) /\ x # Len(data) + 1 /\ PieceAt(data, x) # <<>>
      BY DEF KeptCuts
    <3>2. PICK k \in 0..n : x = off[k]
      BY <2>1, <3>1
    <3>3. k # n
      BY <2>2, <3>1, <3>2
    <3>4. k + 1 \in 1..n /\ (k + 1) - 1 = k
      BY <1>1, <3>3
    <3>5. f[k + 1] = x
      BY <1>7, <3>2, <3>4
    <3> QED BY <3>4, <3>5
  <2>5. ASSUME NEW k \in 1..n PROVE f[k] \in KeptCuts(data)
    <3>1. k - 1 \in 0..n /\ n \in 0..n
      BY <1>1
    <3>2. off[k - 1] \in Cuts(data)
      BY <2>1, <3>1
    <3>3. off[k - 1] # Len(data) + 1
      <4>1. off[k - 1] <= off[n] /\ off[k - 1] \in Nat /\ off[n] = Len(data)
        BY <1>3, <1>6, <3>1
      <4> QED BY <2>3, <4>1
    <3>4. PieceAt(data, off[k - 1]) # <<>>
      BY <2>2
    <3>5. f[k] = off[k - 1]
      BY <1>7
    <3> QED BY <3>2, <3>3, <3>4, <3>5 DEF KeptCuts
  <2> QED BY <2>4, <2>5
<1> HIDE DEF D
<1>11. SplitText(data) = [m \in 1..n |-> TextPart(PieceAt(data, Nth(D, m)))]
  BY <1>9, <1>10, SplitTextIs
<1>12. ASSUME NEW m \in 1..n PROVE TextPart(PieceAt(data, Nth(D, m))) = Raw(message[m])
  <2>1. Nth(D, m) = off[m - 1]
    BY <1>7, <1>9
  <2>2. PieceAt(data, off[m - 1]) = Strip(SubSeq(data, off[m - 1] + 1, off[m] - 1))
    BY <1>1, <1>5, PieceIs
  <2> QED BY <1>4, <2>1, <2>2
<1>13. SplitText(data) = [m \in 1..n |-> Raw(message[m])]
  BY <1>11, <1>12
<1> QED BY <1>1, <1>13 DEF Raws, data

------------------------------------------------------------------------------
\* Headers are completed.

\* A header as it is meant, with its argument; and what the next header stands under.
Stem(item) == (IF item.lead = "*" THEN <<"*">> ELSE <<>>) \o Joined(item.path)
Full(item) == Stem(item) \o Behind(item)
Above(item) == IF item.lead = "*" \/ Len(item.path) = 1 THEN <<>> ELSE Joined(Front(item.path))

\* A full header is plain too.
LEMMA StemFacts ==
  ASSUME NEW item, Sound(item)
  PROVE  LET s == Stem(item)
             t == Joined(item.path)
             n == Len(item.path)
         IN /\ s \in Seq(Characters) /\ Len(s) \in Nat \ {0}
            /\ \A j \in 1..Len(s) : s[j] \in Plain
            /\ s[1] = "*" <=> item.lead = "*"
            /\ item.lead # "*" => s = t
            /\ t \in Seq(Characters) /\ n \in Nat \ {0} /\ Len(t) = 2 * n - 1
            /\ \A i \in 1..n : t[2 * i - 1] = item.path[i]
            /\ \A i \in 1..(n - 1) : t[2 * i] = ":"
            /\ \A i \in 1..n : item.path[i] \in Plain /\ item.path[i] # ":" /\ item.path[i] # "*"
<1> DEFINE s == Stem(item)
           t == Joined(item.path)
           n == Len(item.path)
<1>1. /\ t \in Seq(Plain) /\ t \in Seq(Characters) /\ n \in Nat \ {0} /\ Len(t) = 2 * n - 1
      /\ \A i \in 1..n : t[2 * i - 1] = item.path[i]
      /\ \A i \in 1..(n - 1) : t[2 * i] = ":"
      /\ \A i \in 1..n : item.path[i] \in Plain /\ item.path[i] # ":" /\ item.path[i] # "*"
  <2>1. item.path \in Seq(Characters \ Special) \ {<<>>}
    BY DEF Sound
  <2> QED BY <2>1, JoinedFacts
<1> HIDE DEF t, n
<1>2. Len(t) \in Nat \ {0}
  BY <1>1
<1>3. t[1] # "*"
  <2>1. t[2 * 1 - 1] = item.path[1] /\ item.path[1] # "*"
    BY <1>1
  <2> QED BY <2>1
<1>4. s = (IF item.lead = "*" THEN <<"*">> ELSE <<>>) \o t
  BY DEF Stem, t
<1>5. CASE item.lead = "*"
  <2> DEFINE c == "*"
             x == <<c>>
  <2>1. c \in Plain
    BY DEF Plain
  <2>2. s = x \o t
    BY <1>4, <1>5
  <2> HIDE DEF c, s
  <2>3. x \in Seq(Plain) /\ Len(x) = 1 /\ x[1] = c
    BY <2>1, Short
  <2> HIDE DEF x
  <2>4. x \in Seq(Plain) /\ t \in Seq(Plain)
    BY <1>1, <2>3
  <2>5. /\ x \o t \in Seq(Plain) /\ Len(x \o t) = Len(x) + Len(t)
        /\ \A i \in 1..Len(x) : (x \o t)[i] = x[i]
    BY <2>4, Spots
  <2>6. s \in Seq(Plain) /\ Len(s) \in Nat \ {0} /\ s[1] = c
    BY <1>2, <2>2, <2>3, <2>5
  <2>7. s[1] = "*"
    BY <2>6 DEF c
  <2>8. s \in Seq(Characters)
    BY <2>6, PlainFacts, SeqMonotonic
  <2>9. \A j \in 1..Len(s) : s[j] \in Plain
    BY <2>6
  <2> QED BY <1>1, <1>5, <2>6, <2>7, <2>8, <2>9 DEF s, t, n
<1>6. CASE item.lead # "*"
  <2>1. s = t
    BY <1>1, <1>4, <1>6, ConcatEmptySeq
  <2> HIDE DEF s
  <2>2. \A j \in 1..Len(s) : s[j] \in Plain
    BY <1>1, <2>1
  <2>3. s \in Seq(Characters) /\ Len(s) \in Nat \ {0} /\ s[1] # "*"
    BY <1>1, <1>2, <1>3, <2>1
  <2> QED BY <1>1, <1>6, <2>1, <2>2, <2>3 DEF s, t, n
<1> QED BY <1>5, <1>6

\* The header of a command is what stands before the first blank.
LEMMA HeaderOf ==
  ASSUME NEW item, Sound(item)
  PROVE  LET s == Stem(item)
             text == Full(item)
             header == SubSeq(text, 1, Min({i \in 1..Len(text) : text[i] \in Blank} \cup {Len(text) + 1}) - 1)
         IN /\ Len(header) \in Nat
            /\ {i \in 1..Len(header) : header[i] = ":"} = {i \in 1..Len(s) : s[i] = ":"}
            /\ Len(s) <= Len(header)
            /\ \A i \in 1..Len(s) : header[i] = s[i]
            /\ header \in Seq(Characters)
<1> DEFINE s == Stem(item)
           b == Behind(item)
           text == Full(item)
           S == {i \in 1..Len(text) : text[i] \in Blank} \cup {Len(text) + 1}
<1>1. s \in Seq(Characters) /\ Len(s) \in Nat \ {0} /\ \A j \in 1..Len(s) : s[j] \in Plain
  BY StemFacts
<1>2. /\ b \in Seq(Characters) /\ Len(b) \in Nat
      /\ b # <<>> => b[1] \in Blank \/ (b[1] = "?" /\ Len(b) = 1)
  <2>1. item \in Items
    BY DEF Sound
  <2>2. Readable(b, item.arg = "string")
    BY <2>1, BehindFacts
  <2> QED BY <2>2, Zenon DEF Readable
<1>3. text = s \o b
  BY DEF Full
<1> HIDE DEF s, b, text
<1>4. /\ text \in Seq(Characters) /\ Len(text) = Len(s) + Len(b)
      /\ \A i \in 1..Len(s) : text[i] = s[i]
      /\ \A j \in 1..Len(b) : text[Len(s) + j] = b[j]
  BY <1>1, <1>2, <1>3, Spots
<1>5. \A i \in 1..Len(s) : text[i] \notin Blank
  BY <1>1, <1>4, PlainFacts
<1>6. Len(text) \in Nat /\ S \subseteq Nat /\ Len(text) + 1 \in S
  BY <1>1, <1>2, <1>4
<1> DEFINE Goal(header) == /\ Len(header) \in Nat
                           /\ {i \in 1..Len(header) : header[i] = ":"} = {i \in 1..Len(s) : s[i] = ":"}
                           /\ Len(s) <= Len(header)
                           /\ \A i \in 1..Len(s) : header[i] = s[i]
                           /\ header \in Seq(Characters)
<1>7. CASE b = <<>> \/ b[1] \in Blank
  <2> DEFINE m == Len(s) + 1
  <2>1. m \in S
    <3>1. CASE b = <<>>
      BY <1>1, <1>4, <3>1
    <3>2. CASE b # <<>>
      <4>1. b[1] \in Blank /\ 1 \in 1..Len(b)
        BY <1>2, <1>7, <3>2
      <4>2. text[Len(s) + 1] = b[1] /\ Len(s) + 1 \in 1..Len(text)
        BY <1>1, <1>2, <1>4, <4>1
      <4> QED BY <4>1, <4>2
    <3> QED BY <3>1, <3>2
  <2>2. \A i \in S : m <= i
    <3> SUFFICES ASSUME NEW i \in S, i < m PROVE FALSE
      BY <1>1, <1>6
    <3>1. CASE i = Len(text) + 1
      BY <1>1, <1>2, <1>4, <3>1
    <3>2. CASE i # Len(text) + 1
      <4>1. i \in 1..Len(text) /\ text[i] \in Blank
        BY <3>2
      <4>2. i \in 1..Len(s)
        BY <1>1, <4>1
      <4> QED BY <1>5, <4>1, <4>2
    <3> QED BY <3>1, <3>2
  <2> HIDE DEF S
  <2>3. Min(S) = m
    BY <1>6, <2>1, <2>2, LeastIs
  <2>4. SubSeq(text, 1, Min(S) - 1) = s
    <3>1. Stands(text, 0, s)
      <4>1. 0 + Len(s) <= Len(text)
        BY <1>1, <1>2, <1>4
      <4>2. \A j \in 1..Len(s) : text[0 + j] = s[j]
        <5> TAKE j \in 1..Len(s)
        <5>1. 0 + j = j
          BY <1>1
        <5> QED BY <1>4, <5>1
      <4> QED BY <4>1, <4>2 DEF Stands
    <3>2. SubSeq(text, 0 + 1, 0 + Len(s)) = s
      BY <1>1, <1>4, <3>1, CutOut
    <3>3. 0 + 1 = 1 /\ 0 + Len(s) = Min(S) - 1
      BY <1>1, <2>3
    <3> QED BY <3>2, <3>3
  <2>5. Goal(s)
    BY <1>1
  <2> HIDE DEF Goal
  <2>6. Goal(SubSeq(text, 1, Min(S) - 1))
    BY <2>4, <2>5
  <2> QED BY <2>6, Zenon DEF Goal, S, s, text
<1>8. CASE ~(b = <<>> \/ b[1] \in Blank)
  <2>1. b[1] = "?" /\ Len(b) = 1
    BY <1>2, <1>8
  <2>2. Len(text) = Len(s) + 1
    BY <1>4, <2>1
  <2>3. \A i \in 1..Len(text) : text[i] \notin Blank
    <3> TAKE i \in 1..Len(text)
    <3>1. CASE i \in 1..Len(s)
      BY <1>5, <3>1
    <3>2. CASE i = Len(s) + 1
      <4>1. text[Len(s) + 1] = b[1]
        BY <1>4, <2>1
      <4> QED BY <1>8, <2>1, <3>2, <4>1 DEF Blank
    <3> QED BY <1>1, <2>2, <3>1, <3>2
  <2> DEFINE m == Len(text) + 1
  <2>4. S = {m} /\ m \in Nat
    BY <1>6, <2>3
  <2> HIDE DEF S
  <2>5. Min(S) = m
    BY <1>6, <2>4, LeastIs
  <2>6. SubSeq(text, 1, Min(S) - 1) = text
    <3>1. Min(S) - 1 = Len(text)
      BY <1>6, <2>5
    <3>2. SubSeq(text, 1, Len(text)) = text
      BY <1>4, SubSeqFull
    <3> QED BY <3>1, <3>2
  <2>7. Goal(text)
    <3>1. text[Len(s) + 1] = "?"
      BY <1>4, <2>1
    <3>2. {i \in 1..Len(text) : text[i] = ":"} = {i \in 1..Len(s) : s[i] = ":"}
      <4>1. \A i \in 1..Len(text) : i = Len(s) + 1 \/ i \in 1..Len(s)
        BY <1>1, <2>2
      <4>2. \A i \in 1..Len(s) : i \in 1..Len(text)
        BY <1>1, <2>2
      <4>3. \A i \in 1..Len(text) : text[i] = ":" => i \in 1..Len(s)
        BY <3>1, <4>1
      <4> QED BY <1>4, <4>2, <4>3
    <3>3. Len(s) <= Len(text)
      BY <1>1, <2>2
    <3> QED BY <1>4, <1>6, <3>2, <3>3
  <2> HIDE DEF Goal
  <2>8. Goal(SubSeq(text, 1, Min(S) - 1))
    BY <2>6, <2>7
  <2> QED BY <2>8, Zenon DEF Goal, S, s, text
<1> QED BY <1>7, <1>8

\* A path without its last mnemonic.
LEMMA FrontFacts ==
  ASSUME NEW S, NEW path \in Seq(S), Len(path) > 1
  PROVE  /\ Front(path) \in Seq(S) \ {<<>>} /\ Len(Front(path)) = Len(path) - 1
         /\ \A i \in 1..(Len(path) - 1) : Front(path)[i] = path[i]
<1> DEFINE n == Len(path) - 1
           f == SubSeq(path, 1, n)
<1>1. Front(path) = f
  BY DEF Front
<1>2. Len(path) \in Nat /\ n \in Nat \ {0} /\ \A i \in 1..n : path[i] \in S
  <2>1. Len(path) \in Nat /\ \A i \in 1..Len(path) : path[i] \in S
    OBVIOUS
  <2>2. n \in Nat \ {0} /\ \A i \in 1..n : i \in 1..Len(path)
    BY <2>1
  <2> HIDE DEF n
  <2> QED BY <2>1, <2>2
<1>3. f \in Seq(S) /\ Len(f) = n /\ \A i \in 1..n : f[i] = path[i]
  <2> HIDE DEF n
  <2>1. 1 \in Int /\ n \in Int /\ \A i \in 1..n : path[i] \in S
    BY <1>2
  <2>2. /\ f \in Seq(S) /\ Len(f) = IF 1 <= n THEN n - 1 + 1 ELSE 0
        /\ \A i \in 1..(n - 1 + 1) : f[i] = path[1 + i - 1]
    BY <2>1, SubSeqProperties
  <2> HIDE DEF f
  <2>3. n - 1 + 1 = n /\ 1 <= n /\ \A i \in 1..n : 1 + i - 1 = i
    BY <1>2
  <2> QED BY <2>2, <2>3
<1> HIDE DEF f
<1>4. f # <<>>
  BY <1>2, <1>3
<1> QED BY <1>1, <1>3, <1>4

\* What follows a full header stands under the branch it is in.
LEMMA ParentIs ==
  ASSUME NEW item, Sound(item)
  PROVE  Parent(Full(item)) = Above(item)
<1> DEFINE s == Stem(item)
           t == Joined(item.path)
           n == Len(item.path)
           text == Full(item)
           header == SubSeq(text, 1, Min({i \in 1..Len(text) : text[i] \in Blank} \cup {Len(text) + 1}) - 1)
           C == {i \in 1..Len(header) : header[i] = ":"}
<1>1. /\ s \in Seq(Characters) /\ Len(s) \in Nat \ {0}
      /\ s[1] = "*" <=> item.lead = "*"
      /\ item.lead # "*" => s = t
      /\ t \in Seq(Characters) /\ n \in Nat \ {0} /\ Len(t) = 2 * n - 1
      /\ \A i \in 1..n : t[2 * i - 1] = item.path[i]
      /\ \A i \in 1..(n - 1) : t[2 * i] = ":"
      /\ \A i \in 1..n : item.path[i] # ":"
  BY StemFacts
<1>2. /\ Len(header) \in Nat
      /\ C = {i \in 1..Len(s) : s[i] = ":"}
      /\ Len(s) <= Len(header)
      /\ \A i \in 1..Len(s) : header[i] = s[i]
      /\ header \in Seq(Characters)
  BY HeaderOf
<1>3. Parent(text) = IF C = {} \/ header[1] = "*" THEN <<>> ELSE SubSeq(header, 1, Max(C) - 1)
  BY Zenon DEF Parent
<1> HIDE DEF C, header, s, t, text, n
<1>4. header[1] = "*" <=> item.lead = "*"
  <2>1. 1 \in 1..Len(s)
    BY <1>1
  <2>2. header[1] = s[1]
    BY <1>2, <2>1
  <2> QED BY <1>1, <2>2
<1>5. CASE item.lead = "*"
  BY <1>3, <1>4, <1>5 DEF Above, text
<1>6. CASE item.lead # "*"
  <2>1. s = t /\ header[1] # "*"
    BY <1>1, <1>4, <1>6
  <2>2. \A i \in C : \E k \in 1..(n - 1) : i = 2 * k
    <3> SUFFICES ASSUME NEW i \in C PROVE \E k \in 1..(n - 1) : i = 2 * k
      OBVIOUS
    <3>1. i \in 1..(2 * n - 1) /\ t[i] = ":"
      BY <1>1, <1>2, <2>1
    <3>2. n \in Nat
      BY <1>1
    <3>3. ~ \E k \in 1..n : i = 2 * k - 1
      BY <1>1, <3>1
    <3> QED BY <3>1, <3>2, <3>3, Halves
  <2>3. \A k \in 1..(n - 1) : 2 * k \in C
    <3> TAKE k \in 1..(n - 1)
    <3>1. 2 * k \in 1..(2 * n - 1)
      BY <1>1
    <3>2. t[2 * k] = ":" /\ 2 * k \in 1..Len(s)
      BY <1>1, <2>1, <3>1
    <3> QED BY <1>2, <2>1, <3>2
  <2>4. CASE n = 1
    <3>1. C = {}
      BY <2>2, <2>4
    <3> QED BY <1>3, <2>4, <3>1 DEF Above, text, n
  <2>5. CASE n # 1
    <3> DEFINE m == 2 * (n - 1)
               f == Front(item.path)
               x == Joined(f)
    <3>1. n - 1 \in Nat \ {0} /\ m \in Nat \ {0} /\ n - 1 \in 1..(n - 1)
      BY <1>1, <2>5
    <3>2. m \in C
      BY <2>3, <3>1
    <3>3. \A i \in C : m >= i
      <4> TAKE i \in C
      <4>1. PICK k \in 1..(n - 1) : i = 2 * k
        BY <2>2
      <4> QED BY <1>1, <4>1
    <3>4. C \subseteq 0..Len(header)
      BY DEF C
    <3>5. Max(C) = m
      <4> HIDE DEF m
      <4> QED BY <1>2, <3>2, <3>3, <3>4, GreatestIs
    <3>6. /\ f \in Seq(Characters \ Special) \ {<<>>} /\ Len(f) = n - 1
          /\ \A i \in 1..(n - 1) : f[i] = item.path[i]
      <4>1. item.path \in Seq(Characters \ Special)
        BY DEF Sound
      <4>2. n > 1
        BY <1>1, <2>5
      <4> QED BY <4>1, <4>2, FrontFacts DEF n
    <3>7. /\ x \in Seq(Characters) /\ Len(x) = 2 * Len(f) - 1
          /\ \A i \in 1..Len(f) : x[2 * i - 1] = f[i]
          /\ \A i \in 1..(Len(f) - 1) : x[2 * i] = ":"
      <4> HIDE DEF f
      <4> QED BY <3>6, JoinedFacts
    <3> HIDE DEF x, f
    <3>8. Len(x) = 2 * (n - 1) - 1 /\ Len(x) \in Nat /\ Len(x) = m - 1
      BY <3>1, <3>6, <3>7
    <3>9. ASSUME NEW j \in 1..Len(x) PROVE header[j] = x[j]
      <4>1. j \in 1..(2 * (n - 1) - 1) /\ n - 1 \in Nat /\ j \in 1..Len(s)
        BY <1>1, <2>1, <3>1, <3>8
      <4>2. header[j] = t[j]
        BY <1>2, <2>1, <4>1
      <4>3. CASE \E i \in 1..(n - 1) : j = 2 * i - 1
        <5>1. PICK i \in 1..(n - 1) : j = 2 * i - 1
          BY <4>3
        <5>2. i \in 1..n /\ i \in 1..Len(f)
          BY <1>1, <3>6
        <5>3. t[2 * i - 1] = item.path[i] /\ x[2 * i - 1] = f[i] /\ f[i] = item.path[i]
          BY <1>1, <3>6, <3>7, <5>2
        <5> QED BY <4>2, <5>1, <5>3
      <4>4. CASE \E i \in 1..((n - 1) - 1) : j = 2 * i
        <5>1. PICK i \in 1..((n - 1) - 1) : j = 2 * i
          BY <4>4
        <5>2. i \in 1..(n - 1) /\ i \in 1..(Len(f) - 1)
          BY <1>1, <3>6
        <5>3. t[2 * i] = ":" /\ x[2 * i] = ":"
          BY <1>1, <3>7, <5>2
        <5> QED BY <4>2, <5>1, <5>3
      <4> QED BY <4>1, <4>3, <4>4, Halves
    <3>10. SubSeq(header, 1, m - 1) = x
      <4>1. Stands(header, 0, x)
        <5>1. 0 + Len(x) <= Len(header)
          BY <1>1, <1>2, <2>1, <3>8
        <5>2. \A j \in 1..Len(x) : header[0 + j] = x[j]
          <6> TAKE j \in 1..Len(x)
          <6>1. 0 + j = j
            BY <3>8
          <6> QED BY <3>9, <6>1
        <5> QED BY <5>1, <5>2 DEF Stands
      <4>2. SubSeq(header, 0 + 1, 0 + Len(x)) = x
        BY <1>2, <3>7, <4>1, CutOut
      <4>3. 0 + 1 = 1 /\ 0 + Len(x) = m - 1
        BY <3>8
      <4> QED BY <4>2, <4>3
    <3>11. C # {}
      BY <3>2
    <3>12. Parent(text) = x
      <4> HIDE DEF m
      <4> QED BY <1>3, <2>1, <3>5, <3>10, <3>11
    <3> QED BY <1>6, <2>5, <3>12 DEF Above, text, n, x, f
  <2> QED BY <2>4, <2>5
<1> QED BY <1>5, <1>6

\* Paths are joined by a colon.
LEMMA JoinedConcat ==
  ASSUME NEW p \in Seq(Characters \ Special) \ {<<>>}, NEW q \in Seq(Characters \ Special) \ {<<>>}
  PROVE  /\ p \o q \in Seq(Characters \ Special) \ {<<>>}
         /\ Joined(p \o q) = Joined(p) \o <<":">> \o Joined(q)
<1> DEFINE z == p \o q
           m == Len(p)
           n == Len(q)
           x == Joined(p)
           y == Joined(q)
           w == Joined(z)
           c == ":"
           u == x \o <<c>>
           v == u \o y
<1>1. /\ m \in Nat \ {0} /\ n \in Nat \ {0}
      /\ x \in Seq(Characters) /\ Len(x) = 2 * m - 1
      /\ \A i \in 1..m : x[2 * i - 1] = p[i]
      /\ \A i \in 1..(m - 1) : x[2 * i] = c
      /\ y \in Seq(Characters) /\ Len(y) = 2 * n - 1
      /\ \A i \in 1..n : y[2 * i - 1] = q[i]
      /\ \A i \in 1..(n - 1) : y[2 * i] = c
  <2> HIDE DEF x, y
  <2> QED BY JoinedFacts DEF x, y
<1>2. z \in Seq(Characters \ Special) /\ Len(z) = m + n
      /\ (\A i \in 1..m : z[i] = p[i]) /\ (\A i \in 1..n : z[m + i] = q[i])
  BY Spots
<1> HIDE DEF z
<1>3. z \in Seq(Characters \ Special) \ {<<>>}
  BY <1>1, <1>2
<1>4. /\ w \in Seq(Characters) /\ Len(w) = 2 * (m + n) - 1
      /\ \A i \in 1..(m + n) : w[2 * i - 1] = z[i]
      /\ \A i \in 1..((m + n) - 1) : w[2 * i] = c
  BY <1>2, <1>3, JoinedFacts
<1>5. c \in Characters
  BY Letters
<1> HIDE DEF x, y, w, c, m, n
<1>6. u \in Seq(Characters) /\ Len(u) = 2 * m /\ (\A i \in 1..(2 * m - 1) : u[i] = x[i]) /\ u[2 * m] = c
  <2> DEFINE e == <<c>>
  <2>1. e \in Seq(Characters) /\ Len(e) = 1 /\ e[1] = c
    BY <1>5
  <2> HIDE DEF e
  <2>2. x \o e \in Seq(Characters) /\ Len(x \o e) = Len(x) + Len(e)
        /\ (\A i \in 1..Len(x) : (x \o e)[i] = x[i])
        /\ (\A j \in 1..Len(e) : (x \o e)[Len(x) + j] = e[j])
    <3>1. x \in Seq(Characters) /\ e \in Seq(Characters)
      BY <1>1, <2>1
    <3> QED BY <3>1, Spots
  <2>3. (x \o e)[Len(x) + 1] = c /\ Len(x) + 1 = 2 * m
    BY <1>1, <2>1, <2>2
  <2> QED BY <1>1, <2>1, <2>2, <2>3 DEF e
<1> HIDE DEF u
<1>7. v \in Seq(Characters) /\ Len(v) = 2 * m + (2 * n - 1)
      /\ (\A i \in 1..(2 * m) : v[i] = u[i]) /\ (\A j \in 1..(2 * n - 1) : v[2 * m + j] = y[j])
  <2>1. v \in Seq(Characters) /\ Len(v) = Len(u) + Len(y)
        /\ (\A i \in 1..Len(u) : v[i] = u[i])
        /\ (\A j \in 1..Len(y) : v[Len(u) + j] = y[j])
    <3>1. u \in Seq(Characters) /\ y \in Seq(Characters)
      BY <1>1, <1>6
    <3> QED BY <3>1, Spots DEF v
  <2> HIDE DEF v
  <2> QED BY <1>1, <1>6, <2>1
<1> HIDE DEF v
<1>8. Len(v) = Len(w) /\ Len(w) \in Nat
  BY <1>1, <1>4, <1>7
<1>9. ASSUME NEW j \in 1..Len(w) PROVE w[j] = v[j]
  <2>1. j \in 1..(2 * (m + n) - 1) /\ m + n \in Nat
    BY <1>1, <1>4, SMTT(30)
  <2>2. CASE \E i \in 1..(m + n) : j = 2 * i - 1
    <3>1. PICK i \in 1..(m + n) : j = 2 * i - 1
      BY <2>2
    <3>2. w[j] = z[i]
      BY <1>4, <3>1
    <3>3. CASE i \in 1..m
      <4>1. z[i] = p[i] /\ x[2 * i - 1] = p[i]
        BY <1>1, <1>2, <3>3
      <4>2. 2 * i - 1 \in 1..(2 * m - 1) /\ 2 * i - 1 \in 1..(2 * m)
        BY <1>1, <3>3
      <4>3. v[2 * i - 1] = x[2 * i - 1]
        BY <1>6, <1>7, <4>2
      <4> QED BY <3>1, <3>2, <4>1, <4>3
    <3>4. CASE i \notin 1..m
      <4> DEFINE k == i - m
      <4>1. k \in 1..n /\ i = m + k
        BY <1>1, <3>4
      <4> HIDE DEF k
      <4>2. z[m + k] = q[k] /\ y[2 * k - 1] = q[k]
        BY <1>1, <1>2, <4>1
      <4>3. 2 * k - 1 \in 1..(2 * n - 1) /\ 2 * m + (2 * k - 1) = j
        BY <1>1, <3>1, <4>1
      <4>4. v[2 * m + (2 * k - 1)] = y[2 * k - 1]
        BY <1>7, <4>3
      <4> QED BY <3>2, <4>1, <4>2, <4>3, <4>4
    <3> QED BY <3>3, <3>4
  <2>3. CASE \E i \in 1..((m + n) - 1) : j = 2 * i
    <3>1. PICK i \in 1..((m + n) - 1) : j = 2 * i
      BY <2>3
    <3>2. w[j] = c
      BY <1>4, <3>1
    <3>3. CASE i \in 1..(m - 1)
      <4>1. x[2 * i] = c
        BY <1>1, <3>3
      <4>2. 2 * i \in 1..(2 * m - 1) /\ 2 * i \in 1..(2 * m)
        BY <1>1, <3>3
      <4>3. v[2 * i] = x[2 * i]
        BY <1>6, <1>7, <4>2
      <4> QED BY <3>1, <3>2, <4>1, <4>3
    <3>4. CASE i = m
      <4>1. 2 * m \in 1..(2 * m)
        BY <1>1
      <4>2. v[2 * m] = c
        BY <1>6, <1>7, <4>1
      <4> QED BY <3>1, <3>2, <3>4, <4>2
    <3>5. CASE i \notin 1..(m - 1) /\ i # m
      <4> DEFINE k == i - m
      <4>1. k \in 1..(n - 1) /\ i = m + k
        BY <1>1, <3>5
      <4> HIDE DEF k
      <4>2. y[2 * k] = c
        BY <1>1, <4>1
      <4>3. 2 * k \in 1..(2 * n - 1) /\ 2 * m + 2 * k = j
        BY <1>1, <3>1, <4>1
      <4>4. v[2 * m + 2 * k] = y[2 * k]
        BY <1>7, <4>3
      <4> QED BY <3>2, <4>2, <4>3, <4>4
    <3> QED BY <3>3, <3>4, <3>5
  <2> QED BY <2>1, <2>2, <2>3, Halves
<1>10. w = v
  BY <1>4, <1>7, <1>8, <1>9, SMTT(30)
<1> QED BY <1>3, <1>10 DEF z, w, v, u, x, y, c

\* What is behind a first byte.
LEMMA TailOfFirst ==
  ASSUME NEW S, NEW c \in S, NEW y \in Seq(S)
  PROVE  Tail(<<c>> \o y) = y
<1> DEFINE z == <<c>> \o y
<1>1. /\ z \in Seq(S) /\ Len(z) = 1 + Len(y)
      /\ \A j \in 1..Len(y) : z[1 + j] = y[j]
  BY FirstSpot
<1>2. Len(y) \in Nat
  OBVIOUS
<1> HIDE DEF z
<1>3. z # <<>>
  BY <1>1, <1>2
<1>4. /\ Tail(z) \in Seq(S) /\ Len(Tail(z)) = Len(z) - 1
      /\ \A i \in 1..Len(Tail(z)) : Tail(z)[i] = z[i + 1]
  BY <1>1, <1>3, HeadTailProperties
<1>5. Len(Tail(z)) = Len(y)
  BY <1>1, <1>2, <1>4
<1>6. \A i \in 1..Len(y) : Tail(z)[i] = y[i]
  <2> TAKE i \in 1..Len(y)
  <2>1. i + 1 = 1 + i
    BY <1>2
  <2> QED BY <1>1, <1>4, <1>5, <2>1
<1> QED BY <1>4, <1>5, <1>6, SeqEqual DEF z

\* Where the first header stands, and a command with its path in full.
Root == [lead |-> "*", path |-> <<>>]
Under(item, former) ==
  IF item.lead # "" \/ former.lead = "*" THEN item ELSE [item EXCEPT !.path = Front(former.path) \o @]

\* A command stays sound when its path is completed.
LEMMA UnderFacts ==
  ASSUME NEW item, Sound(item), NEW former, former.lead = "*" \/ Sound(former)
  PROVE  LET full == Under(item, former) IN
         Sound(full) /\ full.arg = item.arg /\ full.payload = item.payload /\ full.lead = item.lead
<1> DEFINE full == Under(item, former)
<1>1. /\ item \in Items /\ item.path \in Seq(Characters \ Special) \ {<<>>}
      /\ item.arg # "block" => item.payload = <<>>
      /\ item.sep \in {";", "nl"}
  BY DEF Sound
<1>2. CASE item.lead # "" \/ former.lead = "*"
  BY <1>2 DEF Under
<1>3. CASE ~(item.lead # "" \/ former.lead = "*")
  <2> DEFINE p == Front(former.path)
             q == p \o item.path
  <2>1. former.path \in Seq(Characters \ Special) \ {<<>>}
    BY <1>3 DEF Sound
  <2>2. p \in Seq(Characters \ Special)
    <3>1. CASE Len(former.path) > 1
      <4>1. former.path \in Seq(Characters \ Special)
        BY <2>1
      <4> HIDE DEF p
      <4>2. p \in Seq(Characters \ Special) \ {<<>>}
        BY <3>1, <4>1, FrontFacts DEF p
      <4> QED BY <4>2
    <3>2. CASE ~(Len(former.path) > 1)
      <4>1. Len(former.path) \in Nat
        BY <2>1
      <4>2. Len(former.path) - 1 \in Int /\ Len(former.path) - 1 < 1 /\ 1 \in Int
        BY <3>2, <4>1
      <4>3. SubSeq(former.path, 1, Len(former.path) - 1) = <<>>
        BY <4>2, SubSeqEmpty
      <4> QED BY <4>3 DEF Front
    <3> QED BY <3>1, <3>2
  <2>3. full = [item EXCEPT !.path = q]
    BY <1>3 DEF Under
  <2> HIDE DEF p
  <2>4. item.path \in Seq(Characters \ Special) /\ item.path # <<>>
    BY <1>1
  <2>5. q \in Seq(Characters \ Special)
    BY <2>2, <2>4, ConcatProperties
  <2>6. q # <<>>
    BY <2>2, <2>4, ConcatEqualIffEmpty
  <2> HIDE DEF q
  <2>7. q \in Seq(Characters)
    <3>1. Characters \ Special \subseteq Characters
      OBVIOUS
    <3> QED BY <2>5, <3>1, SeqMonotonic
  <2>8. /\ [item EXCEPT !.path = q] \in Items
        /\ [item EXCEPT !.path = q].arg = item.arg
        /\ [item EXCEPT !.path = q].payload = item.payload
        /\ [item EXCEPT !.path = q].lead = item.lead
        /\ [item EXCEPT !.path = q].sep = item.sep
        /\ [item EXCEPT !.path = q].path = q
    BY <1>1, <2>7 DEF Items
  <2> HIDE DEF full
  <2>9. full \in Items /\ full.arg = item.arg /\ full.payload = item.payload /\ full.lead = item.lead
        /\ full.sep = item.sep /\ full.path = q
    BY <2>3, <2>8, Zenon
  <2> QED BY <1>1, <2>5, <2>6, <2>9 DEF Sound, full
<1> QED BY <1>2, <1>3

\* The headers in full, step by step.
LEMMA AbsoluteSteps ==
  ASSUME NEW message \in Seq(Items), \A k \in 1..Len(message) : Sound(message[k])
  PROVE  LET h == Absolute(message) IN
         /\ h[0] = Root
         /\ \A k \in 1..Len(message) :
              /\ h[k] = Under(message[k], h[k - 1])
              /\ h[k - 1].lead = "*" \/ Sound(h[k - 1])
              /\ Sound(h[k]) /\ h[k].arg = message[k].arg /\ h[k].payload = message[k].payload
<1> DEFINE n == Len(message)
           D == {Root} \cup {item \in Items : Sound(item)}
           g == [k \in 1..n |-> [x \in D |-> Under(message[k], x)]]
           F(f) == [k \in 0..n |-> IF k = 0 THEN Root ELSE Under(message[k], f[k - 1])]
           c == CHOOSE f : f = F(f)
<1>1. n \in Nat /\ Root \in D
  OBVIOUS
<1>2. Absolute(message) = c
  BY Zenon DEF Absolute, Under, Root
<1>3. \A x \in D : x.lead = "*" \/ Sound(x)
  BY DEF Root
<1>4. ASSUME NEW k \in 1..n, NEW x \in D
      PROVE  /\ Under(message[k], x) \in D /\ Sound(Under(message[k], x))
             /\ Under(message[k], x).arg = message[k].arg
             /\ Under(message[k], x).payload = message[k].payload
  <2>1. Sound(message[k]) /\ (x.lead = "*" \/ Sound(x))
    BY <1>3
  <2>2. Sound(Under(message[k], x)) /\ Under(message[k], x).arg = message[k].arg
        /\ Under(message[k], x).payload = message[k].payload
    BY <2>1, UnderFacts
  <2> QED BY <2>2 DEF Sound
<1> HIDE DEF D
<1>5. g \in [1..n -> [D -> D]]
  BY <1>4
<1>6. PICK h \in [0..n -> D] : h[0] = Root /\ \A k \in 1..n : h[k] = g[k][h[k - 1]]
  <2> HIDE DEF g, n
  <2>1. Iterable(D, Root, n, g)
    BY <1>1, <1>5, Iteration
  <2> QED BY <2>1 DEF Iterable
<1> HIDE DEF n
<1>7. h = F(h)
  <2>1. ASSUME NEW k \in 1..n PROVE h[k] = Under(message[k], h[k - 1])
    <3>1. h[k - 1] \in D
      BY <1>1
    <3>2. g[k][h[k - 1]] = Under(message[k], h[k - 1])
      BY <3>1
    <3> HIDE DEF g
    <3> QED BY <1>6, <3>2
  <2>2. \A k \in 0..n : h[k] = F(h)[k]
    BY <1>1, <1>6, <2>1
  <2>3. DOMAIN F(h) = 0..n /\ F(h) = [k \in 0..n |-> F(h)[k]]
    OBVIOUS
  <2> HIDE DEF F
  <2> QED BY <2>2, <2>3
<1>8. c = F(c)
  <2> HIDE DEF F
  <2> QED BY <1>7
<1> HIDE DEF c
<1>9. c[0] = Root /\ \A k \in 1..n : c[k] = Under(message[k], c[k - 1])
  BY <1>1, <1>8
<1>10. \A k \in 0..n : c[k] \in D
  <2>1. \A k \in 1..n : c[k - 1] \in D => c[k] \in D
    BY <1>4, <1>9
  <2>2. c[0] \in D
    BY <1>1, <1>9
  <2> QED BY <1>1, <2>1, <2>2, Kept
<1>11. ASSUME NEW k \in 1..n
       PROVE  /\ c[k - 1].lead = "*" \/ Sound(c[k - 1])
              /\ Sound(c[k]) /\ c[k].arg = message[k].arg /\ c[k].payload = message[k].payload
  <2>1. k - 1 \in 0..n
    BY <1>1
  <2>2. c[k - 1] \in D /\ c[k] = Under(message[k], c[k - 1])
    BY <1>9, <1>10, <2>1
  <2> QED BY <1>3, <1>4, <2>2
<1> QED BY <1>2, <1>9, <1>11, Zenon DEF n

\* The argument is that of the item.
LEMMA SameArgument ==
  ASSUME NEW x \in Items, NEW y \in Items, x.arg = y.arg, x.payload = y.payload
  PROVE  Behind(x) = Behind(y)
<1>1. x.arg \in {"none", "query", "string", "hex", "block", "cut"}
  BY DEF Items, Arguments
<1>2. CASE x.arg \in {"block", "cut"}
  BY <1>2 DEF Behind
<1>3. CASE x.arg = "none"
  BY <1>3 DEF Behind, Argument
<1>4. CASE x.arg = "query"
  BY <1>4 DEF Behind, Argument
<1>5. CASE x.arg = "string"
  BY <1>5 DEF Behind, Argument
<1>6. CASE x.arg = "hex"
  BY <1>6 DEF Behind, Argument
<1> QED BY <1>1, <1>2, <1>3, <1>4, <1>5, <1>6

\* A header is completed to the one that is meant.
LEMMA StepInherit ==
  ASSUME NEW item, Sound(item), NEW former, former.lead = "*" \/ Sound(former)
  PROVE  Complete(Raw(item).text, Above(former)) = Full(Under(item, former))
<1> DEFINE h == Header(item)
           t == Joined(item.path)
           b == Behind(item)
           text == h \o b
           full == Under(item, former)
           parent == Above(former)
<1>1. Raw(item).text = text
  BY DEF Raw
<1>2. h \in Seq(Characters) /\ Len(h) \in Nat \ {0} /\ t \in Seq(Characters)
  BY HeaderFacts
<1>14. /\ h[1] = ":" <=> item.lead = ":"
       /\ h[1] = "*" <=> item.lead = "*"
  BY HeaderFacts
<1>15. h = (IF item.lead = "" THEN <<>> ELSE <<item.lead>>) \o t
  BY HeaderFacts
<1>3. b \in Seq(Characters)
  <2>1. item \in Items
    BY DEF Sound
  <2> QED BY <2>1, BehindFacts DEF Readable
<1>4. Sound(full) /\ full.arg = item.arg /\ full.payload = item.payload /\ full.lead = item.lead
  BY UnderFacts
<1>5. Behind(full) = b
  <2>1. item \in Items /\ full \in Items
    BY <1>4 DEF Sound
  <2> QED BY <1>4, <2>1, SameArgument
<1>6. Full(full) = Stem(full) \o b
  BY <1>5 DEF Full
<1>7. Complete(text, parent) = IF text[1] = ":" THEN Tail(text)
                               ELSE IF text[1] = "*" \/ parent = <<>> THEN text
                               ELSE parent \o <<":">> \o text
  BY Zenon DEF Complete
<1> SUFFICES Complete(text, parent) = Full(full)
  BY <1>1
<1>8. item.lead \in {"", ":", "*"}
  BY DEF Sound, Items
<1>9. t # <<>>
  <2>1. /\ item.path \in Seq(Characters \ Special) \ {<<>>}
    BY DEF Sound
  <2>2. Len(t) = 2 * Len(item.path) - 1 /\ Len(item.path) \in Nat \ {0}
    BY <2>1, JoinedFacts
  <2> HIDE DEF t
  <2>3. Len(t) # 0
    BY <2>2
  <2> QED BY <2>3
<1> HIDE DEF h, t, b, parent
<1>10. text[1] = h[1]
  <2>1. \A i \in 1..Len(h) : text[i] = h[i]
    BY <1>2, <1>3, Spots
  <2>2. 1 \in 1..Len(h)
    BY <1>2
  <2> HIDE DEF text
  <2> QED BY <2>1, <2>2
<1> HIDE DEF text, full
<1>11. CASE item.lead = ":"
  <2> DEFINE c == ":"
             x == <<c>>
             u == t \o b
  <2>1. full = item
    BY <1>11 DEF Under, full
  <2>2. Stem(full) = t
    <3>1. Stem(full) = <<>> \o t
      BY <1>11, <2>1 DEF Stem, t
    <3> QED BY <1>2, <3>1, ConcatEmptySeq
  <2>3. text = (x \o t) \o b
    BY <1>15, <1>11 DEF text
  <2>4. Complete(text, parent) = Tail(text)
    BY <1>14, <1>7, <1>10, <1>11
  <2>5. c \in Characters
    BY Letters
  <2> HIDE DEF c
  <2>6. x \in Seq(Characters)
    BY <2>5
  <2>9. t \in Seq(Characters) /\ b \in Seq(Characters)
    BY <1>2, <1>3
  <2>10. u \in Seq(Characters)
    BY <2>9, ConcatProperties
  <2> HIDE DEF x
  <2>7. (x \o t) \o b = x \o u
    BY <2>6, <2>9, ConcatAssociative
  <2> HIDE DEF u
  <2>8. Tail(x \o u) = u
    BY <2>5, <2>10, TailOfFirst DEF x
  <2>11. Tail(text) = u
    BY <2>3, <2>7, <2>8, Zenon
  <2> QED BY <1>6, <2>2, <2>4, <2>11, Zenon DEF u
<1>12. CASE item.lead = "*"
  <2>1. full = item
    BY <1>12 DEF Under, full
  <2>2. Stem(full) = h
    BY <1>15, <1>12, <2>1 DEF Stem, t
  <2>3. text[1] # ":" /\ text[1] = "*"
    BY <1>14, <1>10, <1>12
  <2>4. Complete(text, parent) = text
    BY <1>7, <2>3, Zenon
  <2> QED BY <1>6, <2>2, <2>4, Zenon DEF text
<1>13. CASE item.lead = ""
  <2>1. h = t
    <3>1. h = <<>> \o t
      BY <1>15, <1>13
    <3> QED BY <1>2, <3>1, ConcatEmptySeq
  <2>2. text[1] # ":" /\ text[1] # "*"
    BY <1>14, <1>10, <1>13
  <2>3. Stem(full) = Joined(full.path)
    <3>1. Stem(full) = <<>> \o Joined(full.path)
      BY <1>4, <1>13 DEF Stem
    <3>2. Joined(full.path) \in Seq(Characters)
      BY <1>4, StemFacts
    <3> QED BY <3>1, <3>2, ConcatEmptySeq
  <2>4. CASE former.lead = "*"
    <3>1. full = item
      BY <2>4 DEF Under, full
    <3>2. parent = <<>>
      BY <2>4 DEF Above, parent
    <3>3. Complete(text, parent) = text
      BY <1>7, <2>2, <3>2, Zenon
    <3>4. Stem(full) = t
      BY <2>3, <3>1 DEF t
    <3> QED BY <1>6, <2>1, <3>3, <3>4, Zenon DEF text
  <2>5. CASE former.lead # "*"
    <3> DEFINE p == Front(former.path)
               q == item.path
    <3>1. full = [item EXCEPT !.path = p \o q] /\ Sound(former) /\ item \in Items
      BY <1>13, <2>5 DEF Under, full, Sound
    <3>2. full.path = p \o q
      BY <3>1 DEF Items
    <3>3. former.path \in Seq(Characters \ Special) /\ Len(former.path) \in Nat \ {0}
          /\ q \in Seq(Characters \ Special) \ {<<>>}
      <4>1. former.path \in Seq(Characters \ Special) \ {<<>>}
        BY <3>1 DEF Sound
      <4>2. q \in Seq(Characters \ Special) \ {<<>>}
        BY DEF Sound
      <4> QED BY <4>1, <4>2
    <3>4. CASE Len(former.path) = 1
      <4>1. parent = <<>>
        BY <3>4 DEF Above, parent
      <4>2. p = <<>>
        <5>1. SubSeq(former.path, 1, 0) = <<>>
          BY SubSeqEmpty
        <5> QED BY <3>4, <5>1 DEF Front
      <4>3. full.path = q
        <5> HIDE DEF p, q
        <5> QED BY <3>2, <3>3, <4>2, ConcatEmptySeq
      <4>4. Complete(text, parent) = text
        BY <1>7, <2>2, <4>1, Zenon
      <4>5. Stem(full) = t
        BY <2>3, <4>3 DEF t
      <4> QED BY <1>6, <2>1, <4>4, <4>5, Zenon DEF text
    <3>5. CASE Len(former.path) # 1
      <4> DEFINE y == Joined(p)
                 c == <<":">>
      <4>1. parent = y
        BY <2>5, <3>5 DEF Above, parent
      <4>2. Len(former.path) > 1
        <5> DEFINE n == Len(former.path)
        <5>1. n \in Nat \ {0} /\ n # 1
          BY <3>3, <3>5
        <5> HIDE DEF n
        <5>2. n > 1
          BY <5>1
        <5> QED BY <5>2 DEF n
      <4>3. p \in Seq(Characters \ Special) \ {<<>>}
        <5> HIDE DEF p
        <5> QED BY <3>3, <4>2, FrontFacts DEF p
      <4> HIDE DEF p, q
      <4>4. Joined(p \o q) = y \o c \o Joined(q)
        BY <3>3, <4>3, JoinedConcat
      <4>5. y \in Seq(Characters) /\ Len(y) = 2 * Len(p) - 1 /\ Len(p) \in Nat \ {0}
        BY <4>3, JoinedFacts
      <4>6. c \in Seq(Characters)
        BY Letters, Short
      <4> HIDE DEF y, c
      <4>7. y # <<>>
        <5>1. Len(y) # 0
          BY <4>5
        <5> QED BY <5>1
      <4>8. y \o c \in Seq(Characters)
        BY <4>5, <4>6, ConcatProperties
      <4>9. (y \o c \o t) \o b = (y \o c) \o (t \o b)
        <5> DEFINE a == y \o c
        <5>1. a \in Seq(Characters) /\ t \in Seq(Characters) /\ b \in Seq(Characters)
          BY <1>2, <1>3, <4>8
        <5> HIDE DEF a
        <5>2. (a \o t) \o b = a \o (t \o b)
          BY <5>1, ConcatAssociative
        <5> QED BY <5>2 DEF a
      <4>10. Complete(text, parent) = y \o c \o text
        BY <1>7, <2>2, <4>1, <4>7 DEF c
      <4>11. Full(full) = (y \o c \o t) \o b
        BY <1>6, <2>3, <3>2, <4>4, Zenon DEF t, q
      <4> QED BY <2>1, <4>9, <4>10, <4>11, Zenon DEF text
    <3> QED BY <3>4, <3>5
  <2> QED BY <2>4, <2>5
<1> QED BY <1>8, <1>11, <1>12, <1>13

\* Nothing stands above the first command.
LEMMA ParentOfNone == Parent(<<>>) = <<>>
<1> DEFINE text == <<>>
           S == {i \in 1..Len(text) : text[i] \in Blank} \cup {Len(text) + 1}
           header == SubSeq(text, 1, Min(S) - 1)
           C == {i \in 1..Len(header) : header[i] = ":"}
<1>1. S = {1}
  OBVIOUS
<1> HIDE DEF S
<1>2. Min(S) = 1
  <2>1. S \subseteq Nat /\ 1 \in S /\ \A y \in S : 1 <= y
    BY <1>1
  <2> QED BY <2>1, LeastIs
<1>3. header = <<>>
  <2>1. Min(S) - 1 = 0
    BY <1>2
  <2>2. SubSeq(text, 1, 0) = <<>>
    BY SubSeqEmpty
  <2> HIDE DEF text
  <2> QED BY <2>1, <2>2
<1>4. C = {}
  <2> HIDE DEF header
  <2>1. Len(header) = 0
    BY <1>3
  <2> QED BY <2>1
<1>5. Parent(text) = IF C = {} \/ header[1] = "*" THEN <<>> ELSE SubSeq(header, 1, Max(C) - 1)
  BY Zenon DEF Parent, S
<1> HIDE DEF C, header
<1> QED BY <1>4, <1>5

\* All headers are completed to those that are meant.
LEMMA InheritReads ==
  ASSUME NEW message \in Seq(Items), WellFormed(message), ~Cut(message)
  PROVE  InheritHeaderPaths(Raws(message)) = Meant(message)
<1> DEFINE n == Len(message)
           parts == Raws(message)
           h == Absolute(message)
<1>1. /\ n \in Nat /\ DOMAIN message = 1..n
      /\ \A k \in 1..n : Sound(message[k]) /\ Raw(message[k]) \in RawParts /\ message[k].arg # "cut"
  <2>1. DOMAIN message = 1..n
    OBVIOUS
  <2>2. \A k \in 1..n : message[k].arg # "cut"
    BY <2>1 DEF Cut
  <2> QED BY <2>1, <2>2, LaidOut
<1>2. /\ h[0] = Root
      /\ \A k \in 1..n : /\ h[k] = Under(message[k], h[k - 1])
                         /\ h[k - 1].lead = "*" \/ Sound(h[k - 1])
                         /\ Sound(h[k]) /\ h[k].arg = message[k].arg /\ h[k].payload = message[k].payload
  BY <1>1, AbsoluteSteps
<1>3. parts \in Seq(RawParts) /\ Len(parts) = n /\ \A k \in 1..n : parts[k] = Raw(message[k])
  BY <1>1 DEF Raws
<1>4. PICK c \in [0..n -> Seq(Characters)] :
        /\ c[0] = <<>>
        /\ \A k \in 1..n : c[k] = Complete(parts[k].text, Parent(c[k - 1]))
        /\ InheritHeaderPaths(parts) = [k \in 1..n |-> [parts[k] EXCEPT !.text = c[k]]]
  <2> HIDE DEF parts, n
  <2> QED BY <1>3, InheritSteps
<1> HIDE DEF n, parts, h
<1> DEFINE Fits(k) == Parent(c[k]) = Above(h[k]) /\ (k # 0 => c[k] = Full(h[k]))
           S == {k \in 0..n : Fits(k)}
<1>5. 0 \in S
  <2>1. Parent(c[0]) = <<>>
    BY <1>4, ParentOfNone
  <2>2. Above(h[0]) = <<>>
    BY <1>2 DEF Root, Above
  <2> QED BY <1>1, <2>1, <2>2
<1>6. ASSUME NEW k \in 1..n, k - 1 \in S PROVE k \in S
  <2>1. Parent(c[k - 1]) = Above(h[k - 1])
    BY <1>6
  <2>2. c[k] = Complete(Raw(message[k]).text, Above(h[k - 1]))
    BY <1>3, <1>4, <2>1
  <2>3. Complete(Raw(message[k]).text, Above(h[k - 1])) = Full(Under(message[k], h[k - 1]))
    BY <1>1, <1>2, StepInherit
  <2>4. c[k] = Full(h[k])
    BY <1>2, <2>2, <2>3
  <2>5. Parent(Full(h[k])) = Above(h[k])
    BY <1>2, ParentIs
  <2>6. k \in 0..n
    BY <1>1
  <2> QED BY <2>4, <2>5, <2>6
<1>7. \A k \in 1..n : c[k] = Full(h[k])
  <2> HIDE DEF S
  <2>1. \A k \in 0..n : k \in S
    BY <1>1, <1>5, <1>6, Induction
  <2>2. \A k \in 1..n : k \in 0..n /\ k # 0
    BY <1>1
  <2> QED BY <2>1, <2>2 DEF S
<1>8. ASSUME NEW k \in 1..n PROVE [parts[k] EXCEPT !.text = c[k]] = Part(h[k])
  <2> DEFINE item == h[k]
  <2>1. [Raw(message[k]) EXCEPT !.text = c[k]] =
          [text |-> c[k], block |-> message[k].arg = "block", payload |-> message[k].payload]
    BY DEF Raw
  <2>2. [parts[k] EXCEPT !.text = c[k]] = [text |-> c[k], block |-> item.arg = "block", payload |-> item.payload]
    BY <1>2, <1>3, <2>1
  <2>3. item.arg # "cut"
    BY <1>1, <1>2
  <2> HIDE DEF item
  <2>4. Behind(item) = IF item.arg = "block" THEN <<>> ELSE Argument(item)
    BY <2>3 DEF Behind
  <2>5. Part(item).text = Full(item) /\ Part(item) = [text |-> Full(item), block |-> item.arg = "block", payload |-> item.payload]
    BY <2>4, Zenon DEF Part, Full, Stem
  <2>6. c[k] = Full(item)
    BY <1>7 DEF item
  <2>7. [parts[k] EXCEPT !.text = c[k]] = Part(item)
    BY <2>2, <2>5, <2>6, Zenon
  <2> QED BY <2>7 DEF item
<1>9. Meant(message) = [k \in 1..n |-> Part(h[k])]
  BY <1>1 DEF Meant, h
<1> QED BY <1>4, <1>8, <1>9 DEF parts

\* A block is announced by a hash.
LEMMA HashIn ==
  ASSUME NEW data \in Seq(Characters), NEW item, Sound(item), item.arg \in {"block", "cut"},
         NEW o, Stands(data, o, Written(item))
  PROVE  \E i \in 1..Len(data) : data[i] = "#"
<1> DEFINE a == Argument(item)
           l == Len(Header(item))
           i == o + l + 2
<1>1. Len(a) \in Nat /\ Len(a) >= 2 /\ a[2] = "#"
  <2>1. CASE item.arg = "cut"
    <3>1. a = <<" ", "#", "1", "9", "x">>
      BY <2>1 DEF Argument
    <3> HIDE DEF a
    <3>2. Len(a) = 5
      BY <3>1
    <3>3. a[2] = "#"
      BY <3>1
    <3> QED BY <3>2, <3>3
  <2>2. CASE item.arg = "block"
    <3> DEFINE c == " "
               e == EncodeBlock(item.payload)
    <3>1. e \in Seq(Characters) /\ Len(e) \in Nat \ {0} /\ e[1] = "#"
      <4>1. item.payload \in Payloads
        BY DEF Sound, Items
      <4> DEFINE m == Len(Decimal(Len(item.payload)))
                 n == Len(item.payload)
      <4>2. /\ n \in 0..99 /\ m \in 1..2
            /\ e \in Seq(Characters)
            /\ Len(e) = 2 + m + n
            /\ e[1] = "#"
        BY <4>1, Encoded
      <4> HIDE DEF e, m, n
      <4>3. 2 + m + n \in Nat \ {0}
        BY <4>2
      <4> QED BY <4>2, <4>3
    <3>2. c \in Characters
      BY Letters
    <3>3. a = <<c>> \o e
      BY <2>2 DEF Argument
    <3> HIDE DEF c, e, a
    <3>4. /\ Len(<<c>> \o e) = 1 + Len(e)
          /\ \A j \in 1..Len(e) : (<<c>> \o e)[1 + j] = e[j]
      BY <3>1, <3>2, FirstSpot
    <3>5. Len(a) = 1 + Len(e) /\ a[1 + 1] = e[1]
      BY <3>1, <3>3, <3>4
    <3> QED BY <3>1, <3>5
  <2> QED BY <2>1, <2>2
<1>2. /\ o \in Nat /\ o + l + Len(a) + 1 <= Len(data)
      /\ Stands(data, o + l, a)
  BY ItemStands
<1>3. l \in Nat \ {0} /\ Len(data) \in Nat
  <2>1. Len(data) \in Nat
    OBVIOUS
  <2> QED BY <2>1, HeaderFacts
<1>4. \A j \in 1..Len(a) : data[o + l + j] = a[j]
  BY <1>2 DEF Stands
<1> HIDE DEF a, l
<1>5. 2 \in 1..Len(a) /\ i \in 1..Len(data)
  BY <1>1, <1>2, <1>3
<1>6. data[i] = a[2]
  BY <1>4, <1>5
<1> HIDE DEF i
<1> QED BY <1>1, <1>5, <1>6

\* The parser is correct: it makes of every well-formed message the commands that are
\* meant, each with its header in full and its block, and refuses one that ends within a
\* block.
THEOREM ParserReads ==
  ASSUME NEW message \in Seq(Items), WellFormed(message)
  PROVE  IF \E k \in DOMAIN message : message[k].arg = "cut"
           THEN SplitOutbound(Rendered(message)).error # "none"
           ELSE SplitOutbound(Rendered(message)) = [error |-> "none", parts |-> Meant(message)]
<1> DEFINE data == Rendered(message)
           scan == Scan(data)
           hash == \E i \in 1..Len(data) : data[i] = "#"
           text == [error |-> "none", parts |-> InheritHeaderPaths(SplitText(data))]
           split == SplitOutbound(data)
           n == Len(message)
<1>1. DOMAIN message = 1..n
  OBVIOUS
<1>2. (\E k \in DOMAIN message : message[k].arg \in {"block", "cut"}) => hash
  <2>1. PICK off : Laid(message, data, off)
    BY LaidOut
  <2> SUFFICES ASSUME NEW k \in DOMAIN message, message[k].arg \in {"block", "cut"} PROVE hash
    OBVIOUS
  <2>2. k \in 1..n /\ Stands(data, off[k - 1], Written(message[k]))
    BY <1>1, <2>1 DEF Laid
  <2>3. data \in Seq(Characters) /\ Sound(message[k])
    BY <2>2, LaidOut
  <2> HIDE DEF data
  <2> QED BY <2>2, <2>3, HashIn
<1>3. IF Cut(message) THEN scan.error # "none" ELSE scan.error = "none" /\ scan.parts = Raws(message)
  BY ScanReads
<1>4. split = IF ~hash THEN text
              ELSE IF scan.error # "none" THEN [error |-> scan.error, parts |-> <<>>]
              ELSE IF \E i \in DOMAIN scan.parts : scan.parts[i].block
                THEN [error |-> "none", parts |-> InheritHeaderPaths(scan.parts)]
              ELSE text
  BY Zenon DEF SplitOutbound
<1> HIDE DEF scan, hash
<1>5. CASE Cut(message)
  <2>1. \E k \in DOMAIN message : message[k].arg = "cut"
    BY <1>5 DEF Cut
  <2>2. hash
    BY <1>2, <2>1
  <2>3. split = [error |-> scan.error, parts |-> <<>>]
    BY <1>3, <1>4, <1>5, <2>2
  <2>4. split.error = scan.error
    <3> HIDE DEF split
    <3> QED BY <2>3
  <2> QED BY <1>3, <1>5, <2>1, <2>4
<1>6. CASE ~Cut(message)
  <2>1. ~ \E k \in DOMAIN message : message[k].arg = "cut"
    BY <1>6 DEF Cut
  <2>2. scan.error = "none" /\ scan.parts = Raws(message)
    BY <1>3, <1>6
  <2>3. InheritHeaderPaths(scan.parts) = Meant(message)
    BY <1>6, <2>2, InheritReads
  <2>4. CASE \E k \in DOMAIN message : message[k].arg = "block"
    <3>1. hash
      BY <1>2, <2>4
    <3>2. \E i \in DOMAIN Raws(message) : Raws(message)[i].block
      BY <2>4 DEF Raws, Raw
    <3>3. split = [error |-> "none", parts |-> InheritHeaderPaths(scan.parts)]
      <4> HIDE DEF split, text
      <4> QED BY <1>4, <2>2, <3>1, <3>2
    <3> QED BY <2>1, <2>3, <3>3
  <2>5. CASE ~ \E k \in DOMAIN message : message[k].arg = "block"
    <3>1. \A k \in DOMAIN message : message[k].arg \notin {"block", "cut"}
      BY <2>1, <2>5
    <3>2. SplitText(data) = Raws(message)
      BY <3>1, SplitReads
    <3>3. ~ \E i \in DOMAIN Raws(message) : Raws(message)[i].block
      BY <2>5 DEF Raws, Raw
    <3>4. split = text
      <4> HIDE DEF split, text
      <4> QED BY <1>4, <2>2, <3>3
    <3> QED BY <2>1, <2>2, <2>3, <3>2, <3>4
  <2> QED BY <2>4, <2>5
<1> QED BY <1>5, <1>6

\* What the parser makes of a message that is not cut short: one part for each of its commands.
LEMMA MessageRead ==
  ASSUME NEW message \in Seq(Items), WellFormed(message),
         ~\E k \in DOMAIN message : message[k].arg = "cut"
  PROVE  /\ SplitOutbound(Rendered(message)).error = "none"
         /\ SplitOutbound(Rendered(message)).parts = Meant(message)
         /\ Meant(message) \in Seq(Parts)
         /\ Len(Meant(message)) = Len(message) /\ DOMAIN Meant(message) = DOMAIN message
<1> DEFINE split == SplitOutbound(Rendered(message))
<1>1. split = [error |-> "none", parts |-> Meant(message)]
  BY ParserReads, Zenon
<1>2. Rendered(message) \in Seq(Characters)
  BY RenderedType
<1>3. split.parts \in Seq(Parts)
  BY <1>2, SplitOutboundType
<1> HIDE DEF split
<1>4. split.error = "none" /\ split.parts = Meant(message)
  BY <1>1
<1>5. DOMAIN Meant(message) = DOMAIN message
  BY DEF Meant
<1>6. Meant(message) \in Seq(Parts)
  BY <1>3, <1>4
<1>7. Len(Meant(message)) = Len(message)
  <2> DEFINE s == Meant(message)
  <2>1. s \in Seq(Parts) /\ DOMAIN s = DOMAIN message
    BY <1>5, <1>6
  <2> HIDE DEF s
  <2>2. DOMAIN s = 1..Len(s) /\ DOMAIN message = 1..Len(message) /\ Len(s) \in Nat /\ Len(message) \in Nat
    BY <2>1
  <2> DEFINE a == Len(s)
             b == Len(message)
  <2>3. a \in Nat /\ b \in Nat /\ 1..a = 1..b
    BY <2>1, <2>2
  <2> HIDE DEF a, b
  <2>4. (a # 0 => a \in 1..a) /\ (b # 0 => b \in 1..b)
    BY <2>3
  <2>5. (a # 0 => a \in 1..b) /\ (b # 0 => b \in 1..a)
    BY <2>3, <2>4, Zenon
  <2>6. a = b
    BY <2>3, <2>5
  <2> QED BY <2>6 DEF s, a, b
<1> QED BY <1>4, <1>5, <1>6, <1>7 DEF split

\* The message of an exchange of one command has one part.
LEMMA QueryIsOne == Len(SplitOutbound(Rendered(Query(1))).parts) <= 1
<1> DEFINE q == Query(1)
<1>1. q \in Seq(Items) /\ Len(q) = 1 /\ WellFormed(q) /\ \A k \in 1..1 : q[k].arg = "query"
  BY QueryType
<1> HIDE DEF q
<1>2. DOMAIN q = 1..1
  BY <1>1
<1>3. ~\E k \in DOMAIN q : q[k].arg = "cut"
  BY <1>1, <1>2
<1>4. SplitOutbound(Rendered(q)).parts = Meant(q) /\ Len(Meant(q)) = Len(q)
  BY <1>1, <1>3, MessageRead
<1>5. Len(SplitOutbound(Rendered(q)).parts) = 1
  BY <1>1, <1>4
<1> DEFINE len == Len(SplitOutbound(Rendered(q)).parts)
<1>6. len <= 1
  <2>1. len = 1
    BY <1>5
  <2> HIDE DEF len
  <2> QED BY <2>1
<1> QED BY <1>6, Zenon DEF q
------------------------------------------------------------------------------
\* The mock.

Accounted(m) ==
  /\ m.held <=> m.state = "OPEN"
  /\ m.opens - m.releases = IF m.held THEN 1 ELSE 0

LateBytes == {b \in Byte : b.late}

\* What the invariant says of a mock when the exchanges F have failed.
SoundMock(m, F) ==
  /\ m \in Mocks
  /\ Accounted(m)
  /\ LostMeansLate(m)
  /\ m.inbound \in Seq(Seq(Harmless(F)))

\* The failure armed in a mock is a test's, of an exchange of C, or came late.
Owned(m, C) == m.failRead.armed /\ m.failRead.id # 0 => m.failRead.id \in C \/ m.failRead.late

\* No call but open() opens.
Later(m, n) == n.opens = m.opens /\ (n.state = "OPEN" => m.state = "OPEN")

\* What came in on a dead connection is harmless, whichever exchanges failed.
LEMMA LateIsHarmless ==
  ASSUME NEW F, NEW s \in Seq(Seq(LateBytes))
  PROVE  s \in Seq(Seq(Harmless(F)))
<1>1. LateBytes \subseteq Harmless(F)
  BY DEF LateBytes, Harmless
<1>2. Seq(LateBytes) \subseteq Seq(Harmless(F))
  BY <1>1, SeqMonotonic
<1> QED BY <1>2, SeqMonotonic

\* The fields of a mock transport.
LEMMA MockFields ==
  ASSUME NEW m \in Mocks
  PROVE  /\ m.state \in {"CREATED", "OPEN", "FAULTED", "CLOSED"}
         /\ m.held \in BOOLEAN /\ m.opens \in Nat /\ m.releases \in Nat
         /\ m.inbound \in Seq(Seq(Byte))
         /\ m.failOpen \in Injections /\ m.failWrite \in Injections /\ m.failRead \in Injections
         /\ m.faults \in BOOLEAN /\ m.quiet \in BOOLEAN
BY DEF Mocks

\* An injection that is armed has an error; one that is not is NoInjection.
LEMMA Armed ==
  ASSUME NEW i \in Injections
  PROVE  /\ i.armed \in BOOLEAN /\ i.id \in Nat /\ i.late \in BOOLEAN
         /\ i.armed => i.error # "none"
         /\ ~i.armed => i = NoInjection
<1>1. CASE i = NoInjection
  BY <1>1 DEF NoInjection
<1>2. CASE i \in [armed : {TRUE}, error : {"scripted", "TransportError", "TransportTimeoutError"},
                 fault : BOOLEAN, id : Nat, late : BOOLEAN]
  BY <1>2
<1> QED BY <1>1, <1>2 DEF Injections

\* The initial injection.
LEMMA NothingArmed == NoInjection \in Injections /\ ~NoInjection.armed
BY DEF Injections, NoInjection

\* Releasing the resource balances opens and releases and changes nothing else.
LEMMA ReleaseFacts ==
  ASSUME NEW m \in Mocks, Accounted(m)
  PROVE  /\ Release(m) \in Mocks
         /\ ~Release(m).held
         /\ Release(m).opens - Release(m).releases = 0
         /\ Release(m).opens = m.opens /\ Release(m).failRead = m.failRead
         /\ Release(m).inbound = m.inbound /\ Release(m).state = m.state
<1>1. /\ m.held \in BOOLEAN /\ m.opens \in Nat /\ m.releases \in Nat
  BY MockFields
<1>2. CASE m.held
  <2>1. Release(m) = [m EXCEPT !.held = FALSE, !.releases = m.releases + 1]
    BY <1>2 DEF Release
  <2>2. [m EXCEPT !.held = FALSE, !.releases = m.releases + 1] \in Mocks
    <3>1. m.releases + 1 \in Nat
      BY <1>1
    <3> QED BY <3>1 DEF Mocks
  <2>3. /\ Release(m).held = FALSE /\ Release(m).releases = m.releases + 1
        /\ Release(m).opens = m.opens /\ Release(m).failRead = m.failRead
        /\ Release(m).inbound = m.inbound /\ Release(m).state = m.state
    BY <2>1 DEF Mocks
  <2>4. m.opens - m.releases = 1
    BY <1>2 DEF Accounted
  <2>5. m.opens - (m.releases + 1) = 0
    BY <1>1, <2>4
  <2> QED BY <2>1, <2>2, <2>3, <2>5
<1>3. CASE ~m.held
  BY <1>3 DEF Release, Accounted
<1> QED BY <1>1, <1>2, <1>3

\* A fault releases the resource and empties the receive buffer.
LEMMA FaultFacts ==
  ASSUME NEW m \in Mocks, Accounted(m), NEW F
  PROVE  /\ SoundMock(Fault(m), F)
         /\ Fault(m).state = "FAULTED" /\ Fault(m).failRead = m.failRead
         /\ Fault(m).inbound = <<>>
         /\ Later(m, Fault(m))
<1> DEFINE r == Release(m)
           f == Fault(m)
<1>1. /\ r \in Mocks /\ ~r.held /\ r.opens - r.releases = 0
      /\ r.opens = m.opens /\ r.failRead = m.failRead
  BY ReleaseFacts
<1>2. f = [r EXCEPT !.inbound = <<>>, !.state = "FAULTED"]
  BY DEF Fault
<1> HIDE DEF r, f
<1>3. f \in Mocks
  <2>1. <<>> \in Seq(Seq(Byte))
    OBVIOUS
  <2> QED BY <1>1, <1>2, <2>1 DEF Mocks
<1>4. /\ f.held = r.held /\ f.opens = r.opens /\ f.releases = r.releases /\ f.state = "FAULTED"
      /\ f.inbound = <<>> /\ f.failRead = r.failRead
  BY <1>1, <1>2 DEF Mocks
<1>5. Accounted(f)
  BY <1>1, <1>4 DEF Accounted
<1>6. f.inbound \in Seq(Seq(LateBytes)) /\ f.inbound \in Seq(Seq(Harmless(F)))
  BY <1>4
<1> QED BY <1>1, <1>3, <1>4, <1>5, <1>6 DEF SoundMock, LostMeansLate, LateBytes, Later, f

\* What the drop of a connection leaves is harmless whoever failed.
LEMMA InvalidateFacts ==
  ASSUME NEW F, NEW m, SoundMock(m, F), NEW G
  PROVE  /\ SoundMock(Invalidate(m), G)
         /\ Invalidate(m).state # "OPEN" /\ Invalidate(m).failRead = m.failRead
         /\ Later(m, Invalidate(m))
<1>1. m \in Mocks /\ Accounted(m) /\ LostMeansLate(m)
  BY DEF SoundMock
<1>2. CASE m.state = "OPEN"
  <2>1. Invalidate(m) = Fault(m)
    BY <1>2 DEF Invalidate
  <2> QED BY <1>1, <2>1, FaultFacts
<1>3. CASE m.state # "OPEN"
  <2>1. Invalidate(m) = m
    BY <1>3 DEF Invalidate
  <2>2. m.inbound \in Seq(Seq(Harmless(G)))
    BY <1>1, <1>3, LateIsHarmless DEF LostMeansLate, LateBytes
  <2> QED BY <1>1, <1>3, <2>1, <2>2 DEF SoundMock, Later
<1> QED BY <1>2, <1>3

\* Bytes that are fed are late if the connection is lost.
LEMMA FeedFacts ==
  ASSUME NEW F, NEW m, SoundMock(m, F), NEW bytes \in Seq(Harmless(F)),
         m.state # "OPEN" => bytes \in Seq(LateBytes)
  PROVE  /\ SoundMock(Feed(m, bytes), F)
         /\ Feed(m, bytes).state = m.state /\ Feed(m, bytes).failRead = m.failRead
         /\ Feed(m, bytes).opens = m.opens
<1> DEFINE f == Feed(m, bytes)
<1>1. m \in Mocks /\ Accounted(m) /\ LostMeansLate(m) /\ m.inbound \in Seq(Seq(Harmless(F)))
  BY DEF SoundMock
<1>2. f = [m EXCEPT !.inbound = Append(m.inbound, bytes)]
  BY DEF Feed
<1> HIDE DEF f
<1>3. Append(m.inbound, bytes) \in Seq(Seq(Harmless(F)))
  BY <1>1, AppendProperties
<1>4. Append(m.inbound, bytes) \in Seq(Seq(Byte))
  <2>1. Harmless(F) \subseteq Byte
    BY DEF Harmless
  <2>2. Seq(Harmless(F)) \subseteq Seq(Byte)
    BY <2>1, SeqMonotonic
  <2> QED BY <1>3, <2>2, SeqMonotonic
<1>5. f \in Mocks
  BY <1>1, <1>2, <1>4 DEF Mocks
<1>6. /\ f.held = m.held /\ f.opens = m.opens /\ f.releases = m.releases /\ f.state = m.state
      /\ f.inbound = Append(m.inbound, bytes) /\ f.failRead = m.failRead
  BY <1>1, <1>2 DEF Mocks
<1>7. LostMeansLate(f)
  <2>1. m.state # "OPEN" => Append(m.inbound, bytes) \in Seq(Seq(LateBytes))
    BY <1>1, AppendProperties DEF LostMeansLate, LateBytes
  <2> QED BY <1>6, <2>1 DEF LostMeansLate, LateBytes
<1> QED BY <1>1, <1>3, <1>5, <1>6, <1>7 DEF SoundMock, Accounted, f

\* A mock with other bytes in it, while it is OPEN.
LEMMA InboundFacts ==
  ASSUME NEW F, NEW m, SoundMock(m, F), m.state = "OPEN", NEW x \in Seq(Seq(Harmless(F)))
  PROVE  /\ SoundMock([m EXCEPT !.inbound = x], F)
         /\ [m EXCEPT !.inbound = x].state = "OPEN"
         /\ [m EXCEPT !.inbound = x].failRead = m.failRead
         /\ [m EXCEPT !.inbound = x].opens = m.opens
<1> DEFINE f == [m EXCEPT !.inbound = x]
<1>1. m \in Mocks /\ Accounted(m)
  BY DEF SoundMock
<1>2. x \in Seq(Seq(Byte))
  <2>1. Harmless(F) \subseteq Byte
    BY DEF Harmless
  <2>2. Seq(Harmless(F)) \subseteq Seq(Byte)
    BY <2>1, SeqMonotonic
  <2> QED BY <2>2, SeqMonotonic
<1>3. f \in Mocks
  BY <1>1, <1>2 DEF Mocks
<1>4. /\ f.held = m.held /\ f.opens = m.opens /\ f.releases = m.releases /\ f.state = m.state
      /\ f.inbound = x /\ f.failRead = m.failRead
  BY <1>1 DEF Mocks
<1> HIDE DEF f
<1>5. SoundMock(f, F)
  BY <1>1, <1>3, <1>4 DEF SoundMock, Accounted, LostMeansLate
<1> QED BY <1>4, <1>5 DEF f

\* An injection taken or armed changes nothing else.
LEMMA InjectionFacts ==
  ASSUME NEW F, NEW m, SoundMock(m, F), NEW kind \in Injectable, NEW i \in Injections
  PROVE  LET f == [m EXCEPT ![kind] = i] IN
         /\ SoundMock(f, F)
         /\ f.state = m.state /\ f.opens = m.opens
         /\ f.failRead = IF kind = "failRead" THEN i ELSE m.failRead
<1> DEFINE f == [m EXCEPT ![kind] = i]
<1>1. /\ m \in Mocks /\ Accounted(m) /\ LostMeansLate(m) /\ m.inbound \in Seq(Seq(Harmless(F)))
      /\ kind = "failOpen" \/ kind = "failWrite" \/ kind = "failRead"
  BY DEF SoundMock, Injectable
<1>2. f \in Mocks
  BY <1>1 DEF Mocks
<1>3. /\ f.held = m.held /\ f.opens = m.opens /\ f.releases = m.releases /\ f.state = m.state
      /\ f.inbound = m.inbound /\ f.failRead = IF kind = "failRead" THEN i ELSE m.failRead
  BY <1>1 DEF Mocks
<1> HIDE DEF f
<1>4. SoundMock(f, F)
  BY <1>1, <1>2, <1>3 DEF SoundMock, Accounted, LostMeansLate
<1> QED BY <1>3, <1>4 DEF f

\* What a call on a mock may leave, and return: bytes of no exchange in F, but late ones.
SoundEnd(m, end, F) ==
  /\ SoundMock(end.mock, F)
  /\ Later(m, end.mock)
  /\ end.error # "none" => end.data = <<>>
  /\ end.data \in Seq(Harmless(F))

\* The outcome of a call that returns.
LEMMA ReturnedFacts ==
  ASSUME NEW m, NEW data
  PROVE  Returned(m, data).mock = m /\ Returned(m, data).error = "none" /\ Returned(m, data).data = data
BY DEF Returned

\* The outcome of a call that raises.
LEMMA RaisedFacts ==
  ASSUME NEW m, NEW error
  PROVE  Raised(m, error).mock = m /\ Raised(m, error).error = error /\ Raised(m, error).data = <<>>
BY DEF Raised

\* A call that raises leaves a sound mock if it raises on one.
LEMMA RaisedSound ==
  ASSUME NEW F, NEW m, NEW n, NEW error, SoundMock(n, F), Later(m, n)
  PROVE  SoundEnd(m, Raised(n, error), F)
<1>1. <<>> \in Seq(Harmless(F))
  OBVIOUS
<1> QED BY <1>1, RaisedFacts DEF SoundEnd

\* So does a call that returns, with data that no failed exchange left.
LEMMA ReturnedSound ==
  ASSUME NEW F, NEW m, NEW n, NEW data \in Seq(Harmless(F)), SoundMock(n, F), Later(m, n)
  PROVE  SoundEnd(m, Returned(n, data), F)
BY ReturnedFacts DEF SoundEnd

\* A mock that did not change.
LEMMA LaterSame == \A m : Later(m, m)
BY DEF Later

\* A timeout faults the mock, unless the test turned that off.
LEMMA TimedOutFacts ==
  ASSUME NEW F, NEW m, SoundMock(m, F)
  PROVE  /\ SoundEnd(m, TimedOut(m), F)
         /\ TimedOut(m).mock.failRead = m.failRead
         /\ TimedOut(m).error = "TransportTimeoutError"
<1>1. m \in Mocks /\ Accounted(m)
  BY DEF SoundMock
<1> DEFINE n == IF m.faults THEN Fault(m) ELSE m
<1>2. SoundMock(n, F) /\ Later(m, n) /\ n.failRead = m.failRead
  BY <1>1, FaultFacts, LaterSame
<1>3. TimedOut(m) = Raised(n, "TransportTimeoutError")
  BY DEF TimedOut
<1> HIDE DEF n
<1> QED BY <1>2, <1>3, RaisedSound, RaisedFacts

\* What is taken from the receive buffer and what stays in it was in it.
LEMMA ConsumeFacts ==
  ASSUME NEW F, NEW m, SoundMock(m, F), m.state = "OPEN",
         NEW n \in Nat, n <= Len(FlattenSeq(m.inbound))
  PROVE  SoundEnd(m, Consume(m, n), F) /\ Consume(m, n).mock.failRead = m.failRead
<1> DEFINE L == Harmless(F)
           s == m.inbound
           S == {k \in 0..Len(s) : Len(FlattenSeq(SubSeq(s, 1, k))) <= n}
           whole == Max(S)
           cut == n - Len(FlattenSeq(SubSeq(s, 1, whole)))
           rest == SubSeq(s, whole + 1, Len(s))
           x == IF cut = 0 THEN rest
                ELSE <<SubSeq(Head(rest), cut + 1, Len(Head(rest)))>> \o Tail(rest)
           data == SubSeq(FlattenSeq(s), 1, n)
<1>1. s \in Seq(Seq(L)) /\ Len(s) \in Nat /\ FlattenSeq(s) \in Seq(L)
  BY FlattenType DEF SoundMock
<1>2. Consume(m, n) = Returned([m EXCEPT !.inbound = x], data)
  BY DEF Consume
<1>3. data \in Seq(L)
  <2>1. \A k \in 1..n : FlattenSeq(s)[k] \in L
    BY <1>1
  <2> QED BY <2>1, SubSeqProperties
<1> HIDE DEF s, L
<1>4. \A k \in 0..Len(s) : Len(FlattenSeq(SubSeq(s, 1, k))) \in Nat
  <2> SUFFICES ASSUME NEW k \in 0..Len(s) PROVE Len(FlattenSeq(SubSeq(s, 1, k))) \in Nat
    OBVIOUS
  <2>1. k \in (1 - 1)..Len(s) /\ 1 \in 1..(Len(s) + 1)
    BY <1>1
  <2>2. FlattenSeq(SubSeq(s, 1, k)) \in Seq(L)
    BY <1>1, <2>1, PrefixBytes
  <2> QED BY <2>2
<1>5. whole \in 0..Len(s) /\ Len(FlattenSeq(SubSeq(s, 1, whole))) <= n
  <2>1. Len(FlattenSeq(SubSeq(s, 1, 0))) = 0
    <3>1. SubSeq(s, 1, 0) = <<>>
      OBVIOUS
    <3>2. FlattenSeq(SubSeq(s, 1, 0)) = <<>>
      BY <3>1, FlattenEmpty, Zenon
    <3>3. Len(<<>>) = 0
      OBVIOUS
    <3> QED BY <3>2, <3>3, Zenon
  <2>2. 0 \in S
    BY <1>1, <2>1
  <2>3. S \subseteq 0..Len(s) /\ S # {}
    BY <2>2
  <2> HIDE DEF S
  <2>4. Max(S) \in S
    BY <1>1, <2>3, MaxFacts
  <2> QED BY <2>4 DEF S
<1>6. cut \in Nat
  BY <1>4, <1>5
<1>7. rest \in Seq(Seq(L))
  <2>1. \A k \in (whole + 1)..Len(s) : s[k] \in Seq(L)
    BY <1>1, <1>5
  <2> HIDE DEF whole
  <2> QED BY <1>1, <1>5, <2>1, SubSeqProperties
<1>8. cut # 0 => rest # <<>>
  <2> SUFFICES ASSUME cut # 0, rest = <<>> PROVE FALSE
    OBVIOUS
  <2> HIDE DEF whole
  <2>1. whole = Len(s)
    <3>1. Len(rest) = IF whole + 1 <= Len(s) THEN Len(s) - (whole + 1) + 1 ELSE 0
      BY <1>1, <1>5
    <3>2. Len(rest) = 0
      <4>1. Len(<<>>) = 0
        OBVIOUS
      <4> HIDE DEF rest
      <4> QED BY <4>1, Zenon
    <3> HIDE DEF rest
    <3> QED BY <1>1, <1>5, <3>1, <3>2
  <2>2. SubSeq(s, 1, whole) = s
    BY <1>1, <2>1, SubSeqFull
  <2>3. /\ Len(FlattenSeq(s)) <= n /\ n <= Len(FlattenSeq(s))
        /\ Len(FlattenSeq(s)) \in Nat
    <3>1. Len(FlattenSeq(s)) <= n
      BY <1>5, <2>2
    <3>2. n <= Len(FlattenSeq(s))
      BY DEF s
    <3>3. Len(FlattenSeq(s)) \in Nat
      BY <1>1
    <3> QED BY <3>1, <3>2, <3>3
  <2>4. cut = n - Len(FlattenSeq(s))
    BY <2>2
  <2> QED BY <2>3, <2>4
<1> HIDE DEF rest, cut, data
<1>9. x \in Seq(Seq(L))
  <2>1. CASE cut = 0
    BY <1>7, <2>1
  <2>2. CASE cut # 0
    <3> DEFINE h == Head(rest)
    <3>1. h \in Seq(L) /\ Tail(rest) \in Seq(Seq(L))
      BY <1>7, <1>8, <2>2, HeadTailProperties
    <3> HIDE DEF h
    <3>2. SubSeq(h, cut + 1, Len(h)) \in Seq(L)
      <4>1. \A k \in (cut + 1)..Len(h) : h[k] \in L
        BY <1>6, <3>1
      <4>2. Len(h) \in Int /\ cut + 1 \in Int
        BY <1>6, <3>1
      <4> QED BY <4>1, <4>2, SubSeqProperties
    <3>3. <<SubSeq(h, cut + 1, Len(h))>> \in Seq(Seq(L))
      BY <3>2, Short
    <3>4. <<SubSeq(h, cut + 1, Len(h))>> \o Tail(rest) \in Seq(Seq(L))
      BY <3>1, <3>3, ConcatProperties
    <3> QED BY <2>2, <3>4 DEF h
  <2> QED BY <2>1, <2>2
<1> HIDE DEF x
<1>10. /\ SoundMock([m EXCEPT !.inbound = x], F)
       /\ [m EXCEPT !.inbound = x].failRead = m.failRead
       /\ Later(m, [m EXCEPT !.inbound = x])
  BY <1>9, InboundFacts DEF L, Later
<1> DEFINE f == [m EXCEPT !.inbound = x]
<1>11. SoundMock(f, F) /\ f.failRead = m.failRead /\ Later(m, f) /\ Consume(m, n) = Returned(f, data)
  BY <1>2, <1>10
<1>12. data \in Seq(Harmless(F))
  BY <1>3 DEF L
<1> HIDE DEF f
<1>13. SoundEnd(m, Returned(f, data), F)
  BY <1>11, <1>12, ReturnedSound
<1> QED BY <1>11, <1>13, ReturnedFacts

RequestSet == [mode : {"message", "available", "exact", "upto", "line"}, size : Nat]

\* A read of any kind takes from the receive buffer, raises, or times out.
LEMMA ReadBufferedFacts ==
  ASSUME NEW F, NEW m, SoundMock(m, F), m.state = "OPEN", NEW request \in RequestSet
  PROVE  SoundEnd(m, ReadBuffered(m, request), F) /\ ReadBuffered(m, request).mock.failRead = m.failRead
<1> DEFINE stream == FlattenSeq(m.inbound)
           ends == {i \in 1..Len(stream) : stream[i].last}
           end == ReadBuffered(m, request)
           Fine(e) == SoundEnd(m, e, F) /\ e.mock.failRead = m.failRead
<1>1. m.inbound \in Seq(Seq(Harmless(F)))
  BY DEF SoundMock
<1>2. stream \in Seq(Harmless(F)) /\ Len(stream) \in Nat
  BY <1>1, FlattenType
<1>3. request.size \in Nat /\ request.mode \in {"message", "available", "exact", "upto", "line"}
  BY DEF RequestSet
<1>4. Fine(TimedOut(m))
  BY TimedOutFacts
<1>5. \A e : Fine(Raised(m, e))
  BY LaterSame, RaisedSound, RaisedFacts
<1>6. \A n \in Nat : n <= Len(stream) => Fine(Consume(m, n))
  BY ConsumeFacts
<1>7. Fine(Returned(m, <<>>))
  <2>1. <<>> \in Seq(Harmless(F))
    OBVIOUS
  <2> QED BY <2>1, LaterSame, ReturnedSound, ReturnedFacts
<1> HIDE DEF Fine
<1>8. CASE request.mode = "message"
  <2> DEFINE popped == [m EXCEPT !.inbound = Tail(m.inbound)]
  <2>1. end = IF m.inbound = <<>> THEN TimedOut(m)
              ELSE IF Len(Head(m.inbound)) > request.size THEN Raised(popped, "TransportError")
              ELSE Returned(popped, Head(m.inbound))
    BY <1>8 DEF ReadBuffered
  <2>2. CASE m.inbound # <<>>
    <3>1. Head(m.inbound) \in Seq(Harmless(F)) /\ Tail(m.inbound) \in Seq(Seq(Harmless(F)))
      BY <1>1, <2>2, HeadTailProperties
    <3>2. SoundMock(popped, F) /\ Later(m, popped) /\ popped.failRead = m.failRead
      BY <3>1, InboundFacts DEF Later
    <3> HIDE DEF popped
    <3>3. Fine(Raised(popped, "TransportError")) /\ Fine(Returned(popped, Head(m.inbound)))
      BY <3>1, <3>2, RaisedSound, ReturnedSound, RaisedFacts, ReturnedFacts DEF Fine
    <3> HIDE DEF end
    <3>4. Fine(end)
      BY <2>1, <2>2, <3>3
    <3> QED BY <3>4 DEF Fine, end
  <2>3. CASE m.inbound = <<>>
    <3>1. Fine(end)
      BY <1>4, <2>1, <2>3
    <3> QED BY <3>1 DEF Fine
  <2> QED BY <2>2, <2>3
<1> HIDE DEF stream
<1>9. CASE request.mode = "exact"
  <2>1. end = IF Len(stream) < request.size THEN TimedOut(m) ELSE Consume(m, request.size)
    BY <1>9 DEF ReadBuffered, stream
  <2>2. Fine(end)
    BY <1>2, <1>3, <1>4, <1>6, <2>1
  <2> QED BY <2>2 DEF Fine
<1>10. CASE request.mode \in {"available", "upto"}
  <2> DEFINE T == {Len(stream), request.size}
  <2>1. end = IF stream = <<>>
                THEN IF m.quiet /\ request.mode = "available" THEN Returned(m, <<>>) ELSE TimedOut(m)
              ELSE Consume(m, Min(T))
    BY <1>10 DEF ReadBuffered, stream
  <2>2. Min(T) \in T /\ \A y \in T : Min(T) <= y
    BY <1>2, <1>3, MinFacts
  <2>3. Min(T) \in Nat /\ Min(T) <= Len(stream)
    BY <1>2, <1>3, <2>2
  <2> HIDE DEF T
  <2>4. Fine(end)
    BY <1>4, <1>6, <1>7, <2>1, <2>3
  <2> QED BY <2>4 DEF Fine
<1>11. CASE request.mode = "line"
  <2>1. end = IF ends = {} THEN IF Len(stream) >= request.size THEN Raised(m, "TransportError") ELSE TimedOut(m)
              ELSE IF Min(ends) > request.size THEN Raised(m, "TransportError")
              ELSE Consume(m, Min(ends))
    BY <1>11 DEF ReadBuffered, stream
  <2>2. CASE ends # {}
    <3>1. ends \subseteq Nat /\ ends \subseteq 1..Len(stream)
      OBVIOUS
    <3> HIDE DEF ends
    <3>2. Min(ends) \in ends
      BY <2>2, <3>1, MinFacts
    <3>3. Min(ends) \in Nat /\ Min(ends) <= Len(stream)
      <4> DEFINE k == Min(ends)
                 n == Len(stream)
      <4>1. k \in 1..n /\ n \in Nat
        BY <1>2, <3>1, <3>2
      <4> HIDE DEF k, n
      <4>2. k \in Nat /\ k <= n
        BY <4>1
      <4> QED BY <4>2 DEF k, n
    <3>4. Fine(end)
      BY <1>5, <1>6, <2>1, <2>2, <3>3
    <3> QED BY <3>4 DEF Fine
  <2>3. CASE ends = {}
    <3>1. Fine(end)
      BY <1>4, <1>5, <2>1, <2>3
    <3> QED BY <3>1 DEF Fine
  <2> QED BY <2>2, <2>3
<1> QED BY <1>3, <1>8, <1>9, <1>10, <1>11

\* MockTransport.read(): the armed failure of the read, or what is in the buffer.
LEMMA MockReadFacts ==
  ASSUME NEW F, NEW m, SoundMock(m, F), NEW request \in RequestSet, NEW C
  PROVE  /\ SoundEnd(m, MockRead(m, request), F)
         /\ Owned(m, C) \/ m.state = "OPEN" => Owned(MockRead(m, request).mock, C)
<1> DEFINE end == MockRead(m, request)
           taken == [m EXCEPT !.failRead = NoInjection]
<1>1. m \in Mocks /\ Accounted(m)
  BY DEF SoundMock
<1>2. /\ m.failRead \in Injections /\ m.failRead.armed \in BOOLEAN
  BY <1>1, MockFields, Armed
<1>3. CASE m.state # "OPEN"
  <2>1. end = Raised(m, "NotConnectedError")
    BY <1>3 DEF MockRead
  <2> QED BY <1>3, <2>1, LaterSame, RaisedSound, RaisedFacts
<1>4. CASE m.state = "OPEN" /\ m.failRead.armed
  <2> DEFINE n == IF m.failRead.fault THEN Fault(taken) ELSE taken
  <2>1. end = Raised(n, m.failRead.error)
    BY <1>4 DEF MockRead
  <2>2. /\ SoundMock(taken, F) /\ taken.opens = m.opens /\ taken.state = m.state
        /\ taken.failRead = NoInjection
    <3> DEFINE kind == "failRead"
    <3>1. kind \in Injectable /\ NoInjection \in Injections
      BY NothingArmed DEF Injectable
    <3>2. LET f == [m EXCEPT ![kind] = NoInjection] IN
          /\ SoundMock(f, F)
          /\ f.state = m.state /\ f.opens = m.opens
          /\ f.failRead = IF kind = "failRead" THEN NoInjection ELSE m.failRead
      <4> HIDE DEF kind
      <4> QED BY <3>1, InjectionFacts
    <3> QED BY <3>2
  <2> HIDE DEF taken
  <2>3. SoundMock(n, F) /\ Later(m, n) /\ n.failRead = NoInjection
    <3>1. taken \in Mocks /\ Accounted(taken) /\ Later(m, taken)
      BY <2>2 DEF SoundMock, Later
    <3>2. SoundMock(Fault(taken), F) /\ Later(taken, Fault(taken)) /\ Fault(taken).failRead = NoInjection
      BY <2>2, <3>1, FaultFacts
    <3> QED BY <2>2, <3>1, <3>2 DEF Later
  <2> HIDE DEF n
  <2>4. Owned(n, C)
    BY <2>3, NothingArmed DEF Owned
  <2>5. SoundEnd(m, Raised(n, m.failRead.error), F) /\ Raised(n, m.failRead.error).mock = n
    BY <2>3, RaisedSound, RaisedFacts
  <2> QED BY <2>1, <2>4, <2>5
<1>5. CASE m.state = "OPEN" /\ ~m.failRead.armed
  <2>1. end = ReadBuffered(m, request)
    BY <1>5 DEF MockRead
  <2>2. SoundEnd(m, end, F) /\ end.mock.failRead = m.failRead
    BY <1>5, <2>1, ReadBufferedFacts
  <2> QED BY <1>5, <2>2 DEF Owned
<1> QED BY <1>2, <1>3, <1>4, <1>5

\* MockTransport.write() that succeeds leaves the mock as it was.
LEMMA MockWriteFacts ==
  ASSUME NEW F, NEW m, SoundMock(m, F)
  PROVE  /\ SoundEnd(m, MockWrite(m), F)
         /\ MockWrite(m).mock.failRead = m.failRead
         /\ MockWrite(m).error = "none" => MockWrite(m).mock = m /\ m.state = "OPEN"
<1> DEFINE end == MockWrite(m)
           taken == [m EXCEPT !.failWrite = NoInjection]
<1>1. m \in Mocks /\ Accounted(m)
  BY DEF SoundMock
<1>2. m.failWrite \in Injections /\ m.failWrite.armed \in BOOLEAN /\ (m.failWrite.armed => m.failWrite.error # "none")
  BY <1>1, MockFields, Armed
<1>3. CASE m.state # "OPEN"
  <2>1. end = Raised(m, "NotConnectedError")
    BY <1>3 DEF MockWrite
  <2> QED BY <1>3, <2>1, LaterSame, RaisedSound, RaisedFacts
<1>4. CASE m.state = "OPEN" /\ m.failWrite.armed
  <2> DEFINE n == IF m.failWrite.fault THEN Fault(taken) ELSE taken
  <2>1. end = Raised(n, m.failWrite.error)
    BY <1>4 DEF MockWrite
  <2>2. /\ SoundMock(taken, F) /\ taken.opens = m.opens /\ taken.state = m.state
        /\ taken.failRead = m.failRead
    <3> DEFINE kind == "failWrite"
    <3>1. kind \in Injectable /\ NoInjection \in Injections
      BY NothingArmed DEF Injectable
    <3>2. LET f == [m EXCEPT ![kind] = NoInjection] IN
          /\ SoundMock(f, F)
          /\ f.state = m.state /\ f.opens = m.opens
          /\ f.failRead = IF kind = "failRead" THEN NoInjection ELSE m.failRead
      <4> HIDE DEF kind
      <4> QED BY <3>1, InjectionFacts
    <3> QED BY <3>2
  <2> HIDE DEF taken
  <2>3. SoundMock(n, F) /\ Later(m, n) /\ n.failRead = m.failRead
    <3>1. taken \in Mocks /\ Accounted(taken) /\ Later(m, taken)
      BY <2>2 DEF SoundMock, Later
    <3>2. SoundMock(Fault(taken), F) /\ Later(taken, Fault(taken)) /\ Fault(taken).failRead = taken.failRead
      BY <2>2, <3>1, FaultFacts
    <3> QED BY <2>2, <3>1, <3>2 DEF Later
  <2> HIDE DEF n
  <2>4. /\ SoundEnd(m, Raised(n, m.failWrite.error), F) /\ Raised(n, m.failWrite.error).mock = n
        /\ Raised(n, m.failWrite.error).error = m.failWrite.error
    BY <2>3, RaisedSound, RaisedFacts
  <2> QED BY <1>2, <1>4, <2>1, <2>3, <2>4
<1>5. CASE m.state = "OPEN" /\ ~m.failWrite.armed
  <2>1. end = Returned(m, <<>>)
    BY <1>5 DEF MockWrite
  <2>2. <<>> \in Seq(Harmless(F))
    OBVIOUS
  <2>3. SoundEnd(m, Returned(m, <<>>), F)
    BY <2>2, LaterSame, ReturnedSound
  <2>4. Returned(m, <<>>).mock = m
    BY ReturnedFacts
  <2> QED BY <1>5, <2>1, <2>3, <2>4
<1> QED BY <1>2, <1>3, <1>4, <1>5

\* MockTransport.flush_input() and flush_output().
LEMMA MockFlushFacts ==
  ASSUME NEW F, NEW m, SoundMock(m, F), NEW input
  PROVE  /\ SoundMock(MockFlush(m, input).mock, F) /\ Later(m, MockFlush(m, input).mock)
         /\ MockFlush(m, input).mock.failRead = m.failRead
<1> DEFINE n == IF input THEN [m EXCEPT !.inbound = <<>>] ELSE m
<1>1. CASE m.state # "OPEN"
  <2>1. MockFlush(m, input) = Raised(m, "NotConnectedError")
    BY <1>1 DEF MockFlush
  <2> QED BY <2>1, LaterSame, RaisedFacts
<1>2. CASE m.state = "OPEN"
  <2>1. MockFlush(m, input) = Returned(n, <<>>)
    BY <1>2 DEF MockFlush
  <2>2. <<>> \in Seq(Seq(Harmless(F)))
    OBVIOUS
  <2>3. SoundMock(n, F) /\ Later(m, n) /\ n.failRead = m.failRead
    BY <1>2, <2>2, InboundFacts, LaterSame, ZenonT(40) DEF Later
  <2> HIDE DEF n
  <2> QED BY <2>1, <2>3, ReturnedFacts
<1> QED BY <1>1, <1>2

\* MockTransport.close().
LEMMA MockCloseFacts ==
  ASSUME NEW F, NEW m, SoundMock(m, F)
  PROVE  /\ SoundMock(MockClose(m), F) /\ Later(m, MockClose(m))
         /\ MockClose(m).failRead = m.failRead
<1> DEFINE r == Release(m)
           f == MockClose(m)
<1>1. m \in Mocks /\ Accounted(m)
  BY DEF SoundMock
<1>2. /\ r \in Mocks /\ ~r.held /\ r.opens - r.releases = 0
      /\ r.opens = m.opens /\ r.failRead = m.failRead
  BY <1>1, ReleaseFacts
<1>3. CASE m.state \notin Live
  <2>1. f = m
    BY <1>3 DEF MockClose
  <2> QED BY <2>1, LaterSame
<1>4. CASE m.state \in Live
  <2>1. f = [r EXCEPT !.inbound = <<>>, !.state = "CLOSED"]
    BY <1>4 DEF MockClose
  <2> HIDE DEF r, f
  <2>2. f \in Mocks
    <3>1. <<>> \in Seq(Seq(Byte))
      OBVIOUS
    <3> QED BY <1>2, <2>1, <3>1 DEF Mocks
  <2>3. /\ f.held = r.held /\ f.opens = r.opens /\ f.releases = r.releases /\ f.state = "CLOSED"
        /\ f.inbound = <<>> /\ f.failRead = r.failRead
    BY <1>2, <2>1 DEF Mocks
  <2>4. Accounted(f)
    BY <1>2, <2>3 DEF Accounted
  <2>5. f.inbound \in Seq(Seq(LateBytes)) /\ f.inbound \in Seq(Seq(Harmless(F)))
    BY <2>3
  <2> QED BY <1>2, <2>2, <2>3, <2>4, <2>5 DEF SoundMock, LostMeansLate, LateBytes, Later, f
<1> QED BY <1>3, <1>4

\* MockTransport.open(): the one call after which the mock may be open.
LEMMA MockOpenFacts ==
  ASSUME NEW F, NEW m, SoundMock(m, F)
  PROVE  /\ SoundMock(MockOpen(m).mock, F)
         /\ MockOpen(m).mock.failRead = m.failRead
         /\ MockOpen(m).error # "none" => MockOpen(m).mock.state # "OPEN"
<1> DEFINE r == IF m.state = "FAULTED" THEN Release(m) ELSE m
<1>1. m \in Mocks /\ Accounted(m) /\ LostMeansLate(m) /\ m.inbound \in Seq(Seq(Harmless(F)))
  BY DEF SoundMock
<1>2. m.failOpen \in Injections /\ m.failOpen.armed \in BOOLEAN
  BY <1>1, MockFields, Armed
<1>3. CASE m.state = "OPEN"
  <2>1. MockOpen(m) = Returned(m, <<>>)
    BY <1>3 DEF MockOpen
  <2> QED BY <2>1, ReturnedFacts
<1>4. CASE m.state # "OPEN"
  <2>1. m.held \in BOOLEAN /\ ~m.held /\ m.opens \in Nat /\ m.releases \in Nat /\ m.opens - m.releases = 0
    BY <1>1, <1>4, MockFields DEF Accounted
  <2>2. r = m
    BY <2>1 DEF Release
  <2>3. CASE m.failOpen.armed
    <3> DEFINE f == [m EXCEPT !.failOpen = NoInjection, !.state = "FAULTED"]
    <3>1. MockOpen(m) = Raised(f, m.failOpen.error)
      BY <1>4, <2>2, <2>3 DEF MockOpen
    <3>2. f \in Mocks
      BY <1>1, NothingArmed DEF Mocks
    <3>3. /\ f.held = m.held /\ f.opens = m.opens /\ f.releases = m.releases /\ f.state = "FAULTED"
          /\ f.inbound = m.inbound /\ f.failRead = m.failRead
      BY <1>1 DEF Mocks
    <3> HIDE DEF f
    <3>4. SoundMock(f, F)
      BY <1>1, <1>4, <2>1, <3>2, <3>3 DEF SoundMock, Accounted, LostMeansLate
    <3> QED BY <3>1, <3>3, <3>4, RaisedFacts
  <2>4. CASE ~m.failOpen.armed
    <3> DEFINE f == [m EXCEPT !.held = TRUE, !.opens = m.opens + 1, !.state = "OPEN"]
    <3>1. MockOpen(m) = Returned(f, <<>>)
      BY <1>4, <2>2, <2>4 DEF MockOpen
    <3>2. f \in Mocks
      <4>1. m.opens + 1 \in Nat
        BY <2>1
      <4> QED BY <1>1, <4>1 DEF Mocks
    <3>3. /\ f.held = TRUE /\ f.opens = m.opens + 1 /\ f.releases = m.releases /\ f.state = "OPEN"
          /\ f.inbound = m.inbound /\ f.failRead = m.failRead
      BY <1>1 DEF Mocks
    <3> HIDE DEF f
    <3>4. (m.opens + 1) - m.releases = 1
      BY <2>1
    <3>5. Accounted(f)
      BY <3>3, <3>4 DEF Accounted
    <3>6. SoundMock(f, F)
      BY <1>1, <3>2, <3>3, <3>5 DEF SoundMock, LostMeansLate
    <3> QED BY <3>1, <3>3, <3>6, ReturnedFacts
  <2> QED BY <1>2, <2>3, <2>4
<1> QED BY <1>3, <1>4

\* The midpoint callback feeds while the mock is OPEN; the default profile drops the
\* connection of an exchange that timed out.
LEMMA MockTransactFacts ==
  ASSUME NEW F, NEW m, SoundMock(m, F), NEW bytes \in Seq(Harmless(F)), NEW request \in RequestSet,
         NEW C, Owned(m, C)
  PROVE  LET end == MockTransact(m, <<bytes>>, request) IN
         /\ SoundEnd(m, end, F)
         /\ Owned(end.mock, C)
         /\ m.faults /\ end.error = "TransportTimeoutError" => \A G : SoundMock(end.mock, G)
<1> DEFINE w == MockWrite(m)
           fed == [w.mock EXCEPT !.inbound = w.mock.inbound \o <<bytes>>]
           e == IF w.error # "none" THEN w ELSE MockRead(fed, request)
           end == MockTransact(m, <<bytes>>, request)
<1>1. /\ SoundEnd(m, w, F) /\ w.mock.failRead = m.failRead
      /\ w.error = "none" => w.mock = m /\ m.state = "OPEN"
  BY MockWriteFacts
<1> HIDE DEF w
<1>2. SoundEnd(m, e, F) /\ Owned(e.mock, C)
  <2>1. CASE w.error # "none"
    BY <1>1, <2>1 DEF Owned
  <2>2. CASE w.error = "none"
    <3> DEFINE x == m.inbound \o <<bytes>>
               f == [m EXCEPT !.inbound = x]
    <3>1. w.mock = m /\ m.state = "OPEN"
      BY <1>1, <2>2
    <3>2. x \in Seq(Seq(Harmless(F)))
      <4>1. m.inbound \in Seq(Seq(Harmless(F)))
        BY DEF SoundMock
      <4>2. <<bytes>> \in Seq(Seq(Harmless(F)))
        BY Short
      <4> QED BY <4>1, <4>2, ConcatProperties
    <3>3. fed = f
      BY <3>1
    <3> HIDE DEF x
    <3>4. SoundMock(f, F) /\ f.state = "OPEN" /\ f.failRead = m.failRead /\ f.opens = m.opens
      BY <3>1, <3>2, InboundFacts
    <3> HIDE DEF f, fed
    <3>5. e = MockRead(f, request)
      BY <2>2, <3>3
    <3>6. SoundEnd(f, MockRead(f, request), F) /\ Owned(MockRead(f, request).mock, C)
      BY <3>4, MockReadFacts
    <3>7. Later(m, MockRead(f, request).mock)
      BY <3>1, <3>4, <3>6 DEF SoundEnd, Later
    <3> HIDE DEF e
    <3> QED BY <3>5, <3>6, <3>7 DEF SoundEnd
  <2> QED BY <2>1, <2>2
<1>3. end = IF e.error = "TransportTimeoutError" /\ m.faults
              THEN Raised(Invalidate(e.mock), e.error) ELSE e
  BY DEF MockTransact, w
<1> HIDE DEF e, end
<1>4. CASE e.error = "TransportTimeoutError" /\ m.faults
  <2> DEFINE n == Invalidate(e.mock)
  <2>1. \A G : /\ SoundMock(n, G) /\ n.failRead = e.mock.failRead /\ Later(e.mock, n)
    BY <1>2, InvalidateFacts DEF SoundEnd
  <2>2. end = Raised(n, e.error)
    BY <1>3, <1>4
  <2> HIDE DEF n
  <2>3. SoundMock(n, F) /\ Later(m, n) /\ Owned(n, C)
    BY <1>2, <2>1 DEF SoundEnd, Later, Owned
  <2>4. SoundEnd(m, Raised(n, e.error), F) /\ Raised(n, e.error).mock = n
    BY <2>3, RaisedSound, RaisedFacts
  <2> QED BY <2>1, <2>2, <2>3, <2>4 DEF end
<1>5. CASE ~(e.error = "TransportTimeoutError" /\ m.faults)
  <2>1. end = e
    BY <1>3, <1>5
  <2> QED BY <1>2, <1>5, <2>1 DEF end
<1> QED BY <1>4, <1>5

------------------------------------------------------------------------------
\* The binary history.

\* The bytes of the binary history, cut anywhere and appended to.
LEMMA TotalBytesFacts ==
  ASSUME NEW b \in Seq(Parts)
  PROVE  /\ TotalBytes(b) \in Nat
         /\ \A k \in 0..Len(b) :
              /\ TotalBytes(SubSeq(b, 1, k)) \in Nat /\ TotalBytes(SubSeq(b, k + 1, Len(b))) \in Nat
              /\ TotalBytes(b) = TotalBytes(SubSeq(b, 1, k)) + TotalBytes(SubSeq(b, k + 1, Len(b)))
         /\ \A p \in Parts : TotalBytes(Append(b, p)) = TotalBytes(b) + Len(p.payload)
<1> DEFINE Of(s) == [k \in DOMAIN s |-> s[k].payload]
           T == Seq(Characters)
<1>1. \A p \in Parts : p.payload \in T
  BY DEF Parts, Payloads
<1> HIDE DEF T
<1>2. ASSUME NEW s \in Seq(Parts)
      PROVE  /\ Of(s) \in Seq(T) /\ Len(Of(s)) = Len(s) /\ TotalBytes(s) = Len(FlattenSeq(Of(s)))
             /\ TotalBytes(s) \in Nat
  <2>1. Of(s) \in Seq(T) /\ Len(Of(s)) = Len(s)
    <3>1. DOMAIN s = 1..Len(s) /\ Len(s) \in Nat /\ \A k \in 1..Len(s) : s[k] \in Parts
      OBVIOUS
    <3>2. \A k \in 1..Len(s) : s[k].payload \in T
      BY <1>1, <3>1
    <3> QED BY <3>1, <3>2
  <2>2. TotalBytes(s) = Len(FlattenSeq(Of(s)))
    BY DEF TotalBytes
  <2> HIDE DEF Of
  <2>3. FlattenSeq(Of(s)) \in Seq(Characters)
    BY <2>1, FlattenType DEF T
  <2>4. Len(FlattenSeq(Of(s))) \in Nat
    BY <2>3
  <2> QED BY <2>1, <2>2, <2>4
<1>3. ASSUME NEW k \in 0..Len(b)
      PROVE  /\ TotalBytes(SubSeq(b, 1, k)) \in Nat /\ TotalBytes(SubSeq(b, k + 1, Len(b))) \in Nat
             /\ TotalBytes(b) = TotalBytes(SubSeq(b, 1, k)) + TotalBytes(SubSeq(b, k + 1, Len(b)))
  <2> DEFINE n == Len(b)
             c == SubSeq(b, 1, k)
             d == SubSeq(b, k + 1, n)
             o == Of(b)
  <2>1. n \in Nat /\ k \in 0..n
    OBVIOUS
  <2>2. /\ c \in Seq(Parts) /\ Len(c) = k /\ \A i \in 1..k : c[i] = b[i]
    OBVIOUS
  <2>3. /\ d \in Seq(Parts) /\ Len(d) = n - k /\ \A i \in 1..(n - k) : d[i] = b[k + i]
    <3>1. \A i \in (k + 1)..n : b[i] \in Parts
      OBVIOUS
    <3>2. k + 1 \in Int /\ n \in Int
      BY <2>1
    <3> HIDE DEF n
    <3>3. /\ SubSeq(b, k + 1, n) \in Seq(Parts)
          /\ Len(SubSeq(b, k + 1, n)) = IF k + 1 <= n THEN n - (k + 1) + 1 ELSE 0
          /\ \A i \in 1..(n - (k + 1) + 1) : SubSeq(b, k + 1, n)[i] = b[(k + 1) + i - 1]
      BY <3>1, <3>2, SubSeqProperties
    <3> HIDE DEF d
    <3>4. /\ d \in Seq(Parts) /\ Len(d) = n - k
          /\ \A i \in 1..(n - k) : d[i] = b[(k + 1) + i - 1]
      BY <2>1, <3>3 DEF d
    <3>5. \A i \in 1..(n - k) : (k + 1) + i - 1 = k + i
      BY <2>1
    <3> QED BY <3>4, <3>5
  <2> HIDE DEF c, d
  <2>4. o \in Seq(T) /\ Len(o) = n /\ TotalBytes(b) = Len(FlattenSeq(o))
    BY <1>2
  <2>5. Of(c) \in Seq(T) /\ Len(Of(c)) = k /\ TotalBytes(c) = Len(FlattenSeq(Of(c))) /\ TotalBytes(c) \in Nat
    BY <1>2, <2>2
  <2>6. Of(d) \in Seq(T) /\ Len(Of(d)) = n - k /\ TotalBytes(d) = Len(FlattenSeq(Of(d))) /\ TotalBytes(d) \in Nat
    BY <1>2, <2>3
  <2>7. \A i \in 1..n : o[i] = b[i].payload
    BY <2>1
  <2>8. (\A i \in 1..k : Of(c)[i] = c[i].payload) /\ (\A i \in 1..(n - k) : Of(d)[i] = d[i].payload)
    BY <2>2, <2>3
  <2> HIDE DEF o, Of
  <2>9. Of(c) = SubSeq(o, 1, k)
    <3>1. SubSeq(o, 1, k) \in Seq(T) /\ Len(SubSeq(o, 1, k)) = k /\ \A i \in 1..k : SubSeq(o, 1, k)[i] = o[i]
      BY <2>1, <2>4
    <3>2. \A i \in 1..k : Of(c)[i] = o[i]
      <4> SUFFICES ASSUME NEW i \in 1..k PROVE Of(c)[i] = o[i]
        OBVIOUS
      <4>1. i \in 1..n
        BY <2>1
      <4> QED BY <2>2, <2>7, <2>8, <4>1
    <3> QED BY <2>5, <3>1, <3>2, SeqEqual
  <2>10. Of(d) = SubSeq(o, k + 1, n)
    <3>1. \A i \in (k + 1)..n : o[i] \in T
      BY <2>1, <2>4
    <3>2. k + 1 \in Int /\ n \in Int
      BY <2>1
    <3> HIDE DEF n
    <3>3. /\ SubSeq(o, k + 1, n) \in Seq(T)
          /\ Len(SubSeq(o, k + 1, n)) = IF k + 1 <= n THEN n - (k + 1) + 1 ELSE 0
          /\ \A i \in 1..(n - (k + 1) + 1) : SubSeq(o, k + 1, n)[i] = o[(k + 1) + i - 1]
      BY <3>1, <3>2, SubSeqProperties
    <3>4. Len(SubSeq(o, k + 1, n)) = n - k /\ \A i \in 1..(n - k) : SubSeq(o, k + 1, n)[i] = o[k + i]
      <4>1. n - (k + 1) + 1 = n - k /\ \A i \in 1..(n - k) : (k + 1) + i - 1 = k + i
        BY <2>1
      <4> QED BY <2>1, <3>3, <4>1
    <3>5. \A i \in 1..(n - k) : Of(d)[i] = o[k + i]
      <4> SUFFICES ASSUME NEW i \in 1..(n - k) PROVE Of(d)[i] = o[k + i]
        OBVIOUS
      <4>1. k + i \in 1..n
        BY <2>1
      <4> QED BY <2>3, <2>7, <2>8, <4>1
    <3> QED BY <2>6, <3>3, <3>4, <3>5, SeqEqual
  <2>11. Len(FlattenSeq(o)) = Len(FlattenSeq(SubSeq(o, 1, k))) + Len(FlattenSeq(SubSeq(o, k + 1, n)))
    <3>1. k \in 0..Len(o)
      BY <2>1, <2>4
    <3>2. Len(FlattenSeq(o)) = Len(FlattenSeq(SubSeq(o, 1, k))) + Len(FlattenSeq(SubSeq(o, k + 1, Len(o))))
      BY <2>4, <3>1, BytesOfCut DEF T
    <3> QED BY <2>4, <3>2
  <2>12. TotalBytes(b) = TotalBytes(c) + TotalBytes(d)
    BY <2>4, <2>5, <2>6, <2>9, <2>10, <2>11, Zenon
  <2> QED BY <2>5, <2>6, <2>12 DEF c, d
<1>4. ASSUME NEW p \in Parts PROVE TotalBytes(Append(b, p)) = TotalBytes(b) + Len(p.payload)
  <2> DEFINE c == Append(b, p)
             o == Of(b)
             n == Len(b)
  <2>1. /\ c \in Seq(Parts) /\ Len(c) = n + 1 /\ n \in Nat /\ (\A i \in 1..n : c[i] = b[i])
        /\ c[n + 1] = p
    BY AppendProperties
  <2> HIDE DEF c
  <2>2. o \in Seq(T) /\ Len(o) = n /\ TotalBytes(b) = Len(FlattenSeq(o))
    BY <1>2
  <2>3. Of(c) \in Seq(T) /\ Len(Of(c)) = n + 1 /\ TotalBytes(c) = Len(FlattenSeq(Of(c)))
    BY <1>2, <2>1
  <2>4. (\A i \in 1..n : o[i] = b[i].payload) /\ (\A i \in 1..(n + 1) : Of(c)[i] = c[i].payload)
    BY <2>1
  <2>5. p.payload \in T
    BY <1>1
  <2> HIDE DEF o, Of, n
  <2>6. Of(c) = Append(o, p.payload)
    <3>1. /\ Append(o, p.payload) \in Seq(T) /\ Len(Append(o, p.payload)) = n + 1
          /\ \A i \in 1..n : Append(o, p.payload)[i] = o[i]
          /\ Append(o, p.payload)[n + 1] = p.payload
      BY <2>2, <2>5, AppendProperties
    <3>2. ASSUME NEW i \in 1..(n + 1) PROVE Of(c)[i] = Append(o, p.payload)[i]
      <4>1. CASE i = n + 1
        BY <2>1, <2>4, <3>1, <4>1
      <4>2. CASE i # n + 1
        <5>1. i \in 1..n
          BY <2>1, <4>2
        <5> QED BY <2>1, <2>4, <3>1, <5>1
      <4> QED BY <4>1, <4>2
    <3> QED BY <2>3, <3>1, <3>2, SeqEqual
  <2>7. FlattenSeq(Append(o, p.payload)) = FlattenSeq(o) \o p.payload
    BY <2>2, <2>5, FlattenAppend DEF T
  <2>8. Len(FlattenSeq(o) \o p.payload) = Len(FlattenSeq(o)) + Len(p.payload)
    <3>1. FlattenSeq(o) \in Seq(Characters) /\ p.payload \in Seq(Characters)
      BY <2>2, <2>5, FlattenType DEF T
    <3> QED BY <3>1, ConcatProperties
  <2>9. TotalBytes(c) = TotalBytes(b) + Len(p.payload)
    BY <2>2, <2>3, <2>6, <2>7, <2>8, Zenon
  <2> QED BY <2>9 DEF c
<1>5. TotalBytes(b) \in Nat
  BY <1>2
<1> QED BY <1>3, <1>4, <1>5

------------------------------------------------------------------------------
\* The instrument.

PendingSet(A) == {r \in ScriptedReplies : r.id \in A}

\* What the invariant says of an instrument when the exchanges of A may have replies due
\* and those of F have failed.
SoundInst(i, A, F) ==
  /\ i \in Instruments
  /\ SoundMock(i.mock, F)
  /\ i.pending \in Seq(PendingSet(A))
  /\ BinaryBounded(i)

Errors == {"undefined header", "pushed"}

\* The fields of an instrument have their types.
LEMMA InstFields ==
  ASSUME NEW i \in Instruments
  PROVE  /\ i.mock \in Mocks /\ i.pending \in Seq(ScriptedReplies)
         /\ i.history \in Seq(Seq(Characters)) /\ i.binary \in Seq(Parts) /\ i.binaryBytes \in Nat
         /\ i.errors \in Seq(Errors)
BY DEF Instruments, Errors

\* Replies that may be due are replies.
LEMMA PendingReplies ==
  ASSUME NEW A, NEW s \in Seq(PendingSet(A))
  PROVE  s \in Seq(ScriptedReplies)
<1>1. PendingSet(A) \subseteq ScriptedReplies
  BY DEF PendingSet
<1> QED BY <1>1, SeqMonotonic

\* Another mock in the same instrument.
LEMMA WithMock ==
  ASSUME NEW A, NEW F, NEW G, NEW i, SoundInst(i, A, F), NEW n, SoundMock(n, G)
  PROVE  LET j == [i EXCEPT !.mock = n] IN
         SoundInst(j, A, G) /\ j.mock = n /\ j.pending = i.pending
<1> DEFINE j == [i EXCEPT !.mock = n]
<1>1. i \in Instruments /\ n \in Mocks
  BY DEF SoundInst, SoundMock
<1>2. /\ j \in Instruments /\ j.mock = n /\ j.pending = i.pending
      /\ j.binary = i.binary /\ j.binaryBytes = i.binaryBytes
  BY <1>1 DEF Instruments
<1> HIDE DEF j
<1>3. BinaryBounded(j)
  BY <1>2 DEF SoundInst, BinaryBounded
<1> QED BY <1>2, <1>3 DEF SoundInst, j

\* Another mock and other replies due in the same instrument.
LEMMA WithMockAndPending ==
  ASSUME NEW A, NEW B, NEW F, NEW G, NEW i, SoundInst(i, A, F), NEW n, SoundMock(n, G),
         NEW p \in Seq(PendingSet(B))
  PROVE  LET j == [i EXCEPT !.mock = n, !.pending = p] IN
         SoundInst(j, B, G) /\ j.mock = n /\ j.pending = p
<1> DEFINE j == [i EXCEPT !.mock = n, !.pending = p]
<1>1. i \in Instruments /\ n \in Mocks /\ p \in Seq(ScriptedReplies)
  BY PendingReplies DEF SoundInst, SoundMock
<1>2. /\ j \in Instruments /\ j.mock = n /\ j.pending = p
      /\ j.binary = i.binary /\ j.binaryBytes = i.binaryBytes
  BY <1>1 DEF Instruments
<1> HIDE DEF j
<1>3. BinaryBounded(j)
  BY <1>2 DEF SoundInst, BinaryBounded
<1> QED BY <1>2, <1>3 DEF SoundInst, j

\* Other replies due in the same instrument.
LEMMA WithPending ==
  ASSUME NEW A, NEW B, NEW F, NEW i, SoundInst(i, A, F), NEW p \in Seq(PendingSet(B))
  PROVE  LET j == [i EXCEPT !.pending = p] IN
         SoundInst(j, B, F) /\ j.mock = i.mock /\ j.pending = p
<1> DEFINE j == [i EXCEPT !.pending = p]
<1>1. i \in Instruments /\ p \in Seq(ScriptedReplies)
  BY PendingReplies DEF SoundInst
<1>2. /\ j \in Instruments /\ j.mock = i.mock /\ j.pending = p
      /\ j.binary = i.binary /\ j.binaryBytes = i.binaryBytes
  BY <1>1 DEF Instruments
<1> HIDE DEF j
<1>3. BinaryBounded(j)
  BY <1>2 DEF SoundInst, BinaryBounded
<1> QED BY <1>2, <1>3 DEF SoundInst, j

\* Another error queue in the same instrument.
LEMMA WithErrors ==
  ASSUME NEW A, NEW F, NEW i, SoundInst(i, A, F), NEW e \in Seq(Errors)
  PROVE  LET j == [i EXCEPT !.errors = e] IN
         SoundInst(j, A, F) /\ j.mock = i.mock /\ j.pending = i.pending
<1> DEFINE j == [i EXCEPT !.errors = e]
<1>1. i \in Instruments
  BY DEF SoundInst
<1>2. /\ j \in Instruments /\ j.mock = i.mock /\ j.pending = i.pending
      /\ j.binary = i.binary /\ j.binaryBytes = i.binaryBytes
  BY <1>1 DEF Instruments, Errors
<1> HIDE DEF j
<1>3. BinaryBounded(j)
  BY <1>2 DEF SoundInst, BinaryBounded
<1> QED BY <1>2, <1>3 DEF SoundInst, j

\* The bytes of a reply to an exchange that has not failed are harmless, and late once the
\* connection is lost.
LEMMA BytesFacts ==
  ASSUME NEW F, NEW m, NEW reply \in ScriptedReplies, reply.id \notin F
  PROVE  /\ Bytes(m, reply) \in Seq(Harmless(F))
         /\ m.state # "OPEN" => Bytes(m, reply) \in Seq(LateBytes)
<1> DEFINE n == reply.size
           late == m.state # "OPEN"
           b(k) == [id |-> reply.id, last |-> reply.ended /\ k = n, late |-> late]
<1>1. n \in Nat /\ reply.id \in Nat /\ reply.ended \in BOOLEAN
  BY DEF ScriptedReplies
<1>2. Bytes(m, reply) = [k \in 1..n |-> b(k)]
  BY DEF Bytes
<1>3. late \in BOOLEAN /\ \A k \in 1..n : (reply.ended /\ k = n) \in BOOLEAN
  OBVIOUS
<1>4. \A k \in 1..n : b(k) \in Byte
  BY <1>1, <1>3, Zenon DEF Byte
<1>5. \A k \in 1..n : b(k).id = reply.id
  OBVIOUS
<1>6. \A k \in 1..n : b(k).late = late
  BY Zenon
<1> HIDE DEF n, b, late
<1>7. \A k \in 1..n : b(k) \in Harmless(F)
  BY <1>4, <1>5 DEF Harmless
<1>8. [k \in 1..n |-> b(k)] \in Seq(Harmless(F))
  BY <1>1, <1>7
<1>9. late => [k \in 1..n |-> b(k)] \in Seq(LateBytes)
  <2>1. late => \A k \in 1..n : b(k) \in LateBytes
    BY <1>4, <1>6, Zenon DEF LateBytes
  <2> QED BY <1>1, <2>1
<1> QED BY <1>2, <1>8, <1>9 DEF late

\* Once a failure owned by no exchange of C is armed, the mock is still OPEN; and a reply
\* that is due does not leave one of those armed.
Ready(j, C) ==
  /\ Owned(j.mock, C) \/ j.mock.state = "OPEN"
  /\ j.pending # <<>> => Owned(j.mock, C)

\* An armed failure is an injection.
LEMMA ArmFacts ==
  ASSUME NEW error \in {"scripted", "TransportError", "TransportTimeoutError"},
         NEW fault \in BOOLEAN, NEW id \in Nat, NEW late \in BOOLEAN
  PROVE  LET i == [armed |-> TRUE, error |-> error, fault |-> fault, id |-> id, late |-> late] IN
         i \in Injections /\ i.id = id /\ i.late = late
<1> DEFINE i == [armed |-> TRUE, error |-> error, fault |-> fault, id |-> id, late |-> late]
<1>1. i \in [armed : {TRUE}, error : {"scripted", "TransportError", "TransportTimeoutError"},
             fault : BOOLEAN, id : Nat, late : BOOLEAN]
  OBVIOUS
<1>2. i.id = id
  OBVIOUS
<1>3. i.late = late
  BY Zenon
<1> QED BY <1>1, <1>2, <1>3, Zenon DEF Injections

\* _deliver keeps the instrument sound, and arms a failure of its exchange only if the
\* mock is OPEN or it comes late.
LEMMA DeliverFacts ==
  ASSUME NEW A \in SUBSET Nat, NEW F, A \cap F = {}, NEW i, SoundInst(i, A, F),
         NEW reply \in PendingSet(A), NEW C
  PROVE  LET j == Deliver(i, reply) IN
         /\ SoundInst(j, A, F) /\ Later(i.mock, j.mock) /\ j.pending = i.pending
         /\ Owned(i.mock, C) => Owned(j.mock, C) \/ j.mock.state = "OPEN"
         /\ Owned(i.mock, C) /\ (reply.id \in C \/ ~reply.raises) => Owned(j.mock, C)
<1> DEFINE m == i.mock
           arm == Arm(m, "scripted", reply.disconnect, reply.id)
           f == IF reply.raises THEN [m EXCEPT !.failRead = arm]
                ELSE IF reply.disconnect THEN SimulateDisconnect(m)
                ELSE m
           n == IF reply.size = 0 THEN f ELSE Feed(f, Bytes(f, reply))
           Good(x) == /\ Owned(m, C) => Owned(x, C) \/ x.state = "OPEN"
                      /\ Owned(m, C) /\ (reply.id \in C \/ ~reply.raises) => Owned(x, C)
<1>1. SoundMock(m, F) /\ m \in Mocks /\ Accounted(m)
  BY DEF SoundInst, SoundMock
<1>2. reply \in ScriptedReplies /\ reply.id \in Nat /\ reply.id \notin F
      /\ reply.raises \in BOOLEAN /\ reply.disconnect \in BOOLEAN
  BY DEF PendingSet, ScriptedReplies
<1>3. Deliver(i, reply) = [i EXCEPT !.mock = n]
  BY DEF Deliver
<1> HIDE DEF m, n
<1>4. SoundMock(f, F) /\ Later(m, f) /\ Good(f)
  <2>1. CASE reply.raises
    <3> DEFINE g == [m EXCEPT !["failRead"] = arm]
               late == m.state # "OPEN"
    <3>1. f = g
      BY <2>1
    <3>2. arm = [armed |-> TRUE, error |-> "scripted", fault |-> reply.disconnect,
                 id |-> reply.id, late |-> late]
      BY DEF Arm
    <3>3. late \in BOOLEAN
      OBVIOUS
    <3>4. /\ arm \in Injections
          /\ arm.id = reply.id
          /\ arm.late = late
      <4> HIDE DEF late
      <4> QED BY <1>2, <3>2, <3>3, ArmFacts
    <3> HIDE DEF arm, f
    <3>5. SoundMock(g, F) /\ g.state = m.state /\ g.opens = m.opens /\ g.failRead = arm
      BY <1>1, <3>4, InjectionFacts DEF Injectable
    <3> HIDE DEF g
    <3>6. Later(m, g)
      BY <3>5 DEF Later
    <3>7. g.state # "OPEN" => g.failRead.late
      BY <3>4, <3>5, Zenon
    <3>8. Good(g)
      BY <2>1, <3>4, <3>5, <3>7 DEF Owned
    <3> QED BY <3>1, <3>5, <3>6, <3>8
  <2>2. CASE ~reply.raises /\ reply.disconnect
    <3>1. f = Fault(m)
      BY <2>2 DEF SimulateDisconnect
    <3>2. SoundMock(Fault(m), F) /\ Later(m, Fault(m)) /\ Fault(m).failRead = m.failRead
      BY <1>1, FaultFacts
    <3> HIDE DEF f
    <3> QED BY <3>1, <3>2 DEF Owned
  <2>3. CASE ~reply.raises /\ ~reply.disconnect
    <3>1. f = m
      BY <2>3
    <3> HIDE DEF f
    <3> QED BY <1>1, <3>1, LaterSame
  <2> QED BY <1>2, <2>1, <2>2, <2>3
<1> HIDE DEF f
<1>5. SoundMock(n, F) /\ Later(m, n) /\ Good(n)
  <2>1. CASE reply.size = 0
    BY <1>4, <2>1 DEF n
  <2>2. CASE reply.size # 0
    <3> DEFINE bytes == Bytes(f, reply)
    <3>1. /\ bytes \in Seq(Harmless(F))
          /\ f.state # "OPEN" => bytes \in Seq(LateBytes)
      BY <1>2, BytesFacts
    <3> HIDE DEF bytes
    <3>2. /\ SoundMock(Feed(f, bytes), F) /\ Feed(f, bytes).state = f.state
          /\ Feed(f, bytes).failRead = f.failRead /\ Feed(f, bytes).opens = f.opens
      BY <1>4, <3>1, FeedFacts
    <3>3. n = Feed(f, bytes)
      BY <2>2 DEF n, bytes
    <3>4. Later(m, Feed(f, bytes))
      BY <1>4, <3>2 DEF Later
    <3>5. Good(Feed(f, bytes))
      BY <1>4, <3>2 DEF Owned
    <3> QED BY <3>2, <3>3, <3>4, <3>5
  <2> QED BY <2>1, <2>2
<1>6. /\ SoundInst([i EXCEPT !.mock = n], A, F) /\ [i EXCEPT !.mock = n].mock = n
      /\ [i EXCEPT !.mock = n].pending = i.pending
  BY <1>5, WithMock
<1> QED BY <1>3, <1>5, <1>6 DEF m

\* A reply is due, or delivered.
LEMMA QueueReplyFacts ==
  ASSUME NEW A \in SUBSET Nat, NEW F, A \cap F = {}, NEW i, SoundInst(i, A, F),
         NEW reply \in PendingSet(A), NEW C
  PROVE  LET j == QueueReply(i, reply) IN
         /\ SoundInst(j, A, F) /\ Later(i.mock, j.mock)
         /\ Owned(i.mock, C) /\ (reply.id \in C \/ (~reply.raises /\ reply.delay = 0)) => Owned(j.mock, C)
         /\ Owned(i.mock, C) /\ i.pending = <<>> => Ready(j, C)
<1> DEFINE p == Append(i.pending, reply)
           j == QueueReply(i, reply)
<1>1. reply.delay \in Nat /\ i.pending \in Seq(PendingSet(A))
  BY DEF PendingSet, ScriptedReplies, SoundInst
<1>2. CASE reply.delay > 0
  <2>1. j = [i EXCEPT !.pending = p]
    BY <1>2 DEF QueueReply
  <2>2. p \in Seq(PendingSet(A))
    BY <1>1, AppendProperties
  <2> HIDE DEF p, j
  <2>3. SoundInst(j, A, F) /\ j.mock = i.mock /\ j.pending = p
    BY <2>1, <2>2, WithPending
  <2> QED BY <2>3, LaterSame DEF Ready, j
<1>3. CASE ~(reply.delay > 0)
  <2>1. j = Deliver(i, reply)
    BY <1>3 DEF QueueReply
  <2> HIDE DEF j
  <2> DEFINE d == Deliver(i, reply)
  <2>2. /\ SoundInst(d, A, F) /\ Later(i.mock, d.mock) /\ d.pending = i.pending
        /\ Owned(i.mock, C) => Owned(d.mock, C) \/ d.mock.state = "OPEN"
        /\ Owned(i.mock, C) /\ (reply.id \in C \/ ~reply.raises) => Owned(d.mock, C)
    BY DeliverFacts
  <2> HIDE DEF d
  <2>3. j = d
    BY <2>1 DEF d
  <2> QED BY <2>2, <2>3 DEF Ready, j
<1> QED BY <1>2, <1>3

\* What a rule may say: a reply is one of an exchange of A.
Served(rule, A) ==
  rule \in Rules /\ (rule.kind \in {"error query", "reply"} => rule.reply.id \in A)

\* A rule that does not raise keeps the instrument sound.
LEMMA ServeFacts ==
  ASSUME NEW A \in SUBSET Nat, NEW F, A \cap F = {}, NEW i, SoundInst(i, A, F),
         NEW B, B \subseteq A, NEW rule, Served(rule, B), rule.kind # "raises", NEW C
  PROVE  LET j == Serve(i, rule) IN
         /\ SoundInst(j, A, F) /\ Later(i.mock, j.mock)
         /\ Owned(i.mock, C) /\ B \subseteq C => Owned(j.mock, C)
         /\ Owned(i.mock, C) /\ i.pending = <<>> => Ready(j, C)
<1> DEFINE j == Serve(i, rule)
<1>1. rule \in Rules /\ i \in Instruments
  BY DEF Served, SoundInst
<1>2. rule.reply \in ScriptedReplies /\ rule.kind \in {"unknown", "silent", "error query", "reply"}
  BY <1>1 DEF Rules, Kinds
<1>3. i.errors \in Seq(Errors)
  BY <1>1, InstFields
<1>4. CASE rule.kind = "unknown"
  <2> DEFINE e == Append(i.errors, "undefined header")
  <2>1. j = [i EXCEPT !.errors = e]
    BY <1>4 DEF Serve
  <2>2. e \in Seq(Errors)
    BY <1>3, AppendProperties DEF Errors
  <2> HIDE DEF e, j
  <2>3. SoundInst(j, A, F) /\ j.mock = i.mock /\ j.pending = i.pending
    BY <2>1, <2>2, WithErrors
  <2> QED BY <2>3, LaterSame DEF Ready, j
<1>5. CASE rule.kind = "silent"
  <2>1. j = i
    BY <1>5 DEF Serve
  <2> HIDE DEF j
  <2> QED BY <2>1, LaterSame DEF Ready, j
<1>6. CASE rule.kind = "error query"
  <2> DEFINE e == IF i.errors = <<>> THEN i.errors ELSE Tail(i.errors)
             h == [i EXCEPT !.errors = e]
             r == [rule.reply EXCEPT !.delay = 0, !.raises = FALSE, !.disconnect = FALSE]
  <2>1. j = QueueReply(h, r)
    BY <1>6 DEF Serve, AnswerErrorQuery
  <2>2. e \in Seq(Errors)
    <3>1. CASE i.errors = <<>>
      BY <1>3, <3>1
    <3>2. CASE i.errors # <<>>
      BY <1>3, <3>2, HeadTailProperties
    <3> QED BY <3>1, <3>2
  <2>3. r \in ScriptedReplies /\ r.id = rule.reply.id /\ r.delay = 0 /\ r.raises = FALSE
    BY <1>2 DEF ScriptedReplies
  <2>4. r \in PendingSet(A)
    BY <1>6, <2>3 DEF PendingSet, Served
  <2> HIDE DEF e, r
  <2>5. SoundInst(h, A, F) /\ h.mock = i.mock /\ h.pending = i.pending
    BY <2>2, WithErrors
  <2> HIDE DEF h, j
  <2> DEFINE q == QueueReply(h, r)
  <2>6. /\ SoundInst(q, A, F) /\ Later(h.mock, q.mock)
        /\ Owned(h.mock, C) /\ (r.id \in C \/ (~r.raises /\ r.delay = 0)) => Owned(q.mock, C)
        /\ Owned(h.mock, C) /\ h.pending = <<>> => Ready(q, C)
    BY <2>4, <2>5, QueueReplyFacts
  <2> HIDE DEF q
  <2>7. j = q
    BY <2>1 DEF q
  <2> QED BY <2>3, <2>5, <2>6, <2>7 DEF j
<1>7. CASE rule.kind = "reply"
  <2> DEFINE r == rule.reply
             q == QueueReply(i, r)
  <2>1. j = q
    BY <1>7 DEF Serve
  <2>2. r \in PendingSet(A) /\ r.id \in B
    BY <1>2, <1>7 DEF PendingSet, Served
  <2> HIDE DEF r, j
  <2>3. /\ SoundInst(q, A, F) /\ Later(i.mock, q.mock)
        /\ Owned(i.mock, C) /\ (r.id \in C \/ (~r.raises /\ r.delay = 0)) => Owned(q.mock, C)
        /\ Owned(i.mock, C) /\ i.pending = <<>> => Ready(q, C)
    BY <2>2, QueueReplyFacts
  <2> HIDE DEF q
  <2> QED BY <2>1, <2>2, <2>3 DEF j
<1> QED BY <1>2, <1>4, <1>5, <1>6, <1>7

\* _record_binary keeps both limits of the binary history, and its byte count exact.
LEMMA RecordBinaryFacts ==
  ASSUME NEW A, NEW F, NEW i, SoundInst(i, A, F), NEW part \in Parts
  PROVE  LET j == RecordBinary(i, part) IN
         SoundInst(j, A, F) /\ j.mock = i.mock /\ j.pending = i.pending
<1> DEFINE b == i.binary
           size == Len(part.payload)
           Rest(k) == SubSeq(b, k + 1, Len(b))
           Left(k) == i.binaryBytes - TotalBytes(SubSeq(b, 1, k))
           S == {k \in 0..Len(b) : \/ k = Len(b)
                                   \/ Len(Rest(k)) < MaxEntries /\ Left(k) + size <= MaxHistoryBytes}
           d == Min(S)
           rest == Rest(d)
           left == Left(d)
           c == Append(rest, part)
           j == RecordBinary(i, part)
<1>1. i \in Instruments /\ b \in Seq(Parts) /\ i.binaryBytes \in Nat
  BY InstFields DEF SoundInst
<1>2. i.binaryBytes = TotalBytes(b)
  BY DEF SoundInst, BinaryBounded
<1>3. size \in Nat
  <2>1. part.payload \in Seq(Characters)
    BY DEF Parts, Payloads
  <2> QED BY <2>1
<1>4. MaxEntries \in Nat /\ MaxEntries # 0 /\ MaxHistoryBytes \in Nat
  BY ScriptedAssumption
<1>5. CASE MaxHistoryBytes = 0 \/ size > MaxHistoryBytes
  <2>1. j = i
    BY <1>5 DEF RecordBinary
  <2> HIDE DEF j
  <2> QED BY <2>1 DEF j
<1>6. CASE ~(MaxHistoryBytes = 0 \/ size > MaxHistoryBytes)
  <2>1. j = [i EXCEPT !.binary = c, !.binaryBytes = left + size]
    BY <1>6 DEF RecordBinary
  <2> HIDE DEF b, size, j
  <2> DEFINE n == Len(b)
  <2>2. n \in Nat
    BY <1>1
  <2>3. d \in 0..n /\ d \in S
    <3>1. n \in S /\ S \subseteq 0..n /\ S \subseteq Nat
      BY <2>2
    <3> HIDE DEF S
    <3>2. d \in S
      BY <3>1, MinFacts
    <3> QED BY <3>1, <3>2
  <2>4. d = n \/ (Len(rest) < MaxEntries /\ left + size <= MaxHistoryBytes)
    BY <2>3
  <2> HIDE DEF S, d
  <2> DEFINE head == TotalBytes(SubSeq(b, 1, d))
             tail == TotalBytes(rest)
  <2>5. head \in Nat /\ tail \in Nat /\ TotalBytes(b) = head + tail
    BY <1>1, <2>3, TotalBytesFacts
  <2>6. left = tail
    <3>1. left = TotalBytes(b) - head
      BY <1>2
    <3> HIDE DEF left, head, tail
    <3> QED BY <2>5, <3>1
  <2>7. rest \in Seq(Parts) /\ Len(rest) = n - d
    <3>1. \A k \in (d + 1)..n : b[k] \in Parts
      BY <1>1, <2>2, <2>3
    <3>2. d + 1 \in Int /\ n \in Int
      BY <2>2, <2>3
    <3> HIDE DEF n
    <3>3. /\ SubSeq(b, d + 1, n) \in Seq(Parts)
          /\ Len(SubSeq(b, d + 1, n)) = IF d + 1 <= n THEN n - (d + 1) + 1 ELSE 0
      BY <3>1, <3>2, SubSeqProperties
    <3>4. rest = SubSeq(b, d + 1, n)
      BY DEF n
    <3> HIDE DEF rest
    <3> QED BY <2>2, <2>3, <3>3, <3>4
  <2>8. tail = 0 \/ d # n
    <3> SUFFICES ASSUME d = n PROVE tail = 0
      OBVIOUS
    <3>1. SubSeq(b, 1, n) = b
      BY <1>1, SubSeqFull
    <3>2. head = TotalBytes(b)
      BY <3>1
    <3> HIDE DEF head, tail
    <3> QED BY <2>5, <3>2
  <2> HIDE DEF head, left, n
  <2>9. left \in Nat /\ left + size \in Nat /\ left + size <= MaxHistoryBytes
    BY <1>3, <1>4, <1>6, <2>4, <2>5, <2>6, <2>8
  <2>10. c \in Seq(Parts) /\ Len(c) = Len(rest) + 1 /\ TotalBytes(c) = tail + size
    <3>1. c \in Seq(Parts) /\ Len(c) = Len(rest) + 1
      BY <2>7, AppendProperties
    <3>2. TotalBytes(c) = tail + size
      BY <2>7, TotalBytesFacts DEF size
    <3> QED BY <3>1, <3>2
  <2>11. Len(c) <= MaxEntries
    <3>1. Len(rest) \in Nat
      BY <2>7
    <3> HIDE DEF c, rest
    <3> QED BY <1>4, <2>2, <2>3, <2>4, <2>7, <2>10, <3>1
  <2> HIDE DEF c, rest, tail
  <2>12. TotalBytes(c) = left + size
    BY <2>6, <2>10
  <2> DEFINE total == left + size
  <2>13. total \in Nat /\ total <= MaxHistoryBytes /\ TotalBytes(c) = total
    BY <2>9, <2>12
  <2> HIDE DEF total
  <2>14. /\ j \in Instruments /\ j.mock = i.mock /\ j.pending = i.pending
         /\ j.binary = c /\ j.binaryBytes = total
    <3>1. j = [i EXCEPT !.binary = c, !.binaryBytes = total]
      BY <2>1 DEF total
    <3> QED BY <1>1, <2>10, <2>13, <3>1 DEF Instruments
  <2>15. BinaryBounded(j)
    BY <2>11, <2>13, <2>14 DEF BinaryBounded
  <2> QED BY <2>14, <2>15 DEF SoundInst, j
<1> QED BY <1>5, <1>6

\* What is received is recorded, and nothing else changes.
LEMMA RecordFacts ==
  ASSUME NEW A, NEW F, NEW i, SoundInst(i, A, F), NEW part \in Parts
  PROVE  LET j == Record(i, part) IN
         SoundInst(j, A, F) /\ j.mock = i.mock /\ j.pending = i.pending
<1> DEFINE h == Append(i.history, part.text)
           j == Record(i, part)
           r == RecordBinary(i, part)
<1>1. SoundInst(r, A, F) /\ r.mock = i.mock /\ r.pending = i.pending
  BY RecordBinaryFacts
<1> HIDE DEF r
<1>2. i \in Instruments /\ i.history \in Seq(Seq(Characters))
  BY InstFields DEF SoundInst
<1>3. part.block \in BOOLEAN /\ part.text \in Seq(Characters)
  BY DEF Parts
<1>4. CASE part.block
  <2>1. j = r
    BY <1>4 DEF Record, r
  <2> HIDE DEF j
  <2> QED BY <1>1, <2>1 DEF j
<1>5. CASE ~part.block
  <2>1. j = [i EXCEPT !.history = h]
    BY <1>5 DEF Record
  <2>2. h \in Seq(Seq(Characters))
    BY <1>2, <1>3, AppendProperties
  <2> HIDE DEF h, j
  <2>3. /\ j \in Instruments /\ j.mock = i.mock /\ j.pending = i.pending
        /\ j.binary = i.binary /\ j.binaryBytes = i.binaryBytes
    BY <1>2, <2>1, <2>2 DEF Instruments
  <2>4. BinaryBounded(j)
    BY <2>3 DEF SoundInst, BinaryBounded
  <2> QED BY <2>3, <2>4 DEF SoundInst, j
<1> QED BY <1>3, <1>4, <1>5

\* A script whose replies are of exchanges of B.
Answers(rules, B) == \A k \in Nat : Served(Matching(rules, k), B)

\* The loop over the commands of a message served n of them, by way of the instruments c.
Loop(D, i, parts, rules, n, c) ==
  /\ n \in 0..Len(parts)
  /\ \A k \in 1..n : k \in 1..Len(parts) /\ Matching(rules, k).kind # "raises"
  /\ c \in [0..n -> D]
  /\ c[0] = i
  /\ \A k \in 1..n : c[k] = Serve(Record(c[k - 1], parts[k]), Matching(rules, k))
  /\ \/ /\ n = Len(parts)
        /\ ServeAll(i, parts, rules) = Outcome(c[n], "none", <<>>)
     \/ /\ n + 1 \in 1..Len(parts) /\ Matching(rules, n + 1).kind = "raises"
        /\ ServeAll(i, parts, rules) = Outcome(Record(c[n], parts[n + 1]), "handler", <<>>)

\* The loop over the commands of a message goes up to the first handler that raises, through
\* instruments of any set that recording a part and serving its rule does not leave.
LEMMA ServedSteps ==
  ASSUME NEW D, NEW i \in D, NEW parts \in Seq(Parts), NEW rules,
         \A x \in D, k \in 1..Len(parts) :
           Matching(rules, k).kind # "raises" =>
             Serve(Record(x, parts[k]), Matching(rules, k)) \in D
  PROVE  \E n, c : Loop(D, i, parts, rules, n, c)
<1> DEFINE failing == {k \in DOMAIN parts : Matching(rules, k).kind = "raises"}
           n == Min(failing \cup {Len(parts) + 1}) - 1
           One(k, x) == Serve(Record(x, parts[k]), Matching(rules, k))
           g == [k \in 1..n |-> [x \in D |-> One(k, x)]]
           FF(f) == [k \in 0..n |-> IF k = 0 THEN i ELSE One(k, f[k - 1])]
           c == CHOOSE f : f = FF(f)
           end == ServeAll(i, parts, rules)
<1>1. end = IF failing = {} THEN Outcome(c[n], "none", <<>>)
            ELSE Outcome(Record(c[n], parts[n + 1]), "handler", <<>>)
  BY DEF ServeAll
<1>2. /\ n \in 0..Len(parts)
      /\ \A k \in 1..n : k \in 1..Len(parts) /\ Matching(rules, k).kind # "raises"
      /\ failing # {} => n + 1 \in 1..Len(parts) /\ Matching(rules, n + 1).kind = "raises"
      /\ failing = {} => n = Len(parts)
  <2> DEFINE L == Len(parts)
             S == failing \cup {L + 1}
  <2>1. L \in Nat /\ DOMAIN parts = 1..L
    OBVIOUS
  <2>2. S \subseteq Nat /\ S # {} /\ S \subseteq 1..(L + 1)
    BY <2>1
  <2> HIDE DEF S
  <2> DEFINE low == Min(S)
  <2>3. low \in S /\ \A y \in S : low <= y
    BY <2>2, MinFacts
  <2>4. n = low - 1
    BY DEF S
  <2> HIDE DEF n, low
  <2>5. low \in 1..(L + 1) /\ n \in 0..L /\ n + 1 = low
    BY <2>1, <2>2, <2>3, <2>4
  <2>6. ASSUME NEW k \in 1..n PROVE k \in 1..L /\ Matching(rules, k).kind # "raises"
    <3>1. k \in 1..L /\ ~(low <= k)
      BY <2>1, <2>4, <2>5
    <3>2. k \notin S
      BY <2>3, <3>1
    <3> QED BY <2>1, <3>1, <3>2 DEF S
  <2>7. ASSUME failing # {} PROVE low \in failing
    <3>1. PICK y \in failing : TRUE
      BY <2>7
    <3>2. y \in S /\ y \in 1..L
      BY <2>1 DEF S
    <3>3. low <= y
      BY <2>3, <3>2
    <3>4. low # L + 1
      BY <2>1, <2>5, <3>2, <3>3
    <3> QED BY <2>3, <3>4 DEF S
  <2>8. ASSUME failing = {} PROVE n = L
    <3>1. low = L + 1
      BY <2>3, <2>8 DEF S
    <3> QED BY <2>1, <2>4, <3>1
  <2>9. failing # {} => n + 1 \in 1..L /\ Matching(rules, n + 1).kind = "raises"
    BY <2>1, <2>5, <2>7
  <2> QED BY <2>5, <2>6, <2>8, <2>9
<1> HIDE DEF n, failing, end
<1>3. \A x \in D, k \in 1..n : One(k, x) \in D
  BY <1>2
<1> HIDE DEF One
<1>4. n \in Nat
  BY <1>2
<1>5. g \in [1..n -> [D -> D]]
  BY <1>3
<1>6. PICK h \in [0..n -> D] : h[0] = i /\ \A k \in 1..n : h[k] = g[k][h[k - 1]]
  <2> HIDE DEF g
  <2>1. Iterable(D, i, n, g)
    BY <1>4, <1>5, Iteration
  <2> QED BY <2>1 DEF Iterable
<1>7. h = FF(h)
  <2>1. ASSUME NEW k \in 1..n PROVE h[k] = One(k, h[k - 1])
    <3>1. h[k - 1] \in D
      BY <1>4
    <3>2. g[k][h[k - 1]] = One(k, h[k - 1])
      BY <3>1
    <3> HIDE DEF g
    <3> QED BY <1>6, <3>2
  <2>2. \A k \in 0..n : h[k] = FF(h)[k]
    BY <1>4, <1>6, <2>1
  <2>3. DOMAIN FF(h) = 0..n /\ FF(h) = [k \in 0..n |-> FF(h)[k]]
    OBVIOUS
  <2> HIDE DEF FF
  <2> QED BY <2>2, <2>3
<1>8. c = FF(c)
  <2> HIDE DEF FF
  <2> QED BY <1>7
<1> HIDE DEF c
<1>9. c[0] = i /\ \A k \in 1..n : c[k] = One(k, c[k - 1])
  BY <1>4, <1>8
<1>10. \A k \in 0..n : c[k] \in D
  <2>1. ASSUME NEW k \in 1..n, c[k - 1] \in D PROVE c[k] \in D
    BY <1>3, <1>9, <2>1
  <2> QED BY <1>4, <1>9, <2>1, Kept
<1>11. c \in [0..n -> D]
  <2>1. DOMAIN c = 0..n /\ c = [k \in 0..n |-> c[k]]
    <3>1. DOMAIN FF(c) = 0..n /\ FF(c) = [k \in 0..n |-> FF(c)[k]]
      OBVIOUS
    <3> HIDE DEF FF
    <3> QED BY <1>8, <3>1, Zenon
  <2> QED BY <1>10, <2>1
<1>12. \A k \in 1..n : c[k] = Serve(Record(c[k - 1], parts[k]), Matching(rules, k))
  BY <1>9 DEF One
<1>13. \/ n = Len(parts) /\ end = Outcome(c[n], "none", <<>>)
       \/ /\ n + 1 \in 1..Len(parts) /\ Matching(rules, n + 1).kind = "raises"
          /\ end = Outcome(Record(c[n], parts[n + 1]), "handler", <<>>)
  BY <1>1, <1>2
<1> HIDE DEF FF, g
<1>14. Loop(D, i, parts, rules, n, c)
  BY <1>2, <1>9, <1>11, <1>12, <1>13 DEF end, Loop
<1> QED BY <1>14

\* The loop over the commands of a message keeps the instrument sound.  One command that
\* finds nothing due leaves it ready for the read of its exchange.
LEMMA ServeAllFacts ==
  ASSUME NEW A \in SUBSET Nat, NEW F, A \cap F = {}, NEW i, SoundInst(i, A, F),
         NEW parts \in Seq(Parts), NEW rules, NEW B, B \subseteq A, Answers(rules, B), NEW C
  PROVE  LET end == ServeAll(i, parts, rules) IN
         /\ SoundInst(end.inst, A, F) /\ Later(i.mock, end.inst.mock)
         /\ end.data = <<>> /\ end.error \in {"none", "handler"}
         /\ Owned(i.mock, C) /\ B \subseteq C => Owned(end.inst.mock, C)
         /\ Owned(i.mock, C) /\ i.pending = <<>> /\ Len(parts) <= 1 =>
              IF end.error = "none" THEN Ready(end.inst, C) ELSE Owned(end.inst.mock, C)
<1> DEFINE Good(j) == /\ SoundInst(j, A, F)
                      /\ Later(i.mock, j.mock)
                      /\ Owned(i.mock, C) /\ B \subseteq C => Owned(j.mock, C)
           D == {j \in Instruments : Good(j)}
           One(k, x) == Serve(Record(x, parts[k]), Matching(rules, k))
           end == ServeAll(i, parts, rules)
<1>1. ASSUME NEW x, SoundInst(x, A, F), NEW k \in 1..Len(parts)
      PROVE  /\ SoundInst(Record(x, parts[k]), A, F) /\ Record(x, parts[k]).mock = x.mock
             /\ Record(x, parts[k]).pending = x.pending
  <2>1. parts[k] \in Parts
    OBVIOUS
  <2> QED BY <1>1, <2>1, RecordFacts
<1>2. ASSUME NEW x, SoundInst(x, A, F), NEW k \in 1..Len(parts), Matching(rules, k).kind # "raises"
      PROVE  /\ SoundInst(One(k, x), A, F)
             /\ Later(x.mock, One(k, x).mock)
             /\ Owned(x.mock, C) /\ B \subseteq C => Owned(One(k, x).mock, C)
             /\ Owned(x.mock, C) /\ x.pending = <<>> => Ready(One(k, x), C)
  <2> DEFINE r == Record(x, parts[k])
             rule == Matching(rules, k)
             s == Serve(r, rule)
  <2>1. k \in Nat /\ rule.kind # "raises"
    BY <1>2
  <2>2. SoundInst(r, A, F) /\ r.mock = x.mock /\ r.pending = x.pending
    BY <1>1, <1>2
  <2>3. Served(rule, B)
    BY <2>1 DEF Answers
  <2> HIDE DEF r, rule
  <2>4. /\ SoundInst(s, A, F) /\ Later(r.mock, s.mock)
        /\ Owned(r.mock, C) /\ B \subseteq C => Owned(s.mock, C)
        /\ Owned(r.mock, C) /\ r.pending = <<>> => Ready(s, C)
    BY <2>1, <2>2, <2>3, ServeFacts
  <2>5. One(k, x) = s
    BY DEF r, rule
  <2> HIDE DEF s, One
  <2> QED BY <2>2, <2>4, <2>5
<1>3. Good(i) /\ i \in D
  BY LaterSame DEF SoundInst
<1>4. ASSUME NEW x \in D, NEW k \in 1..Len(parts), Matching(rules, k).kind # "raises"
      PROVE  One(k, x) \in D
  <2> HIDE DEF One
  <2>1. SoundInst(x, A, F) /\ Later(i.mock, x.mock)
        /\ (Owned(i.mock, C) /\ B \subseteq C => Owned(x.mock, C))
    OBVIOUS
  <2>2. /\ SoundInst(One(k, x), A, F)
        /\ Later(x.mock, One(k, x).mock)
        /\ Owned(x.mock, C) /\ B \subseteq C => Owned(One(k, x).mock, C)
    BY <1>2, <1>4, <2>1
  <2>3. Later(i.mock, One(k, x).mock)
    BY <2>1, <2>2 DEF Later
  <2>4. One(k, x) \in Instruments
    BY <2>2 DEF SoundInst
  <2> QED BY <2>1, <2>2, <2>3, <2>4
<1>5. PICK n, c : Loop(D, i, parts, rules, n, c)
  <2>1. \A x \in D, k \in 1..Len(parts) :
          Matching(rules, k).kind # "raises" => Serve(Record(x, parts[k]), Matching(rules, k)) \in D
    BY <1>4
  <2>2. i \in D
    BY <1>3
  <2> HIDE DEF D, One, end
  <2> QED BY <2>1, <2>2, ServedSteps, Zenon
<1>6. /\ n \in 0..Len(parts)
      /\ \A k \in 1..n : k \in 1..Len(parts) /\ Matching(rules, k).kind # "raises"
      /\ c \in [0..n -> D] /\ c[0] = i
      /\ \A k \in 1..n : c[k] = One(k, c[k - 1])
      /\ \/ n = Len(parts) /\ end = Outcome(c[n], "none", <<>>)
         \/ /\ n + 1 \in 1..Len(parts)
            /\ end = Outcome(Record(c[n], parts[n + 1]), "handler", <<>>)
  <2> HIDE DEF D
  <2> QED BY <1>5, Zenon DEF Loop
<1> HIDE DEF One, end
<1>7. Good(c[n])
  <2>1. n \in 0..n
    BY <1>6
  <2>2. c[n] \in D
    BY <1>6, <2>1, Zenon
  <2> QED BY <2>2
<1>8. ASSUME Owned(i.mock, C), i.pending = <<>>, n <= 1
      PROVE  Ready(c[n], C) /\ (n = 0 => Owned(c[n].mock, C))
  <2>1. CASE n = 0
    BY <1>6, <1>8, <2>1 DEF Ready
  <2>2. CASE n = 1
    <3>1. 1 \in 1..n /\ 1 - 1 = 0
      BY <2>2
    <3>2. c[1] = One(1, i)
      BY <1>6, <3>1
    <3>3. Ready(One(1, i), C)
      <4>1. 1 \in 1..Len(parts) /\ Matching(rules, 1).kind # "raises"
        BY <1>6, <3>1
      <4>2. SoundInst(i, A, F)
        OBVIOUS
      <4> QED BY <1>2, <1>8, <4>1, <4>2
    <3> QED BY <2>2, <3>2, <3>3
  <2> QED BY <1>6, <1>8, <2>1, <2>2
<1>9. CASE n = Len(parts) /\ end = Outcome(c[n], "none", <<>>)
  <2>1. end.inst = c[n] /\ end.error = "none" /\ end.data = <<>>
    BY <1>9 DEF Outcome
  <2>2. Len(parts) <= 1 => n <= 1
    BY <1>6, <1>9
  <2> HIDE DEF D
  <2> QED BY <1>7, <1>8, <2>1, <2>2 DEF end
<1>10. CASE n + 1 \in 1..Len(parts) /\ end = Outcome(Record(c[n], parts[n + 1]), "handler", <<>>)
  <2> DEFINE r == Record(c[n], parts[n + 1])
  <2>1. end.inst = r /\ end.error = "handler" /\ end.data = <<>>
    BY <1>10 DEF Outcome
  <2>2. SoundInst(r, A, F) /\ r.mock = c[n].mock
    BY <1>1, <1>7, <1>10
  <2> HIDE DEF r
  <2>3. Len(parts) <= 1 => n = 0
    <3>1. n \in Nat /\ n + 1 \in 1..Len(parts) /\ Len(parts) \in Nat
      BY <1>6, <1>10
    <3> QED BY <3>1
  <2> HIDE DEF D
  <2> QED BY <1>7, <1>8, <2>1, <2>2, <2>3 DEF end
<1> QED BY <1>6, <1>9, <1>10

\* Nothing of any exchange is left, whichever have failed.
Dropped(j) == j.pending = <<>> /\ \A A, F : SoundInst(j, A, F)

\* invalidate() drops everything but an armed failure.
LEMMA DropFacts ==
  ASSUME NEW A, NEW F, NEW i, SoundInst(i, A, F)
  PROVE  Dropped(Drop(i)) /\ Later(i.mock, Drop(i).mock) /\ Drop(i).mock.failRead = i.mock.failRead
<1> DEFINE n == Invalidate(i.mock)
           p == <<>>
           j == Drop(i)
<1>1. \A G : SoundMock(n, G) /\ Later(i.mock, n) /\ n.failRead = i.mock.failRead
  BY InvalidateFacts DEF SoundInst
<1>2. j = [i EXCEPT !.mock = n, !.pending = p]
  BY DEF Drop
<1>3. \A B : p \in Seq(PendingSet(B))
  OBVIOUS
<1> HIDE DEF n, j, p
<1>4. ASSUME NEW B, NEW G PROVE SoundInst(j, B, G)
  <2>1. SoundMock(n, G) /\ p \in Seq(PendingSet(B))
    BY <1>1, <1>3
  <2>2. SoundInst([i EXCEPT !.mock = n, !.pending = p], B, G)
    BY <2>1, WithMockAndPending
  <2> QED BY <1>2, <2>2
<1>5. j.mock = n /\ j.pending = p
  BY <1>2 DEF SoundInst, Instruments
<1> QED BY <1>1, <1>4, <1>5 DEF Dropped, j, p

\* What write() makes of a message.
LEMMA ReceivedFacts ==
  ASSUME NEW A \in SUBSET Nat, NEW F, A \cap F = {}, NEW i, SoundInst(i, A, F),
         NEW data \in Seq(Characters), NEW rules, NEW B, B \subseteq A, Answers(rules, B), NEW C
  PROVE  LET end == Received(i, MockWrite(i.mock), SplitOutbound(data), rules) IN
         /\ SoundInst(end.inst, A, F) /\ Later(i.mock, end.inst.mock) /\ end.data = <<>>
         /\ Owned(i.mock, C) /\ B \subseteq C => Owned(end.inst.mock, C)
         /\ Owned(i.mock, C) /\ i.pending = <<>> /\ Len(SplitOutbound(data).parts) <= 1 =>
              IF end.error = "none" THEN Ready(end.inst, C) ELSE Owned(end.inst.mock, C)
<1> DEFINE w == MockWrite(i.mock)
           sent == [i EXCEPT !.mock = w.mock]
           split == SplitOutbound(data)
           end == Received(i, w, split, rules)
           parts == split.parts
           all == ServeAll(sent, parts, rules)
<1>1. SoundMock(w.mock, F) /\ Later(i.mock, w.mock) /\ w.mock.failRead = i.mock.failRead
  BY MockWriteFacts DEF SoundEnd, SoundInst
<1>2. parts \in Seq(Parts)
  BY SplitOutboundType
<1>3. end = IF w.error # "none" THEN Outcome(sent, w.error, <<>>)
            ELSE IF split.error # "none" THEN Outcome(sent, split.error, <<>>)
            ELSE all
  BY DEF Received
<1> HIDE DEF w, split, end, parts
<1>4. SoundInst(sent, A, F) /\ sent.mock = w.mock /\ sent.pending = i.pending
  BY <1>1, WithMock
<1> HIDE DEF sent
<1>5. Owned(i.mock, C) => Owned(sent.mock, C)
  BY <1>1, <1>4 DEF Owned
<1>6. CASE w.error # "none" \/ split.error # "none"
  <2>1. end.inst = sent /\ end.data = <<>> /\ end.error # "none"
    <3>1. CASE w.error # "none"
      BY <1>3, <3>1 DEF Outcome
    <3>2. CASE w.error = "none" /\ split.error # "none"
      BY <1>3, <3>2 DEF Outcome
    <3> QED BY <1>6, <3>1, <3>2
  <2> QED BY <1>1, <1>4, <1>5, <2>1 DEF end, w, split
<1>7. CASE w.error = "none" /\ split.error = "none"
  <2>1. end = all
    BY <1>3, <1>7 DEF parts
  <2>2. /\ SoundInst(all.inst, A, F) /\ Later(sent.mock, all.inst.mock)
        /\ all.data = <<>> /\ all.error \in {"none", "handler"}
        /\ Owned(sent.mock, C) /\ B \subseteq C => Owned(all.inst.mock, C)
        /\ Owned(sent.mock, C) /\ sent.pending = <<>> /\ Len(parts) <= 1 =>
             IF all.error = "none" THEN Ready(all.inst, C) ELSE Owned(all.inst.mock, C)
    BY <1>2, <1>4, ServeAllFacts, Zenon
  <2> HIDE DEF all
  <2>3. Later(i.mock, all.inst.mock)
    BY <1>1, <1>4, <2>2 DEF Later
  <2> QED BY <1>4, <1>5, <2>1, <2>2, <2>3 DEF end, w, split, parts
<1> QED BY <1>6, <1>7

\* Whatever fails drops the connection.
LEMMA DropOnErrorFacts ==
  ASSUME NEW A, NEW F, NEW e, e = Outcome(e.inst, e.error, e.data), SoundInst(e.inst, A, F)
  PROVE  LET end == DropOnError(e) IN
         /\ SoundInst(end.inst, A, F) /\ Later(e.inst.mock, end.inst.mock)
         /\ end.inst.mock.failRead = e.inst.mock.failRead
         /\ end.error = e.error /\ end.data = e.data
         /\ end.error # "none" => Dropped(end.inst)
         /\ end.error = "none" => end.inst = e.inst
<1> DEFINE end == DropOnError(e)
           d == Drop(e.inst)
<1>1. CASE e.error = "none"
  <2>1. end = e
    BY <1>1 DEF DropOnError
  <2> HIDE DEF end
  <2> QED BY <1>1, <2>1, LaterSame DEF end
<1>2. CASE e.error # "none"
  <2>1. end = [e EXCEPT !.inst = d]
    BY <1>2 DEF DropOnError
  <2>2. end.inst = d /\ end.error = e.error /\ end.data = e.data
    <3> DEFINE o == Outcome(e.inst, e.error, e.data)
    <3>1. end = [o EXCEPT !.inst = d]
      BY <2>1, Zenon
    <3> HIDE DEF end, d
    <3>2. end.inst = d /\ end.error = o.error /\ end.data = o.data
      BY <3>1 DEF Outcome
    <3>3. o = e
      OBVIOUS
    <3> HIDE DEF o
    <3> QED BY <3>2, <3>3 DEF end
  <2>3. Dropped(d) /\ Later(e.inst.mock, d.mock) /\ d.mock.failRead = e.inst.mock.failRead
    BY DropFacts
  <2> HIDE DEF end, d
  <2>4. SoundInst(d, A, F)
    BY <2>3 DEF Dropped
  <2> QED BY <1>2, <2>2, <2>3, <2>4 DEF end
<1> QED BY <1>1, <1>2

\* The outcomes are records of three fields.
LEMMA OutcomeFields ==
  ASSUME NEW i, NEW error, NEW data
  PROVE  LET o == Outcome(i, error, data) IN
         /\ o.inst = i /\ o.error = error /\ o.data = data
         /\ o = Outcome(o.inst, o.error, o.data)
BY DEF Outcome

\* The outcome of a message is built by Outcome.
LEMMA ReceivedIsOutcome ==
  ASSUME NEW i, NEW w, NEW split, NEW rules
  PROVE  LET e == Received(i, w, split, rules) IN e = Outcome(e.inst, e.error, e.data)
<1> DEFINE e == Received(i, w, split, rules)
           Fine(x) == x = Outcome(x.inst, x.error, x.data)
           all == ServeAll([i EXCEPT !.mock = w.mock], split.parts, rules)
<1>1. \A j, error, data : Fine(Outcome(j, error, data))
  BY OutcomeFields
<1>2. \E j, error, data : all = Outcome(j, error, data)
  BY DEF ServeAll
<1>3. \E j, error, data : e = Outcome(j, error, data)
  <2>1. CASE w.error # "none"
    BY <2>1 DEF Received
  <2>2. CASE w.error = "none" /\ split.error # "none"
    BY <2>2 DEF Received
  <2>3. CASE w.error = "none" /\ split.error = "none"
    <3>1. e = all
      BY <2>3 DEF Received
    <3> QED BY <1>2, <3>1
  <2> QED BY <2>1, <2>2, <2>3
<1> HIDE DEF e
<1>4. Fine(e)
  BY <1>1, <1>3
<1> QED BY <1>4 DEF e

\* write() leaves a sound instrument, and one without a trace of any exchange if it fails.
LEMMA ScriptedWriteFacts ==
  ASSUME NEW A \in SUBSET Nat, NEW F, A \cap F = {}, NEW i, SoundInst(i, A, F),
         NEW data \in Seq(Characters), NEW rules, NEW B, B \subseteq A, Answers(rules, B), NEW C
  PROVE  LET end == ScriptedWrite(i, data, rules) IN
         /\ SoundInst(end.inst, A, F) /\ Later(i.mock, end.inst.mock) /\ end.data = <<>>
         /\ end = Outcome(end.inst, end.error, end.data)
         /\ end.error # "none" => Dropped(end.inst)
         /\ Owned(i.mock, C) /\ B \subseteq C => Owned(end.inst.mock, C)
         /\ Owned(i.mock, C) /\ i.pending = <<>> /\ Len(SplitOutbound(data).parts) <= 1 =>
              IF end.error = "none" THEN Ready(end.inst, C) ELSE Owned(end.inst.mock, C)
<1> DEFINE e == Received(i, MockWrite(i.mock), SplitOutbound(data), rules)
           one == Len(SplitOutbound(data).parts) <= 1
           end == ScriptedWrite(i, data, rules)
           dropped == DropOnError(e)
<1>1. /\ SoundInst(e.inst, A, F) /\ Later(i.mock, e.inst.mock) /\ e.data = <<>>
      /\ Owned(i.mock, C) /\ B \subseteq C => Owned(e.inst.mock, C)
      /\ Owned(i.mock, C) /\ i.pending = <<>> /\ Len(SplitOutbound(data).parts) <= 1 =>
           IF e.error = "none" THEN Ready(e.inst, C) ELSE Owned(e.inst.mock, C)
  BY ReceivedFacts, Zenon
<1>2. end = dropped
  BY DEF ScriptedWrite
<1>3. e = Outcome(e.inst, e.error, e.data)
  BY ReceivedIsOutcome
<1>4. one <=> Len(SplitOutbound(data).parts) <= 1
  OBVIOUS
<1> HIDE DEF e, end, one
<1>5. /\ SoundInst(dropped.inst, A, F) /\ Later(e.inst.mock, dropped.inst.mock)
      /\ dropped.inst.mock.failRead = e.inst.mock.failRead
      /\ dropped.error = e.error /\ dropped.data = e.data
      /\ dropped.error # "none" => Dropped(dropped.inst)
      /\ dropped.error = "none" => dropped.inst = e.inst
  BY <1>1, <1>3, DropOnErrorFacts, Zenon
<1>6. dropped = Outcome(dropped.inst, dropped.error, dropped.data)
  BY <1>3 DEF DropOnError, Outcome
<1> HIDE DEF dropped
<1>7. Later(i.mock, dropped.inst.mock)
  BY <1>1, <1>5 DEF Later
<1>8. Owned(e.inst.mock, C) => Owned(dropped.inst.mock, C)
  BY <1>5 DEF Owned
<1>9. /\ SoundInst(end.inst, A, F) /\ Later(i.mock, end.inst.mock) /\ end.data = <<>>
      /\ end = Outcome(end.inst, end.error, end.data)
      /\ end.error # "none" => Dropped(end.inst)
      /\ Owned(i.mock, C) /\ B \subseteq C => Owned(end.inst.mock, C)
  BY <1>1, <1>2, <1>5, <1>6, <1>7, <1>8
<1>10. Owned(i.mock, C) /\ i.pending = <<>> /\ one =>
         IF end.error = "none" THEN Ready(end.inst, C) ELSE Owned(end.inst.mock, C)
  BY <1>1, <1>2, <1>4, <1>5, <1>8
<1> QED BY <1>9, <1>10 DEF end, one

\* _deliver_pending keeps the instrument sound and ready for a read.
LEMMA DeliverPendingFacts ==
  ASSUME NEW A \in SUBSET Nat, NEW F, A \cap F = {}, NEW i, SoundInst(i, A, F), NEW C
  PROVE  LET j == DeliverPending(i) IN
         /\ SoundInst(j, A, F) /\ Later(i.mock, j.mock)
         /\ Ready(i, C) => Owned(j.mock, C) \/ j.mock.state = "OPEN"
<1> DEFINE j == DeliverPending(i)
           p == i.pending
           reply == Head(p)
<1>1. p \in Seq(PendingSet(A)) /\ i \in Instruments
  BY DEF SoundInst
<1>2. CASE p = <<>>
  <2>1. j = i
    BY <1>2 DEF DeliverPending
  <2> HIDE DEF j
  <2> QED BY <2>1, LaterSame DEF Ready, j
<1>3. CASE p # <<>>
  <2>1. reply \in PendingSet(A) /\ Tail(p) \in Seq(PendingSet(A)) /\ Len(p) \in Nat /\ Len(p) # 0
    BY <1>1, <1>3, HeadTailProperties
  <2>2. CASE reply.delay > Timeout
    <3> DEFINE rest == p[1].delay - Timeout
               r == [p[1] EXCEPT !.delay = rest]
               q == [p EXCEPT ![1] = r]
    <3>1. j = [i EXCEPT !.pending = q]
      <4>1. j = [i EXCEPT !.pending[1].delay = @ - Timeout]
        BY <1>3, <2>2 DEF DeliverPending
      <4> HIDE DEF j
      <4> QED BY <1>1, <4>1 DEF Instruments
    <3>2. p[1] = reply /\ p[1] \in PendingSet(A)
      BY <1>1, <2>1
    <3>3. rest \in Nat
      BY <2>2, <3>2, ScriptedAssumption DEF PendingSet, ScriptedReplies
    <3> HIDE DEF rest
    <3>4. r \in PendingSet(A)
      BY <3>2, <3>3 DEF PendingSet, ScriptedReplies
    <3> HIDE DEF r
    <3>5. q \in Seq(PendingSet(A))
      BY <1>1, <2>1, <3>4, ExceptSeq
    <3> HIDE DEF q, j
    <3>6. SoundInst(j, A, F) /\ j.mock = i.mock
      BY <3>1, <3>5, WithPending
    <3> QED BY <1>3, <3>6, LaterSame DEF Ready, j
  <2>3. CASE ~(reply.delay > Timeout)
    <3> DEFINE t == Tail(p)
               x == [i EXCEPT !.pending = t]
               d == Deliver(x, reply)
    <3>1. j = d
      BY <1>3, <2>3 DEF DeliverPending
    <3> HIDE DEF t, reply, j
    <3>2. SoundInst(x, A, F) /\ x.mock = i.mock
      <4>1. t \in Seq(PendingSet(A))
        BY <2>1 DEF t
      <4> QED BY <4>1, WithPending
    <3> HIDE DEF x
    <3>3. /\ SoundInst(d, A, F) /\ Later(x.mock, d.mock)
          /\ Owned(x.mock, C) => Owned(d.mock, C) \/ d.mock.state = "OPEN"
      BY <2>1, <3>2, DeliverFacts
    <3> HIDE DEF d
    <3> QED BY <1>3, <3>1, <3>2, <3>3 DEF Ready, j
  <2> QED BY <2>2, <2>3
<1> QED BY <1>2, <1>3

\* What a read may leave, and return.
SoundRead(i, end, A, F) ==
  /\ SoundInst(end.inst, A, F)
  /\ Later(i.mock, end.inst.mock)
  /\ end.error # "none" => end.data = <<>>
  /\ end.data \in Seq(Harmless(F))
  /\ end = Outcome(end.inst, end.error, end.data)

\* A read takes the failure that is armed, and returns what is harmless.
LEMMA ReadReadyFacts ==
  ASSUME NEW A, NEW F, NEW i, SoundInst(i, A, F), NEW request \in RequestSet, NEW C
  PROVE  LET end == ReadReady(i, request) IN
         /\ SoundRead(i, end, A, F)
         /\ Owned(i.mock, C) \/ i.mock.state = "OPEN" => Owned(end.inst.mock, C)
<1> DEFINE r == MockRead(i.mock, request)
           lost == r.error # "none" /\ r.mock.state = "FAULTED"
           p == IF lost THEN <<>> ELSE i.pending
           j == [i EXCEPT !.mock = r.mock, !.pending = p]
           end == ReadReady(i, request)
<1>1. SoundMock(i.mock, F) /\ i.pending \in Seq(PendingSet(A)) /\ i \in Instruments
  BY DEF SoundInst
<1>2. /\ SoundEnd(i.mock, r, F)
      /\ Owned(i.mock, C) \/ i.mock.state = "OPEN" => Owned(r.mock, C)
  BY <1>1, MockReadFacts
<1>3. end = Outcome(j, r.error, r.data)
  BY DEF ReadReady, ReadEnded
<1> HIDE DEF r
<1>4. p \in Seq(PendingSet(A))
  BY <1>1
<1> HIDE DEF p, end
<1>5. SoundMock(r.mock, F)
  BY <1>2 DEF SoundEnd
<1>6. SoundInst(j, A, F)
  BY <1>4, <1>5, WithMockAndPending
<1>7. j.mock = r.mock
  BY <1>1, <1>5 DEF Instruments, SoundMock
<1> HIDE DEF j
<1>8. /\ end.inst = j /\ end.error = r.error /\ end.data = r.data
      /\ end = Outcome(end.inst, end.error, end.data)
  BY <1>3, OutcomeFields
<1>9. SoundRead(i, end, A, F)
  BY <1>2, <1>6, <1>7, <1>8 DEF SoundRead, SoundEnd
<1> QED BY <1>2, <1>7, <1>8, <1>9 DEF end

\* read() after the delayed replies.
LEMMA ScriptedReadFacts ==
  ASSUME NEW A \in SUBSET Nat, NEW F, A \cap F = {}, NEW i, SoundInst(i, A, F),
         NEW request \in RequestSet, NEW C
  PROVE  LET end == ScriptedRead(i, request) IN
         /\ SoundRead(i, end, A, F)
         /\ Ready(i, C) => Owned(end.inst.mock, C)
<1> DEFINE j == DeliverPending(i)
           r == ReadReady(j, request)
           end == ScriptedRead(i, request)
<1>1. /\ SoundInst(j, A, F) /\ Later(i.mock, j.mock)
      /\ Ready(i, C) => Owned(j.mock, C) \/ j.mock.state = "OPEN"
  BY DeliverPendingFacts
<1>2. end = r
  BY DEF ScriptedRead
<1> HIDE DEF j, end
<1>3. /\ SoundRead(j, r, A, F)
      /\ Owned(j.mock, C) \/ j.mock.state = "OPEN" => Owned(r.inst.mock, C)
  BY <1>1, ReadReadyFacts
<1> HIDE DEF r
<1>4. SoundRead(i, r, A, F)
  BY <1>1, <1>3 DEF SoundRead, Later
<1> QED BY <1>1, <1>2, <1>3, <1>4 DEF end

\* transact() returns what is harmless, or leaves no trace of its exchange; and the failure
\* of its reply is not left armed unless the exchange is one of C.
LEMMA ScriptedTransactFacts ==
  ASSUME NEW A \in SUBSET Nat, NEW F, A \cap F = {}, NEW i, SoundInst(i, A, F),
         NEW data \in Seq(Characters), NEW rules, NEW B, B \subseteq A, Answers(rules, B),
         NEW request \in RequestSet, NEW C
  PROVE  LET end == ScriptedTransact(i, data, rules, request) IN
         /\ SoundRead(i, end, A, F)
         /\ end.error # "none" => Dropped(end.inst)
         /\ /\ Owned(i.mock, C)
            /\ B \subseteq C \/ (i.pending = <<>> /\ Len(SplitOutbound(data).parts) <= 1)
            => Owned(end.inst.mock, C)
<1> DEFINE w == ScriptedWrite(i, data, rules)
           one == i.pending = <<>> /\ Len(SplitOutbound(data).parts) <= 1
           r == ScriptedRead(w.inst, request)
           e == ThenRead(w, request)
           d == DropOnError(e)
           end == ScriptedTransact(i, data, rules, request)
<1>1. /\ SoundInst(w.inst, A, F) /\ Later(i.mock, w.inst.mock) /\ w.data = <<>>
      /\ w = Outcome(w.inst, w.error, w.data)
      /\ w.error # "none" => Dropped(w.inst)
      /\ Owned(i.mock, C) /\ B \subseteq C => Owned(w.inst.mock, C)
      /\ Owned(i.mock, C) /\ i.pending = <<>> /\ Len(SplitOutbound(data).parts) <= 1 =>
           IF w.error = "none" THEN Ready(w.inst, C) ELSE Owned(w.inst.mock, C)
  BY ScriptedWriteFacts, Zenon
<1>2. e = IF w.error # "none" THEN w ELSE r
  BY DEF ThenRead
<1>3. end = d
  BY DEF ScriptedTransact
<1>4. one <=> i.pending = <<>> /\ Len(SplitOutbound(data).parts) <= 1
  OBVIOUS
<1> HIDE DEF w, e, end, one
<1>5. SoundRead(w.inst, r, A, F) /\ (Ready(w.inst, C) => Owned(r.inst.mock, C))
  BY <1>1, ScriptedReadFacts
<1> HIDE DEF r
<1>6. SoundRead(i, e, A, F) /\ (Owned(i.mock, C) /\ (B \subseteq C \/ one) => Owned(e.inst.mock, C))
  <2>1. CASE w.error # "none"
    <3>1. <<>> \in Seq(Harmless(F))
      OBVIOUS
    <3> QED BY <1>1, <1>2, <1>4, <2>1, <3>1 DEF SoundRead
  <2>2. CASE w.error = "none"
    <3>1. SoundRead(i, r, A, F)
      BY <1>1, <1>5 DEF SoundRead, Later
    <3>2. Owned(w.inst.mock, C) => Ready(w.inst, C)
      BY DEF Ready
    <3> QED BY <1>1, <1>2, <1>4, <1>5, <2>2, <3>1, <3>2
  <2> QED BY <2>1, <2>2
<1>7. /\ SoundInst(d.inst, A, F) /\ Later(e.inst.mock, d.inst.mock)
      /\ d.inst.mock.failRead = e.inst.mock.failRead
      /\ d.error = e.error /\ d.data = e.data
      /\ d.error # "none" => Dropped(d.inst)
      /\ d.error = "none" => d.inst = e.inst
  BY <1>6, DropOnErrorFacts, Zenon DEF SoundRead
<1>8. d = Outcome(d.inst, d.error, d.data)
  BY <1>6 DEF DropOnError, Outcome, SoundRead
<1> HIDE DEF d
<1>9. SoundRead(i, d, A, F)
  BY <1>6, <1>7, <1>8 DEF SoundRead, Later
<1>10. Owned(e.inst.mock, C) => Owned(d.inst.mock, C)
  BY <1>7 DEF Owned
<1> QED BY <1>3, <1>4, <1>6, <1>7, <1>9, <1>10 DEF end

\* flush() drops the delayed replies, and arms nothing.
LEMMA ScriptedFlushFacts ==
  ASSUME NEW A, NEW F, NEW i, SoundInst(i, A, F), NEW input
  PROVE  LET j == ScriptedFlush(i, input).inst IN
         SoundInst(j, A, F) /\ Later(i.mock, j.mock) /\ j.mock.failRead = i.mock.failRead
<1> DEFINE n == MockFlush(i.mock, input).mock
           p == IF input THEN <<>> ELSE i.pending
           j == ScriptedFlush(i, input).inst
           x == [i EXCEPT !.mock = n, !.pending = p]
<1>1. SoundMock(i.mock, F) /\ i.pending \in Seq(PendingSet(A)) /\ i \in Instruments
  BY DEF SoundInst
<1>2. SoundMock(n, F) /\ Later(i.mock, n) /\ n.failRead = i.mock.failRead
  BY <1>1, MockFlushFacts
<1>3. p \in Seq(PendingSet(A))
  BY <1>1
<1>4. j = x
  BY DEF ScriptedFlush, Outcome
<1> HIDE DEF n, p, j
<1>5. SoundInst(x, A, F)
  BY <1>2, <1>3, WithMockAndPending
<1>6. x.mock = n
  BY <1>1 DEF Instruments
<1> QED BY <1>2, <1>4, <1>5, <1>6 DEF j

\* Of nothing, nothing is counted.
LEMMA EmptyBytes == TotalBytes(<<>>) = 0 /\ Len(<<>>) = 0
<1> DEFINE o == [k \in DOMAIN <<>> |-> <<>>[k].payload]
<1>1. o = <<>> /\ Len(<<>>) = 0
  OBVIOUS
<1>2. TotalBytes(<<>>) = Len(FlattenSeq(o))
  BY DEF TotalBytes
<1> HIDE DEF o
<1>3. TotalBytes(<<>>) = Len(<<>>)
  BY <1>1, <1>2, FlattenEmpty, Zenon
<1> QED BY <1>1, <1>3

\* An empty history is within its limits.
LEMMA ClearHistoryFacts ==
  ASSUME NEW A, NEW F, NEW i, SoundInst(i, A, F)
  PROVE  LET j == ClearHistory(i) IN SoundInst(j, A, F) /\ j.mock = i.mock
<1> DEFINE j == ClearHistory(i)
<1>1. i \in Instruments
  BY DEF SoundInst
<1>2. /\ j \in Instruments /\ j.mock = i.mock /\ j.pending = i.pending
      /\ j.binary = <<>> /\ j.binaryBytes = 0
  <2>1. /\ <<>> \in Seq(Seq(Characters)) /\ <<>> \in Seq(Parts) /\ 0 \in Nat
    OBVIOUS
  <2> QED BY <1>1, <2>1 DEF Instruments, ClearHistory
<1> HIDE DEF j
<1>3. BinaryBounded(j)
  BY <1>2, EmptyBytes, ScriptedAssumption DEF BinaryBounded
<1> QED BY <1>2, <1>3 DEF SoundInst, j

\* More exchanges may have replies due.
LEMMA MoreDue ==
  ASSUME NEW A, NEW B, A \subseteq B, NEW F, NEW i, SoundInst(i, A, F)
  PROVE  SoundInst(i, B, F)
<1>1. PendingSet(A) \subseteq PendingSet(B)
  BY DEF PendingSet
<1>2. i.pending \in Seq(PendingSet(B))
  BY <1>1, SeqMonotonic DEF SoundInst
<1> QED BY <1>2 DEF SoundInst

------------------------------------------------------------------------------
\* The invariant.

\* The exchanges whose replies may be due.
Ids == {k \in (1..Len(asked)) \ failed : mock.state = "OPEN" /\ ~clearing => asked[k] = mock.opens}

\* An instrument with nothing due has only replies of no exchange.
LEMMA NoneDue ==
  ASSUME NEW A, NEW F, NEW i, SoundInst(i, A, F), i.pending = <<>>
  PROVE  \A B : SoundInst(i, B, F)
<1>1. \A B : <<>> \in Seq(PendingSet(B))
  OBVIOUS
<1> QED BY <1>1 DEF SoundInst

\* The invariant in the terms of the lemmas.
LEMMA Known ==
  ASSUME SimulationInv
  PROVE  /\ TypeOK
         /\ SoundInst(inst, Ids, failed)
         /\ Ids \in SUBSET Nat /\ Ids \cap failed = {} /\ Ids \subseteq 1..Len(asked)
         /\ Owned(mock, crowded)
         /\ \A b \in answer : b.id \in failed => b.late
         /\ ~wrapped => inst.pending = <<>>
<1>1. TypeOK /\ asked \in Seq(Nat) /\ inst \in Instruments
  BY DEF SimulationInv, TypeOK
<1>2. Ids \in SUBSET Nat /\ Ids \cap failed = {} /\ Ids \subseteq 1..Len(asked)
  BY DEF Ids
<1>3. Due \subseteq PendingSet(Ids)
  BY DEF Due, PendingSet, Ids
<1>4. inst.pending \in Seq(PendingSet(Ids))
  BY <1>3, SeqMonotonic DEF SimulationInv
<1>5. SoundMock(mock, failed)
  <2>1. mock \in Mocks
    BY <1>1, InstFields DEF mock
  <2> QED BY <2>1 DEF SimulationInv, SoundMock, ResourceAccounted, Accounted
<1>6. SoundInst(inst, Ids, failed)
  BY <1>1, <1>4, <1>5 DEF SimulationInv, SoundInst, mock
<1>7. Owned(mock, crowded)
  BY DEF SimulationInv, ScriptedFailureIsForItsExchange, Owned
<1>8. \A b \in answer : b.id \in failed => b.late
  BY DEF SimulationInv, FailedExchangeLeavesNothing
<1>9. ~wrapped => inst.pending = <<>>
  BY DEF SimulationInv
<1> QED BY <1>1, <1>2, <1>6, <1>7, <1>8, <1>9

\* What has to be shown of the state after a step.
LEMMA Assembled ==
  ASSUME test' \in {"mock", "query", "write"}, clearing' \in BOOLEAN, asked' \in Seq(Nat),
         failed' \subseteq 1..Len(asked'), crowded' \subseteq 1..Len(asked'),
         answer' \subseteq [id : Nat, late : BOOLEAN],
         NEW A, SoundInst(inst', A, failed'),
         A \subseteq (1..Len(asked')) \ failed',
         \A k \in A : inst'.mock.state = "OPEN" /\ ~clearing' => asked'[k] = inst'.mock.opens,
         Owned(inst'.mock, crowded'),
         \A b \in answer' : b.id \in failed' => b.late,
         test' = "mock" => inst'.pending = <<>>
  PROVE  SimulationInv'
<1>1. inst' \in Instruments /\ SoundMock(inst'.mock, failed') /\ BinaryBounded(inst')
  BY DEF SoundInst
<1>2. TypeOK'
  BY <1>1 DEF TypeOK
<1>3. ResourceAccounted' /\ LostMeansLate(inst'.mock) /\ inst'.mock.inbound \in Seq(Seq(Harmless(failed')))
  BY <1>1 DEF SoundMock, ResourceAccounted, Accounted, mock
<1>4. inst'.pending \in Seq(Due')
  <2>1. PendingSet(A) \subseteq Due'
    BY DEF PendingSet, Due, mock
  <2> QED BY <2>1, SeqMonotonic DEF SoundInst
<1>5. FailedExchangeLeavesNothing'
  BY DEF FailedExchangeLeavesNothing
<1>6. ScriptedFailureIsForItsExchange'
  BY DEF ScriptedFailureIsForItsExchange, Owned, mock
<1>7. (~wrapped => inst.pending = <<>>)'
  BY DEF wrapped
<1> QED BY <1>1, <1>2, <1>3, <1>4, <1>5, <1>6, <1>7 DEF SimulationInv, mock

\* A step that asks nothing and opens nothing.
LEMMA Moved ==
  ASSUME SimulationInv, UNCHANGED aux, SoundInst(inst', Ids, failed), Later(mock, inst'.mock),
         Owned(inst'.mock, crowded), answer' \subseteq [id : Nat, late : BOOLEAN],
         \A b \in answer' : b.id \in failed => b.late,
         ~wrapped => inst'.pending = <<>>
  PROVE  SimulationInv'
<1>1. TypeOK
  BY Known
<1>2. /\ test' = test /\ clearing' = clearing /\ asked' = asked /\ failed' = failed
      /\ crowded' = crowded
  BY DEF aux
<1>3. Ids \subseteq (1..Len(asked)) \ failed
  BY DEF Ids
<1>4. \A k \in Ids : inst'.mock.state = "OPEN" /\ ~clearing => asked[k] = inst'.mock.opens
  BY DEF Ids, Later
<1>5. test = "mock" => inst'.pending = <<>>
  BY DEF wrapped
<1> DEFINE A == Ids
<1>6. /\ SoundInst(inst', A, failed') /\ A \subseteq (1..Len(asked')) \ failed'
      /\ \A k \in A : inst'.mock.state = "OPEN" /\ ~clearing' => asked'[k] = inst'.mock.opens
  BY <1>2, <1>3, <1>4
<1> HIDE DEF A
<1> QED BY <1>1, <1>2, <1>5, <1>6, Assembled DEF TypeOK

\* What a read that may return harmless bytes answers.
LEMMA OriginsFacts ==
  ASSUME NEW F, NEW data \in Seq(Harmless(F))
  PROVE  /\ Origins(data) \subseteq [id : Nat, late : BOOLEAN]
         /\ \A b \in Origins(data) : b.id \in F => b.late
<1>1. ASSUME NEW i \in DOMAIN data
      PROVE  LET b == [id |-> data[i].id, late |-> data[i].late] IN
             b \in [id : Nat, late : BOOLEAN] /\ (b.id \in F => b.late)
  <2>1. data[i] \in Harmless(F)
    OBVIOUS
  <2> DEFINE x == data[i]
  <2>2. x.id \in Nat /\ x.late \in BOOLEAN /\ (x.id \in F => x.late)
    BY <2>1 DEF Harmless, Byte
  <2> HIDE DEF x
  <2>3. [id |-> x.id, late |-> x.late] \in [id : Nat, late : BOOLEAN]
    BY <2>2
  <2>4. [id |-> x.id, late |-> x.late].id = x.id /\ [id |-> x.id, late |-> x.late].late = x.late
    BY Zenon
  <2>5. [id |-> x.id, late |-> x.late].id \in F => [id |-> x.id, late |-> x.late].late
    BY <2>2, <2>4, Zenon
  <2> QED BY <2>3, <2>5 DEF x
<1> QED BY <1>1 DEF Origins

\* A mock that answers as before in the same instrument.
LEMMA MockMoved ==
  ASSUME SimulationInv, UNCHANGED aux, NEW n, inst' = [inst EXCEPT !.mock = n], SoundMock(n, failed),
         Later(mock, n), Owned(n, crowded), answer' \subseteq [id : Nat, late : BOOLEAN],
         \A b \in answer' : b.id \in failed => b.late
  PROVE  SimulationInv'
<1>1. SoundInst(inst, Ids, failed) /\ (~wrapped => inst.pending = <<>>)
  BY Known
<1> DEFINE j == [inst EXCEPT !.mock = n]
<1>2. SoundInst(j, Ids, failed) /\ j.mock = n /\ j.pending = inst.pending
  BY <1>1, WithMock
<1>3. inst' = j
  OBVIOUS
<1> HIDE DEF j
<1> QED BY <1>1, <1>2, <1>3, Moved

\* The initial states.
LEMMA SimulationInit == Init => SimulationInv
<1> SUFFICES ASSUME Init PROVE SimulationInv
  OBVIOUS
<1>1. PICK faults, quiet \in BOOLEAN : inst = NewInstrument(NewMock(faults, quiet))
  BY DEF Init
<1> DEFINE m == NewMock(faults, quiet)
<1>2. /\ inst.mock = m /\ inst.pending = <<>> /\ inst.history = <<>> /\ inst.binary = <<>>
      /\ inst.binaryBytes = 0 /\ inst.errors = <<>>
  BY <1>1 DEF NewInstrument
<1>3. /\ m \in Mocks
      /\ m.held = FALSE /\ m.opens = 0 /\ m.releases = 0 /\ m.state = "CREATED" /\ m.inbound = <<>>
      /\ m.failRead = NoInjection
  <2>1. <<>> \in Seq(Seq(Byte))
    OBVIOUS
  <2> QED BY <2>1, NothingArmed DEF NewMock, Mocks
<1> HIDE DEF m
<1>4. inst \in Instruments
  <2>1. /\ <<>> \in Seq(ScriptedReplies) /\ <<>> \in Seq(Seq(Characters)) /\ <<>> \in Seq(Parts)
        /\ <<>> \in Seq(Errors) /\ 0 \in Nat
    OBVIOUS
  <2>2. inst = [mock |-> m, pending |-> <<>>, history |-> <<>>, binary |-> <<>>,
                binaryBytes |-> 0, errors |-> <<>>]
    BY <1>1 DEF NewInstrument, m
  <2> QED BY <1>3, <2>1, <2>2 DEF Instruments, Errors
<1>5. /\ test \in {"mock", "query", "write"} /\ clearing = FALSE /\ asked = <<>> /\ failed = {}
      /\ crowded = {} /\ answer = {}
  BY DEF Init
<1>6. TypeOK
  <2>1. <<>> \in Seq(Nat) /\ Len(<<>>) = 0
    OBVIOUS
  <2> QED BY <1>4, <1>5, <2>1 DEF TypeOK
<1>7. ResourceAccounted /\ LostMeansLate(mock) /\ mock.inbound \in Seq(Seq(Harmless(failed)))
  <2>1. mock = m
    BY <1>2 DEF mock
  <2>2. m.inbound \in Seq(Seq(Harmless(failed))) /\ m.inbound \in Seq(Seq({b \in Byte : b.late}))
    BY <1>3
  <2>3. m.held = FALSE /\ m.state # "OPEN" /\ m.opens - m.releases = 0
    BY <1>3
  <2> QED BY <2>1, <2>2, <2>3 DEF ResourceAccounted, LostMeansLate
<1>8. inst.pending \in Seq(Due)
  BY <1>2
<1>9. FailedExchangeLeavesNothing /\ ScriptedFailureIsForItsExchange
  BY <1>2, <1>3, <1>5 DEF FailedExchangeLeavesNothing, ScriptedFailureIsForItsExchange, mock, NoInjection
<1>10. BinaryBounded(inst)
  BY <1>2, EmptyBytes, ScriptedAssumption DEF BinaryBounded
<1> QED BY <1>2, <1>6, <1>7, <1>8, <1>9, <1>10 DEF SimulationInv

\* A call that loses the lock before it clears the delayed replies.
LEMMA Clearing ==
  ASSUME SimulationInv, NEW n, SoundMock(n, failed), n.failRead = mock.failRead,
         inst' = [inst EXCEPT !.mock = n], clearing' \in BOOLEAN,
         n.state # "OPEN" \/ clearing' \/ ~wrapped,
         UNCHANGED <<test, asked, failed, crowded, answer, expected>>
  PROVE  SimulationInv'
<1>1. /\ TypeOK /\ SoundInst(inst, Ids, failed) /\ (~wrapped => inst.pending = <<>>)
      /\ Owned(mock, crowded) /\ \A b \in answer : b.id \in failed => b.late
  BY Known
<1> DEFINE j == [inst EXCEPT !.mock = n]
           A == IF wrapped THEN Ids ELSE {}
<1>2. SoundInst(j, Ids, failed) /\ j.mock = n /\ j.pending = inst.pending
  BY <1>1, WithMock
<1>3. inst' = j
  OBVIOUS
<1> HIDE DEF j
<1>4. SoundInst(j, A, failed)
  BY <1>1, <1>2, NoneDue
<1>5. A \subseteq (1..Len(asked)) \ failed
  BY DEF Ids
<1>6. \A k \in A : n.state = "OPEN" /\ ~clearing' => asked'[k] = n.opens
  OBVIOUS
<1>7. Owned(n, crowded)
  BY <1>1 DEF Owned
<1>8. /\ test' = test /\ asked' = asked /\ failed' = failed /\ crowded' = crowded /\ answer' = answer
  OBVIOUS
<1>9. test = "mock" => inst.pending = <<>>
  BY <1>1 DEF wrapped
<1> HIDE DEF A
<1>10. /\ SoundInst(inst', A, failed') /\ Owned(inst'.mock, crowded')
       /\ A \subseteq (1..Len(asked')) \ failed'
       /\ \A k \in A : inst'.mock.state = "OPEN" /\ ~clearing' => asked'[k] = inst'.mock.opens
       /\ test' = "mock" => inst'.pending = <<>>
  BY <1>2, <1>3, <1>4, <1>5, <1>6, <1>7, <1>8, <1>9
<1> QED BY <1>1, <1>8, <1>10, Assembled DEF TypeOK

\* Each action keeps the invariant.
LEMMA OpenKeeps == SimulationInv /\ Open => SimulationInv'
<1> SUFFICES ASSUME SimulationInv, Open PROVE SimulationInv'
  OBVIOUS
<1> DEFINE end == MockOpen(mock)
           n == end.mock
<1>1. SoundMock(mock, failed)
  BY Known DEF SoundInst, mock
<1>2. SoundMock(n, failed) /\ n.failRead = mock.failRead /\ (end.error # "none" => n.state # "OPEN")
  BY <1>1, MockOpenFacts
<1>3. /\ inst' = [inst EXCEPT !.mock = n] /\ clearing' = (wrapped /\ end.error = "none")
      /\ UNCHANGED <<test, asked, failed, crowded, answer, expected>>
  BY DEF Open
<1> HIDE DEF end, n
<1>4. clearing' \in BOOLEAN /\ (n.state # "OPEN" \/ clearing' \/ ~wrapped)
  BY <1>2, <1>3 DEF wrapped
<1> QED BY <1>2, <1>3, <1>4, Clearing

\* close() and invalidate().
LEMMA CloseKeeps == SimulationInv /\ (Close \/ InvalidateCall) => SimulationInv'
<1> SUFFICES ASSUME SimulationInv, Close \/ InvalidateCall PROVE SimulationInv'
  OBVIOUS
<1>1. SoundMock(mock, failed)
  BY Known DEF SoundInst, mock
<1>2. wrapped \in BOOLEAN
  BY DEF wrapped
<1>3. CASE Close
  <2> DEFINE n == MockClose(mock)
  <2>1. SoundMock(n, failed) /\ n.failRead = mock.failRead
    BY <1>1, MockCloseFacts
  <2>2. /\ inst' = [inst EXCEPT !.mock = n] /\ clearing' = wrapped
        /\ UNCHANGED <<test, asked, failed, crowded, answer, expected>>
    BY <1>3 DEF Close, mock
  <2> HIDE DEF n
  <2> QED BY <1>2, <2>1, <2>2, Clearing
<1>4. CASE InvalidateCall
  <2> DEFINE n == Invalidate(mock)
  <2>1. SoundMock(n, failed) /\ n.failRead = mock.failRead
    BY <1>1, InvalidateFacts
  <2>2. /\ inst' = [inst EXCEPT !.mock = n] /\ clearing' = wrapped
        /\ UNCHANGED <<test, asked, failed, crowded, answer, expected>>
    BY <1>4 DEF InvalidateCall, mock
  <2> HIDE DEF n
  <2> QED BY <1>2, <2>1, <2>2, Clearing
<1> QED BY <1>3, <1>4

\* The second step of open(), close() and invalidate(): the delayed replies are cleared.
LEMMA ClearPendingKeeps == SimulationInv /\ ClearPending => SimulationInv'
<1> SUFFICES ASSUME SimulationInv, ClearPending PROVE SimulationInv'
  OBVIOUS
<1>1. /\ TypeOK /\ SoundInst(inst, Ids, failed)
      /\ Owned(mock, crowded) /\ \A b \in answer : b.id \in failed => b.late
  BY Known
<1> DEFINE p == <<>>
           A == {}
           j == [inst EXCEPT !.pending = p]
<1>2. p \in Seq(PendingSet(A))
  OBVIOUS
<1>3. /\ inst' = j /\ clearing' = FALSE
      /\ UNCHANGED <<test, asked, failed, crowded, answer, expected>>
  BY DEF ClearPending
<1>4. A \subseteq (1..Len(asked)) \ failed /\ \A k \in A : asked[k] = inst'.mock.opens
  OBVIOUS
<1> HIDE DEF A, p
<1>5. SoundInst(j, A, failed) /\ j.mock = inst.mock /\ j.pending = p
  <2>1. SoundInst(j, A, failed)
    BY <1>1, <1>2, WithPending
  <2>2. inst \in Instruments
    BY <1>1 DEF SoundInst
  <2>3. j.mock = inst.mock /\ j.pending = p
    BY <2>2 DEF Instruments
  <2> QED BY <2>1, <2>3
<1> HIDE DEF j
<1>6. /\ SoundInst(inst', A, failed') /\ Owned(inst'.mock, crowded')
      /\ A \subseteq (1..Len(asked')) \ failed'
      /\ \A k \in A : inst'.mock.state = "OPEN" /\ ~clearing' => asked'[k] = inst'.mock.opens
      /\ test' = "mock" => inst'.pending = <<>>
  BY <1>1, <1>3, <1>4, <1>5 DEF mock, p
<1> QED BY <1>1, <1>3, <1>6, Assembled DEF TypeOK

\* A script that answers nothing replies for no exchange.
LEMMA QuietFacts ==
  ASSUME NEW message, NEW rules \in [DOMAIN message -> QuietRules]
  PROVE  Answers(rules, {})
<1> DEFINE B == {}
<1>1. NoReply \in ScriptedReplies
  BY DEF NoReply, ScriptedReplies
<1>2. \A kind \in {"unknown", "silent", "raises"} : Served(Rule(kind, NoReply), B)
  BY <1>1 DEF Served, Rule, Rules, Kinds
<1>3. DOMAIN rules = DOMAIN message /\ \A k \in DOMAIN message : rules[k] \in QuietRules
  OBVIOUS
<1>4. ASSUME NEW k \in Nat PROVE Served(Matching(rules, k), B)
  <2>1. CASE k \in DOMAIN rules
    BY <1>2, <1>3, <2>1 DEF QuietRules, Matching
  <2>2. CASE k \notin DOMAIN rules
    BY <1>2, <2>2 DEF Matching
  <2> QED BY <2>1, <2>2
<1> QED BY <1>4 DEF Answers

\* write() of the scripted transport, any message.
LEMMA WriteKeeps == ASSUME NEW message \in Messages PROVE SimulationInv /\ Write(message) => SimulationInv'
<1> SUFFICES ASSUME SimulationInv, Write(message) PROVE SimulationInv'
  OBVIOUS
<1> DEFINE data == Rendered(message)
<1>1. /\ SoundInst(inst, Ids, failed) /\ Ids \in SUBSET Nat /\ Ids \cap failed = {}
      /\ Owned(mock, crowded) /\ \A b \in answer : b.id \in failed => b.late
      /\ answer \subseteq [id : Nat, late : BOOLEAN]
  BY Known DEF TypeOK
<1>2. data \in Seq(Characters)
  <2>1. message \in Seq(Items)
    BY SimulationAssumption
  <2> QED BY <2>1, RenderedType
<1> HIDE DEF data
<1>3. PICK rules \in [DOMAIN message -> QuietRules] : inst' = ScriptedWrite(inst, data, rules).inst
  BY DEF Write, data
<1>4. test = "write" /\ UNCHANGED <<aux, answer>>
  BY DEF Write
<1> DEFINE B == {}
<1>5. Answers(rules, B)
  BY <1>3, QuietFacts
<1>6. B \subseteq Ids /\ B \subseteq crowded
  OBVIOUS
<1> HIDE DEF B
<1> DEFINE end == ScriptedWrite(inst, data, rules)
<1>7. /\ SoundInst(end.inst, Ids, failed) /\ Later(inst.mock, end.inst.mock) /\ end.data = <<>>
      /\ end = Outcome(end.inst, end.error, end.data)
      /\ end.error # "none" => Dropped(end.inst)
      /\ Owned(inst.mock, crowded) /\ B \subseteq crowded => Owned(end.inst.mock, crowded)
      /\ Owned(inst.mock, crowded) /\ inst.pending = <<>> /\ Len(SplitOutbound(data).parts) <= 1 =>
           IF end.error = "none" THEN Ready(end.inst, crowded) ELSE Owned(end.inst.mock, crowded)
  BY <1>1, <1>2, <1>5, <1>6, ScriptedWriteFacts, Zenon
<1> HIDE DEF end
<1>8. inst' = end.inst
  BY <1>3 DEF end
<1>9. wrapped
  BY <1>4 DEF wrapped
<1>10. UNCHANGED aux /\ answer' = answer
  BY <1>4
<1>11. Later(mock, inst'.mock) /\ Owned(inst'.mock, crowded) /\ SoundInst(inst', Ids, failed)
  BY <1>1, <1>6, <1>7, <1>8 DEF mock
<1> QED BY <1>1, <1>9, <1>10, <1>11, Moved

\* write() of the mock.
LEMMA WriteMockKeeps == SimulationInv /\ WriteMock => SimulationInv'
<1> SUFFICES ASSUME SimulationInv, WriteMock PROVE SimulationInv'
  OBVIOUS
<1> DEFINE n == MockWrite(mock).mock
<1>1. /\ SoundMock(mock, failed) /\ Owned(mock, crowded)
      /\ \A b \in answer : b.id \in failed => b.late
      /\ answer \subseteq [id : Nat, late : BOOLEAN]
  BY Known DEF TypeOK, SoundInst, mock
<1>2. SoundMock(n, failed) /\ Later(mock, n) /\ n.failRead = mock.failRead
  BY <1>1, MockWriteFacts DEF SoundEnd
<1>3. inst' = [inst EXCEPT !.mock = n] /\ UNCHANGED aux /\ answer' = answer
  BY DEF WriteMock, mock
<1> HIDE DEF n
<1>4. Owned(n, crowded)
  BY <1>1, <1>2 DEF Owned
<1> QED BY <1>1, <1>2, <1>3, <1>4, MockMoved

\* read() of the scripted transport or the mock.
LEMMA ReadKeeps == ASSUME NEW request \in Requests PROVE SimulationInv /\ Read(request) => SimulationInv'
<1> SUFFICES ASSUME SimulationInv, Read(request) PROVE SimulationInv'
  OBVIOUS
<1>1. /\ SoundInst(inst, Ids, failed) /\ Ids \in SUBSET Nat /\ Ids \cap failed = {}
      /\ SoundMock(mock, failed) /\ Owned(mock, crowded) /\ (~wrapped => inst.pending = <<>>)
  BY Known DEF SoundInst, mock
<1>2. request \in RequestSet
  BY SimulationAssumption DEF RequestSet
<1>3. UNCHANGED aux
  BY DEF Read
<1>4. CASE wrapped
  <2> DEFINE end == ScriptedRead(inst, request)
  <2>1. inst' = end.inst /\ answer' = Origins(end.data)
    BY <1>4 DEF Read
  <2>2. SoundRead(inst, end, Ids, failed)
    BY <1>1, <1>2, ScriptedReadFacts
  <2>3. Ready(inst, crowded) => Owned(end.inst.mock, crowded)
    BY <1>1, <1>2, ScriptedReadFacts
  <2> HIDE DEF end
  <2>4. Ready(inst, crowded)
    BY <1>1 DEF Ready, mock
  <2>5. /\ SoundInst(inst', Ids, failed) /\ Later(mock, inst'.mock) /\ Owned(inst'.mock, crowded)
        /\ end.data \in Seq(Harmless(failed))
    BY <2>1, <2>2, <2>3, <2>4 DEF SoundRead, mock
  <2>6. answer' \subseteq [id : Nat, late : BOOLEAN] /\ \A b \in answer' : b.id \in failed => b.late
    BY <2>1, <2>5, OriginsFacts
  <2> QED BY <1>3, <1>4, <2>5, <2>6, Moved
<1>5. CASE ~wrapped
  <2> DEFINE r == MockRead(mock, request)
             n == r.mock
  <2>1. inst' = [inst EXCEPT !.mock = n] /\ answer' = Origins(r.data)
    BY <1>5 DEF Read, Outcome
  <2>2. /\ SoundEnd(mock, r, failed)
        /\ Owned(mock, crowded) \/ mock.state = "OPEN" => Owned(n, crowded)
    BY <1>1, <1>2, MockReadFacts
  <2> HIDE DEF r
  <2>3. /\ SoundMock(n, failed) /\ Later(mock, n) /\ Owned(n, crowded)
        /\ r.data \in Seq(Harmless(failed))
    BY <1>1, <2>2 DEF SoundEnd
  <2>4. answer' \subseteq [id : Nat, late : BOOLEAN] /\ \A b \in answer' : b.id \in failed => b.late
    BY <2>1, <2>3, OriginsFacts
  <2> HIDE DEF n
  <2> QED BY <1>3, <2>1, <2>3, <2>4, MockMoved
<1> QED BY <1>4, <1>5

\* flush_input() and flush_output().
LEMMA FlushKeeps == ASSUME NEW input \in BOOLEAN PROVE SimulationInv /\ Flush(input) => SimulationInv'
<1> SUFFICES ASSUME SimulationInv, Flush(input) PROVE SimulationInv'
  OBVIOUS
<1>1. /\ SoundInst(inst, Ids, failed) /\ SoundMock(mock, failed) /\ Owned(mock, crowded)
      /\ \A b \in answer : b.id \in failed => b.late
      /\ answer \subseteq [id : Nat, late : BOOLEAN]
  BY Known DEF TypeOK, SoundInst, mock
<1>2. UNCHANGED aux /\ answer' = answer
  BY DEF Flush
<1>3. CASE wrapped
  <2> DEFINE j == ScriptedFlush(inst, input).inst
  <2>1. inst' = j
    BY <1>3 DEF Flush
  <2>2. SoundInst(j, Ids, failed) /\ Later(inst.mock, j.mock) /\ j.mock.failRead = inst.mock.failRead
    BY <1>1, ScriptedFlushFacts
  <2> HIDE DEF j
  <2>3. SoundInst(inst', Ids, failed) /\ Later(mock, inst'.mock) /\ Owned(inst'.mock, crowded)
    BY <1>1, <2>1, <2>2 DEF Owned, mock
  <2> QED BY <1>1, <1>2, <1>3, <2>3, Moved
<1>4. CASE ~wrapped
  <2> DEFINE n == MockFlush(mock, input).mock
  <2>1. inst' = [inst EXCEPT !.mock = n]
    BY <1>4 DEF Flush, mock
  <2>2. SoundMock(n, failed) /\ Later(mock, n) /\ n.failRead = mock.failRead
    BY <1>1, MockFlushFacts
  <2> HIDE DEF n
  <2>3. Owned(n, crowded)
    BY <1>1, <2>2 DEF Owned
  <2> QED BY <1>1, <1>2, <2>1, <2>2, <2>3, MockMoved
<1> QED BY <1>3, <1>4

\* A script numbered for its exchange replies for no other.
LEMMA NumberedFacts ==
  ASSUME NEW script \in Scripts, NEW id \in Nat
  PROVE  Answers(Numbered(script, id), {id})
<1> DEFINE rules == Numbered(script, id)
<1>1. script \in Seq(Rules)
  BY SimulationAssumption
<1>2. NoReply \in ScriptedReplies
  BY DEF NoReply, ScriptedReplies
<1>3. Served(Rule("unknown", NoReply), {id})
  BY <1>2 DEF Served, Rule, Rules, Kinds
<1>4. ASSUME NEW k \in DOMAIN rules PROVE Served(rules[k], {id})
  <2>1. k \in DOMAIN script /\ rules[k] = [script[k] EXCEPT !.reply.id = id]
    BY DEF Numbered
  <2>2. script[k] \in Rules
    BY <1>1, <2>1
  <2> DEFINE r == script[k]
             x == [r EXCEPT !.reply.id = id]
  <2>3. r.kind \in Kinds /\ r.reply \in ScriptedReplies /\ r = [kind |-> r.kind, reply |-> r.reply]
    BY <2>2 DEF Rules
  <2> HIDE DEF r
  <2>4. x = [kind |-> r.kind, reply |-> [r.reply EXCEPT !.id = id]]
    BY <2>3
  <2>5. [r.reply EXCEPT !.id = id] \in ScriptedReplies /\ [r.reply EXCEPT !.id = id].id = id
    BY <2>3 DEF ScriptedReplies
  <2>6. x \in Rules /\ x.reply.id = id
    BY <2>3, <2>4, <2>5 DEF Rules
  <2> QED BY <2>1, <2>6 DEF Served, r
<1> QED BY <1>3, <1>4 DEF Answers, Matching

\* The lengths a step on asked works with.
LEMMA AskedFacts ==
  ASSUME NEW n, asked \in Seq(Nat), n \in Nat, asked' = Append(asked, n)
  PROVE  /\ asked' \in Seq(Nat) /\ Len(asked) \in Nat /\ Len(asked') = Len(asked) + 1
         /\ asked'[Len(asked) + 1] = n
         /\ \A k \in 1..Len(asked) : asked'[k] = asked[k]
BY AppendProperties

\* A scripted exchange: what its script leaves behind, if it fails, is of a crowded exchange or
\* came too late.
LEMMA TransactKeeps ==
  ASSUME NEW script \in Scripts, NEW request \in Requests
  PROVE  SimulationInv /\ Transact(script, request) => SimulationInv'
<1> SUFFICES ASSUME SimulationInv, Transact(script, request) PROVE SimulationInv'
  OBVIOUS
<1> DEFINE id == Len(asked) + 1
           n == Len(script)
           data == Rendered(Query(n))
           rules == Numbered(script, id)
           end == ScriptedTransact(inst, data, rules, request)
           C == crowded'
           B == {id}
           A == Ids \cup B
<1>1. /\ TypeOK /\ SoundInst(inst, Ids, failed) /\ Ids \in SUBSET Nat /\ Ids \cap failed = {}
      /\ Ids \subseteq 1..Len(asked) /\ SoundMock(mock, failed) /\ Owned(mock, crowded)
  BY Known DEF SoundInst, mock
<1>2. /\ inst' = end.inst /\ answer' = Origins(end.data)
      /\ failed' = failed \cup {k \in {id} : end.error # "none"}
      /\ asked' = Append(asked, mock.opens)
      /\ crowded' = crowded \cup {k \in {id} : n > 1 \/ inst.pending # <<>>}
      /\ test' = test /\ clearing' = clearing /\ test = "query"
  BY DEF Transact
<1>3. mock.opens \in Nat
  BY <1>1, MockFields DEF SoundMock
<1>4. /\ asked' \in Seq(Nat) /\ Len(asked) \in Nat /\ Len(asked') = Len(asked) + 1
      /\ asked'[Len(asked) + 1] = mock.opens
      /\ \A k \in 1..Len(asked) : asked'[k] = asked[k]
  BY <1>1, <1>2, <1>3, AskedFacts DEF TypeOK
<1>5. failed \subseteq 1..Len(asked) /\ crowded \subseteq 1..Len(asked)
  BY <1>1 DEF TypeOK
<1> DEFINE L == Len(asked)
<1>6. L \in Nat /\ id = L + 1 /\ Len(asked') = id /\ id \in Nat /\ id \notin failed /\ id \in 1..id
  <2>1. L \in Nat /\ id = L + 1 /\ Len(asked') = id
    BY <1>4
  <2>2. failed \subseteq 1..L
    BY <1>5
  <2> HIDE DEF L, id
  <2> QED BY <2>1, <2>2
<1> HIDE DEF L, id
<1>7. /\ A \in SUBSET Nat /\ A \cap failed = {} /\ B \subseteq A
      /\ A \subseteq (1..id) \ failed
  <2>1. Ids \subseteq 1..L
    BY <1>1 DEF L
  <2> QED BY <1>1, <1>6, <2>1
<1>8. SoundInst(inst, A, failed)
  BY <1>1, MoreDue
<1>9. data \in Seq(Characters) /\ request \in RequestSet
  <2>1. n \in {1, 2} /\ request \in RequestSet
    BY SimulationAssumption DEF RequestSet
  <2> HIDE DEF n
  <2>2. Query(n) \in Seq(Items)
    BY <2>1, QueryType
  <2> QED BY <2>1, <2>2, RenderedType
<1>10. Answers(rules, B)
  BY <1>6, NumberedFacts
<1>11. Owned(inst.mock, C)
  BY <1>1, <1>2 DEF Owned, mock
<1>12. B \subseteq C \/ (inst.pending = <<>> /\ Len(SplitOutbound(data).parts) <= 1)
  <2>1. CASE id \in C
    BY <2>1
  <2>2. CASE id \notin C
    <3>1. inst.pending = <<>> /\ ~(n > 1)
      BY <1>2, <2>2
    <3>2. n \in {1, 2}
      BY SimulationAssumption
    <3> HIDE DEF n
    <3>3. n = 1
      BY <3>1, <3>2
    <3> QED BY <3>1, <3>3, QueryIsOne
  <2> QED BY <2>1, <2>2
<1> HIDE DEF data, rules, B, C, n
<1>13. /\ SoundRead(inst, end, A, failed)
       /\ end.error # "none" => Dropped(end.inst)
       /\ /\ Owned(inst.mock, C)
          /\ B \subseteq C \/ (inst.pending = <<>> /\ Len(SplitOutbound(data).parts) <= 1)
          => Owned(end.inst.mock, C)
  BY <1>7, <1>8, <1>9, <1>10, ScriptedTransactFacts, Zenon
<1> HIDE DEF end
<1>14. Owned(inst'.mock, crowded')
  BY <1>2, <1>11, <1>12, <1>13 DEF C
<1>15. answer' \subseteq [id : Nat, late : BOOLEAN] /\ \A b \in answer' : b.id \in failed' => b.late
  <2>1. end.data \in Seq(Harmless(failed'))
    <3>1. CASE end.error # "none"
      <4>1. end.data = <<>>
        BY <1>13, <3>1 DEF SoundRead
      <4> QED BY <4>1
    <3>2. CASE end.error = "none"
      <4>1. failed' = failed
        BY <1>2, <3>2
      <4> QED BY <1>13, <4>1 DEF SoundRead
    <3> QED BY <3>1, <3>2
  <2> QED BY <1>2, <2>1, OriginsFacts
<1>16. /\ failed' \subseteq 1..Len(asked') /\ crowded' \subseteq 1..Len(asked')
  <2>1. failed \subseteq 1..L /\ crowded \subseteq 1..L
    BY <1>5 DEF L
  <2>2. failed' \subseteq failed \cup {id} /\ crowded' \subseteq crowded \cup {id}
    BY <1>2
  <2> QED BY <1>6, <2>1, <2>2
<1>17. test' \in {"mock", "query", "write"} /\ clearing' \in BOOLEAN /\ test' # "mock"
  BY <1>1, <1>2 DEF TypeOK
<1>18. CASE end.error # "none"
  <2> DEFINE E == {}
  <2>1. SoundInst(inst', E, failed')
    BY <1>2, <1>13, <1>18 DEF Dropped
  <2>2. /\ E \subseteq (1..Len(asked')) \ failed'
        /\ \A k \in E : inst'.mock.state = "OPEN" /\ ~clearing' => asked'[k] = inst'.mock.opens
    OBVIOUS
  <2> HIDE DEF E
  <2> QED BY <1>4, <1>14, <1>15, <1>16, <1>17, <2>1, <2>2, Assembled
<1>19. CASE end.error = "none"
  <2>1. failed' = failed
    BY <1>2, <1>19
  <2>2. SoundInst(inst', A, failed') /\ Later(mock, inst'.mock)
    BY <1>2, <1>13, <2>1 DEF SoundRead, mock
  <2>3. A \subseteq (1..Len(asked')) \ failed'
    BY <1>6, <1>7, <2>1
  <2>4. ASSUME NEW k \in A, inst'.mock.state = "OPEN", ~clearing'
        PROVE  asked'[k] = inst'.mock.opens
    <3>1. mock.state = "OPEN" /\ ~clearing /\ inst'.mock.opens = mock.opens
      BY <1>2, <2>2, <2>4 DEF Later
    <3>2. CASE k \in Ids
      <4>1. asked[k] = mock.opens /\ k \in 1..Len(asked)
        BY <3>1, <3>2 DEF Ids
      <4> QED BY <1>4, <3>1, <4>1
    <3>3. CASE k = id
      BY <1>4, <3>1, <3>3 DEF id
    <3> QED BY <3>2, <3>3 DEF B
  <2> HIDE DEF A
  <2> QED BY <1>4, <1>14, <1>15, <1>16, <1>17, <2>2, <2>3, <2>4, Assembled
<1> QED BY <1>18, <1>19

\* An exchange of the mock, with the reply the test feeds.
LEMMA TransactMockKeeps ==
  ASSUME NEW reply \in Replies, NEW request \in Requests
  PROVE  SimulationInv /\ TransactMock(reply, request) => SimulationInv'
<1> SUFFICES ASSUME SimulationInv, TransactMock(reply, request) PROVE SimulationInv'
  OBVIOUS
<1> DEFINE id == Len(asked) + 1
           r == [reply EXCEPT !.id = id]
           bytes == Bytes(mock, r)
           end == MockTransact(mock, <<bytes>>, request)
           m == end.mock
           j == [inst EXCEPT !.mock = m]
           dropped == mock.faults /\ end.error = "TransportTimeoutError"
<1>1. /\ TypeOK /\ SoundInst(inst, Ids, failed) /\ Ids \in SUBSET Nat /\ Ids \cap failed = {}
      /\ SoundMock(mock, failed) /\ Owned(mock, crowded) /\ (~wrapped => inst.pending = <<>>)
  BY Known DEF SoundInst, mock
<1>2. /\ inst' = j /\ answer' = Origins(end.data)
      /\ failed' = failed \cup {k \in {id} : dropped}
      /\ asked' = Append(asked, mock.opens)
      /\ test' = test /\ clearing' = clearing /\ crowded' = crowded /\ ~wrapped
  BY DEF TransactMock
<1>3. mock.opens \in Nat
  BY <1>1, MockFields DEF SoundMock
<1>4. asked' \in Seq(Nat) /\ Len(asked) \in Nat /\ Len(asked') = Len(asked) + 1
  BY <1>1, <1>2, <1>3, AskedFacts DEF TypeOK
<1>5. failed \subseteq 1..Len(asked) /\ crowded \subseteq 1..Len(asked)
  BY <1>1 DEF TypeOK
<1>6. /\ id \in Nat /\ id \notin failed /\ failed \cup {id} \subseteq 1..Len(asked')
      /\ crowded \subseteq 1..Len(asked')
  <2> DEFINE L == Len(asked)
  <2>1. L \in Nat /\ id = L + 1 /\ Len(asked') = id /\ failed \subseteq 1..L /\ crowded \subseteq 1..L
    BY <1>4, <1>5
  <2> HIDE DEF L, id
  <2> QED BY <2>1
<1> HIDE DEF id
<1>7. r \in ScriptedReplies /\ r.id = id
  BY <1>6, SimulationAssumption DEF ScriptedReplies
<1> HIDE DEF r
<1>8. bytes \in Seq(Harmless(failed))
  BY <1>6, <1>7, BytesFacts
<1>9. request \in RequestSet
  BY SimulationAssumption DEF RequestSet
<1> HIDE DEF bytes
<1>10. /\ SoundEnd(mock, end, failed)
       /\ Owned(end.mock, crowded)
       /\ mock.faults /\ end.error = "TransportTimeoutError" => \A G : SoundMock(end.mock, G)
  BY <1>1, <1>8, <1>9, MockTransactFacts, Zenon
<1> HIDE DEF end
<1>11. end.data \in Seq(Harmless(failed')) /\ SoundMock(m, failed')
  <2>1. CASE dropped
    <3>1. end.data = <<>>
      BY <1>10, <2>1 DEF SoundEnd
    <3> QED BY <1>10, <2>1, <3>1
  <2>2. CASE ~dropped
    <3>1. failed' = failed
      BY <1>2, <2>2
    <3> QED BY <1>10, <3>1 DEF SoundEnd
  <2> QED BY <2>1, <2>2
<1>12. answer' \subseteq [id : Nat, late : BOOLEAN] /\ \A b \in answer' : b.id \in failed' => b.late
  BY <1>2, <1>11, OriginsFacts
<1> DEFINE E == {}
<1>13. SoundInst(inst, E, failed)
  BY <1>1, <1>2, NoneDue
<1>14. /\ E \subseteq (1..Len(asked')) \ failed'
       /\ \A k \in E : inst'.mock.state = "OPEN" /\ ~clearing' => asked'[k] = inst'.mock.opens
  OBVIOUS
<1>15. inst \in Instruments /\ m \in Mocks
  BY <1>1, <1>11 DEF SoundInst, SoundMock
<1> HIDE DEF E, m, dropped
<1>16. SoundInst(j, E, failed')
  BY <1>11, <1>13, WithMock
<1>17. j.mock = m /\ j.pending = inst.pending
  BY <1>15 DEF Instruments
<1> HIDE DEF j
<1>18. Owned(inst'.mock, crowded') /\ SoundInst(inst', E, failed') /\ inst'.pending = <<>>
  BY <1>1, <1>2, <1>10, <1>16, <1>17 DEF m
<1>19. failed' \subseteq 1..Len(asked') /\ crowded' \subseteq 1..Len(asked')
  BY <1>2, <1>6
<1>20. test' \in {"mock", "query", "write"} /\ clearing' \in BOOLEAN
  BY <1>1, <1>2 DEF TypeOK
<1> QED BY <1>4, <1>12, <1>14, <1>18, <1>19, <1>20, Assembled

\* The test arms a failure.
LEMMA FailNextKeeps ==
  ASSUME NEW kind \in Injectable, NEW fault \in BOOLEAN,
         NEW error \in {"TransportError", "TransportTimeoutError"}
  PROVE  SimulationInv /\ FailNext(kind, error, fault) => SimulationInv'
<1> SUFFICES ASSUME SimulationInv, FailNext(kind, error, fault) PROVE SimulationInv'
  OBVIOUS
<1> DEFINE i == Arm(mock, error, fault, 0)
           n == [mock EXCEPT ![kind] = i]
           late == mock.state # "OPEN"
<1>1. /\ inst \in Instruments /\ SoundMock(mock, failed) /\ Owned(mock, crowded)
      /\ \A b \in answer : b.id \in failed => b.late
      /\ answer \subseteq [id : Nat, late : BOOLEAN]
  BY Known DEF TypeOK, SoundInst, mock
<1>2. i = [armed |-> TRUE, error |-> error, fault |-> fault, id |-> 0, late |-> late]
  BY DEF Arm
<1>3. late \in BOOLEAN
  OBVIOUS
<1> HIDE DEF late
<1>4. i \in Injections /\ i.id = 0
  BY <1>2, <1>3, ArmFacts
<1>5. inst' = [inst EXCEPT !.mock = n] /\ UNCHANGED aux /\ answer' = answer
  <2>1. inst' = [inst EXCEPT !.mock[kind] = i] /\ UNCHANGED aux /\ answer' = answer
    BY DEF FailNext
  <2> HIDE DEF i
  <2>2. inst' = [inst EXCEPT !.mock = n]
    BY <1>1, <2>1 DEF mock, Instruments
  <2> QED BY <2>1, <2>2
<1> HIDE DEF i
<1>6. /\ SoundMock(n, failed) /\ n.state = mock.state /\ n.opens = mock.opens
      /\ n.failRead = IF kind = "failRead" THEN i ELSE mock.failRead
  BY <1>1, <1>4, InjectionFacts
<1> HIDE DEF n
<1>7. Later(mock, n) /\ Owned(n, crowded)
  BY <1>1, <1>4, <1>6 DEF Later, Owned
<1> QED BY <1>1, <1>5, <1>6, <1>7, MockMoved

\* The test disconnects the mock.
LEMMA DisconnectKeeps == SimulationInv /\ Disconnect => SimulationInv'
<1> SUFFICES ASSUME SimulationInv, Disconnect PROVE SimulationInv'
  OBVIOUS
<1> DEFINE n == Fault(mock)
<1>1. /\ SoundMock(mock, failed) /\ Owned(mock, crowded)
      /\ \A b \in answer : b.id \in failed => b.late
      /\ answer \subseteq [id : Nat, late : BOOLEAN]
  BY Known DEF TypeOK, SoundInst, mock
<1>2. SoundMock(n, failed) /\ Later(mock, n) /\ n.failRead = mock.failRead
  BY <1>1, FaultFacts DEF SoundMock
<1>3. inst' = [inst EXCEPT !.mock = n] /\ UNCHANGED aux /\ answer' = answer
  BY DEF Disconnect, SimulateDisconnect, mock
<1> HIDE DEF n
<1>4. Owned(n, crowded)
  BY <1>1, <1>2 DEF Owned
<1> QED BY <1>1, <1>2, <1>3, <1>4, MockMoved

\* push_error() and clear_history().
LEMMA PushErrorKeeps == SimulationInv /\ (PushError \/ ClearHistoryCall) => SimulationInv'
<1> SUFFICES ASSUME SimulationInv, PushError \/ ClearHistoryCall PROVE SimulationInv'
  OBVIOUS
<1>1. /\ inst \in Instruments /\ SoundInst(inst, Ids, failed) /\ Owned(mock, crowded)
      /\ \A b \in answer : b.id \in failed => b.late
      /\ answer \subseteq [id : Nat, late : BOOLEAN]
  BY Known DEF TypeOK
<1>2. UNCHANGED aux /\ answer' = answer /\ wrapped
  BY DEF PushError, ClearHistoryCall, wrapped
<1>3. SoundInst(inst', Ids, failed) /\ inst'.mock = inst.mock
  <2>1. CASE PushError
    <3> DEFINE e == Append(inst.errors, "pushed")
    <3>1. inst' = [inst EXCEPT !.errors = e]
      BY <2>1 DEF PushError
    <3>2. inst.errors \in Seq(Errors) /\ "pushed" \in Errors
      BY <1>1, InstFields DEF Errors
    <3>3. e \in Seq(Errors)
      BY <3>2, AppendProperties
    <3> HIDE DEF e
    <3>4. SoundInst([inst EXCEPT !.errors = e], Ids, failed)
      BY <1>1, <3>3, WithErrors
    <3>5. [inst EXCEPT !.errors = e].mock = inst.mock
      BY <1>1 DEF Instruments
    <3> QED BY <3>1, <3>4, <3>5
  <2>2. CASE ClearHistoryCall
    BY <1>1, <2>2, ClearHistoryFacts DEF ClearHistoryCall
  <2> QED BY <2>1, <2>2
<1>4. Later(mock, inst'.mock) /\ Owned(inst'.mock, crowded)
  BY <1>1, <1>3, LaterSame DEF mock
<1> QED BY <1>1, <1>2, <1>3, <1>4, Moved

\* Every step keeps the invariant.
LEMMA SimulationStep == SimulationInv /\ [Next]_vars => SimulationInv'
<1> SUFFICES ASSUME SimulationInv, [Next]_vars PROVE SimulationInv'
  OBVIOUS
<1>1. CASE Open
  BY <1>1, OpenKeeps
<1>2. CASE Close \/ InvalidateCall
  BY <1>2, CloseKeeps
<1>3. CASE ClearPending
  BY <1>3, ClearPendingKeeps
<1>4. ASSUME NEW message \in Messages, Write(message) PROVE SimulationInv'
  BY <1>4, WriteKeeps
<1>5. CASE WriteMock
  BY <1>5, WriteMockKeeps
<1>6. ASSUME NEW script \in Scripts, NEW request \in Requests, Transact(script, request)
      PROVE  SimulationInv'
  BY <1>6, TransactKeeps
<1>7. ASSUME NEW reply \in Replies, NEW request \in Requests, TransactMock(reply, request)
      PROVE  SimulationInv'
  BY <1>7, TransactMockKeeps
<1>8. ASSUME NEW request \in Requests, Read(request) PROVE SimulationInv'
  BY <1>8, ReadKeeps
<1>9. ASSUME NEW input \in BOOLEAN, Flush(input) PROVE SimulationInv'
  BY <1>9, FlushKeeps
<1>10. ASSUME NEW kind \in Injectable, NEW fault \in BOOLEAN,
              NEW error \in {"TransportError", "TransportTimeoutError"}, FailNext(kind, error, fault)
       PROVE  SimulationInv'
  BY <1>10, FailNextKeeps
<1>11. CASE Disconnect
  BY <1>11, DisconnectKeeps
<1>12. CASE PushError \/ ClearHistoryCall
  BY <1>12, PushErrorKeeps
<1>13. CASE UNCHANGED vars
  BY <1>13 DEF vars, SimulationInv, TypeOK, ResourceAccounted, LostMeansLate, Harmless, Due,
    FailedExchangeLeavesNothing, ScriptedFailureIsForItsExchange, BinaryBounded, mock, wrapped
<1> QED BY <1>1, <1>2, <1>3, <1>4, <1>5, <1>6, <1>7, <1>8, <1>9, <1>10, <1>11, <1>12, <1>13 DEF Next

\* The inductive invariant of the simulators holds throughout.
THEOREM SimulationInvariant == Spec => []SimulationInv
<1> QED BY SimulationInit, SimulationStep, PTL DEF Spec

\* Every value of the instrument and of its mock has its type: the histories hold commands and
\* payloads, the delayed replies the ids of exchanges, and an armed injection has an error.
THEOREM SimulationTypes == Spec => []TypeOK
<1>1. SimulationInv => TypeOK
  BY DEF SimulationInv
<1> QED BY <1>1, SimulationInvariant, PTL

\* open_count and release_count of the mock: the resource is held exactly in OPEN, and every
\* opening but the one held has been released once, whatever is injected or times out.
THEOREM ResourcesAccounted == Spec => []ResourceAccounted
<1>1. SimulationInv => ResourceAccounted
  BY DEF SimulationInv
<1> QED BY <1>1, SimulationInvariant, PTL

\* No read returns a byte of an exchange that failed, unless the byte reached the mock when the
\* connection was already lost: a failure drops what is buffered and what is still due.
THEOREM FailedExchangesLeaveNothing == Spec => []FailedExchangeLeavesNothing
<1>1. SimulationInv => FailedExchangeLeavesNothing
  BY DEF SimulationInv
<1> QED BY <1>1, SimulationInvariant, PTL

\* A failure that a script put on a reply waits in the mock only for the read of its exchange,
\* unless that exchange was crowded or the failure came on a lost connection.
THEOREM ScriptedFailures == Spec => []ScriptedFailureIsForItsExchange
<1>1. SimulationInv => ScriptedFailureIsForItsExchange
  BY DEF SimulationInv
<1> QED BY <1>1, SimulationInvariant, PTL

\* A delayed reply that is due on an open connection was asked on that connection, once the
\* call that lost or opened it has returned.
THEOREM DelayedReplies == Spec => []DelayedReplyInItsConnection
<1>1. SimulationInv => DelayedReplyInItsConnection
  <2> SUFFICES ASSUME SimulationInv, mock.state = "OPEN", ~clearing, NEW i \in DOMAIN inst.pending
               PROVE  asked[inst.pending[i].id] = mock.opens
    BY DEF DelayedReplyInItsConnection
  <2>1. inst.pending \in Seq(Due)
    BY DEF SimulationInv
  <2>2. inst.pending[i] \in Due
    BY <2>1
  <2> QED BY <2>2 DEF Due
<1> QED BY <1>1, SimulationInvariant, PTL

\* The binary history keeps to its limits of entries and of bytes, and its count of bytes is
\* exact, whatever blocks are written and whenever it is cleared (_record_binary).
THEOREM BinaryHistoryBounded == Spec => []BinaryBounded(inst)
<1>1. SimulationInv => BinaryBounded(inst)
  BY DEF SimulationInv
<1> QED BY <1>1, SimulationInvariant, PTL

\* A payload in the binary history, encoded as a block, decodes to itself; with any number of its
\* bytes missing it is refused, and with a byte too many accepted only where that is allowed.
THEOREM PayloadsSurvive == Spec => []PayloadsRoundTrip
<1>1. SimulationInv => PayloadsRoundTrip
  <2> SUFFICES ASSUME SimulationInv, NEW i \in DOMAIN inst.binary
               PROVE  LET payload == inst.binary[i].payload
                          block == EncodeBlock(payload)
                      IN /\ DecodeBlock(block, FALSE) = [error |-> "none", payload |-> payload, end |-> Len(block) + 1]
                         /\ \A n \in 0..(Len(block) - 1) : DecodeBlock(SubSeq(block, 1, n), TRUE).error # "none"
                         /\ DecodeBlock(Append(block, "nl"), TRUE).payload = payload
                         /\ DecodeBlock(Append(block, "nl"), FALSE).error # "none"
    BY DEF PayloadsRoundTrip
  <2>1. inst.binary \in Seq(Parts)
    BY InstFields DEF SimulationInv, TypeOK
  <2>2. inst.binary[i] \in Parts
    BY <2>1
  <2>3. \A part \in Parts : part.payload \in Payloads
    BY DEF Parts
  <2>4. inst.binary[i].payload \in Payloads
    BY <2>2, <2>3
  <2> QED BY <2>4, RoundTrip
<1> QED BY <1>1, SimulationInvariant, PTL

------------------------------------------------------------------------------
\* The histories.

\* s ends where t ends.
Ends(s, t) ==
  /\ Len(s) <= Len(t)
  /\ \A j \in 1..Len(s) : s[j] = t[(Len(t) - Len(s)) + j]

\* A sequence reversed.
LEMMA ReverseFacts ==
  ASSUME NEW S, NEW s \in Seq(S)
  PROVE  /\ Reverse(s) \in Seq(S) /\ Len(Reverse(s)) = Len(s)
         /\ \A i \in 1..Len(s) : Reverse(s)[i] = s[(Len(s) - i) + 1]
<1> DEFINE n == Len(s)
           r == [i \in 1..n |-> s[(n - i) + 1]]
<1>1. n \in Nat /\ \A k \in 1..n : s[k] \in S
  OBVIOUS
<1>2. Reverse(s) = r
  BY DEF Reverse
<1> HIDE DEF n
<1>3. \A i \in 1..n : s[(n - i) + 1] \in S
  BY <1>1
<1>4. r \in Seq(S) /\ Len(r) = n /\ \A i \in 1..n : r[i] = s[(n - i) + 1]
  BY <1>1, <1>3
<1> HIDE DEF r
<1> QED BY <1>2, <1>4 DEF n

\* What being a suffix says of the elements.
LEMMA SuffixIs ==
  ASSUME NEW S, NEW s \in Seq(S), NEW t \in Seq(S)
  PROVE  IsSuffix(s, t) <=> Ends(s, t)
<1> DEFINE n == Len(s)
           m == Len(t)
           a == Reverse(s)
           b == Reverse(t)
           c == SubSeq(a, 1, n)
           d == SubSeq(b, 1, n)
<1>1. /\ a \in Seq(S) /\ Len(a) = n /\ \A i \in 1..n : a[i] = s[(n - i) + 1]
      /\ b \in Seq(S) /\ Len(b) = m /\ \A i \in 1..m : b[i] = t[(m - i) + 1]
      /\ n \in Nat /\ m \in Nat
  BY ReverseFacts
<1>2. IsSuffix(s, t) <=> Len(a) <= Len(b) /\ SubSeq(a, 1, Len(a)) = SubSeq(b, 1, Len(a))
  BY DEF IsSuffix, IsPrefix
<1> HIDE DEF a, b
<1>3. IsSuffix(s, t) <=> n <= m /\ c = d
  BY <1>1, <1>2, Zenon
<1>4. Ends(s, t) <=> n <= m /\ \A j \in 1..n : s[j] = t[(m - n) + j]
  BY DEF Ends
<1> HIDE DEF n, m
<1>5. CASE n <= m
  <2>1. /\ \A i \in 1..n : a[i] \in S
        /\ \A i \in 1..n : b[i] \in S
    BY <1>1, <1>5
  <2>2. 1 \in Int /\ n \in Int /\ \A i \in 1..n : 1 + i - 1 = i
    BY <1>1
  <2>3. c \in Seq(S) /\ Len(c) = (IF 1 <= n THEN n - 1 + 1 ELSE 0)
        /\ \A i \in 1..(n - 1 + 1) : c[i] = a[1 + i - 1]
    BY <2>1, <2>2, SubSeqProperties
  <2>4. d \in Seq(S) /\ Len(d) = (IF 1 <= n THEN n - 1 + 1 ELSE 0)
        /\ \A i \in 1..(n - 1 + 1) : d[i] = b[1 + i - 1]
    BY <2>1, <2>2, SubSeqProperties
  <2> HIDE DEF c, d
  <2>5. /\ Len(c) = n /\ Len(d) = n
        /\ \A i \in 1..n : c[i] = a[i] /\ d[i] = b[i]
    BY <1>1, <2>2, <2>3, <2>4
  <2>6. c = d <=> \A i \in 1..n : a[i] = b[i]
    <3>1. ASSUME \A i \in 1..n : a[i] = b[i] PROVE c = d
      BY <2>3, <2>4, <2>5, <3>1, SeqEqual
    <3> QED BY <2>5, <3>1
  <2>7. ASSUME \A i \in 1..n : a[i] = b[i], NEW j \in 1..n PROVE s[j] = t[(m - n) + j]
    <3> DEFINE i == (n - j) + 1
    <3>1. i \in 1..n /\ i \in 1..m /\ (n - i) + 1 = j /\ (m - i) + 1 = (m - n) + j
      BY <1>1, <1>5
    <3> HIDE DEF i
    <3> QED BY <1>1, <2>7, <3>1
  <2>8. ASSUME \A j \in 1..n : s[j] = t[(m - n) + j], NEW i \in 1..n PROVE a[i] = b[i]
    <3> DEFINE j == (n - i) + 1
    <3>1. j \in 1..n /\ i \in 1..m /\ (m - n) + j = (m - i) + 1
      BY <1>1, <1>5
    <3>2. a[i] = s[j]
      BY <1>1
    <3> HIDE DEF j
    <3> QED BY <1>1, <2>8, <3>1, <3>2
  <2> QED BY <1>3, <1>4, <1>5, <2>6, <2>7, <2>8
<1>6. CASE ~(n <= m)
  BY <1>3, <1>4, <1>6
<1> QED BY <1>5, <1>6

\* What is left of a suffix when it loses its oldest elements is one again, and stays one when
\* both get a new element.
LEMMA SuffixAppend ==
  ASSUME NEW S, NEW s \in Seq(S), NEW t \in Seq(S), NEW p \in S, NEW d \in 0..Len(s),
         IsSuffix(s, t)
  PROVE  IsSuffix(Append(SubSeq(s, d + 1, Len(s)), p), Append(t, p))
<1> DEFINE n == Len(s)
           m == Len(t)
           r == SubSeq(s, d + 1, n)
           x == Append(r, p)
           y == Append(t, p)
<1>1. n \in Nat /\ m \in Nat /\ d \in 0..n /\ \A i \in 1..n : s[i] \in S
  OBVIOUS
<1>2. n <= m /\ \A j \in 1..n : s[j] = t[(m - n) + j]
  <2>1. Ends(s, t)
    BY SuffixIs
  <2> QED BY <2>1 DEF Ends
<1> HIDE DEF n, m
<1>3. r \in Seq(S) /\ Len(r) = n - d /\ \A i \in 1..(n - d) : r[i] = s[d + i]
  <2>1. d + 1 \in Int /\ n \in Int /\ \A i \in (d + 1)..n : s[i] \in S
    BY <1>1
  <2>2. /\ r \in Seq(S) /\ Len(r) = (IF d + 1 <= n THEN n - (d + 1) + 1 ELSE 0)
        /\ \A i \in 1..(n - (d + 1) + 1) : r[i] = s[(d + 1) + i - 1]
    BY <2>1, SubSeqProperties
  <2> HIDE DEF r
  <2>3. n - (d + 1) + 1 = n - d /\ \A i \in 1..(n - d) : (d + 1) + i - 1 = d + i
    BY <1>1
  <2> QED BY <1>1, <2>2, <2>3
<1> HIDE DEF r
<1>4. /\ x \in Seq(S) /\ Len(x) = (n - d) + 1 /\ (\A i \in 1..(n - d) : x[i] = r[i]) /\ x[(n - d) + 1] = p
  BY <1>3, AppendProperties
<1>5. /\ y \in Seq(S) /\ Len(y) = m + 1 /\ (\A i \in 1..m : y[i] = t[i]) /\ y[m + 1] = p
  BY AppendProperties DEF m
<1> HIDE DEF x, y
<1>6. Len(x) <= Len(y)
  BY <1>1, <1>2, <1>4, <1>5
<1>7. ASSUME NEW j \in 1..Len(x) PROVE x[j] = y[(Len(y) - Len(x)) + j]
  <2> DEFINE k == (Len(y) - Len(x)) + j
  <2>1. k = (m - n) + d + j
    BY <1>1, <1>2, <1>4, <1>5
  <2> HIDE DEF k
  <2>2. CASE j = (n - d) + 1
    <3>1. k = m + 1
      BY <1>1, <2>1, <2>2
    <3> QED BY <1>4, <1>5, <2>2, <3>1 DEF k
  <2>3. CASE j # (n - d) + 1
    <3>1. j \in 1..(n - d) /\ d + j \in 1..n /\ k \in 1..m /\ (m - n) + (d + j) = k
      BY <1>1, <1>2, <1>4, <2>1, <2>3
    <3>2. x[j] = s[d + j]
      BY <1>3, <1>4, <3>1
    <3>3. s[d + j] = t[k]
      BY <1>2, <3>1
    <3>4. y[k] = t[k]
      BY <1>5, <3>1
    <3> QED BY <3>2, <3>3, <3>4 DEF k
  <2> QED BY <2>2, <2>3
<1>8. Ends(x, y)
  BY <1>6, <1>7 DEF Ends
<1>9. IsSuffix(x, y)
  BY <1>4, <1>5, <1>8, SuffixIs
<1> QED BY <1>9 DEF x, y, r, n

\* What f makes of a sequence of parts.
Through(f, parts) == FlattenSeq([k \in DOMAIN parts |-> f[parts[k]]])

\* A further part adds what f makes of it.
LEMMA ThroughAppend ==
  ASSUME NEW S, NEW f \in [Parts -> Seq(S)], NEW parts \in Seq(Parts)
  PROVE  /\ Through(f, parts) \in Seq(S)
         /\ Through(f, <<>>) = <<>>
         /\ \A p \in Parts : Through(f, Append(parts, p)) = Through(f, parts) \o f[p]
<1> DEFINE Of(s) == [k \in DOMAIN s |-> f[s[k]]]
<1>1. ASSUME NEW s \in Seq(Parts)
      PROVE  Of(s) \in Seq(Seq(S)) /\ Len(Of(s)) = Len(s) /\ \A k \in 1..Len(s) : Of(s)[k] = f[s[k]]
  <2>1. DOMAIN s = 1..Len(s) /\ Len(s) \in Nat /\ \A k \in 1..Len(s) : s[k] \in Parts
    OBVIOUS
  <2>2. \A k \in 1..Len(s) : f[s[k]] \in Seq(S)
    BY <2>1
  <2> QED BY <2>1, <2>2
<1>2. \A s : Through(f, s) = FlattenSeq(Of(s))
  BY DEF Through
<1>3. Through(f, parts) \in Seq(S)
  <2>1. Of(parts) \in Seq(Seq(S))
    BY <1>1
  <2> HIDE DEF Of
  <2> QED BY <1>2, <2>1, FlattenType
<1>4. Through(f, <<>>) = <<>>
  <2>1. Of(<<>>) = <<>>
    OBVIOUS
  <2> HIDE DEF Of
  <2> QED BY <1>2, <2>1, FlattenEmpty, Zenon
<1>5. ASSUME NEW p \in Parts PROVE Through(f, Append(parts, p)) = Through(f, parts) \o f[p]
  <2> DEFINE c == Append(parts, p)
             n == Len(parts)
             o == Of(parts)
             q == f[p]
  <2>1. /\ c \in Seq(Parts) /\ Len(c) = n + 1 /\ n \in Nat /\ (\A k \in 1..n : c[k] = parts[k])
        /\ c[n + 1] = p
    BY AppendProperties
  <2> HIDE DEF c
  <2>2. q \in Seq(S)
    OBVIOUS
  <2>3. o \in Seq(Seq(S)) /\ Len(o) = n /\ \A k \in 1..n : o[k] = f[parts[k]]
    BY <1>1
  <2>4. Of(c) \in Seq(Seq(S)) /\ Len(Of(c)) = n + 1 /\ \A k \in 1..(n + 1) : Of(c)[k] = f[c[k]]
    BY <1>1, <2>1
  <2> HIDE DEF o, Of, n
  <2>5. /\ Append(o, q) \in Seq(Seq(S)) /\ Len(Append(o, q)) = n + 1
        /\ (\A k \in 1..n : Append(o, q)[k] = o[k]) /\ Append(o, q)[n + 1] = q
    BY <2>2, <2>3, AppendProperties
  <2>6. ASSUME NEW k \in 1..(n + 1) PROVE Of(c)[k] = Append(o, q)[k]
    <3>1. CASE k = n + 1
      BY <2>1, <2>4, <2>5, <3>1
    <3>2. CASE k # n + 1
      <4>1. k \in 1..n
        BY <2>1, <3>2
      <4>2. Of(c)[k] = f[c[k]] /\ c[k] = parts[k]
        BY <2>1, <2>4, <4>1
      <4>3. Append(o, q)[k] = o[k] /\ o[k] = f[parts[k]]
        BY <2>3, <2>5, <4>1
      <4> QED BY <4>2, <4>3, Zenon
    <3> QED BY <3>1, <3>2
  <2>7. Of(c) = Append(o, q)
    BY <2>4, <2>5, <2>6, SeqEqual
  <2>8. FlattenSeq(Append(o, q)) = FlattenSeq(o) \o q
    BY <2>2, <2>3, FlattenAppend
  <2>9. Through(f, c) = FlattenSeq(o) \o q
    BY <1>2, <2>7, <2>8, Zenon
  <2>10. Through(f, parts) = FlattenSeq(o)
    BY <1>2 DEF o
  <2> QED BY <2>9, <2>10 DEF c
<1> QED BY <1>3, <1>4, <1>5

\* The commands of a sequence of parts.
LEMMA TextsAppend ==
  ASSUME NEW parts \in Seq(Parts)
  PROVE  /\ Texts(parts) \in Seq(Seq(Characters))
         /\ Texts(<<>>) = <<>>
         /\ \A p \in Parts : Texts(Append(parts, p)) =
              Texts(parts) \o (IF p.block THEN <<>> ELSE <<p.text>>)
<1> DEFINE One(p) == IF p.block THEN <<>> ELSE <<p.text>>
           S == Seq(Characters)
           f == [p \in Parts |-> One(p)]
<1>1. \A p \in Parts : One(p) \in Seq(S)
  <2> SUFFICES ASSUME NEW p \in Parts PROVE One(p) \in Seq(S)
    OBVIOUS
  <2>1. p.text \in S
    BY DEF Parts
  <2> HIDE DEF S
  <2>2. <<p.text>> \in Seq(S) /\ <<>> \in Seq(S)
    BY <2>1
  <2> QED BY <2>2
<1>2. \A s \in Seq(Parts) : Texts(s) = Through(f, s)
  <2> SUFFICES ASSUME NEW s \in Seq(Parts) PROVE Texts(s) = Through(f, s)
    OBVIOUS
  <2>1. \A k \in DOMAIN s : s[k] \in Parts
    OBVIOUS
  <2>2. \A k \in DOMAIN s : f[s[k]] = One(s[k])
    BY <2>1
  <2> HIDE DEF f
  <2>3. [k \in DOMAIN s |-> One(s[k])] = [k \in DOMAIN s |-> f[s[k]]]
    BY <2>2
  <2>4. Texts(s) = FlattenSeq([k \in DOMAIN s |-> One(s[k])])
    BY DEF Texts
  <2> HIDE DEF One
  <2> QED BY <2>3, <2>4, Zenon DEF Through
<1>3. f \in [Parts -> Seq(S)]
  BY <1>1
<1>4. \A p \in Parts : f[p] = One(p)
  OBVIOUS
<1> HIDE DEF f, One
<1>5. /\ Through(f, parts) \in Seq(S)
      /\ Through(f, <<>>) = <<>>
      /\ \A p \in Parts : Through(f, Append(parts, p)) = Through(f, parts) \o f[p]
  <2> HIDE DEF S
  <2> QED BY <1>3, ThroughAppend
<1>6. <<>> \in Seq(Parts) /\ \A p \in Parts : Append(parts, p) \in Seq(Parts)
  BY AppendProperties
<1>7. ASSUME NEW p \in Parts PROVE Texts(Append(parts, p)) = Texts(parts) \o One(p)
  BY <1>2, <1>4, <1>5, <1>6
<1> QED BY <1>2, <1>5, <1>6, <1>7 DEF One

\* A block that the binary history keeps.
Fitting(p) == p.block /\ Len(p.payload) <= MaxHistoryBytes /\ MaxHistoryBytes > 0

\* The blocks of a sequence of parts.
LEMMA BlocksAppend ==
  ASSUME NEW parts \in Seq(Parts)
  PROVE  /\ Blocks(parts) \in Seq(Parts)
         /\ Blocks(<<>>) = <<>>
         /\ \A p \in Parts : Blocks(Append(parts, p)) =
              Blocks(parts) \o (IF Fitting(p) THEN <<p>> ELSE <<>>)
<1> DEFINE One(p) == IF Fitting(p) THEN <<p>> ELSE <<>>
           f == [p \in Parts |-> One(p)]
<1>1. \A p \in Parts : One(p) \in Seq(Parts)
  <2> SUFFICES ASSUME NEW p \in Parts PROVE One(p) \in Seq(Parts)
    OBVIOUS
  <2>2. <<p>> \in Seq(Parts) /\ <<>> \in Seq(Parts)
    OBVIOUS
  <2> QED BY <2>2
<1>2. \A s \in Seq(Parts) : Blocks(s) = Through(f, s)
  <2> SUFFICES ASSUME NEW s \in Seq(Parts) PROVE Blocks(s) = Through(f, s)
    OBVIOUS
  <2>1. \A k \in DOMAIN s : s[k] \in Parts
    OBVIOUS
  <2>2. \A k \in DOMAIN s : f[s[k]] = One(s[k])
    BY <2>1
  <2> HIDE DEF f
  <2>3. [k \in DOMAIN s |-> One(s[k])] = [k \in DOMAIN s |-> f[s[k]]]
    BY <2>2
  <2>4. Blocks(s) = FlattenSeq([k \in DOMAIN s |-> One(s[k])])
    BY DEF Blocks, Fitting
  <2> HIDE DEF One
  <2> QED BY <2>3, <2>4, Zenon DEF Through
<1>3. f \in [Parts -> Seq(Parts)]
  BY <1>1
<1>4. \A p \in Parts : f[p] = One(p)
  OBVIOUS
<1> HIDE DEF f, One
<1>5. /\ Through(f, parts) \in Seq(Parts)
      /\ Through(f, <<>>) = <<>>
      /\ \A p \in Parts : Through(f, Append(parts, p)) = Through(f, parts) \o f[p]
  BY <1>3, ThroughAppend
<1>6. <<>> \in Seq(Parts) /\ \A p \in Parts : Append(parts, p) \in Seq(Parts)
  BY AppendProperties
<1>7. ASSUME NEW p \in Parts PROVE Blocks(Append(parts, p)) = Blocks(parts) \o One(p)
  BY <1>2, <1>4, <1>5, <1>6
<1> QED BY <1>2, <1>5, <1>6, <1>7 DEF One

\* Whatever else j is, its histories are those of i.
Keeps(i, j) ==
  j \in [mock : {j.mock}, pending : {j.pending}, history : {i.history}, binary : {i.binary},
         binaryBytes : {j.binaryBytes}, errors : {j.errors}]

\* An instrument keeps its histories when its mock, its delayed replies or its errors change.
LEMMA KeepsFacts ==
  /\ \A i \in Instruments : Keeps(i, i)
  /\ \A i, j : Keeps(i, j) => j.history = i.history /\ j.binary = i.binary
  /\ \A i, j, m : Keeps(i, j) => Keeps(i, [j EXCEPT !.mock = m])
  /\ \A i, j, p : Keeps(i, j) => Keeps(i, [j EXCEPT !.pending = p])
  /\ \A i, j, e : Keeps(i, j) => Keeps(i, [j EXCEPT !.errors = e])
  /\ \A i, j, m, p : Keeps(i, j) => Keeps(i, [j EXCEPT !.mock = m, !.pending = p])
<1>1. ASSUME NEW i \in Instruments PROVE Keeps(i, i)
  BY DEF Keeps, Instruments
<1>2. ASSUME NEW i, NEW j, Keeps(i, j) PROVE j.history = i.history /\ j.binary = i.binary
  BY <1>2 DEF Keeps
<1>3. ASSUME NEW i, NEW j, Keeps(i, j), NEW m PROVE Keeps(i, [j EXCEPT !.mock = m])
  BY <1>3 DEF Keeps
<1>4. ASSUME NEW i, NEW j, Keeps(i, j), NEW p PROVE Keeps(i, [j EXCEPT !.pending = p])
  BY <1>4 DEF Keeps
<1>5. ASSUME NEW i, NEW j, Keeps(i, j), NEW e PROVE Keeps(i, [j EXCEPT !.errors = e])
  BY <1>5 DEF Keeps
<1>6. ASSUME NEW i, NEW j, Keeps(i, j), NEW m, NEW p
      PROVE  Keeps(i, [j EXCEPT !.mock = m, !.pending = p])
  BY <1>6 DEF Keeps
<1> QED BY <1>1, <1>2, <1>3, <1>4, <1>5, <1>6

\* A reply that is delivered, or due, says nothing to the histories.
LEMMA QueueReplyKeeps ==
  ASSUME NEW i, NEW j, Keeps(i, j), NEW reply
  PROVE  Keeps(i, Deliver(j, reply)) /\ Keeps(i, QueueReply(j, reply))
<1>1. Keeps(i, Deliver(j, reply))
  <2>1. PICK m : Deliver(j, reply) = [j EXCEPT !.mock = m]
    BY DEF Deliver
  <2>2. Keeps(i, [j EXCEPT !.mock = m])
    BY KeepsFacts
  <2> QED BY <2>1, <2>2, Zenon
<1>2. CASE reply.delay > 0
  <2>1. PICK p : QueueReply(j, reply) = [j EXCEPT !.pending = p]
    BY <1>2 DEF QueueReply
  <2>2. Keeps(i, [j EXCEPT !.pending = p])
    BY KeepsFacts
  <2> QED BY <1>1, <2>1, <2>2, Zenon
<1>3. CASE ~(reply.delay > 0)
  BY <1>1, <1>3 DEF QueueReply
<1> QED BY <1>2, <1>3

\* A rule that answers says nothing to the histories.
LEMMA ServeKeeps ==
  ASSUME NEW i, NEW j, Keeps(i, j), NEW rule \in Rules, rule.kind # "raises"
  PROVE  Keeps(i, Serve(j, rule))
<1>1. rule.kind \in {"unknown", "silent", "error query", "reply"}
  BY DEF Rules, Kinds
<1>2. CASE rule.kind = "unknown"
  <2>1. PICK e : Serve(j, rule) = [j EXCEPT !.errors = e]
    BY <1>2 DEF Serve
  <2>2. Keeps(i, [j EXCEPT !.errors = e])
    BY KeepsFacts
  <2> QED BY <2>1, <2>2, Zenon
<1>3. CASE rule.kind = "silent"
  BY <1>3 DEF Serve
<1>4. CASE rule.kind = "error query"
  <2>1. PICK e, r : Serve(j, rule) = QueueReply([j EXCEPT !.errors = e], r)
    BY <1>4 DEF Serve, AnswerErrorQuery
  <2>2. Keeps(i, [j EXCEPT !.errors = e])
    BY KeepsFacts
  <2> QED BY <2>1, <2>2, QueueReplyKeeps
<1>5. CASE rule.kind = "reply"
  BY <1>5, QueueReplyKeeps DEF Serve
<1> QED BY <1>1, <1>2, <1>3, <1>4, <1>5

\* Nor do invalidate(), whatever calls it, and a flush.
LEMMA DropKeeps ==
  ASSUME NEW i, NEW j, Keeps(i, j)
  PROVE  /\ Keeps(i, Drop(j))
         /\ \A input : Keeps(i, ScriptedFlush(j, input).inst)
<1>1. PICK m, p : Drop(j) = [j EXCEPT !.mock = m, !.pending = p]
  BY DEF Drop
<1>2. ASSUME NEW input PROVE Keeps(i, ScriptedFlush(j, input).inst)
  <2>1. PICK n, q : ScriptedFlush(j, input).inst = [j EXCEPT !.mock = n, !.pending = q]
    BY DEF ScriptedFlush, Outcome
  <2>2. Keeps(i, [j EXCEPT !.mock = n, !.pending = q])
    BY KeepsFacts
  <2> QED BY <2>1, <2>2, Zenon
<1>3. Keeps(i, Drop(j))
  <2>1. Keeps(i, [j EXCEPT !.mock = m, !.pending = p])
    BY KeepsFacts
  <2> QED BY <1>1, <2>1, Zenon
<1> QED BY <1>2, <1>3

\* The end of a call, dropped if it raised.
LEMMA DropOnErrorKeeps ==
  ASSUME NEW i, NEW e, e = Outcome(e.inst, e.error, e.data), Keeps(i, e.inst)
  PROVE  Keeps(i, DropOnError(e).inst)
<1> DEFINE d == Drop(e.inst)
           end == DropOnError(e)
<1>1. Keeps(i, d)
  BY DropKeeps
<1>2. CASE e.error = "none"
  BY <1>2 DEF DropOnError
<1>3. CASE e.error # "none"
  <2> DEFINE o == Outcome(e.inst, e.error, e.data)
  <2>1. end = [o EXCEPT !.inst = d]
    BY <1>3, Zenon DEF DropOnError
  <2> HIDE DEF end, d
  <2>2. end.inst = d
    BY <2>1 DEF Outcome
  <2> QED BY <1>1, <2>2 DEF end
<1> QED BY <1>2, <1>3

\* Nor does a read, with the delayed reply it waits for.
LEMMA ScriptedReadKeeps ==
  ASSUME NEW i, NEW j, Keeps(i, j), NEW request
  PROVE  /\ Keeps(i, ScriptedRead(j, request).inst)
         /\ LET r == ScriptedRead(j, request) IN r = Outcome(r.inst, r.error, r.data)
<1> DEFINE d == DeliverPending(j)
           end == ScriptedRead(j, request)
<1>1. Keeps(i, d)
  <2> DEFINE reply == Head(j.pending)
  <2>1. CASE j.pending = <<>>
    BY <2>1 DEF DeliverPending
  <2>2. CASE j.pending # <<>> /\ reply.delay > Timeout
    <3>1. d = [j EXCEPT !.pending[1].delay = @ - Timeout]
      BY <2>2 DEF DeliverPending
    <3> DEFINE p == j.pending
               q == [p EXCEPT ![1] = [p[1] EXCEPT !.delay = p[1].delay - Timeout]]
    <3> HIDE DEF d
    <3>2. d = [j EXCEPT !.pending = q]
      BY <3>1 DEF Keeps
    <3> HIDE DEF q
    <3> QED BY <3>2, KeepsFacts, Zenon
  <2>3. CASE j.pending # <<>> /\ ~(reply.delay > Timeout)
    <3>1. PICK p : d = Deliver([j EXCEPT !.pending = p], reply)
      BY <2>3 DEF DeliverPending
    <3>2. Keeps(i, [j EXCEPT !.pending = p])
      BY KeepsFacts
    <3> QED BY <3>1, <3>2, QueueReplyKeeps
  <2> QED BY <2>1, <2>2, <2>3
<1>2. PICK m, p, error, data : end = Outcome([d EXCEPT !.mock = m, !.pending = p], error, data)
  BY DEF ScriptedRead, ReadReady, ReadEnded
<1> DEFINE x == [d EXCEPT !.mock = m, !.pending = p]
<1>3. Keeps(i, x)
  BY <1>1, KeepsFacts
<1> HIDE DEF d, end, x
<1>4. end = Outcome(x, error, data)
  BY <1>2 DEF x
<1>5. end.inst = x /\ end = Outcome(end.inst, end.error, end.data)
  BY <1>4, OutcomeFields
<1> QED BY <1>3, <1>5 DEF end

\* The histories of i hold what exp says was sent.
Told(i, exp) ==
  /\ exp \in Seq(Parts)
  /\ i.history = Texts(exp)
  /\ IsSuffix(i.binary, Blocks(exp))
  /\ Blocks(exp) # <<>> => i.binary # <<>>

\* Whatever leaves the histories alone leaves them as told.
LEMMA StillTold ==
  ASSUME NEW i, NEW j, NEW exp, Told(i, exp), Keeps(i, j)
  PROVE  Told(j, exp)
<1>1. j.history = i.history /\ j.binary = i.binary
  BY KeepsFacts
<1> QED BY <1>1 DEF Told

\* A command that is recorded is told.
LEMMA RecordTextTells ==
  ASSUME NEW i \in Instruments, NEW exp, Told(i, exp), NEW p \in Parts, ~p.block
  PROVE  Told(Record(i, p), Append(exp, p))
<1> DEFINE e == Append(exp, p)
           h == i.history
           j == Record(i, p)
           t == Append(h, p.text)
<1>1. exp \in Seq(Parts) /\ h = Texts(exp) /\ h \in Seq(Seq(Characters)) /\ p.text \in Seq(Characters)
  BY InstFields DEF Told, Parts
<1>2. e \in Seq(Parts)
  BY <1>1, AppendProperties
<1>3. Texts(e) = t
  <2>1. Texts(e) = Texts(exp) \o <<p.text>>
    BY <1>1, TextsAppend
  <2>2. t = h \o <<p.text>>
    BY <1>1, AppendIsConcat
  <2> QED BY <1>1, <2>1, <2>2, Zenon
<1>4. Blocks(e) = Blocks(exp)
  <2>1. Blocks(e) = Blocks(exp) \o <<>> /\ Blocks(exp) \in Seq(Parts)
    BY <1>1, BlocksAppend DEF Fitting
  <2> QED BY <2>1, ConcatEmptySeq
<1>5. j = [i EXCEPT !.history = t]
  BY DEF Record
<1> HIDE DEF t, j
<1>6. j.history = t /\ j.binary = i.binary
  BY <1>5 DEF Instruments
<1> HIDE DEF e
<1>7. IsSuffix(i.binary, Blocks(exp)) /\ (Blocks(exp) # <<>> => i.binary # <<>>)
  BY DEF Told
<1>8. IsSuffix(j.binary, Blocks(e)) /\ (Blocks(e) # <<>> => j.binary # <<>>)
  BY <1>4, <1>6, <1>7, Zenon
<1>9. j.history = Texts(e)
  BY <1>3, <1>6
<1>10. Told(j, e)
  BY <1>2, <1>8, <1>9, Zenon DEF Told
<1> QED BY <1>10 DEF j, e

\* So is a block: one that fits becomes the newest, and one that does not is not told.
LEMMA RecordBlockTells ==
  ASSUME NEW i \in Instruments, NEW exp, Told(i, exp), NEW p \in Parts, p.block
  PROVE  Told(Record(i, p), Append(exp, p))
<1> DEFINE e == Append(exp, p)
           b == i.binary
           size == Len(p.payload)
           Left(k) == i.binaryBytes - TotalBytes(SubSeq(b, 1, k))
           S == {k \in 0..Len(b) : \/ k = Len(b)
                                   \/ Len(SubSeq(b, k + 1, Len(b))) < MaxEntries
                                      /\ Left(k) + size <= MaxHistoryBytes}
           d == Min(S)
           c == Append(SubSeq(b, d + 1, Len(b)), p)
           j == Record(i, p)
<1>1. exp \in Seq(Parts) /\ b \in Seq(Parts) /\ size \in Nat /\ MaxHistoryBytes \in Nat
  <2>1. p.payload \in Seq(Characters)
    BY DEF Parts, Payloads
  <2>2. size \in Nat
    BY <2>1
  <2> QED BY <2>2, InstFields, ScriptedAssumption DEF Told
<1>2. e \in Seq(Parts)
  BY <1>1, AppendProperties
<1>3. /\ i.history = Texts(exp) /\ IsSuffix(b, Blocks(exp)) /\ (Blocks(exp) # <<>> => b # <<>>)
      /\ Blocks(exp) \in Seq(Parts)
  BY <1>1, BlocksAppend DEF Told
<1>4. Texts(e) = Texts(exp)
  <2>1. Texts(e) = Texts(exp) \o <<>> /\ Texts(exp) \in Seq(Seq(Characters))
    BY <1>1, TextsAppend
  <2> QED BY <2>1, ConcatEmptySeq
<1>5. j = RecordBinary(i, p)
  BY DEF Record
<1>6. CASE ~Fitting(p)
  <2>1. MaxHistoryBytes = 0 \/ size > MaxHistoryBytes
    BY <1>1, <1>6 DEF Fitting
  <2>2. j = i
    BY <1>5, <2>1 DEF RecordBinary
  <2>3. Blocks(e) = Blocks(exp)
    <3>1. Blocks(e) = Blocks(exp) \o <<>>
      BY <1>1, <1>6, BlocksAppend
    <3> QED BY <1>3, <3>1, ConcatEmptySeq
  <2> HIDE DEF j, e
  <2>4. Told(j, e)
    BY <1>2, <1>3, <1>4, <2>2, <2>3, Zenon DEF Told
  <2> QED BY <2>4 DEF j, e
<1>7. CASE Fitting(p)
  <2>1. ~(MaxHistoryBytes = 0 \/ size > MaxHistoryBytes)
    BY <1>1, <1>7 DEF Fitting
  <2>2. j = [i EXCEPT !.binary = c, !.binaryBytes = Left(d) + size]
    BY <1>5, <2>1 DEF RecordBinary
  <2> DEFINE total == Left(d) + size
  <2>3. Len(b) \in Nat
    BY <1>1
  <2>4. d \in 0..Len(b)
    <3>1. Len(b) \in S /\ S \subseteq 0..Len(b) /\ S \subseteq Nat
      BY <2>3
    <3> HIDE DEF S
    <3>2. d \in S
      BY <3>1, MinFacts
    <3> QED BY <3>1, <3>2
  <2> HIDE DEF total, d, j
  <2>5. IsSuffix(c, Append(Blocks(exp), p))
    BY <1>1, <1>3, <2>4, SuffixAppend
  <2>6. Blocks(e) = Append(Blocks(exp), p)
    <3>1. Blocks(e) = Blocks(exp) \o <<p>>
      BY <1>1, <1>7, BlocksAppend
    <3>2. Append(Blocks(exp), p) = Blocks(exp) \o <<p>>
      BY <1>3, AppendIsConcat
    <3> QED BY <3>1, <3>2, Zenon
  <2>7. c # <<>>
    <3>1. SubSeq(b, d + 1, Len(b)) \in Seq(Parts)
      <4>1. d + 1 \in Int /\ Len(b) \in Int /\ \A k \in (d + 1)..Len(b) : b[k] \in Parts
        BY <1>1, <2>3, <2>4
      <4> QED BY <4>1, SubSeqProperties
    <3> QED BY <3>1, AppendProperties
  <2> HIDE DEF c
  <2>8. j.history = i.history /\ j.binary = c
    <3>1. j = [i EXCEPT !.binary = c, !.binaryBytes = total]
      BY <2>2 DEF total
    <3> QED BY <3>1 DEF Instruments
  <2> HIDE DEF e, b
  <2>9. j.history = Texts(e)
    BY <1>3, <1>4, <2>8, Zenon
  <2>10. IsSuffix(j.binary, Blocks(e)) /\ j.binary # <<>>
    BY <2>5, <2>6, <2>7, <2>8, Zenon
  <2>11. Told(j, e)
    BY <1>2, <2>9, <2>10, Zenon DEF Told
  <2> QED BY <2>11 DEF j, e
<1> QED BY <1>6, <1>7

\* What is recorded is told.
LEMMA RecordTells ==
  ASSUME NEW i \in Instruments, NEW exp, Told(i, exp), NEW p \in Parts
  PROVE  Told(Record(i, p), Append(exp, p))
<1>1. CASE p.block
  BY <1>1, RecordBlockTells
<1>2. CASE ~p.block
  BY <1>2, RecordTextTells
<1> QED BY <1>1, <1>2

\* An element that is appended to the second of two sequences comes last in both.
LEMMA ConcatAppend ==
  ASSUME NEW S, NEW s \in Seq(S), NEW a \in Seq(S), NEW x \in S
  PROVE  s \o Append(a, x) = Append(s \o a, x)
<1> DEFINE b == <<x>>
<1>1. b \in Seq(S)
  BY Short
<1>2. Append(a, x) = a \o b
  BY AppendIsConcat
<1>3. s \o a \in Seq(S)
  BY ConcatProperties
<1>4. Append(s \o a, x) = (s \o a) \o b
  BY <1>3, AppendIsConcat
<1> HIDE DEF b
<1>5. (s \o a) \o b = s \o (a \o b)
  BY <1>1, ConcatAssociative
<1> QED BY <1>2, <1>4, <1>5, Zenon

\* One element more of a sequence that is gone through.
LEMMA OneMore ==
  ASSUME NEW S, NEW s \in Seq(S), NEW t \in Seq(S)
  PROVE  /\ s \o SubSeq(t, 1, 0) = s
         /\ \A k \in 0..Len(t) : s \o SubSeq(t, 1, k) \in Seq(S)
         /\ \A k \in 1..Len(t) : s \o SubSeq(t, 1, k) = Append(s \o SubSeq(t, 1, k - 1), t[k])
<1> DEFINE Upto(k) == SubSeq(t, 1, k)
<1>1. Len(t) \in Nat /\ \A k \in 1..Len(t) : t[k] \in S
  OBVIOUS
<1>2. ASSUME NEW k \in 0..Len(t)
      PROVE  Upto(k) \in Seq(S) /\ Len(Upto(k)) = k /\ \A i \in 1..k : Upto(k)[i] = t[i]
  OBVIOUS
<1>3. Upto(0) = <<>>
  OBVIOUS
<1> HIDE DEF Upto
<1>4. s \o Upto(0) = s
  BY <1>3, ConcatEmptySeq
<1>5. \A k \in 0..Len(t) : s \o Upto(k) \in Seq(S)
  BY <1>2, ConcatProperties
<1>6. ASSUME NEW k \in 1..Len(t) PROVE s \o Upto(k) = Append(s \o Upto(k - 1), t[k])
  <2> DEFINE l == k - 1
             x == t[k]
  <2>1. l \in 0..Len(t) /\ k \in 0..Len(t) /\ x \in S /\ l + 1 = k
    BY <1>1
  <2>2. /\ Upto(l) \in Seq(S) /\ Len(Upto(l)) = l /\ (\A i \in 1..l : Upto(l)[i] = t[i])
        /\ Upto(k) \in Seq(S) /\ Len(Upto(k)) = k /\ (\A i \in 1..k : Upto(k)[i] = t[i])
    BY <1>2, <2>1
  <2> HIDE DEF l
  <2>3. /\ Append(Upto(l), x) \in Seq(S) /\ Len(Append(Upto(l), x)) = l + 1
        /\ (\A i \in 1..l : Append(Upto(l), x)[i] = Upto(l)[i]) /\ Append(Upto(l), x)[l + 1] = x
    BY <2>1, <2>2, AppendProperties
  <2>4. ASSUME NEW i \in 1..k PROVE Upto(k)[i] = Append(Upto(l), x)[i]
    <3>1. CASE i = k
      <4>1. Upto(k)[i] = t[k]
        BY <2>2, <3>1
      <4>2. Append(Upto(l), x)[i] = x
        BY <2>1, <2>3, <3>1
      <4> QED BY <4>1, <4>2
    <3>2. CASE i # k
      <4>1. i \in 1..l
        BY <2>1, <3>2
      <4>2. Upto(k)[i] = t[i]
        BY <2>2
      <4>3. Append(Upto(l), x)[i] = Upto(l)[i] /\ Upto(l)[i] = t[i]
        BY <2>2, <2>3, <4>1
      <4> QED BY <4>2, <4>3
    <3> QED BY <3>1, <3>2
  <2>5. Upto(k) = Append(Upto(l), x)
    BY <2>1, <2>2, <2>3, <2>4, SeqEqual
  <2>6. s \o Append(Upto(l), x) = Append(s \o Upto(l), x)
    BY <2>1, <2>2, ConcatAppend
  <2>11. s \o Upto(k) = Append(s \o Upto(l), x)
    BY <2>5, <2>6, Zenon
  <2> QED BY <2>11 DEF l
<1> QED BY <1>4, <1>5, <1>6 DEF Upto

\* How far the loop goes, by its rules.
LEMMA ReachedFacts ==
  ASSUME NEW N \in Nat, NEW rules, DOMAIN rules = 1..N, Len(rules) = N, NEW n \in 0..N,
         \A k \in 1..n : rules[k].kind # "raises"
  PROVE  /\ n = N => Reached(rules) = N
         /\ n + 1 \in 1..N /\ rules[n + 1].kind = "raises" => Reached(rules) = n + 1
<1> DEFINE F == Failing(rules)
           S == F \cup {Len(rules)}
<1>1. F = {k \in 1..N : rules[k].kind = "raises"}
  BY DEF Failing
<1>2. Reached(rules) = Min(S)
  BY DEF Reached
<1> HIDE DEF F
<1>3. S \subseteq Nat
  BY <1>1
<1>4. ASSUME n = N PROVE Min(S) = N
  <2>1. S = {N}
    BY <1>1, <1>4
  <2>2. N \in S /\ \A y \in S : N <= y
    BY <2>1
  <2> HIDE DEF S
  <2> QED BY <1>3, <2>2, LeastIs
<1>5. ASSUME n + 1 \in 1..N, rules[n + 1].kind = "raises" PROVE Min(S) = n + 1
  <2>1. n + 1 \in S
    BY <1>1, <1>5
  <2>2. ASSUME NEW y \in S PROVE n + 1 <= y
    <3>1. CASE y = N
      BY <1>5, <3>1
    <3>2. CASE y \in F
      <4>1. y \in 1..N /\ y \notin 1..n
        BY <1>1, <3>2
      <4> QED BY <4>1
    <3> QED BY <3>1, <3>2
  <2> HIDE DEF S
  <2> QED BY <1>3, <2>1, <2>2, LeastIs
<1> QED BY <1>2, <1>4, <1>5

\* The commands the loop got to are told, the one whose handler raised among them.
LEMMA ServeAllTells ==
  ASSUME NEW A \in SUBSET Nat, NEW F, A \cap F = {}, NEW i, SoundInst(i, A, F),
         NEW parts \in Seq(Parts), NEW rules, NEW B, B \subseteq A, Answers(rules, B),
         DOMAIN rules = DOMAIN parts, Len(rules) = Len(parts), NEW exp, Told(i, exp)
  PROVE  Told(ServeAll(i, parts, rules).inst, exp \o SubSeq(parts, 1, Reached(rules)))
<1> DEFINE D == {j \in Instruments : SoundInst(j, A, F)}
           N == Len(parts)
           Upto(k) == exp \o SubSeq(parts, 1, k)
           end == ServeAll(i, parts, rules)
<1>1. N \in Nat /\ DOMAIN parts = 1..N /\ exp \in Seq(Parts)
  BY DEF Told
<1>2. ASSUME NEW x \in D, NEW k \in 1..N, Matching(rules, k).kind # "raises"
      PROVE  Serve(Record(x, parts[k]), Matching(rules, k)) \in D
  <2> DEFINE r == Record(x, parts[k])
             rule == Matching(rules, k)
             C == {}
  <2>1. parts[k] \in Parts /\ k \in Nat /\ SoundInst(x, A, F)
    BY <1>1
  <2>2. SoundInst(r, A, F)
    BY <2>1, RecordFacts
  <2>3. Served(rule, B)
    BY <2>1 DEF Answers
  <2> HIDE DEF r, rule, C
  <2>4. rule.kind # "raises"
    BY <1>2 DEF rule
  <2>5. SoundInst(Serve(r, rule), A, F)
    BY <2>2, <2>3, <2>4, ServeFacts
  <2>6. Serve(r, rule) \in D
    BY <2>5 DEF SoundInst
  <2> QED BY <2>6 DEF r, rule
<1>3. PICK n, c : Loop(D, i, parts, rules, n, c)
  <2>1. \A x \in D, k \in 1..Len(parts) :
          Matching(rules, k).kind # "raises" => Serve(Record(x, parts[k]), Matching(rules, k)) \in D
    BY <1>2
  <2>2. i \in D
    BY DEF SoundInst
  <2> HIDE DEF D, N, end
  <2> QED BY <2>1, <2>2, ServedSteps, Zenon
<1> HIDE DEF N
<1>4. /\ n \in 0..N
      /\ \A k \in 1..n : k \in 1..N /\ Matching(rules, k).kind # "raises"
      /\ c \in [0..n -> D] /\ c[0] = i
      /\ \A k \in 1..n : c[k] = Serve(Record(c[k - 1], parts[k]), Matching(rules, k))
      /\ \/ n = N /\ end = Outcome(c[n], "none", <<>>)
         \/ /\ n + 1 \in 1..N /\ Matching(rules, n + 1).kind = "raises"
            /\ end = Outcome(Record(c[n], parts[n + 1]), "handler", <<>>)
  <2> HIDE DEF D
  <2> QED BY <1>3, Zenon DEF Loop, N
<1>5. \A k \in 1..N : Matching(rules, k) = rules[k]
  BY <1>1 DEF Matching
<1>6. /\ n = N => Reached(rules) = N
      /\ n + 1 \in 1..N /\ rules[n + 1].kind = "raises" => Reached(rules) = n + 1
  <2>1. \A k \in 1..n : rules[k].kind # "raises"
    BY <1>4, <1>5
  <2>2. DOMAIN rules = 1..N /\ Len(rules) = N
    BY <1>1 DEF N
  <2> QED BY <1>1, <1>4, <2>1, <2>2, ReachedFacts
<1>7. /\ Upto(0) = exp
      /\ \A k \in 1..N : Upto(k) = Append(Upto(k - 1), parts[k])
  BY <1>1, OneMore DEF N
<1> HIDE DEF Upto, end
<1>8. \A k \in 0..n : c[k] \in Instruments
  <2>1. \A k \in 0..n : c[k] \in D
    BY <1>4
  <2> QED BY <2>1
<1> DEFINE S == {k \in 0..n : Told(c[k], Upto(k))}
<1>9. n \in Nat /\ 0 \in S
  BY <1>1, <1>4, <1>7
<1>10. ASSUME NEW k \in 1..n, k - 1 \in S PROVE k \in S
  <2> DEFINE l == k - 1
             x == c[l]
             part == parts[k]
             r == Record(x, part)
             rule == Matching(rules, k)
             y == Serve(r, rule)
  <2>1. k \in 1..N /\ rule.kind # "raises" /\ k \in Nat /\ k \in 0..n /\ l \in 0..n
    BY <1>4, <1>9
  <2>2. part \in Parts
    BY <1>1, <2>1
  <2>3. Told(x, Upto(l)) /\ x \in Instruments
    BY <1>8, <1>10, <2>1
  <2>4. c[k] = y
    BY <1>4
  <2>5. Upto(k) = Append(Upto(l), part)
    BY <1>7, <2>1
  <2>6. SoundInst(x, A, F)
    <3>1. x \in D
      BY <1>4, <2>1
    <3> QED BY <3>1
  <2>7. Served(rule, B)
    BY <2>1 DEF Answers
  <2> HIDE DEF l, x, part, rule, y
  <2>8. Told(r, Append(Upto(l), part))
    BY <2>2, <2>3, RecordTells
  <2>9. r \in Instruments
    <3>1. SoundInst(r, A, F)
      BY <2>2, <2>6, RecordFacts
    <3> QED BY <3>1 DEF SoundInst
  <2> HIDE DEF r
  <2>10. Keeps(r, y)
    <3>1. Keeps(r, r)
      BY <2>9, KeepsFacts
    <3>2. rule \in Rules
      BY <2>7 DEF Served
    <3>3. Keeps(r, Serve(r, rule))
      BY <2>1, <3>1, <3>2, ServeKeeps
    <3> QED BY <3>3 DEF y
  <2>11. Told(y, Append(Upto(l), part))
    BY <2>8, <2>10, StillTold
  <2>12. Told(c[k], Upto(k))
    BY <2>4, <2>5, <2>11, Zenon
  <2> QED BY <2>1, <2>12
<1>11. Told(c[n], Upto(n))
  <2>1. \A k \in 0..n : k \in S
    <3> HIDE DEF S
    <3> QED BY <1>9, <1>10, Induction
  <2>2. n \in 0..n
    BY <1>9
  <2> QED BY <2>1, <2>2
<1> HIDE DEF S, D
<1>12. Told(end.inst, Upto(Reached(rules)))
  <2>1. CASE n = N /\ end = Outcome(c[n], "none", <<>>)
    <3>1. end.inst = c[n]
      BY <2>1 DEF Outcome
    <3>2. Reached(rules) = n
      BY <1>6, <2>1
    <3> QED BY <1>11, <3>1, <3>2, Zenon
  <2>2. CASE /\ n + 1 \in 1..N /\ Matching(rules, n + 1).kind = "raises"
             /\ end = Outcome(Record(c[n], parts[n + 1]), "handler", <<>>)
    <3> DEFINE m == n + 1
    <3>1. end.inst = Record(c[n], parts[m])
      BY <2>2 DEF Outcome
    <3>2. Reached(rules) = m
      BY <1>5, <1>6, <2>2
    <3>3. m \in 1..N /\ m - 1 = n /\ n \in 0..n
      BY <1>9, <2>2
    <3> HIDE DEF m
    <3>4. parts[m] \in Parts /\ c[n] \in Instruments
      BY <1>1, <1>8, <3>3
    <3>5. Upto(m) = Append(Upto(n), parts[m])
      BY <1>7, <3>3
    <3>6. Told(Record(c[n], parts[m]), Append(Upto(n), parts[m]))
      BY <1>11, <3>4, RecordTells
    <3> QED BY <3>1, <3>2, <3>5, <3>6, Zenon
  <2> QED BY <1>4, <2>1, <2>2
<1> QED BY <1>12 DEF Upto, end

\* A message whose meaning is known is told as far as it was received: not at all if the mock
\* refuses it or it is cut short, and otherwise up to the handler that raised.
LEMMA ScriptedWriteTells ==
  ASSUME NEW A \in SUBSET Nat, NEW F, A \cap F = {}, NEW i, SoundInst(i, A, F),
         NEW message \in Seq(Items), WellFormed(message),
         NEW rules, NEW B, B \subseteq A, Answers(rules, B),
         DOMAIN rules = DOMAIN message, Len(rules) = Len(message), NEW exp, Told(i, exp)
  PROVE  LET refused == MockWrite(i.mock).error # "none" \/ \E k \in DOMAIN message : message[k].arg = "cut"
             sent == IF refused THEN <<>> ELSE SubSeq(Meant(message), 1, Reached(rules))
         IN Told(ScriptedWrite(i, Rendered(message), rules).inst, exp \o sent)
<1> DEFINE w == MockWrite(i.mock)
           cut == \E k \in DOMAIN message : message[k].arg = "cut"
           data == Rendered(message)
           split == SplitOutbound(data)
           refused == w.error # "none" \/ cut
           sent == IF refused THEN <<>> ELSE SubSeq(Meant(message), 1, Reached(rules))
           j == [i EXCEPT !.mock = w.mock]
           e == Received(i, w, split, rules)
           end == ScriptedWrite(i, data, rules)
           x == end.inst
<1> SUFFICES Told(x, exp \o sent)
  OBVIOUS
<1>1. data \in Seq(Characters) /\ split.parts \in Seq(Parts)
  BY RenderedType, SplitOutboundType
<1>2. /\ cut => split.error # "none"
      /\ ~cut => /\ split.error = "none" /\ split.parts = Meant(message)
                 /\ DOMAIN Meant(message) = DOMAIN message /\ Len(Meant(message)) = Len(message)
  <2>1. ASSUME cut PROVE split.error # "none"
    BY <2>1, ParserReads
  <2>2. ASSUME ~cut
        PROVE  /\ split.error = "none" /\ split.parts = Meant(message)
               /\ DOMAIN Meant(message) = DOMAIN message /\ Len(Meant(message)) = Len(message)
    BY <2>2, MessageRead
  <2> HIDE DEF cut, split
  <2> QED BY <2>1, <2>2
<1>3. end = DropOnError(e)
  BY DEF ScriptedWrite
<1>4. e = Outcome(e.inst, e.error, e.data)
  BY ReceivedIsOutcome
<1>5. e = IF w.error # "none" THEN Outcome(j, w.error, <<>>)
          ELSE IF split.error # "none" THEN Outcome(j, split.error, <<>>)
          ELSE ServeAll(j, split.parts, rules)
  BY DEF Received
<1>6. SoundMock(w.mock, F) /\ i \in Instruments
  BY MockWriteFacts DEF SoundEnd, SoundInst
<1> HIDE DEF w, data, split, e, end, cut
<1>7. SoundInst(j, A, F) /\ Keeps(i, j)
  <2>1. SoundInst(j, A, F)
    BY <1>6, WithMock
  <2>2. Keeps(i, i)
    BY <1>6, KeepsFacts
  <2>3. Keeps(i, j)
    BY <2>2, KeepsFacts
  <2> QED BY <2>1, <2>3
<1> HIDE DEF j
<1>8. Told(j, exp) /\ j \in Instruments
  BY <1>7, StillTold DEF SoundInst
<1>9. Told(e.inst, exp \o sent) /\ e.inst \in Instruments
  <2>1. CASE w.error # "none" \/ split.error # "none"
    <3>1. e.inst = j
      <4>1. CASE w.error # "none"
        BY <1>5, <4>1 DEF Outcome
      <4>2. CASE w.error = "none" /\ split.error # "none"
        BY <1>5, <4>2 DEF Outcome
      <4> QED BY <2>1, <4>1, <4>2
    <3>2. sent = <<>>
      BY <1>2, <2>1
    <3>3. exp \o <<>> = exp
      BY <1>8, ConcatEmptySeq DEF Told
    <3> HIDE DEF sent
    <3> QED BY <1>8, <3>1, <3>2, <3>3, Zenon
  <2>2. CASE w.error = "none" /\ split.error = "none"
    <3> DEFINE parts == split.parts
               all == ServeAll(j, parts, rules)
               C == {}
    <3>1. e = all
      BY <1>5, <2>2
    <3>2. ~cut /\ parts = Meant(message) /\ DOMAIN rules = DOMAIN parts /\ Len(rules) = Len(parts)
      BY <1>2, <2>2
    <3>3. parts \in Seq(Parts)
      BY <1>1
    <3>4. sent = SubSeq(parts, 1, Reached(rules))
      BY <2>2, <3>2
    <3> HIDE DEF parts, sent, C
    <3>5. Told(all.inst, exp \o SubSeq(parts, 1, Reached(rules)))
      BY <1>7, <1>8, <3>2, <3>3, ServeAllTells
    <3>6. SoundInst(all.inst, A, F)
      BY <1>7, <3>3, ServeAllFacts
    <3> HIDE DEF all
    <3>7. Told(e.inst, exp \o sent)
      BY <3>1, <3>4, <3>5, Zenon
    <3> QED BY <3>1, <3>6, <3>7 DEF SoundInst
  <2> QED BY <2>1, <2>2
<1> HIDE DEF sent
<1>10. Keeps(e.inst, x)
  <2>1. Keeps(e.inst, e.inst)
    BY <1>9, KeepsFacts
  <2>2. Keeps(e.inst, DropOnError(e).inst)
    BY <1>4, <2>1, DropOnErrorKeeps
  <2> QED BY <1>3, <2>2
<1> HIDE DEF x
<1> QED BY <1>9, <1>10, StillTold

\* An exchange tells what its message is, unless the mock refuses it; its read, and the drop of
\* the connection if it fails, tell nothing.
LEMMA ScriptedTransactTells ==
  ASSUME NEW A \in SUBSET Nat, NEW F, A \cap F = {}, NEW i, SoundInst(i, A, F),
         NEW n \in {1, 2}, NEW rules, NEW B, B \subseteq A, Answers(rules, B),
         DOMAIN rules = 1..n, Len(rules) = n, NEW request, NEW exp, Told(i, exp)
  PROVE  LET sent == IF MockWrite(i.mock).error # "none" THEN <<>>
                     ELSE SubSeq(Meant(Query(n)), 1, Reached(rules))
         IN Told(ScriptedTransact(i, Rendered(Query(n)), rules, request).inst, exp \o sent)
<1> DEFINE message == Query(n)
           w == ScriptedWrite(i, Rendered(message), rules)
           r == ScriptedRead(w.inst, request)
           e == ThenRead(w, request)
           end == ScriptedTransact(i, Rendered(message), rules, request)
           refused == MockWrite(i.mock).error # "none" \/ \E k \in DOMAIN message : message[k].arg = "cut"
           sent == IF refused THEN <<>> ELSE SubSeq(Meant(message), 1, Reached(rules))
           x == end.inst
<1>1. /\ message \in Seq(Items) /\ Len(message) = n /\ WellFormed(message)
      /\ \A k \in 1..n : message[k].arg = "query"
  BY QueryType
<1> HIDE DEF message
<1>2. DOMAIN message = 1..n
  BY <1>1
<1>3. ~\E k \in DOMAIN message : message[k].arg = "cut"
  BY <1>1, <1>2
<1>4. Told(w.inst, exp \o sent)
  <2>1. DOMAIN rules = DOMAIN message /\ Len(rules) = Len(message)
    BY <1>1, <1>2
  <2> QED BY <1>1, <2>1, ScriptedWriteTells, Zenon
<1>5. SoundInst(w.inst, A, F) /\ w = Outcome(w.inst, w.error, w.data)
  <2> DEFINE data == Rendered(message)
             C == {}
  <2>1. data \in Seq(Characters)
    BY <1>1, RenderedType
  <2> HIDE DEF data, C
  <2> DEFINE v == ScriptedWrite(i, data, rules)
  <2>2. /\ SoundInst(v.inst, A, F) /\ Later(i.mock, v.inst.mock) /\ v.data = <<>>
        /\ v = Outcome(v.inst, v.error, v.data)
        /\ v.error # "none" => Dropped(v.inst)
        /\ Owned(i.mock, C) /\ B \subseteq C => Owned(v.inst.mock, C)
        /\ Owned(i.mock, C) /\ i.pending = <<>> /\ Len(SplitOutbound(data).parts) <= 1 =>
             IF v.error = "none" THEN Ready(v.inst, C) ELSE Owned(v.inst.mock, C)
    BY <2>1, ScriptedWriteFacts, Zenon
  <2> QED BY <2>2, Zenon DEF data
<1>6. e = IF w.error # "none" THEN w ELSE r
  BY DEF ThenRead
<1>7. end = DropOnError(e)
  BY DEF ScriptedTransact
<1> HIDE DEF w, e, end, sent
<1>8. Keeps(w.inst, w.inst)
  BY <1>5, KeepsFacts DEF SoundInst
<1>9. Keeps(w.inst, r.inst) /\ r = Outcome(r.inst, r.error, r.data)
  BY <1>8, ScriptedReadKeeps
<1> HIDE DEF r
<1>10. Keeps(w.inst, e.inst) /\ e = Outcome(e.inst, e.error, e.data)
  BY <1>5, <1>6, <1>8, <1>9
<1>11. Keeps(w.inst, x)
  BY <1>7, <1>10, DropOnErrorKeeps
<1> HIDE DEF x
<1>12. Told(x, exp \o sent)
  BY <1>4, <1>11, StillTold
<1>13. sent = IF MockWrite(i.mock).error # "none" THEN <<>> ELSE SubSeq(Meant(message), 1, Reached(rules))
  BY <1>3 DEF sent
<1> QED BY <1>12, <1>13, Zenon DEF x, end, message

\* Numbering a script for its exchange leaves open what answers and what raises.
LEMMA NumberedReaches ==
  ASSUME NEW script \in Scripts, NEW id \in Nat
  PROVE  LET rules == Numbered(script, id) IN
         /\ DOMAIN rules = 1..Len(script) /\ Len(rules) = Len(script)
         /\ Reached(rules) = Reached(script)
<1> DEFINE rules == Numbered(script, id)
           n == Len(script)
<1>1. script \in Seq(Rules) /\ n \in Nat /\ DOMAIN script = 1..n
  <2>1. script \in Seq(Rules)
    BY SimulationAssumption
  <2> QED BY <2>1
<1>2. rules = [k \in 1..n |-> [script[k] EXCEPT !.reply.id = id]]
  BY <1>1 DEF Numbered
<1>3. ASSUME NEW k \in 1..n PROVE rules[k].kind = script[k].kind
  <2> DEFINE r == script[k]
  <2>1. r \in Rules
    BY <1>1
  <2>2. rules[k] = [r EXCEPT !.reply.id = id]
    BY <1>2
  <2> HIDE DEF r, rules
  <2>3. rules[k].kind = r.kind
    BY <2>1, <2>2 DEF Rules
  <2> QED BY <2>3 DEF r
<1>4. DOMAIN rules = 1..n /\ Len(rules) = n
  BY <1>1, <1>2
<1> HIDE DEF rules
<1>5. Failing(rules) = Failing(script)
  BY <1>1, <1>3, <1>4 DEF Failing
<1>6. Reached(rules) = Reached(script)
  BY <1>4, <1>5, Zenon DEF Reached, n
<1> QED BY <1>4, <1>6 DEF rules

\* The invariant of the histories says that they are told.
LEMMA HistoryInvIs == HistoryInv <=> SimulationInv /\ Told(inst, expected)
BY DEF HistoryInv, HistoryIsWhatWasSent, BinaryHistoryIsLatest, Told, SimulationInv, BinaryBounded

\* Nothing was sent, and nothing is in the histories.
LEMMA NothingTold == ASSUME NEW i, i.history = <<>>, i.binary = <<>> PROVE Told(i, <<>>)
<1>1. Texts(<<>>) = <<>> /\ Blocks(<<>>) = <<>> /\ <<>> \in Seq(Parts)
  <2>1. <<>> \in Seq(Parts)
    OBVIOUS
  <2> QED BY <2>1, TextsAppend, BlocksAppend
<1>2. IsSuffix(<<>>, <<>>)
  <2> DEFINE s == <<>>
  <2>1. s \in Seq(Parts) /\ Len(s) = 0
    OBVIOUS
  <2> HIDE DEF s
  <2>2. Ends(s, s)
    BY <2>1 DEF Ends
  <2>3. IsSuffix(s, s)
    BY <2>1, <2>2, SuffixIs
  <2> QED BY <2>3 DEF s
<1> QED BY <1>1, <1>2, Zenon DEF Told

\* A step of another kind than a write, an exchange or clear_history().
LEMMA OthersTell ==
  ASSUME SimulationInv, Told(inst, expected),
         \/ Open \/ Close \/ InvalidateCall \/ ClearPending \/ WriteMock \/ Disconnect \/ PushError
         \/ \E reply \in Replies, request \in Requests : TransactMock(reply, request)
         \/ \E request \in Requests : Read(request)
         \/ \E input \in BOOLEAN : Flush(input)
         \/ \E kind \in Injectable, fault \in BOOLEAN,
               error \in {"TransportError", "TransportTimeoutError"} : FailNext(kind, error, fault)
         \/ UNCHANGED vars
  PROVE  Told(inst', expected')
<1>1. inst \in Instruments
  BY DEF SimulationInv, TypeOK
<1>2. Keeps(inst, inst)
  BY <1>1, KeepsFacts
<1>3. expected' = expected
  BY DEF Open, Close, InvalidateCall, ClearPending, WriteMock, Disconnect, PushError, TransactMock,
    Read, Flush, FailNext, vars
<1>4. Keeps(inst, inst')
  <2>1. CASE \E m : inst' = [inst EXCEPT !.mock = m]
    <3>1. PICK m : inst' = [inst EXCEPT !.mock = m]
      BY <2>1
    <3>2. Keeps(inst, [inst EXCEPT !.mock = m])
      BY <1>2, KeepsFacts
    <3> QED BY <3>1, <3>2, Zenon
  <2>2. CASE Open
    <3>1. inst' = [inst EXCEPT !.mock = MockOpen(mock).mock]
      BY <2>2 DEF Open
    <3> QED BY <2>1, <3>1
  <2>3. CASE Close
    <3>1. inst' = [inst EXCEPT !.mock = MockClose(inst.mock)]
      BY <2>3 DEF Close
    <3> QED BY <2>1, <3>1
  <2>4. CASE InvalidateCall
    <3>1. inst' = [inst EXCEPT !.mock = Invalidate(inst.mock)]
      BY <2>4 DEF InvalidateCall
    <3> QED BY <2>1, <3>1
  <2>5. CASE ClearPending
    <3> DEFINE p == <<>>
    <3>1. inst' = [inst EXCEPT !.pending = p]
      BY <2>5 DEF ClearPending
    <3> HIDE DEF p
    <3>2. Keeps(inst, [inst EXCEPT !.pending = p])
      BY <1>2, KeepsFacts
    <3> QED BY <3>1, <3>2, Zenon
  <2>6. CASE WriteMock
    <3>1. inst' = [inst EXCEPT !.mock = MockWrite(inst.mock).mock]
      BY <2>6 DEF WriteMock
    <3> QED BY <2>1, <3>1
  <2>7. CASE Disconnect
    <3>1. inst' = [inst EXCEPT !.mock = SimulateDisconnect(inst.mock)]
      BY <2>7 DEF Disconnect
    <3> QED BY <2>1, <3>1
  <2>8. CASE PushError
    <3> DEFINE e == Append(inst.errors, "pushed")
    <3>1. inst' = [inst EXCEPT !.errors = e]
      BY <2>8 DEF PushError
    <3> HIDE DEF e
    <3>2. Keeps(inst, [inst EXCEPT !.errors = e])
      BY <1>2, KeepsFacts
    <3> QED BY <3>1, <3>2, Zenon
  <2>9. ASSUME NEW reply \in Replies, NEW request \in Requests, TransactMock(reply, request)
        PROVE  Keeps(inst, inst')
    <3>1. PICK m : inst' = [inst EXCEPT !.mock = m]
      BY <2>9 DEF TransactMock
    <3> QED BY <2>1, <3>1
  <2>10. ASSUME NEW request \in Requests, Read(request) PROVE Keeps(inst, inst')
    <3>1. CASE wrapped
      <4>1. inst' = ScriptedRead(inst, request).inst
        BY <2>10, <3>1 DEF Read
      <4> QED BY <1>2, <4>1, ScriptedReadKeeps
    <3>2. CASE ~wrapped
      <4>1. inst' = [inst EXCEPT !.mock = MockRead(mock, request).mock]
        BY <2>10, <3>2 DEF Read, Outcome
      <4> QED BY <2>1, <4>1
    <3> QED BY <3>1, <3>2
  <2>11. ASSUME NEW input \in BOOLEAN, Flush(input) PROVE Keeps(inst, inst')
    <3>1. CASE wrapped
      <4>1. inst' = ScriptedFlush(inst, input).inst
        BY <2>11, <3>1 DEF Flush
      <4> QED BY <1>2, <4>1, DropKeeps
    <3>2. CASE ~wrapped
      <4>1. inst' = [inst EXCEPT !.mock = MockFlush(inst.mock, input).mock]
        BY <2>11, <3>2 DEF Flush
      <4> QED BY <2>1, <4>1
    <3> QED BY <3>1, <3>2
  <2>12. ASSUME NEW kind \in Injectable, NEW fault \in BOOLEAN,
                NEW error \in {"TransportError", "TransportTimeoutError"}, FailNext(kind, error, fault)
         PROVE  Keeps(inst, inst')
    <3> DEFINE i == Arm(mock, error, fault, 0)
               n == [mock EXCEPT ![kind] = i]
    <3>1. inst' = [inst EXCEPT !.mock[kind] = i]
      BY <2>12 DEF FailNext
    <3> HIDE DEF i
    <3>2. inst' = [inst EXCEPT !.mock = n]
      BY <1>1, <3>1 DEF mock, Instruments
    <3> QED BY <2>1, <3>2
  <2>13. CASE UNCHANGED vars
    BY <1>2, <2>13 DEF vars
  <2> QED BY <2>2, <2>3, <2>4, <2>5, <2>6, <2>7, <2>8, <2>9, <2>10, <2>11, <2>12, <2>13
<1> QED BY <1>3, <1>4, StillTold, Zenon

\* write() of the scripted transport.
LEMMA WriteTells ==
  ASSUME SimulationInv, Told(inst, expected), NEW message \in Messages, Write(message)
  PROVE  Told(inst', expected')
<1> DEFINE B == {}
           refused == MockWrite(inst.mock).error # "none" \/ \E k \in DOMAIN message : message[k].arg = "cut"
           Sent(rules) == IF refused THEN <<>> ELSE SubSeq(Meant(message), 1, Reached(rules))
           End(rules) == ScriptedWrite(inst, Rendered(message), rules)
<1>1. SoundInst(inst, Ids, failed) /\ Ids \in SUBSET Nat /\ Ids \cap failed = {} /\ B \subseteq Ids
  BY Known
<1>2. message \in Seq(Items) /\ WellFormed(message)
  BY SimulationAssumption
<1>3. PICK rules \in [DOMAIN message -> QuietRules] :
        inst' = End(rules).inst /\ expected' = expected \o Sent(rules)
  BY DEF Write, mock
<1>4. Answers(rules, B) /\ DOMAIN rules = DOMAIN message
  BY <1>3, QuietFacts
<1>5. Len(rules) = Len(message)
  <2>1. DOMAIN message = 1..Len(message) /\ Len(message) \in Nat
    BY <1>2
  <2>2. rules \in Seq(QuietRules)
    BY <1>3, <2>1
  <2> QED BY <1>4, <2>1, <2>2
<1> HIDE DEF B
<1>6. Told(End(rules).inst, expected \o Sent(rules))
  BY <1>1, <1>2, <1>4, <1>5, ScriptedWriteTells, Zenon
<1> HIDE DEF End, Sent
<1> QED BY <1>3, <1>6, Zenon

\* transact() of the scripted transport.
LEMMA TransactTells ==
  ASSUME SimulationInv, Told(inst, expected), NEW script \in Scripts, NEW request \in Requests,
         Transact(script, request)
  PROVE  Told(inst', expected')
<1> DEFINE id == Len(asked) + 1
           n == Len(script)
           rules == Numbered(script, id)
           Sent(r) == IF MockWrite(inst.mock).error # "none" THEN <<>>
                      ELSE SubSeq(Meant(Query(n)), 1, Reached(r))
           end == ScriptedTransact(inst, Rendered(Query(n)), rules, request)
           B == {id}
           A == Ids \cup B
<1>1. /\ SoundInst(inst, Ids, failed) /\ Ids \in SUBSET Nat /\ Ids \cap failed = {}
      /\ asked \in Seq(Nat) /\ failed \subseteq 1..Len(asked)
  BY Known DEF TypeOK
<1>2. inst' = end.inst /\ expected' = expected \o Sent(script)
  BY DEF Transact, mock
<1>3. n \in {1, 2}
  BY SimulationAssumption
<1>4. id \in Nat /\ id \notin failed
  <2> DEFINE L == Len(asked)
  <2>1. L \in Nat /\ id = L + 1 /\ failed \subseteq 1..L
    BY <1>1
  <2> HIDE DEF L, id
  <2> QED BY <2>1
<1> HIDE DEF id
<1>5. A \in SUBSET Nat /\ A \cap failed = {} /\ B \subseteq A
  BY <1>1, <1>4
<1>6. SoundInst(inst, A, failed)
  BY <1>1, MoreDue
<1>7. Answers(rules, B)
  BY <1>4, NumberedFacts
<1>8. DOMAIN rules = 1..n /\ Len(rules) = n /\ Reached(rules) = Reached(script)
  BY <1>4, NumberedReaches
<1> HIDE DEF n, rules, A, B
<1>9. Told(end.inst, expected \o Sent(rules))
  BY <1>3, <1>5, <1>6, <1>7, <1>8, ScriptedTransactTells, Zenon
<1>10. Sent(rules) = Sent(script)
  BY <1>8, Zenon
<1> HIDE DEF end, Sent
<1> QED BY <1>2, <1>9, <1>10, Zenon

\* Initially, and from every step to the next, the histories are told.
LEMMA HistoryStep == (Init => HistoryInv) /\ (HistoryInv /\ [Next]_vars => HistoryInv')
<1>1. ASSUME Init PROVE HistoryInv
  <2>1. expected = <<>> /\ inst.history = <<>> /\ inst.binary = <<>>
    BY <1>1 DEF Init, NewInstrument
  <2>2. Told(inst, expected)
    BY <2>1, NothingTold, Zenon
  <2> QED BY <1>1, <2>2, SimulationInit, HistoryInvIs
<1>2. ASSUME HistoryInv, [Next]_vars PROVE HistoryInv'
  <2>1. SimulationInv /\ Told(inst, expected)
    BY <1>2, HistoryInvIs
  <2>2. SimulationInv'
    BY <1>2, <2>1, SimulationStep
  <2>3. Told(inst', expected')
    <3>1. ASSUME NEW message \in Messages, Write(message) PROVE Told(inst', expected')
      BY <2>1, <3>1, WriteTells
    <3>2. ASSUME NEW script \in Scripts, NEW request \in Requests, Transact(script, request)
          PROVE  Told(inst', expected')
      BY <2>1, <3>2, TransactTells
    <3>3. CASE ClearHistoryCall
      <4>1. expected' = <<>> /\ inst' = ClearHistory(inst) /\ inst \in Instruments
        BY <2>1, <3>3 DEF ClearHistoryCall, SimulationInv, TypeOK
      <4>2. inst'.history = <<>> /\ inst'.binary = <<>>
        BY <4>1 DEF ClearHistory, Instruments
      <4> QED BY <4>1, <4>2, NothingTold, Zenon
    <3> QED BY <1>2, <2>1, <3>1, <3>2, <3>3, OthersTell DEF Next
  <2>4. SimulationInv' /\ Told(inst, expected)'
    BY <2>2, <2>3
  <2>5. HistoryInv' <=> SimulationInv' /\ Told(inst, expected)'
    BY HistoryInvIs, PTL
  <2> QED BY <2>4, <2>5
<1> QED BY <1>1, <1>2

\* The histories hold what was sent, in every state: the inductive invariant of all properties.
THEOREM HistoryInvariant == Spec => []HistoryInv
<1> QED BY HistoryStep, PTL DEF Spec

\* The text history is the commands that were sent, each with its full header, whatever the
\* messages are made of, up to the handler that raised, and nothing of a message that is refused.
THEOREM HistoriesSayWhatWasSent == Spec => []HistoryIsWhatWasSent
<1>1. HistoryInv => HistoryIsWhatWasSent
  BY DEF HistoryInv
<1> QED BY <1>1, HistoryInvariant, PTL

\* The binary history is a suffix of the blocks that were sent, the newest among them, within its
\* limits and with its byte count exact.
THEOREM BinaryHistoriesAreLatest == Spec => []BinaryHistoryIsLatest
<1>1. HistoryInv => BinaryHistoryIsLatest
  BY DEF HistoryInv
<1> QED BY <1>1, HistoryInvariant, PTL
==============================================================================
