------------------------ MODULE SessionRegistryProofs ------------------------
(***************************************************************************)
(* The invariants of the session registry, for every set of threads, of     *)
(* sessions and of aliases, and any number of registrations.                *)
(***************************************************************************)
EXTENDS SessionRegistry, TLAPS

\* A thread that is not disconnecting has nothing left to close, so the next
\* disconnection it starts overwrites nothing.
IdleHoldsNothing == \A t \in Threads : pc[t] = "idle" => pending[t] = {}

RegistryInv == TypeOK /\ ActiveIsRegistered /\ RegistrationEndsOnce /\ IdleHoldsNothing

\* A key is its own key, and NoKey is none.
LEMMA KeyFacts ==
  /\ NoKey \notin Keys
  /\ \A n \in DOMAIN Key : Key[n] \in Keys
  BY RegistryAssumption DEF Keys

\* The numbers given out before and after a registration.
LEMMA NumberFacts ==
  ASSUME NEW n \in Nat
  PROVE  /\ n + 1 \in Nat /\ n + 1 # 0 /\ 0 \in 0..n
         /\ 1..n \subseteq 1..(n + 1) /\ 0..n \subseteq 0..(n + 1)
         /\ n + 1 \in 1..(n + 1) /\ n + 1 \in 0..(n + 1)
         /\ n + 1 \notin 0..n /\ n + 1 \notin 1..n
         /\ \A r \in 0..n : r # 0 => r \in 1..n
         /\ \A r \in 1..n : r \in 0..n /\ r # 0
         /\ \A r \in 1..(n + 1) : r = n + 1 \/ r \in 1..n
  OBVIOUS

\* The numbers of the registrations in force.
LEMMA TicketFacts ==
  /\ \A k \in Keys : ticket[k] # 0 => ticket[k] \in Tickets
  /\ \A r \in Tickets : r # 0 /\ \E k \in Keys : ticket[k] = r
  /\ \A k \in Keys : ticket'[k] # 0 => ticket'[k] \in Tickets'
  /\ \A r \in Tickets' : r # 0 /\ \E k \in Keys : ticket'[k] = r
  BY DEF Tickets

LEMMA RegistryInitially == Init => RegistryInv
  <1> SUFFICES ASSUME Init PROVE RegistryInv
    OBVIOUS
  <1> USE DEF Init
  <1>1. TypeOK
    BY RegistryAssumption DEF TypeOK
  <1>2. ActiveIsRegistered
    BY DEF ActiveIsRegistered
  <1>3. Tickets = {}
    BY DEF Tickets
  <1>4. RegistrationEndsOnce
    BY <1>3 DEF RegistrationEndsOnce
  <1>5. IdleHoldsNothing
    BY DEF IdleHoldsNothing
  <1>6. QED
    BY <1>1, <1>2, <1>4, <1>5 DEF RegistryInv

\* A registration: the key gets the next number and the replaced one is given back.
LEMMA RegisterStep ==
  ASSUME RegistryInv,
         NEW t \in Threads, NEW name \in Names, NEW s \in Sessions, NEW replace \in BOOLEAN,
         Register(t, name, s, replace)
  PROVE  RegistryInv'
  <1> DEFINE k == Key[name]
  <1>k. k \in Keys
    BY KeyFacts DEF Register, Registrable
  <1>c. count \in Nat /\ count' = count + 1
    BY DEF RegistryInv, TypeOK, Register
  <1>t. /\ ticket' = [ticket EXCEPT ![k] = count + 1]
        /\ ticket \in [Keys -> 0..count]
    BY DEF RegistryInv, TypeOK, Register
  <1>m. /\ \A l \in Keys : ticket'[l] = IF l = k THEN count + 1 ELSE ticket[l]
        /\ \A l \in Keys : ticket[l] \in 0..count /\ ticket[l] # count + 1
        /\ count + 1 # 0
    BY <1>c, <1>k, <1>t, NumberFacts
  <1>1. TypeOK'
    <2>1. sessions' \in [Keys -> Sessions \cup {NoSession}]
      BY DEF RegistryInv, TypeOK, Register
    <2>2. active' \in Keys \cup {NoKey}
      BY <1>k DEF RegistryInv, TypeOK, Register
    <2>3. ticket' \in [Keys -> 0..(count + 1)]
      BY <1>c, <1>t, NumberFacts
    <2>4. pending' \in [Threads -> SUBSET (1..(count + 1))] /\ closed' \subseteq 1..(count + 1)
      BY <1>c, NumberFacts DEF RegistryInv, TypeOK, Register
    <2>5. released' \subseteq 1..(count + 1)
      <3>1. {ticket[k]} \ {0} \subseteq 1..count
        BY <1>c, <1>k, <1>m, NumberFacts
      <3>2. released \subseteq 1..count /\ 1..count \subseteq 1..(count + 1)
        BY <1>c, NumberFacts DEF RegistryInv, TypeOK
      <3>3. released' = released \cup ({ticket[k]} \ {0})
        BY DEF Register
      <3>4. QED
        BY <3>1, <3>2, <3>3
    <2>6. /\ pc' \in [Threads -> {"idle", "closing"}]
          /\ raised' \in [Threads -> {"yes", "no"}]
          /\ answer' \in [Threads -> {"none", "done", "session", "ConfigurationError", "KeyError",
                                      "close error"}]
      BY DEF RegistryInv, TypeOK, Register, Answer
    <2>7. count' \in Nat
      BY <1>c, NumberFacts
    <2>8. QED
      BY <1>c, <2>1, <2>2, <2>3, <2>4, <2>5, <2>6, <2>7 DEF TypeOK
  <1>2. ActiveIsRegistered'
    BY <1>k, RegistryAssumption
    DEF RegistryInv, TypeOK, ActiveIsRegistered, Register
  <1>s. Tickets' = (Tickets \ {ticket[k]}) \cup {count + 1}
    <2>1. \A l, j \in Keys : ticket[j] = ticket[l] /\ ticket[j] # 0 => j = l
      BY DEF RegistryInv, RegistrationEndsOnce
    <2>2. ASSUME NEW r \in Tickets' PROVE r \in (Tickets \ {ticket[k]}) \cup {count + 1}
      <3>1. PICK l \in Keys : ticket'[l] = r /\ r # 0
        BY TicketFacts
      <3>2. QED
        BY <3>1, <2>1, <1>k, <1>m, TicketFacts
    <2>3. ASSUME NEW r \in (Tickets \ {ticket[k]}) \cup {count + 1} PROVE r \in Tickets'
      <3>1. CASE r = count + 1
        BY <3>1, <1>k, <1>m, TicketFacts
      <3>2. CASE r # count + 1
        <4>1. PICK l \in Keys : ticket[l] = r /\ r # 0
          BY <3>2, TicketFacts
        <4>2. l # k
          BY <4>1, <3>2
        <4>3. QED
          BY <4>1, <4>2, <1>m, TicketFacts
      <3>3. QED
        BY <3>1, <3>2
    <2>4. QED
      BY <2>2, <2>3
  <1>n. count + 1 \notin Tickets \cup closed \cup released \cup {ticket[k]}
        /\ \A u \in Threads : count + 1 \notin pending[u]
    <2>1. count + 1 \notin closed \cup released /\ \A u \in Threads : count + 1 \notin pending[u]
      BY <1>c, NumberFacts DEF RegistryInv, TypeOK
    <2>2. count + 1 \notin Tickets \cup {ticket[k]}
      BY <1>k, <1>m, TicketFacts
    <2>3. QED
      BY <2>1, <2>2
  <1>r. released' = released \cup ({ticket[k]} \ {0}) /\ closed' = closed /\ pending' = pending
    BY DEF Register
  <1>3. RegistrationEndsOnce'
    <2> USE DEF RegistryInv, RegistrationEndsOnce
    <2>1. \A l \in Keys : sessions'[l] # NoSession <=> ticket'[l] # 0
      <3>1. \A l \in Keys : sessions'[l] = IF l = k THEN s ELSE sessions[l]
        BY <1>k DEF Register, TypeOK
      <3>2. QED
        BY <1>k, <1>m, <3>1, RegistryAssumption
    <2>2. \A j, l \in Keys : ticket'[j] = ticket'[l] /\ ticket'[j] # 0 => j = l
      BY <1>k, <1>m
    <2>3. \A u, v \in Threads : u # v => pending'[u] \cap pending'[v] = {}
      BY <1>r
    <2>4. \A u \in Threads : pending'[u] \cap (Tickets' \cup closed' \cup released') = {}
      BY <1>r, <1>s, <1>n, <1>k, TicketFacts
    <2>5. Tickets' \cap (closed' \cup released') = {}
      BY <1>r, <1>s, <1>n
    <2>6. closed' \cap released' = {}
      BY <1>r, <1>k, TicketFacts
    <2>7. \A r \in 1..count' :
            r \in Tickets' \cup closed' \cup released' \/ \E u \in Threads : r \in pending'[u]
      <3> SUFFICES ASSUME NEW r \in 1..(count + 1)
                   PROVE  r \in Tickets' \cup closed' \cup released' \/ \E u \in Threads : r \in pending'[u]
        BY <1>c
      <3>1. r = count + 1 \/ (r \in 1..count /\ r # 0)
        BY <1>c, NumberFacts
      <3>2. QED
        BY <3>1, <1>r, <1>s
    <2>8. QED
      BY <2>1, <2>2, <2>3, <2>4, <2>5, <2>6, <2>7
  <1>4. IdleHoldsNothing'
    BY DEF RegistryInv, IdleHoldsNothing, Register
  <1>5. QED
    BY <1>1, <1>2, <1>3, <1>4 DEF RegistryInv

\* One key is taken out: its number leaves the numbers in force and nothing else does.
LEMMA TakeOutStep ==
  ASSUME RegistryInv, NEW k \in Keys, sessions[k] # NoSession, TakeOut(k)
  PROVE  /\ sessions' \in [Keys -> Sessions \cup {NoSession}]
         /\ active' \in Keys \cup {NoKey}
         /\ ticket' \in [Keys -> 0..count]
         /\ ActiveIsRegistered'
         /\ ticket[k] \in 1..count /\ ticket[k] \in Tickets
         /\ Tickets' = Tickets \ {ticket[k]}
         /\ \A l \in Keys : sessions'[l] # NoSession <=> ticket'[l] # 0
         /\ \A j, l \in Keys : ticket'[j] = ticket'[l] /\ ticket'[j] # 0 => j = l
  <1> USE DEF RegistryInv, TypeOK
  <1>1. /\ sessions' \in [Keys -> Sessions \cup {NoSession}]
        /\ active' \in Keys \cup {NoKey}
        /\ ticket' \in [Keys -> 0..count]
    <2>1. 0 \in 0..count
      BY NumberFacts
    <2>2. QED
      BY <2>1 DEF TakeOut
  <1>2. ActiveIsRegistered'
    BY DEF TakeOut, ActiveIsRegistered
  <1>3. ticket[k] # 0
    BY DEF RegistrationEndsOnce
  <1>4. ticket[k] \in 1..count /\ ticket[k] \in Tickets
    <2>1. ticket[k] \in 0..count
      OBVIOUS
    <2>2. QED
      BY <1>3, <2>1, TicketFacts, NumberFacts
  <1>5. \A j, l \in Keys : ticket[j] = ticket[l] /\ ticket[j] # 0 => j = l
    BY DEF RegistrationEndsOnce
  <1>6. \A l \in Keys : ticket'[l] = IF l = k THEN 0 ELSE ticket[l]
    BY DEF TakeOut
  <1>7. Tickets' = Tickets \ {ticket[k]}
    <2>1. ASSUME NEW r \in Tickets' PROVE r \in Tickets \ {ticket[k]}
      <3>1. PICK l \in Keys : ticket'[l] = r /\ r # 0
        BY TicketFacts
      <3>2. l # k /\ ticket[l] = r
        BY <3>1, <1>6
      <3>3. QED
        BY <3>1, <3>2, <1>5, TicketFacts
    <2>2. ASSUME NEW r \in Tickets \ {ticket[k]} PROVE r \in Tickets'
      <3>1. PICK l \in Keys : ticket[l] = r /\ r # 0
        BY TicketFacts
      <3>2. ticket'[l] = r
        BY <3>1, <1>6
      <3>3. QED
        BY <3>1, <3>2, TicketFacts
    <2>3. QED
      BY <2>1, <2>2
  <1>8. \A l \in Keys : sessions'[l] # NoSession <=> ticket'[l] # 0
    BY <1>6 DEF TakeOut, RegistrationEndsOnce
  <1>9. \A j, l \in Keys : ticket'[j] = ticket'[l] /\ ticket'[j] # 0 => j = l
    BY <1>5, <1>6
  <1>10. QED
    BY <1>1, <1>2, <1>4, <1>7, <1>8, <1>9

\* Where a number that leaves the registry goes: to the released, or to one thread.
LEMMA RemoveStep ==
  ASSUME RegistryInv, NEW t \in Threads, NEW name \in Names, Remove(t, name)
  PROVE  RegistryInv'
  <1> DEFINE k == Key[name]
  <1>1. k \in Keys /\ sessions[k] # NoSession /\ TakeOut(k)
    BY KeyFacts DEF Remove, Known
  <1> HIDE DEF k
  <1>2. /\ released' = released \cup {ticket[k]}
        /\ count' = count /\ pc' = pc /\ pending' = pending /\ raised' = raised /\ closed' = closed
        /\ answer' = [answer EXCEPT ![t] = "session"]
    BY DEF Remove, Answer, k
  <1>3. TypeOK'
    BY <1>1, <1>2, TakeOutStep DEF RegistryInv, TypeOK
  <1>4. RegistrationEndsOnce'
    <2> USE DEF RegistryInv, RegistrationEndsOnce
    <2>1. /\ \A l \in Keys : sessions'[l] # NoSession <=> ticket'[l] # 0
          /\ \A j, l \in Keys : ticket'[j] = ticket'[l] /\ ticket'[j] # 0 => j = l
      BY <1>1, TakeOutStep
    <2>2. ticket[k] \in Tickets /\ Tickets' = Tickets \ {ticket[k]}
      BY <1>1, TakeOutStep
    <2>3. /\ \A u, v \in Threads : u # v => pending'[u] \cap pending'[v] = {}
          /\ \A u \in Threads : pending'[u] \cap (Tickets' \cup closed' \cup released') = {}
      BY <1>2, <2>2
    <2>4. Tickets' \cap (closed' \cup released') = {} /\ closed' \cap released' = {}
      BY <1>2, <2>2
    <2>5. \A r \in 1..count' :
            r \in Tickets' \cup closed' \cup released' \/ \E u \in Threads : r \in pending'[u]
      BY <1>2, <2>2
    <2>6. QED
      BY <2>1, <2>3, <2>4, <2>5
  <1>5. IdleHoldsNothing'
    BY <1>2 DEF RegistryInv, IdleHoldsNothing
  <1>6. QED
    BY <1>1, <1>3, <1>4, <1>5, TakeOutStep DEF RegistryInv

\* An idle thread of a disconnection holds nothing: what it took before is closed.
LEMMA DisconnectStep ==
  ASSUME RegistryInv, NEW t \in Threads, NEW name \in Names, Disconnect(t, name)
  PROVE  RegistryInv'
  <1> DEFINE k == Key[name]
  <1>1. k \in Keys /\ sessions[k] # NoSession /\ TakeOut(k)
    BY KeyFacts DEF Disconnect, Known
  <1> HIDE DEF k
  <1>2. /\ pending' = [pending EXCEPT ![t] = {ticket[k]}]
        /\ count' = count /\ released' = released /\ closed' = closed
        /\ pc' = [pc EXCEPT ![t] = "closing"]
        /\ raised' = [raised EXCEPT ![t] = "no"]
        /\ answer' = [answer EXCEPT ![t] = "none"]
    BY DEF Disconnect, Answer, k
  <1>i. pending[t] = {}
    BY DEF Disconnect, RegistryInv, IdleHoldsNothing
  <1>p. \A u \in Threads : pending'[u] = IF u = t THEN {ticket[k]} ELSE pending[u]
    BY <1>2 DEF RegistryInv, TypeOK
  <1>3. TypeOK'
    BY <1>1, <1>2, TakeOutStep DEF RegistryInv, TypeOK
  <1>4. RegistrationEndsOnce'
    <2> USE DEF RegistryInv, RegistrationEndsOnce
    <2>1. /\ \A l \in Keys : sessions'[l] # NoSession <=> ticket'[l] # 0
          /\ \A j, l \in Keys : ticket'[j] = ticket'[l] /\ ticket'[j] # 0 => j = l
      BY <1>1, TakeOutStep
    <2>2. ticket[k] \in Tickets /\ Tickets' = Tickets \ {ticket[k]}
      BY <1>1, TakeOutStep
    <2>3. /\ \A u, v \in Threads : u # v => pending'[u] \cap pending'[v] = {}
          /\ \A u \in Threads : pending'[u] \cap (Tickets' \cup closed' \cup released') = {}
      BY <1>2, <1>p, <2>2
    <2>4. Tickets' \cap (closed' \cup released') = {} /\ closed' \cap released' = {}
      BY <1>2, <2>2
    <2>5. \A r \in 1..count' :
            r \in Tickets' \cup closed' \cup released' \/ \E u \in Threads : r \in pending'[u]
      BY <1>2, <1>p, <1>i, <2>2
    <2>6. QED
      BY <2>1, <2>3, <2>4, <2>5
  <1>5. IdleHoldsNothing'
    BY <1>2, <1>p DEF RegistryInv, IdleHoldsNothing, TypeOK
  <1>6. QED
    BY <1>1, <1>3, <1>4, <1>5, TakeOutStep DEF RegistryInv

LEMMA DisconnectAllStep ==
  ASSUME RegistryInv, NEW t \in Threads, DisconnectAll(t)
  PROVE  RegistryInv'
  <1>1. /\ pending' = [pending EXCEPT ![t] = Tickets]
        /\ sessions' = [k \in Keys |-> NoSession]
        /\ ticket' = [k \in Keys |-> 0]
        /\ active' = NoKey
        /\ count' = count /\ released' = released /\ closed' = closed
        /\ pc' = [pc EXCEPT ![t] = "closing"]
        /\ raised' = [raised EXCEPT ![t] = "no"]
        /\ answer' = [answer EXCEPT ![t] = "none"]
    BY DEF DisconnectAll, Answer
  <1>2. Tickets \subseteq 1..count
    <2>1. count \in Nat /\ \A l \in Keys : ticket[l] \in 0..count
      BY DEF RegistryInv, TypeOK
    <2>2. QED
      BY <2>1, TicketFacts, NumberFacts
  <1>3. Tickets' = {}
    BY <1>1, TicketFacts
  <1>i. pending[t] = {}
    BY DEF DisconnectAll, RegistryInv, IdleHoldsNothing
  <1>p. \A u \in Threads : pending'[u] = IF u = t THEN Tickets ELSE pending[u]
    BY <1>1 DEF RegistryInv, TypeOK
  <1>4. TypeOK'
    <2>1. 0 \in 0..count
      BY NumberFacts DEF RegistryInv, TypeOK
    <2>2. ticket' \in [Keys -> 0..count'] /\ pending' \in [Threads -> SUBSET (1..count')]
      BY <1>1, <1>2, <2>1 DEF RegistryInv, TypeOK
    <2>3. QED
      BY <1>1, <2>2 DEF RegistryInv, TypeOK
  <1>5. ActiveIsRegistered'
    BY <1>1 DEF ActiveIsRegistered
  <1>6. RegistrationEndsOnce'
    <2> USE DEF RegistryInv, RegistrationEndsOnce
    <2>1. /\ \A l \in Keys : sessions'[l] # NoSession <=> ticket'[l] # 0
          /\ \A j, l \in Keys : ticket'[j] = ticket'[l] /\ ticket'[j] # 0 => j = l
      BY <1>1
    <2>2. /\ \A u, v \in Threads : u # v => pending'[u] \cap pending'[v] = {}
          /\ \A u \in Threads : pending'[u] \cap (Tickets' \cup closed' \cup released') = {}
      BY <1>1, <1>3, <1>p
    <2>3. Tickets' \cap (closed' \cup released') = {} /\ closed' \cap released' = {}
      BY <1>1, <1>3
    <2>4. \A r \in 1..count' :
            r \in Tickets' \cup closed' \cup released' \/ \E u \in Threads : r \in pending'[u]
      BY <1>1, <1>p, <1>i
    <2>5. QED
      BY <2>1, <2>2, <2>3, <2>4
  <1>7. IdleHoldsNothing'
    BY <1>1, <1>p DEF RegistryInv, IdleHoldsNothing, TypeOK
  <1>8. QED
    BY <1>4, <1>5, <1>6, <1>7 DEF RegistryInv

\* One close: the number moves from the thread to the closed ones.
LEMMA CloseOneStep ==
  ASSUME RegistryInv, NEW t \in Threads, NEW r \in pending[t], NEW error \in {"yes", "no"},
         CloseOne(t, r, error)
  PROVE  RegistryInv'
  <1>1. /\ pending' = [pending EXCEPT ![t] = pending[t] \ {r}]
        /\ closed' = closed \cup {r}
        /\ raised' = [raised EXCEPT ![t] = IF error = "yes" THEN "yes" ELSE raised[t]]
        /\ UNCHANGED <<sessions, active, ticket, count, pc, answer, released>>
        /\ pc[t] = "closing"
    BY DEF CloseOne
  <1>2. r \in 1..count
    BY DEF RegistryInv, TypeOK
  <1>3. Tickets' = Tickets
    BY <1>1 DEF Tickets
  <1>p. \A u \in Threads : pending'[u] = IF u = t THEN pending[t] \ {r} ELSE pending[u]
    BY <1>1 DEF RegistryInv, TypeOK
  <1>4. TypeOK'
    BY <1>1, <1>2 DEF RegistryInv, TypeOK
  <1>5. ActiveIsRegistered'
    BY <1>1 DEF RegistryInv, ActiveIsRegistered
  <1>6. RegistrationEndsOnce'
    <2> USE DEF RegistryInv, RegistrationEndsOnce
    <2>1. /\ \A l \in Keys : sessions'[l] # NoSession <=> ticket'[l] # 0
          /\ \A j, l \in Keys : ticket'[j] = ticket'[l] /\ ticket'[j] # 0 => j = l
      BY <1>1
    <2>2. /\ \A u, v \in Threads : u # v => pending'[u] \cap pending'[v] = {}
          /\ \A u \in Threads : pending'[u] \cap (Tickets' \cup closed' \cup released') = {}
      BY <1>1, <1>3, <1>p
    <2>3. Tickets' \cap (closed' \cup released') = {} /\ closed' \cap released' = {}
      BY <1>1, <1>3
    <2>4. \A q \in 1..count' :
            q \in Tickets' \cup closed' \cup released' \/ \E u \in Threads : q \in pending'[u]
      BY <1>1, <1>3, <1>p
    <2>5. QED
      BY <2>1, <2>2, <2>3, <2>4
  <1>7. IdleHoldsNothing'
    BY <1>1, <1>p DEF RegistryInv, IdleHoldsNothing
  <1>8. QED
    BY <1>4, <1>5, <1>6, <1>7 DEF RegistryInv

\* Steps that leave the sessions, their numbers and what is to be closed alone.
LEMMA QuietStep ==
  ASSUME RegistryInv,
         UNCHANGED <<sessions, ticket, count, pending, closed, released>>,
         TypeOK', ActiveIsRegistered', IdleHoldsNothing'
  PROVE  RegistryInv'
  <1>1. Tickets' = Tickets
    BY DEF Tickets
  <1>2. RegistrationEndsOnce'
    BY <1>1 DEF RegistryInv, RegistrationEndsOnce
  <1>3. QED
    BY <1>2 DEF RegistryInv

\* The invariant of the registry: nothing is lost, closed twice or left active, with
\* any number of threads (registry.py 37-123).
THEOREM RegistryInvariant == Spec => []RegistryInv
  <1>1. ASSUME RegistryInv, [Next]_vars PROVE RegistryInv'
    <2>1. CASE UNCHANGED vars
      <3>1. TypeOK' /\ ActiveIsRegistered' /\ IdleHoldsNothing'
        BY <1>1, <2>1 DEF vars, RegistryInv, TypeOK, ActiveIsRegistered, IdleHoldsNothing
      <3>2. QED
        BY <1>1, <2>1, <3>1, QuietStep DEF vars
    <2>2. ASSUME NEW t \in Threads, Calling(t) \/ Closing(t) PROVE RegistryInv'
      <3>1. ASSUME NEW a \in {"session", "ConfigurationError", "KeyError"}, Reply(t, a)
            PROVE  RegistryInv'
        <4>1. TypeOK'
          BY <1>1, <3>1 DEF RegistryInv, TypeOK, Reply, Answer
        <4>2. ActiveIsRegistered' /\ IdleHoldsNothing'
          BY <1>1, <3>1 DEF RegistryInv, ActiveIsRegistered, IdleHoldsNothing, Reply
        <4>3. QED
          BY <1>1, <3>1, <4>1, <4>2, QuietStep DEF Reply
      <3>2. ASSUME NEW name \in Names, NEW s \in Sessions, NEW replace \in BOOLEAN,
                   Register(t, name, s, replace)
            PROVE  RegistryInv'
        BY <1>1, <3>2, RegisterStep
      <3>3. ASSUME NEW name \in Names, NEW s \in Sessions, NEW replace \in BOOLEAN,
                   RegisterRefused(t, name, s, replace)
            PROVE  RegistryInv'
        BY <3>1, <3>3 DEF RegisterRefused
      <3>4. ASSUME NEW name \in Names, Remove(t, name) PROVE RegistryInv'
        BY <1>1, <3>4, RemoveStep
      <3>5. ASSUME NEW name \in Names, Disconnect(t, name) PROVE RegistryInv'
        BY <1>1, <3>5, DisconnectStep
      <3>6. ASSUME NEW name \in Names, Unknown(t, name) \/ Get(t, name) PROVE RegistryInv'
        BY <3>1, <3>6 DEF Unknown, Get
      <3>7. ASSUME NEW name \in Names, SetActive(t, name) PROVE RegistryInv'
        <4>1. Key[name] \in Keys /\ sessions[Key[name]] # NoSession
          BY <3>7, KeyFacts DEF SetActive, Known
        <4>2. TypeOK'
          BY <1>1, <3>7, <4>1 DEF RegistryInv, TypeOK, SetActive, Answer
        <4>3. ActiveIsRegistered' /\ IdleHoldsNothing'
          BY <1>1, <3>7, <4>1
          DEF RegistryInv, ActiveIsRegistered, IdleHoldsNothing, SetActive
        <4>4. QED
          BY <1>1, <3>7, <4>2, <4>3, QuietStep DEF SetActive
      <3>8. CASE DisconnectAll(t)
        BY <1>1, <3>8, DisconnectAllStep
      <3>9. CASE GetActive(t)
        BY <3>1, <3>9 DEF GetActive
      <3>10. ASSUME NEW r \in pending[t], NEW error \in {"yes", "no"}, CloseOne(t, r, error)
             PROVE  RegistryInv'
        BY <1>1, <3>10, CloseOneStep
      <3>11. CASE Disconnected(t)
        <4>1. TypeOK'
          BY <1>1, <3>11 DEF RegistryInv, TypeOK, Disconnected, Answer
        <4>2. ActiveIsRegistered'
          BY <1>1, <3>11 DEF RegistryInv, ActiveIsRegistered, Disconnected
        <4>3. IdleHoldsNothing'
          BY <1>1, <3>11 DEF RegistryInv, TypeOK, IdleHoldsNothing, Disconnected
        <4>4. QED
          BY <1>1, <3>11, <4>1, <4>2, <4>3, QuietStep DEF Disconnected
      <3>12. QED
        BY <2>2, <3>2, <3>3, <3>4, <3>5, <3>6, <3>7, <3>8, <3>9, <3>10, <3>11
        DEF Calling, Closing
    <2>3. QED
      BY <1>1, <2>1, <2>2 DEF Next
  <1>2. QED
    BY <1>1, RegistryInitially, PTL DEF Spec

\* The active alias is always registered, so get_active never fails with a KeyError
\* (registry.py 83-91).
THEOREM RegistryActiveIsRegistered == Spec => []ActiveIsRegistered
  <1>1. RegistryInv => ActiveIsRegistered
    BY DEF RegistryInv
  <1>2. QED
    BY <1>1, RegistryInvariant, PTL

\* Every registration ends once: racing disconnections never both get a session, and
\* none is lost between the lock and the close (registry.py 106-123).
THEOREM RegistryRegistrationEndsOnce == Spec => []RegistrationEndsOnce
  <1>1. RegistryInv => RegistrationEndsOnce
    BY DEF RegistryInv
  <1>2. QED
    BY <1>1, RegistryInvariant, PTL
==============================================================================
