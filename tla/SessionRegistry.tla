--------------------------- MODULE SessionRegistry ---------------------------
(***************************************************************************)
(* The registry of named sessions of session/registry.py.  Every method is   *)
(* atomic under the registry's lock, except that disconnect and              *)
(* disconnect_all close sessions after letting go of it: other threads        *)
(* register, remove and disconnect meanwhile, and closing may raise.          *)
(*                                                                         *)
(* Registrations are numbered: the same session may be registered, removed    *)
(* and registered again.                                                      *)
(***************************************************************************)
EXTENDS Integers

CONSTANTS
  Threads,            \* threads that use the registry
  Sessions,           \* session objects
  NoSession,
  Names,              \* spellings of aliases
  Key,                \* normalize_alias: the key of every spelling that has one
  NoKey,
  AliasOf,            \* the alias each session was made with
  MaxRegistrations    \* bound on successful registrations

\* Keys are spellings and are their own keys; a spelling without a key is blank.
ASSUME RegistryAssumption ==
  /\ DOMAIN Key \subseteq Names
  /\ \A n \in DOMAIN Key : Key[n] \in DOMAIN Key /\ Key[Key[n]] = Key[n]
  /\ AliasOf \in [Sessions -> DOMAIN Key]
  /\ NoKey \notin DOMAIN Key
  /\ NoSession \notin Sessions
  /\ MaxRegistrations \in Nat

VARIABLES
  sessions,       \* _sessions: the session under every key, or NoSession
  active,         \* _active, or NoKey
  ticket,         \* the number of the registration under every key, or 0
  count,          \* registrations made so far
  pc,             \* "closing" while a thread closes the sessions it took out
  pending,        \* registrations every thread took out and has yet to close
  raised,         \* whether a close of the running disconnection raised
  answer,         \* what the latest call of every thread returned or raised
  closed,         \* registrations ended by disconnect or disconnect_all
  released        \* registrations ended by remove or by a replacement

vars == <<sessions, active, ticket, count, pc, pending, raised, answer, closed, released>>

Keys == {Key[n] : n \in DOMAIN Key}

Known(name) == name \in DOMAIN Key /\ sessions[Key[name]] # NoSession

Tickets == {ticket[k] : k \in Keys} \ {0}

Init ==
  /\ sessions = [k \in Keys |-> NoSession]
  /\ active = NoKey
  /\ ticket = [k \in Keys |-> 0]
  /\ count = 0
  /\ pc = [t \in Threads |-> "idle"]
  /\ pending = [t \in Threads |-> {}]
  /\ raised = [t \in Threads |-> "no"]
  /\ answer = [t \in Threads |-> "none"]
  /\ closed = {}
  /\ released = {}

Answer(t, a) == answer' = [answer EXCEPT ![t] = a]

\* A call that raises ConfigurationError, or only reads.
Reply(t, a) ==
  /\ Answer(t, a)
  /\ UNCHANGED <<sessions, active, ticket, count, pc, pending, raised, closed, released>>

------------------------------------------------------------------------------
\* Registering.

\* The key is the session's own, the session is under no other key, and the key is
\* free or may be replaced.
Registrable(name, s, replace) ==
  /\ name \in DOMAIN Key
  /\ Key[name] = Key[AliasOf[s]]
  /\ \A k \in Keys \ {Key[name]} : sessions[k] # s
  /\ sessions[Key[name]] = NoSession \/ replace

RegisterRefused(t, name, s, replace) ==
  /\ pc[t] = "idle"
  /\ ~Registrable(name, s, replace)
  /\ Reply(t, "ConfigurationError")

\* A replaced session is dropped: nobody closes it.
Register(t, name, s, replace) ==
  /\ pc[t] = "idle"
  /\ count < MaxRegistrations
  /\ Registrable(name, s, replace)
  /\ count' = count + 1
  /\ sessions' = [sessions EXCEPT ![Key[name]] = s]
  /\ ticket' = [ticket EXCEPT ![Key[name]] = count + 1]
  /\ released' = released \cup ({ticket[Key[name]]} \ {0})
  /\ active' = IF active = NoKey THEN Key[name] ELSE active
  /\ Answer(t, "done")
  /\ UNCHANGED <<pc, pending, raised, closed>>

------------------------------------------------------------------------------
\* Removing and disconnecting.

\* Faulty variant: the key taken out stays active.
TakeOutKeepsActive(k) ==
  /\ sessions' = [sessions EXCEPT ![k] = NoSession]
  /\ ticket' = [ticket EXCEPT ![k] = 0]
  /\ active' = active

TakeOut(k) ==
  /\ sessions' = [sessions EXCEPT ![k] = NoSession]
  /\ ticket' = [ticket EXCEPT ![k] = 0]
  /\ active' = IF active = k THEN NoKey ELSE active

Remove(t, name) ==
  /\ pc[t] = "idle"
  /\ Known(name)
  /\ TakeOut(Key[name])
  /\ released' = released \cup {ticket[Key[name]]}
  /\ Answer(t, "session")
  /\ UNCHANGED <<count, pc, pending, raised, closed>>

\* disconnect takes the session out and then closes it without the lock.
Disconnect(t, name) ==
  /\ pc[t] = "idle"
  /\ Known(name)
  /\ TakeOut(Key[name])
  /\ pending' = [pending EXCEPT ![t] = {ticket[Key[name]]}]
  /\ pc' = [pc EXCEPT ![t] = "closing"]
  /\ raised' = [raised EXCEPT ![t] = "no"]
  /\ Answer(t, "none")
  /\ UNCHANGED <<count, closed, released>>

\* Faulty variant: the sessions are listed, and stay registered until closed.
DisconnectAllListed(t) ==
  /\ pc[t] = "idle"
  /\ pending' = [pending EXCEPT ![t] = Tickets]
  /\ pc' = [pc EXCEPT ![t] = "closing"]
  /\ raised' = [raised EXCEPT ![t] = "no"]
  /\ Answer(t, "none")
  /\ UNCHANGED <<sessions, ticket, active, count, closed, released>>

\* disconnect_all takes everything out at once and then closes it without the lock.
DisconnectAll(t) ==
  /\ pc[t] = "idle"
  /\ sessions' = [k \in Keys |-> NoSession]
  /\ ticket' = [k \in Keys |-> 0]
  /\ active' = NoKey
  /\ pending' = [pending EXCEPT ![t] = Tickets]
  /\ pc' = [pc EXCEPT ![t] = "closing"]
  /\ raised' = [raised EXCEPT ![t] = "no"]
  /\ Answer(t, "none")
  /\ UNCHANGED <<count, closed, released>>

\* Faulty variant: an error ends the loop.
CloseStops(t, r, error) ==
  /\ pc[t] = "closing"
  /\ r \in pending[t]
  /\ pending' = [pending EXCEPT ![t] = @ \ {r}]
  /\ closed' = closed \cup {r}
  /\ raised' = [raised EXCEPT ![t] = IF error = "yes" THEN "yes" ELSE @]
  /\ pc' = [pc EXCEPT ![t] = IF error = "yes" THEN "idle" ELSE "closing"]
  /\ UNCHANGED <<sessions, active, ticket, count, answer, released>>

\* session.close() of one registration; whether or not it raises, the loop goes on.
CloseOne(t, r, error) ==
  /\ pc[t] = "closing"
  /\ r \in pending[t]
  /\ pending' = [pending EXCEPT ![t] = @ \ {r}]
  /\ closed' = closed \cup {r}
  /\ raised' = [raised EXCEPT ![t] = IF error = "yes" THEN "yes" ELSE @]
  /\ UNCHANGED <<sessions, active, ticket, count, pc, answer, released>>

\* The first error, if any, is raised after the last close.
Disconnected(t) ==
  /\ pc[t] = "closing"
  /\ pending[t] = {}
  /\ pc' = [pc EXCEPT ![t] = "idle"]
  /\ raised' = [raised EXCEPT ![t] = "no"]
  /\ Answer(t, IF raised[t] = "yes" THEN "close error" ELSE "done")
  /\ UNCHANGED <<sessions, active, ticket, count, pending, closed, released>>

------------------------------------------------------------------------------
\* Looking up.

\* get, remove, disconnect or set_active of a name that is blank or not registered.
Unknown(t, name) ==
  /\ pc[t] = "idle"
  /\ ~Known(name)
  /\ Reply(t, "ConfigurationError")

Get(t, name) ==
  /\ pc[t] = "idle"
  /\ Known(name)
  /\ Reply(t, "session")

SetActive(t, name) ==
  /\ pc[t] = "idle"
  /\ Known(name)
  /\ active' = Key[name]
  /\ Answer(t, "done")
  /\ UNCHANGED <<sessions, ticket, count, pc, pending, raised, closed, released>>

\* _sessions[_active] would raise KeyError for a key that is not registered.
GetActive(t) ==
  /\ pc[t] = "idle"
  /\ Reply(t, CASE active = NoKey -> "ConfigurationError"
                [] active # NoKey /\ sessions[active] # NoSession -> "session"
                [] OTHER -> "KeyError")

------------------------------------------------------------------------------

Closing(t) ==
  \/ \E r \in pending[t], error \in {"yes", "no"} : CloseOne(t, r, error)
  \/ Disconnected(t)

Calling(t) ==
  \/ \E name \in Names, s \in Sessions, replace \in BOOLEAN :
       Register(t, name, s, replace) \/ RegisterRefused(t, name, s, replace)
  \/ \E name \in Names :
       \/ Remove(t, name) \/ Disconnect(t, name)
       \/ Unknown(t, name) \/ Get(t, name) \/ SetActive(t, name)
  \/ DisconnectAll(t)
  \/ GetActive(t)

Next == \E t \in Threads : Calling(t) \/ Closing(t)

Spec == Init /\ [][Next]_vars

\* A thread that closes sessions goes on: session.close() is finite.
FairSpec == Spec /\ \A t \in Threads : WF_vars(Closing(t))

------------------------------------------------------------------------------
\* The types of the variables.
TypeOK ==
  /\ sessions \in [Keys -> Sessions \cup {NoSession}]
  /\ active \in Keys \cup {NoKey}
  /\ ticket \in [Keys -> 0..count]
  /\ count \in Nat
  /\ pc \in [Threads -> {"idle", "closing"}]
  /\ pending \in [Threads -> SUBSET (1..count)]
  /\ raised \in [Threads -> {"yes", "no"}]
  /\ answer \in [Threads -> {"none", "done", "session", "ConfigurationError", "KeyError",
                             "close error"}]
  /\ closed \subseteq 1..count
  /\ released \subseteq 1..count

\* The active alias is always one that get_active can look up, whatever is removed,
\* replaced or disconnected in between (registry.py 73-74, 83-91, 112-114).
ActiveIsRegistered == active # NoKey => sessions[active] # NoSession

\* Every registration is in exactly one place: registered, in the hands of the one
\* thread that disconnects it, closed, or given back or replaced.  Two disconnections
\* that race never both get it, and none is lost between the lock and the close.
RegistrationEndsOnce ==
  /\ \A k \in Keys : sessions[k] # NoSession <=> ticket[k] # 0
  /\ \A k, l \in Keys : ticket[k] = ticket[l] /\ ticket[k] # 0 => k = l
  /\ \A t, u \in Threads : t # u => pending[t] \cap pending[u] = {}
  /\ \A t \in Threads : pending[t] \cap (Tickets \cup closed \cup released) = {}
  /\ Tickets \cap (closed \cup released) = {}
  /\ closed \cap released = {}
  /\ \A r \in 1..count :
       r \in Tickets \cup closed \cup released \/ \E t \in Threads : r \in pending[t]

\* Every session that disconnect or disconnect_all took out is closed in the end,
\* even when closing another one raised (registry.py 115-123).
TakenOutIsClosed ==
  \A t \in Threads, r \in 1..MaxRegistrations : r \in pending[t] ~> r \in closed
==============================================================================
