-------------------------- MODULE ConfirmationGuard --------------------------
(***************************************************************************)
(* The confirmation guard of execution/guards.py, used by several threads.  *)
(*                                                                         *)
(* The permanent switch and the epoch are shared and only touched under     *)
(* _lock; the depth and the epoch of a thread's own scope live in a         *)
(* threading.local and are touched without it.  Entering `with               *)
(* guard.enabled(phrase)` is therefore two steps: the epoch is read under   *)
(* the lock, and the scope is stored later, after other threads may have    *)
(* called disable() in between.                                             *)
(***************************************************************************)
EXTENDS Integers

CONSTANTS
  Threads,      \* threads that share the guard
  Phrases,      \* phrases a caller may present
  Phrase,       \* the phrase the guard was built with
  MaxEpoch,     \* bound on the number of calls of disable()
  MaxBlocks     \* bound on the blocks a thread keeps open per epoch

ASSUME GuardAssumption ==
  Phrase \in Phrases /\ MaxEpoch \in Nat /\ MaxBlocks \in Nat

NoEpoch == -1   \* the default of _local.epoch

Epochs == 0..MaxEpoch

VARIABLES
  enabled,      \* _enabled
  epoch,        \* _epoch
  depth,        \* _local.depth of every thread
  localEpoch,   \* _local.epoch of every thread
  entering,     \* the epoch an enabled() call has read and not yet stored
  live,         \* open enabled() blocks of every thread, counted by the generator's
                \* local `epoch`: those no disable() has followed, and
  revoked,      \* those a disable() has followed (auxiliary distinction)
  standing,     \* which of the two an entry in progress will become (auxiliary)
  outcome       \* how the latest call of every thread ended

vars == <<enabled, epoch, depth, localEpoch, entering, live, revoked, standing, outcome>>

Standings == {"live", "revoked"}

Outcomes == {"none", "done", "granted", "SafetyGuardError"}

Init ==
  /\ enabled = FALSE
  /\ epoch = 0
  /\ depth = [t \in Threads |-> 0]
  /\ localEpoch = [t \in Threads |-> NoEpoch]
  /\ entering = [t \in Threads |-> NoEpoch]
  /\ live = [t \in Threads |-> [e \in Epochs |-> 0]]
  /\ revoked = [t \in Threads |-> [e \in Epochs |-> 0]]
  /\ standing = [t \in Threads |-> "live"]
  /\ outcome = [t \in Threads |-> "none"]

ScopedEnabled(t) == depth[t] > 0 /\ localEpoch[t] = epoch

\* is_enabled: no other thread can change this thread's scope, so the answer is
\* fixed when the lock is released.
IsEnabled(t) == enabled \/ ScopedEnabled(t)

Idle(t) == entering[t] = NoEpoch

\* A wrong phrase raises before anything is read or written.
RefusePhrase(t, p) ==
  /\ Idle(t)
  /\ p # Phrase
  /\ outcome' = [outcome EXCEPT ![t] = "SafetyGuardError"]
  /\ UNCHANGED <<enabled, epoch, depth, localEpoch, entering, live, revoked, standing>>

Enable(t, p) ==
  /\ Idle(t)
  /\ p = Phrase
  /\ enabled' = TRUE
  /\ outcome' = [outcome EXCEPT ![t] = "done"]
  /\ UNCHANGED <<epoch, depth, localEpoch, entering, live, revoked, standing>>

\* Faulty variant: disable() forgets to advance the epoch.
DisableKeepsEpoch(t) ==
  /\ Idle(t)
  /\ epoch < MaxEpoch
  /\ enabled' = FALSE
  /\ live' = [u \in Threads |-> [e \in Epochs |-> 0]]
  /\ revoked' = [u \in Threads |-> [e \in Epochs |-> revoked[u][e] + live[u][e]]]
  /\ standing' = [u \in Threads |-> "revoked"]
  /\ outcome' = [outcome EXCEPT ![t] = "done"]
  /\ UNCHANGED <<epoch, depth, localEpoch, entering>>

\* The code only writes _enabled and _epoch.  live, revoked and standing record, for the
\* properties, that every block and every half-open entry is now revoked.
Disable(t) ==
  /\ Idle(t)
  /\ epoch < MaxEpoch
  /\ enabled' = FALSE
  /\ epoch' = epoch + 1
  /\ live' = [u \in Threads |-> [e \in Epochs |-> 0]]
  /\ revoked' = [u \in Threads |-> [e \in Epochs |-> revoked[u][e] + live[u][e]]]
  /\ standing' = [u \in Threads |-> "revoked"]
  /\ outcome' = [outcome EXCEPT ![t] = "done"]
  /\ UNCHANGED <<depth, localEpoch, entering>>

RequireEnabled(t) ==
  /\ Idle(t)
  /\ outcome' = [outcome EXCEPT ![t] = IF IsEnabled(t) THEN "granted" ELSE "SafetyGuardError"]
  /\ UNCHANGED <<enabled, epoch, depth, localEpoch, entering, live, revoked, standing>>

\* enabled(), first part: the epoch is read under the lock.
ReadEpoch(t, p) ==
  /\ Idle(t)
  /\ p = Phrase
  /\ live[t][epoch] < MaxBlocks
  /\ entering' = [entering EXCEPT ![t] = epoch]
  /\ standing' = [standing EXCEPT ![t] = "live"]
  /\ UNCHANGED <<enabled, epoch, depth, localEpoch, live, revoked, outcome>>

\* The body of the with statement starts: the generator keeps the epoch it read.
OpenBlock(t) ==
  \/ /\ standing[t] = "live"
     /\ live' = [live EXCEPT ![t][entering[t]] = @ + 1]
     /\ UNCHANGED revoked
  \/ /\ standing[t] = "revoked"
     /\ revoked' = [revoked EXCEPT ![t][entering[t]] = @ + 1]
     /\ UNCHANGED live

\* One of the thread's blocks that were entered at epoch e ends.
CloseBlock(t, e) ==
  \/ /\ live[t][e] > 0
     /\ live' = [live EXCEPT ![t][e] = @ - 1]
     /\ UNCHANGED revoked
  \/ /\ revoked[t][e] > 0
     /\ revoked' = [revoked EXCEPT ![t][e] = @ - 1]
     /\ UNCHANGED live

\* Faulty variant: the epoch is read again when the scope is stored.
StoreScopeRereadsEpoch(t) ==
  /\ entering[t] # NoEpoch
  /\ depth' = [depth EXCEPT ![t] =
                 (IF @ > 0 /\ localEpoch[t] # epoch THEN 0 ELSE @) + 1]
  /\ localEpoch' = [localEpoch EXCEPT ![t] = epoch]
  /\ OpenBlock(t)
  /\ entering' = [entering EXCEPT ![t] = NoEpoch]
  /\ outcome' = [outcome EXCEPT ![t] = "done"]
  /\ UNCHANGED <<enabled, epoch, standing>>

\* Faulty variant: the depth of a revoked scope is carried into a new one.
StoreScopeKeepsDepth(t) ==
  /\ entering[t] # NoEpoch
  /\ depth' = [depth EXCEPT ![t] = @ + 1]
  /\ localEpoch' = [localEpoch EXCEPT ![t] = entering[t]]
  /\ OpenBlock(t)
  /\ entering' = [entering EXCEPT ![t] = NoEpoch]
  /\ outcome' = [outcome EXCEPT ![t] = "done"]
  /\ UNCHANGED <<enabled, epoch, standing>>

\* enabled(), second part: the scope is stored, on top of a scope of the same
\* epoch or in place of a revoked one.
StoreScope(t) ==
  /\ entering[t] # NoEpoch
  /\ depth' = [depth EXCEPT ![t] =
                 (IF @ > 0 /\ localEpoch[t] # entering[t] THEN 0 ELSE @) + 1]
  /\ localEpoch' = [localEpoch EXCEPT ![t] = entering[t]]
  /\ OpenBlock(t)
  /\ entering' = [entering EXCEPT ![t] = NoEpoch]
  /\ outcome' = [outcome EXCEPT ![t] = "done"]
  /\ UNCHANGED <<enabled, epoch, standing>>

\* Leaving a block entered at epoch e, in any order of the thread's blocks.
ExitBlock(t, e) ==
  /\ Idle(t)
  /\ CloseBlock(t, e)
  /\ LET mine == localEpoch[t] = e /\ depth[t] > 0 IN
       /\ depth' = [depth EXCEPT ![t] = IF mine THEN @ - 1 ELSE @]
       /\ localEpoch' = [localEpoch EXCEPT ![t] =
                           IF mine /\ depth[t] = 1 THEN NoEpoch ELSE @]
  /\ outcome' = [outcome EXCEPT ![t] = "done"]
  /\ UNCHANGED <<enabled, epoch, entering, standing>>

Next ==
  \E t \in Threads :
    \/ \E p \in Phrases : RefusePhrase(t, p) \/ Enable(t, p) \/ ReadEpoch(t, p)
    \/ Disable(t)
    \/ RequireEnabled(t)
    \/ StoreScope(t)
    \/ \E e \in Epochs : ExitBlock(t, e)

Spec == Init /\ [][Next]_vars

------------------------------------------------------------------------------
\* The types of the guard's fields and of the thread-local scope.
TypeOK ==
  /\ enabled \in BOOLEAN
  /\ epoch \in Epochs
  /\ depth \in [Threads -> Nat]
  /\ localEpoch \in [Threads -> Epochs \cup {NoEpoch}]
  /\ entering \in [Threads -> Epochs \cup {NoEpoch}]
  /\ live \in [Threads -> [Epochs -> Nat]]
  /\ revoked \in [Threads -> [Epochs -> Nat]]
  /\ standing \in [Threads -> Standings]
  /\ outcome \in [Threads -> Outcomes]

\* A thread that has an open block which no disable() has revoked.
Confirmed(t) == \E e \in Epochs : live[t][e] > 0

\* The guard is unlocked for a thread exactly when it is enabled globally or the
\* thread itself has an open enabled() block that was confirmed after the last
\* disable(): a disable() revokes every scope of every thread, a scope whose
\* entry it overtook included, no scope leaks to another thread, and leaving a
\* revoked block never locks a block that was confirmed later (guards.py 87-108).
UnlockedIffConfirmed == \A t \in Threads : IsEnabled(t) <=> (enabled \/ Confirmed(t))

\* require_enabled() lets a caller through only while the guard is enabled
\* globally or the caller's own thread holds an unrevoked block (guards.py 77-85).
GrantOnlyConfirmed ==
  [][\A t \in Threads :
       RequireEnabled(t) /\ outcome'[t] = "granted" => enabled \/ Confirmed(t)]_vars

\* The windows of the contract: the depth of a scope of the current epoch.
Contract == INSTANCE GuardContract WITH
  unlocked <- enabled,
  windows <- [t \in Threads |-> IF localEpoch[t] = epoch THEN depth[t] ELSE 0]

\* The guard, with its epochs and its unlocked thread-local updates, behaves as
\* the abstract guard: one switch and a count of windows that disable() clears.
ImplementsContract == Contract!Spec

------------------------------------------------------------------------------
\* The inductive invariant: the current scope of a thread counts exactly its
\* unrevoked blocks, and nothing a thread holds is newer than the guard's epoch.
ScopeOK(t) ==
  /\ \A e \in Epochs : live[t][e] > 0 => e = epoch
  /\ \A e \in Epochs : revoked[t][e] > 0 => e < epoch
  /\ localEpoch[t] = epoch => depth[t] = live[t][epoch]
  /\ localEpoch[t] # epoch => live[t][epoch] = 0
  /\ localEpoch[t] <= epoch

ScopeCountsBlocks == \A t \in Threads : ScopeOK(t)

\* An entry in progress holds the current epoch, or an older one that a
\* disable() has revoked; it never replaces a scope newer than itself.
EntryOK(t) ==
  /\ localEpoch[t] <= entering[t]
  /\ standing[t] = "revoked" => entering[t] < epoch
  /\ standing[t] = "live" => entering[t] = epoch

EntryStanding == \A t \in Threads : entering[t] # NoEpoch => EntryOK(t)

GuardInv == TypeOK /\ ScopeCountsBlocks /\ EntryStanding
==============================================================================
