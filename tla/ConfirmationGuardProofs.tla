----------------------- MODULE ConfirmationGuardProofs -----------------------
(***************************************************************************)
(* Proofs about the confirmation guard, for every set of threads, every     *)
(* number of disable() calls and every nesting of blocks.                   *)
(***************************************************************************)
EXTENDS ConfirmationGuard, TLAPS

\* Epochs are naturals, and the default of _local.epoch is below all of them.
LEMMA EpochFacts ==
  /\ 0 \in Epochs
  /\ \A e \in Epochs : e \in Nat /\ e <= MaxEpoch /\ e # NoEpoch /\ NoEpoch < e
  /\ \A e \in Nat : e <= MaxEpoch => e \in Epochs
  /\ NoEpoch \in Int
BY GuardAssumption DEF Epochs, NoEpoch

\* Changing one counter of one thread keeps the type of the counters.
LEMMA CountersUpdate ==
  ASSUME NEW f \in [Threads -> [Epochs -> Nat]], NEW t \in Threads, NEW e \in Epochs, NEW n \in Nat
  PROVE  [f EXCEPT ![t][e] = n] \in [Threads -> [Epochs -> Nat]]
OBVIOUS

\* The fresh guard of guards.py 28-36 satisfies the inductive invariant.
LEMMA InitGuardInv == Init => GuardInv
<1> SUFFICES ASSUME Init PROVE GuardInv
  OBVIOUS
<1>1. TypeOK
  BY EpochFacts DEF Init, TypeOK, Outcomes, Standings
<1>2. ScopeCountsBlocks
  <2> SUFFICES ASSUME NEW t \in Threads PROVE ScopeOK(t)
    BY DEF ScopeCountsBlocks
  <2>1. \A e \in Epochs : live[t][e] = 0 /\ revoked[t][e] = 0
    BY DEF Init
  <2>2. depth[t] = 0 /\ localEpoch[t] = NoEpoch /\ epoch = 0
    BY DEF Init
  <2> QED BY <2>1, <2>2, EpochFacts DEF ScopeOK
<1>3. EntryStanding
  BY DEF Init, EntryStanding
<1> QED BY <1>1, <1>2, <1>3 DEF GuardInv

\* Every step of every method keeps the inductive invariant.
LEMMA NextGuardInv == GuardInv /\ [Next]_vars => GuardInv'
<1> SUFFICES ASSUME GuardInv, [Next]_vars PROVE GuardInv'
  OBVIOUS
<1> USE EpochFacts DEF GuardInv
<1>0. epoch \in Nat /\ \A u \in Threads : localEpoch[u] \in Int /\ entering[u] \in Int
  BY DEF TypeOK
<1>1. ASSUME NEW t \in Threads, NEW p \in Phrases, RefusePhrase(t, p) PROVE GuardInv'
  BY <1>1 DEF RefusePhrase, TypeOK, ScopeCountsBlocks, ScopeOK, EntryStanding, EntryOK, Outcomes
<1>2. ASSUME NEW t \in Threads, NEW p \in Phrases, Enable(t, p) PROVE GuardInv'
  BY <1>2 DEF Enable, TypeOK, ScopeCountsBlocks, ScopeOK, EntryStanding, EntryOK, Outcomes
<1>3. ASSUME NEW t \in Threads, NEW p \in Phrases, ReadEpoch(t, p) PROVE GuardInv'
  <2>1. TypeOK' /\ ScopeCountsBlocks'
    BY <1>3 DEF ReadEpoch, TypeOK, ScopeCountsBlocks, ScopeOK, Standings
  <2>2. EntryStanding'
    BY <1>3 DEF ReadEpoch, TypeOK, ScopeCountsBlocks, ScopeOK, EntryStanding, EntryOK
  <2> QED BY <2>1, <2>2
<1>4. ASSUME NEW t \in Threads, Disable(t) PROVE GuardInv'
  <2>1. epoch \in Nat /\ epoch' = epoch + 1 /\ epoch' \in Epochs
    BY <1>4, GuardAssumption DEF Disable, TypeOK
  <2>2. TypeOK'
    <3>1. live' \in [Threads -> [Epochs -> Nat]]
      BY <1>4 DEF Disable
    <3>2. revoked' \in [Threads -> [Epochs -> Nat]]
      BY <1>4 DEF Disable, TypeOK
    <3>3. standing' \in [Threads -> Standings] /\ outcome' \in [Threads -> Outcomes]
      BY <1>4 DEF Disable, TypeOK, Standings, Outcomes
    <3> QED BY <1>4, <2>1, <3>1, <3>2, <3>3 DEF Disable, TypeOK
  <2>3. ScopeCountsBlocks'
    <3> SUFFICES ASSUME NEW u \in Threads PROVE ScopeOK(u)'
      BY DEF ScopeCountsBlocks
    <3>1. \A e \in Epochs : live'[u][e] = 0 /\ revoked'[u][e] = revoked[u][e] + live[u][e]
      BY <1>4 DEF Disable
    <3>2. localEpoch'[u] = localEpoch[u] /\ localEpoch[u] < epoch'
      BY <1>0, <1>4, <2>1 DEF Disable, ScopeCountsBlocks, ScopeOK
    <3>3. \A e \in Epochs : revoked'[u][e] > 0 => e < epoch'
      BY <2>1, <3>1 DEF TypeOK, ScopeCountsBlocks, ScopeOK
    <3> QED BY <1>0, <2>1, <3>1, <3>2, <3>3 DEF ScopeOK
  <2>4. EntryStanding'
    <3> SUFFICES ASSUME NEW u \in Threads, entering'[u] # NoEpoch PROVE EntryOK(u)'
      BY DEF EntryStanding
    <3>1. entering[u] \in Epochs /\ entering'[u] = entering[u] /\ standing'[u] = "revoked"
      BY <1>4 DEF Disable, TypeOK
    <3>2. localEpoch[u] <= entering[u] /\ localEpoch'[u] = localEpoch[u]
      BY <1>4, <3>1 DEF Disable, EntryStanding, EntryOK
    <3>3. entering[u] <= epoch
      BY <1>0, <3>1 DEF TypeOK, EntryStanding, EntryOK, Standings
    <3>4. entering[u] < epoch'
      BY <1>0, <2>1, <3>3
    <3> QED BY <3>1, <3>2, <3>4 DEF EntryOK
  <2> QED BY <2>2, <2>3, <2>4
<1>5. ASSUME NEW t \in Threads, RequireEnabled(t) PROVE GuardInv'
  BY <1>5 DEF RequireEnabled, TypeOK, ScopeCountsBlocks, ScopeOK, EntryStanding, EntryOK, Outcomes
<1>6. ASSUME NEW t \in Threads, StoreScope(t) PROVE GuardInv'
  <2>1. entering[t] \in Epochs
    BY <1>6 DEF StoreScope, TypeOK
  <2>2. TypeOK'
    <3>1. live' \in [Threads -> [Epochs -> Nat]] /\ revoked' \in [Threads -> [Epochs -> Nat]]
      <4>1. live[t][entering[t]] + 1 \in Nat /\ revoked[t][entering[t]] + 1 \in Nat
        BY <2>1 DEF TypeOK
      <4>2. /\ [live EXCEPT ![t][entering[t]] = @ + 1] \in [Threads -> [Epochs -> Nat]]
            /\ [revoked EXCEPT ![t][entering[t]] = @ + 1] \in [Threads -> [Epochs -> Nat]]
        BY <2>1, <4>1, CountersUpdate DEF TypeOK
      <4> QED BY <1>6, <4>2 DEF StoreScope, OpenBlock, TypeOK
    <3>2. depth' \in [Threads -> Nat]
      BY <1>6 DEF StoreScope, TypeOK
    <3> QED BY <1>6, <2>1, <3>1, <3>2 DEF StoreScope, TypeOK, Outcomes
  <2>3. ScopeCountsBlocks'
    <3>1. ASSUME NEW u \in Threads, u # t PROVE ScopeOK(u)'
      <4>1. live'[u] = live[u] /\ revoked'[u] = revoked[u]
        BY <1>6, <3>1 DEF StoreScope, OpenBlock, TypeOK
      <4>2. depth'[u] = depth[u] /\ localEpoch'[u] = localEpoch[u] /\ epoch' = epoch
        BY <1>6, <3>1 DEF StoreScope, TypeOK
      <4> QED BY <4>1, <4>2 DEF ScopeCountsBlocks, ScopeOK
    <3>2. ASSUME standing[t] = "live" PROVE ScopeOK(t)'
      <4>1. entering[t] = epoch /\ localEpoch'[t] = epoch /\ epoch' = epoch
        BY <1>6, <2>1, <3>2 DEF StoreScope, TypeOK, EntryStanding, EntryOK
      <4>2. /\ \A e \in Epochs : live'[t][e] = IF e = epoch THEN live[t][e] + 1 ELSE live[t][e]
            /\ \A e \in Epochs : revoked'[t][e] = revoked[t][e]
        BY <1>6, <3>2, <4>1 DEF StoreScope, OpenBlock, TypeOK
      <4>3. depth'[t] = live[t][epoch] + 1
        BY <1>6, <4>1 DEF StoreScope, TypeOK, ScopeCountsBlocks, ScopeOK
      <4> QED BY <4>1, <4>2, <4>3 DEF TypeOK, ScopeCountsBlocks, ScopeOK
    <3>3. ASSUME standing[t] = "revoked" PROVE ScopeOK(t)'
      <4>1. entering[t] < epoch /\ localEpoch'[t] = entering[t] /\ epoch' = epoch
        BY <1>6, <2>1, <3>3 DEF StoreScope, TypeOK, EntryStanding, EntryOK
      <4>2. localEpoch[t] # epoch
        BY <1>6, <2>1, <4>1 DEF StoreScope, TypeOK, EntryStanding, EntryOK
      <4>3. /\ \A e \in Epochs : live'[t][e] = live[t][e]
            /\ \A e \in Epochs : revoked'[t][e] > 0 => revoked[t][e] > 0 \/ e = entering[t]
        BY <1>6, <3>3 DEF StoreScope, OpenBlock, TypeOK
      <4> QED BY <2>1, <4>1, <4>2, <4>3 DEF TypeOK, ScopeCountsBlocks, ScopeOK
    <3> QED BY <3>1, <3>2, <3>3 DEF TypeOK, Standings, ScopeCountsBlocks
  <2>4. EntryStanding'
    BY <1>6, <2>1 DEF StoreScope, TypeOK, EntryStanding, EntryOK
  <2> QED BY <2>2, <2>3, <2>4
<1>7. ASSUME NEW t \in Threads, NEW e \in Epochs, ExitBlock(t, e) PROVE GuardInv'
  <2>1. TypeOK'
    <3>1. live' \in [Threads -> [Epochs -> Nat]] /\ revoked' \in [Threads -> [Epochs -> Nat]]
      <4>1. /\ live[t][e] > 0 => live[t][e] - 1 \in Nat
            /\ revoked[t][e] > 0 => revoked[t][e] - 1 \in Nat
        BY DEF TypeOK
      <4>2. live[t][e] > 0 => [live EXCEPT ![t][e] = @ - 1] \in [Threads -> [Epochs -> Nat]]
        BY <4>1, CountersUpdate DEF TypeOK
      <4>3. revoked[t][e] > 0 => [revoked EXCEPT ![t][e] = @ - 1] \in [Threads -> [Epochs -> Nat]]
        BY <4>1, CountersUpdate DEF TypeOK
      <4> QED BY <1>7, <4>2, <4>3 DEF ExitBlock, CloseBlock, TypeOK
    <3>2. depth' \in [Threads -> Nat]
      BY <1>7 DEF ExitBlock, TypeOK
    <3> QED BY <1>7, <3>1, <3>2 DEF ExitBlock, TypeOK, Outcomes
  <2>2. ScopeCountsBlocks'
    <3>1. ASSUME NEW u \in Threads, u # t PROVE ScopeOK(u)'
      <4>1. live'[u] = live[u] /\ revoked'[u] = revoked[u]
        BY <1>7, <3>1 DEF ExitBlock, CloseBlock, TypeOK
      <4>2. depth'[u] = depth[u] /\ localEpoch'[u] = localEpoch[u] /\ epoch' = epoch
        BY <1>7, <3>1 DEF ExitBlock, TypeOK
      <4> QED BY <4>1, <4>2 DEF ScopeCountsBlocks, ScopeOK
    <3>2. ASSUME live[t][e] > 0, live' = [live EXCEPT ![t][e] = @ - 1], UNCHANGED revoked
          PROVE ScopeOK(t)'
      <4>1. e = epoch /\ localEpoch[t] = epoch /\ depth[t] = live[t][e] /\ epoch' = epoch
        BY <1>7, <3>2 DEF ExitBlock, TypeOK, ScopeCountsBlocks, ScopeOK
      <4>2. depth'[t] = depth[t] - 1
            /\ localEpoch'[t] = IF depth[t] = 1 THEN NoEpoch ELSE epoch
        BY <1>7, <3>2, <4>1 DEF ExitBlock, TypeOK
      <4>3. \A i \in Epochs : live'[t][i] = IF i = e THEN live[t][i] - 1 ELSE live[t][i]
        BY <3>2 DEF TypeOK
      <4>4. \A i \in Epochs : revoked'[t][i] = revoked[t][i]
        BY <3>2
      <4> QED BY <4>1, <4>2, <4>3, <4>4 DEF TypeOK, ScopeCountsBlocks, ScopeOK
    <3>3. ASSUME revoked[t][e] > 0, revoked' = [revoked EXCEPT ![t][e] = @ - 1], UNCHANGED live
          PROVE ScopeOK(t)'
      <4>1. e < epoch /\ epoch' = epoch
        BY <1>7, <3>3 DEF ExitBlock, TypeOK, ScopeCountsBlocks, ScopeOK
      <4>2. \A i \in Epochs : live'[t][i] = live[t][i]
            /\ (revoked'[t][i] > 0 => revoked[t][i] > 0)
        BY <3>3 DEF TypeOK
      <4>3. CASE localEpoch[t] = epoch
        <5>1. depth'[t] = depth[t] /\ localEpoch'[t] = localEpoch[t]
          BY <1>7, <4>1, <4>3 DEF ExitBlock, TypeOK
        <5> QED BY <4>1, <4>2, <5>1 DEF TypeOK, ScopeCountsBlocks, ScopeOK
      <4>4. CASE localEpoch[t] # epoch
        <5>1. localEpoch'[t] \in {localEpoch[t], NoEpoch}
          BY <1>7 DEF ExitBlock, TypeOK
        <5> QED BY <4>1, <4>2, <4>4, <5>1 DEF TypeOK, ScopeCountsBlocks, ScopeOK
      <4> QED BY <4>3, <4>4
    <3> QED BY <1>7, <3>1, <3>2, <3>3 DEF ExitBlock, CloseBlock, ScopeCountsBlocks
  <2>3. EntryStanding'
    BY <1>7 DEF ExitBlock, TypeOK, EntryStanding, EntryOK, Idle
  <2> QED BY <2>1, <2>2, <2>3
<1>8. CASE UNCHANGED vars
  BY <1>8 DEF vars, TypeOK, ScopeCountsBlocks, ScopeOK, EntryStanding, EntryOK
<1> QED BY <1>1, <1>2, <1>3, <1>4, <1>5, <1>6, <1>7, <1>8 DEF Next

\* The inductive invariant holds throughout.
THEOREM GuardInvariant == Spec => []GuardInv
BY InitGuardInv, NextGuardInv, PTL DEF Spec

\* The inductive invariant gives the meaning of is_enabled.
LEMMA GuardInvMeaning == GuardInv => UnlockedIffConfirmed
<1> SUFFICES ASSUME GuardInv, NEW t \in Threads
             PROVE IsEnabled(t) <=> (enabled \/ Confirmed(t))
  BY DEF UnlockedIffConfirmed
<1>1. ScopedEnabled(t) => live[t][epoch] > 0
  BY DEF GuardInv, ScopeCountsBlocks, ScopeOK, ScopedEnabled
<1>2. ASSUME Confirmed(t) PROVE ScopedEnabled(t)
  <2>1. PICK e \in Epochs : live[t][e] > 0
    BY <1>2 DEF Confirmed
  <2>2. e = epoch /\ live[t][epoch] > 0
    BY <2>1 DEF GuardInv, ScopeCountsBlocks, ScopeOK
  <2>3. localEpoch[t] = epoch
    BY <2>2 DEF GuardInv, ScopeCountsBlocks, ScopeOK
  <2> QED BY <2>2, <2>3 DEF GuardInv, ScopeCountsBlocks, ScopeOK, ScopedEnabled
<1>3. epoch \in Epochs
  BY DEF GuardInv, TypeOK
<1> QED BY <1>1, <1>2, <1>3 DEF IsEnabled, Confirmed

\* The guard is unlocked for a thread exactly when it is enabled globally or the
\* thread has an open block confirmed after the last disable().
THEOREM GuardUnlockedIffConfirmed == Spec => []UnlockedIffConfirmed
BY GuardInvariant, GuardInvMeaning, PTL

\* require_enabled() grants only a globally enabled guard or the thread's own
\* unrevoked block.
THEOREM GuardGrantsOnlyConfirmed == Spec => GrantOnlyConfirmed
<1>1. GuardInv => \A t \in Threads :
          RequireEnabled(t) /\ outcome'[t] = "granted" => enabled \/ Confirmed(t)
  <2> SUFFICES ASSUME GuardInv, NEW t \in Threads, RequireEnabled(t), outcome'[t] = "granted"
               PROVE enabled \/ Confirmed(t)
    OBVIOUS
  <2>1. IsEnabled(t)
    BY DEF RequireEnabled, GuardInv, TypeOK
  <2> QED BY <2>1, GuardInvMeaning DEF UnlockedIffConfirmed
<1> QED BY <1>1, GuardInvariant, PTL DEF GrantOnlyConfirmed

\* Every step of the guard is a step of the abstract guard or changes none of it.
LEMMA GuardStepSimulation ==
  GuardInv /\ GuardInv' /\ [Next]_vars => [Contract!Next]_(Contract!contractVars)
<1> SUFFICES ASSUME GuardInv, GuardInv', [Next]_vars
             PROVE [Contract!Next]_(Contract!contractVars)
  OBVIOUS
<1> DEFINE W == [t \in Threads |-> IF localEpoch[t] = epoch THEN depth[t] ELSE 0]
<1> USE EpochFacts DEF Contract!contractVars
<1>1. ASSUME UNCHANGED <<enabled, epoch, depth, localEpoch>>
      PROVE [Contract!Next]_(Contract!contractVars)
  BY <1>1
<1>2. ASSUME NEW t \in Threads, NEW p \in Phrases, Enable(t, p) PROVE Contract!Unlock
  BY <1>2 DEF Enable, Contract!Unlock
<1>3. ASSUME NEW t \in Threads, Disable(t) PROVE Contract!Lock
  <2>1. \A u \in Threads : localEpoch[u] # epoch'
    BY <1>3 DEF Disable, GuardInv, TypeOK, ScopeCountsBlocks, ScopeOK
  <2> QED BY <1>3, <2>1 DEF Disable, Contract!Lock
<1>4. ASSUME NEW t \in Threads, StoreScope(t)
      PROVE [Contract!Next]_(Contract!contractVars)
  <2>1. CASE standing[t] = "revoked"
    <3>1. \A u \in Threads : W[u]' = W[u]
      BY <1>4, <2>1 DEF StoreScope, GuardInv, TypeOK, EntryStanding, EntryOK
    <3>2. W' = W
      BY <3>1
    <3> QED BY <1>4, <3>2 DEF StoreScope
  <2>2. CASE standing[t] = "live"
    <3>1. entering[t] = epoch
      BY <1>4, <2>2 DEF StoreScope, GuardInv, EntryStanding, EntryOK
    <3>2. W'[t] = W[t] + 1
      BY <1>4, <3>1 DEF StoreScope, GuardInv, TypeOK, ScopeCountsBlocks, ScopeOK
    <3>3. \A u \in Threads : u # t => W'[u] = W[u]
      BY <1>4 DEF StoreScope, GuardInv, TypeOK
    <3>4. W' = [W EXCEPT ![t] = @ + 1]
      BY <3>2, <3>3
    <3>5. Contract!OpenWindow(t)
      BY <1>4, <3>4 DEF StoreScope, Contract!OpenWindow
    <3> QED BY <3>5 DEF Contract!Next
  <2> QED BY <2>1, <2>2 DEF GuardInv, TypeOK, Standings
<1>5. ASSUME NEW t \in Threads, NEW e \in Epochs, ExitBlock(t, e)
      PROVE [Contract!Next]_(Contract!contractVars)
  <2>1. CASE localEpoch[t] = e /\ depth[t] > 0 /\ e = epoch
    <3>1. W[t] > 0 /\ W'[t] = W[t] - 1
      BY <1>5, <2>1 DEF ExitBlock, GuardInv, TypeOK
    <3>2. \A u \in Threads : u # t => W'[u] = W[u]
      BY <1>5 DEF ExitBlock, GuardInv, TypeOK
    <3>3. W' = [W EXCEPT ![t] = @ - 1]
      BY <3>1, <3>2
    <3>4. Contract!CloseWindow(t)
      BY <1>5, <3>1, <3>3 DEF ExitBlock, Contract!CloseWindow
    <3> QED BY <3>4 DEF Contract!Next
  <2>2. CASE ~(localEpoch[t] = e /\ depth[t] > 0 /\ e = epoch)
    <3>1. \A u \in Threads : W'[u] = W[u]
      BY <1>5, <2>2 DEF ExitBlock, GuardInv, TypeOK
    <3>2. W' = W
      BY <3>1
    <3> QED BY <1>5, <3>2 DEF ExitBlock
  <2> QED BY <2>1, <2>2
<1>6. ASSUME NEW t \in Threads, NEW p \in Phrases, RefusePhrase(t, p) \/ ReadEpoch(t, p)
      PROVE [Contract!Next]_(Contract!contractVars)
  BY <1>1, <1>6 DEF RefusePhrase, ReadEpoch
<1>7. ASSUME NEW t \in Threads, RequireEnabled(t)
      PROVE [Contract!Next]_(Contract!contractVars)
  BY <1>1, <1>7 DEF RequireEnabled
<1>8. ASSUME UNCHANGED vars PROVE [Contract!Next]_(Contract!contractVars)
  BY <1>1, <1>8 DEF vars
<1> QED BY <1>2, <1>3, <1>4, <1>5, <1>6, <1>7, <1>8 DEF Next, Contract!Next

\* The guard implements the abstract guard: however disable() overtakes entries
\* and exits, the code behaves as one switch and a count of live windows.
THEOREM GuardImplementsContract == Spec => ImplementsContract
<1>1. Init => Contract!Init
  BY EpochFacts DEF Init, Contract!Init
<1> QED BY <1>1, GuardInvariant, GuardStepSimulation, PTL
        DEF Spec, ImplementsContract, Contract!Spec

==============================================================================
