---------------------------- MODULE GuardContract ----------------------------
(***************************************************************************)
(* What a confirmation guard promises, with no epochs and no race: one      *)
(* global switch, and for every thread the number of windows it has open.   *)
(* Locking the guard closes every window of every thread at once, and only  *)
(* the thread that owns a window opens or closes it otherwise.              *)
(***************************************************************************)
EXTENDS Naturals

CONSTANT Threads

VARIABLES unlocked, windows

contractVars == <<unlocked, windows>>

Init == unlocked = FALSE /\ windows = [t \in Threads |-> 0]

Unlock == unlocked' = TRUE /\ UNCHANGED windows

Lock == unlocked' = FALSE /\ windows' = [t \in Threads |-> 0]

OpenWindow(t) ==
  /\ windows' = [windows EXCEPT ![t] = @ + 1]
  /\ UNCHANGED unlocked

CloseWindow(t) ==
  /\ windows[t] > 0
  /\ windows' = [windows EXCEPT ![t] = @ - 1]
  /\ UNCHANGED unlocked

Next == Unlock \/ Lock \/ \E t \in Threads : OpenWindow(t) \/ CloseWindow(t)

Spec == Init /\ [][Next]_contractVars
==============================================================================
