------------------------- MODULE MCConfirmationGuard -------------------------
(* The confirmation guard for TLC: threads are interchangeable. *)
EXTENDS ConfirmationGuard, TLC

Symmetry == Permutations(Threads)
==============================================================================
