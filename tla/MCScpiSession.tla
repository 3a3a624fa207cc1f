---------------------------- MODULE MCScpiSession ----------------------------
(* Two threads share one session. *)
EXTENDS ScpiSession, TLC

Symmetry == Permutations(Threads)
==============================================================================
