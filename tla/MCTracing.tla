------------------------------ MODULE MCTracing ------------------------------
(* Two threads use two clients that share one tracer. *)
EXTENDS Tracing, TLC

Symmetry == Permutations(Threads) \cup Permutations(Clients)
==============================================================================
