--------------------------- MODULE MCScpiErrorQueue ---------------------------
(* Two threads share one client. *)
EXTENDS ScpiErrorQueue, TLC

Symmetry == Permutations(Threads)

AllPolicies == {{}, {"write"}, {"query"}, {"write", "query"}}

WritePolicy == {{}, {"write"}}
==============================================================================
