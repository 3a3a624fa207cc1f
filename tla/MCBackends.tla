----------------------------- MODULE MCBackends ------------------------------
(* The UDP, serial and VISA transports for TLC. *)
EXTENDS TransportBackends
==============================================================================
