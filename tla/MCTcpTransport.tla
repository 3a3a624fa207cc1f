---------------------------- MODULE MCTcpTransport ---------------------------
(* The TCP transport for TLC. *)
EXTENDS TcpTransport
==============================================================================
