---------------------------- MODULE MCPahoConnect ---------------------------
(* Instances of PahoConnect for TLC: two clients that connect twice each,  *)
(* the smallest number that shares, reuses and outlives the context.       *)
EXTENDS PahoConnect

CONSTANTS p, q

MCClients == {p, q}
=============================================================================
