-------------------------- MODULE MCMosquittoClient -------------------------
(* Instances of MosquittoClient for TLC: two clients, so that one can be   *)
(* constructed while the other constructs, fails, runs or is destroyed,    *)
(* and the library can be cleaned and initialised again.                   *)
EXTENDS MosquittoClient

CONSTANTS a, b

MCTwoClients == {a, b}
=============================================================================
