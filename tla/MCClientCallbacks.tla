-------------------------- MODULE MCClientCallbacks -------------------------
(* An instance of ClientCallbacks for TLC: two commands, so that one is    *)
(* issued or answered while the other is reported, one listener besides    *)
(* the client itself, and settings of the library's logs on all sides of   *)
(* the mappings.                                                           *)
EXTENDS ClientCallbacks

CONSTANT l

MCListeners == {l}
MCSettings ==
  {[callback |-> TRUE, level |-> v] : v \in {DEBUG, INFO, FATAL, NONE}}
    \cup {[callback |-> FALSE, level |-> DEBUG]}

(* The logs and the commands share no state but the number of clients, so  *)
(* commands are followed only in a process whose logs were left alone and  *)
(* that has one client.                                                    *)
LogsApart ==
  (\E c \in Commands : call[c] # "idle") => asked = NotSet /\ clients = 1
=============================================================================
