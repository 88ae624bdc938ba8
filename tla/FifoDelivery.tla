---------------------------- MODULE FifoDelivery ----------------------------
(***************************************************************************)
(* What an IDispatchQueue promises its users (IDispatchQueue.h): messages  *)
(* handed to OnMqttMessage by the threads of the MQTT library come out, in *)
(* the same order and one at a time, at the user's own OnMqttMessage, and  *)
(* a shutdown reports how many it had to give up.  No thread, mutex or     *)
(* condition variable appears here.                                        *)
(***************************************************************************)
EXTENDS Sequences, Naturals

CONSTANTS Callers,   (* the library threads that hand messages over *)
          Messages,  (* the messages                                 *)
          NoMessage  (* not a message: nothing to append             *)

VARIABLES
  phase,      (* "open", then "closing", then "reported"                  *)
  call,       (* call[c]: the message c is about to append, or NoMessage  *)
  pending,    (* the messages accepted and not handed over yet            *)
  handing,    (* the message the user's callback is running for: a        *)
              (* sequence of length at most one                           *)
  delivered,  (* the messages whose callback has returned, in order       *)
  lost        (* the number of messages the shutdown reported             *)

vars == <<phase, call, pending, handing, delivered, lost>>

Init ==
  /\ phase = "open"
  /\ call = [c \in Callers |-> NoMessage]
  /\ pending = <<>>
  /\ handing = <<>>
  /\ delivered = <<>>
  /\ lost = 0

(* A call that begins before the shutdown is bound to append its message;  *)
(* a later one is ignored and leaves no trace.                             *)
Begin(c, m) ==
  /\ phase = "open"
  /\ call[c] = NoMessage
  /\ call' = [call EXCEPT ![c] = m]
  /\ UNCHANGED <<phase, pending, handing, delivered, lost>>

Append1(c) ==
  /\ call[c] # NoMessage
  /\ pending' = Append(pending, call[c])
  /\ call' = [call EXCEPT ![c] = NoMessage]
  /\ UNCHANGED <<phase, handing, delivered, lost>>

(* Nothing is handed over once the shutdown has begun.                     *)
HandOver ==
  /\ phase = "open"
  /\ handing = <<>>
  /\ pending # <<>>
  /\ handing' = <<Head(pending)>>
  /\ pending' = Tail(pending)
  /\ UNCHANGED <<phase, call, delivered, lost>>

Return ==
  /\ handing # <<>>
  /\ delivered' = delivered \o handing
  /\ handing' = <<>>
  /\ UNCHANGED <<phase, call, pending, lost>>

Close ==
  /\ phase = "open"
  /\ phase' = "closing"
  /\ UNCHANGED <<call, pending, handing, delivered, lost>>

(* The shutdown waits for the running callback before it counts.           *)
Report ==
  /\ phase = "closing"
  /\ handing = <<>>
  /\ phase' = "reported"
  /\ lost' = Len(pending)
  /\ UNCHANGED <<call, pending, handing, delivered>>

Next ==
  \/ \E c \in Callers : Append1(c) \/ \E m \in Messages : Begin(c, m)
  \/ HandOver \/ Return \/ Close \/ Report

Safety == Init /\ [][Next]_vars

Waiting(m) == \E i \in DOMAIN pending : pending[i] = m
Delivered(m) == \E i \in DOMAIN delivered : delivered[i] = m

(* As long as nobody shuts the queue down, what waits comes out.           *)
HandsOver ==
  \A m \in Messages : Waiting(m) ~> (Delivered(m) \/ phase # "open")

Spec == Safety /\ HandsOver
=============================================================================
