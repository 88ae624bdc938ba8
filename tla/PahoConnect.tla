----------------------------- MODULE PahoConnect ----------------------------
(***************************************************************************)
(* PahoClient::ConnectAsync (src/MqttClient/Paho/PahoClient.cpp): the      *)
(* caller leaves the address of a promise on its stack in a context that   *)
(* is static, so shared by all clients and all calls, hands the context to *)
(* Paho, and waits for a callback of the library's thread to fulfil the    *)
(* promise.                                                                *)
(*                                                                         *)
(* Paho is external: it accepts or refuses a connect request, answers an   *)
(* accepted one by one of the two callbacks, and may repeat a failure      *)
(* ("This callback sometimes ... is called multiple times", line 271).     *)
(***************************************************************************)
EXTENDS Naturals

CONSTANTS
  Clients,     (* the PahoClient objects                                     *)
  Nobody,      (* no client, no promise                                      *)
  MaxCalls,    (* ConnectAsync calls per client                              *)
  MaxRepeats   (* repetitions of a failure per client                        *)

ASSUME PahoAssumption ==
  /\ Nobody \notin Clients
  /\ MaxCalls \in Nat \ {0}
  /\ MaxRepeats \in Nat

VARIABLES
  alive,       (* the clients that exist                                     *)
  ctxThis,     (* ctx.pThis: the client of the first call ever               *)
  ctxPromise,  (* ctx.pContext: the promise of this client's call            *)
  call,        (* where each client's ConnectAsync is                        *)
  calls,       (* how often it was called                                    *)
  promise,     (* the answer its promise holds: from whose request, and what *)
  result,      (* what the last ConnectAsync of the client returned          *)
  request,     (* the library's view of the client's connect request         *)
  repeats,     (* how often the library repeated a failure                   *)
  hardship     (* history: what the code does not reckon with has happened   *)

vars == <<alive, ctxThis, ctxPromise, call, calls, promise, result, request, repeats, hardship>>

Outcomes == {"connected", "failed"}
Answers == Clients \X Outcomes
NoAnswer == <<Nobody, "none">>

(* The promise is on the stack of the call: it exists during the call.     *)
InCall(i) == call[i] # "idle"

Init ==
  /\ alive = {}
  /\ ctxThis = Nobody
  /\ ctxPromise = Nobody
  /\ call = [i \in Clients |-> "idle"]
  /\ calls = [i \in Clients |-> 0]
  /\ promise = [i \in Clients |-> NoAnswer]
  /\ result = [i \in Clients |-> NoAnswer]
  /\ request = [i \in Clients |-> "none"]
  /\ repeats = [i \in Clients |-> 0]
  /\ hardship = {}
-----------------------------------------------------------------------------
(* Constructor and destructor, as far as connecting goes.  Paho forgets    *)
(* the requests of a destroyed client.                                     *)
Create(i) ==
  /\ i \notin alive
  /\ calls[i] = 0
  /\ alive' = alive \cup {i}
  /\ UNCHANGED <<ctxThis, ctxPromise, call, calls, promise, result, request, repeats, hardship>>

Destroy(i) ==
  /\ i \in alive
  /\ ~InCall(i)
  /\ calls[i] > 0
  /\ alive' = alive \ {i}
  /\ request' = [request EXCEPT ![i] = "none"]
  /\ UNCHANGED <<ctxThis, ctxPromise, call, calls, promise, result, repeats, hardship>>

(* The static context is constructed by the first call only; the address   *)
(* of the promise is overwritten by every call (lines 257-260).            *)
ConnectWith(i, this, to, value) ==
  /\ i \in alive
  /\ ~InCall(i)
  /\ calls[i] < MaxCalls
  /\ ctxThis' = this
  /\ ctxPromise' = to
  /\ promise' = [promise EXCEPT ![i] = value]
  /\ call' = [call EXCEPT ![i] = "calling"]
  /\ calls' = [calls EXCEPT ![i] = @ + 1]
  /\ hardship' = hardship \cup IF \E j \in Clients : InCall(j) THEN {"overlap"} ELSE {}
  /\ UNCHANGED <<alive, result, request, repeats>>

FirstThis(i) == IF ctxThis = Nobody THEN i ELSE ctxThis

(* Deviations: the promise outlives the call like the context; the context *)
(* does not get the client; it gets the first promise ever, for good.      *)
ConnectStalePromise(i) == ConnectWith(i, FirstThis(i), i, promise[i])
ConnectNoThis(i) == ConnectWith(i, ctxThis, i, NoAnswer)
ConnectFirstPromise(i) ==
  ConnectWith(i, FirstThis(i), IF ctxPromise = Nobody THEN i ELSE ctxPromise, NoAnswer)

ConnectBegin(i) == ConnectWith(i, FirstThis(i), i, NoAnswer)

(* MQTTAsync_connect.  A refusal is logged; the caller waits all the same. *)
ConnectRequested(i) ==
  /\ call[i] = "calling"
  /\ call' = [call EXCEPT ![i] = "waiting"]
  /\ request' = [request EXCEPT ![i] = "pending"]
  /\ UNCHANGED <<alive, ctxThis, ctxPromise, calls, promise, result, repeats, hardship>>

ConnectRefused(i) ==
  /\ call[i] = "calling"
  /\ call' = [call EXCEPT ![i] = "waiting"]
  /\ hardship' = hardship \cup {"refused"}
  /\ UNCHANGED <<alive, ctxThis, ctxPromise, calls, promise, result, request, repeats>>

(* onSuccess5, onFailure5: whatever promise the context points to now gets *)
(* the value; a second value is an exception that is caught.  A promise    *)
(* whose call has returned no longer exists: the model stops following     *)
(* what such a write does.                                                 *)
Fulfil(i, r) ==
  promise' = IF InCall(ctxPromise) /\ promise[ctxPromise] = NoAnswer
             THEN [promise EXCEPT ![ctxPromise] = <<i, r>>]
             ELSE promise

(* Deviation: the failure callback does not fulfil the promise.            *)
AnswerSuccessOnly(i, r) ==
  /\ request[i] = "pending"
  /\ request' = [request EXCEPT ![i] = r]
  /\ r = "connected" => Fulfil(i, r)
  /\ r = "failed" => UNCHANGED promise
  /\ UNCHANGED <<alive, ctxThis, ctxPromise, call, calls, result, repeats, hardship>>

Answer(i, r) ==
  /\ request[i] = "pending"
  /\ request' = [request EXCEPT ![i] = r]
  /\ Fulfil(i, r)
  /\ UNCHANGED <<alive, ctxThis, ctxPromise, call, calls, result, repeats, hardship>>

(* The repetition is late if the call that made the request has returned   *)
(* (another of the same client may be under way).                          *)
RepeatFailure(i) ==
  /\ request[i] = "failed"
  /\ repeats[i] < MaxRepeats
  /\ repeats' = [repeats EXCEPT ![i] = @ + 1]
  /\ Fulfil(i, "failed")
  /\ hardship' = IF call[i] = "waiting" /\ "refused" \notin hardship THEN hardship
                 ELSE hardship \cup {"lateRepeat"}
  /\ UNCHANGED <<alive, ctxThis, ctxPromise, call, calls, result, request>>

(* Deviation: the caller does not wait.                                    *)
ConnectWithoutWait(i) ==
  /\ call[i] = "waiting"
  /\ result' = [result EXCEPT ![i] = promise[i]]
  /\ call' = [call EXCEPT ![i] = "idle"]
  /\ UNCHANGED <<alive, ctxThis, ctxPromise, calls, promise, request, repeats, hardship>>

(* get_future().get(), then the promise goes with the stack frame.         *)
ConnectReturn(i) ==
  /\ call[i] = "waiting"
  /\ promise[i] # NoAnswer
  /\ result' = [result EXCEPT ![i] = promise[i]]
  /\ call' = [call EXCEPT ![i] = "idle"]
  /\ UNCHANGED <<alive, ctxThis, ctxPromise, calls, promise, request, repeats, hardship>>
-----------------------------------------------------------------------------
ConnectStep(i) == ConnectRequested(i) \/ ConnectRefused(i) \/ ConnectReturn(i)

Library(i) == \E r \in Outcomes : Answer(i, r)

Next ==
  \E i \in Clients :
    \/ Create(i) \/ Destroy(i) \/ ConnectBegin(i)
    \/ ConnectStep(i) \/ Library(i) \/ RepeatFailure(i)

Spec == Init /\ [][Next]_vars

(* A call goes on when it can, and Paho answers what it accepted.          *)
Fairness == \A i \in Clients : WF_vars(ConnectStep(i)) /\ WF_vars(Library(i))

FairSpec == Spec /\ Fairness
-----------------------------------------------------------------------------
(* Every variable stays in its range, and the static context has a client  *)
(* exactly when it has a promise.                                          *)
TypeOK ==
  /\ alive \subseteq Clients
  /\ ctxThis \in Clients \cup {Nobody}
  /\ ctxPromise \in Clients \cup {Nobody}
  /\ call \in [Clients -> {"idle", "calling", "waiting"}]
  /\ calls \in [Clients -> 0..MaxCalls]
  /\ promise \in [Clients -> Answers \cup {NoAnswer}]
  /\ result \in [Clients -> Answers \cup {NoAnswer}]
  /\ request \in [Clients -> {"none", "pending", "connected", "failed"}]
  /\ repeats \in [Clients -> 0..MaxRepeats]
  /\ ctxThis = Nobody <=> ctxPromise = Nobody
  /\ hardship \subseteq {"overlap", "refused", "lateRepeat"}

(* While calls of different clients do not overlap and no failure is       *)
(* repeated after its call has returned, the shared context does no harm:  *)
(* the library never holds the address of a promise that is gone ...       *)
PromiseOutlivesRequest ==
  hardship \subseteq {"refused"} =>
    \A i \in Clients : request[i] = "pending" => ctxPromise = i /\ InCall(i)

(* ... and a call returns what became of its own request, not of an        *)
(* earlier one or another client's.                                        *)
OwnAnswer ==
  hardship \subseteq {"refused"} =>
    \A i \in alive : ~InCall(i) /\ calls[i] > 0 => result[i] = <<i, request[i]>>

(* Who waits for an answer has one to come, also when a late repetition of *)
(* a failure has spoilt an earlier promise: without it the library has the *)
(* request and the context still leads to this call.  The exceptions are   *)
(* calls that overlap and a request that Paho refuses (lines 259, 313).    *)
NobodyWaitsInVain ==
  \A i \in Clients :
    call[i] = "waiting" /\ promise[i] = NoAnswer /\ request[i] # "pending" =>
      {"overlap", "refused"} \cap hardship # {}

(* A caller whose request Paho has accepted, or whose promise was          *)
(* fulfilled, comes back unless calls overlap, whatever else is refused or *)
(* repeated late.                                                          *)
ConnectReturns ==
  \A i \in Clients :
    (call[i] = "waiting" /\ (request[i] = "pending" \/ promise[i] # NoAnswer))
      ~> (call[i] = "idle" \/ "overlap" \in hardship)

(* Line 318: "use rc from the callbacks, wait forever because it is        *)
(* assumed one of the callbacks is always called": a caller whose request  *)
(* was accepted and answered comes back.                                   *)
AnsweredCallReturns ==
  \A i \in Clients :
    (call[i] = "waiting" /\ request[i] \in Outcomes /\ "refused" \notin hardship)
      ~> (call[i] = "idle")
=============================================================================
