-------------------------- MODULE PahoConnectProofs -------------------------
(***************************************************************************)
(* What the shared context still guarantees, for any number of clients and *)
(* calls: while calls do not overlap and no failure is repeated late, the  *)
(* promise outlives the request and a call returns its own answer; and     *)
(* nobody waits for an answer that cannot come.                            *)
(***************************************************************************)
EXTENDS PahoConnect, TLAPS

(* The context points to the promise of the call that is under way, so at  *)
(* most one is, and only that call's request can be unanswered.            *)
ContextInv ==
  \A i \in Clients : /\ InCall(i) => ctxPromise = i
                     /\ request[i] = "pending" => call[i] = "waiting"

(* A promise is empty until the call's own request is answered, and then   *)
(* holds that answer.                                                      *)
PromiseInv ==
  \A i \in Clients :
    /\ call[i] = "calling" \/ request[i] = "pending" => promise[i] = NoAnswer
    /\ call[i] = "waiting" /\ promise[i] # NoAnswer => promise[i] = <<i, request[i]>>

ResultInv ==
  \A i \in alive : ~InCall(i) /\ calls[i] > 0 => result[i] = <<i, request[i]>>

(* Nothing has happened that the shared context cannot bear.               *)
Calm == hardship \subseteq {"refused"}

(* Even if failures are repeated late, the context leads to the call under *)
(* way, and that call has its answer or an accepted request.               *)
Apart == "overlap" \notin hardship

AwaitInv ==
  \A i \in Clients :
    /\ InCall(i) => ctxPromise = i
    /\ call[i] = "waiting" =>
         promise[i] # NoAnswer \/ request[i] = "pending" \/ "refused" \in hardship

IInv == TypeOK /\ (Calm => ContextInv /\ PromiseInv /\ ResultInv) /\ (Apart => AwaitInv)
-----------------------------------------------------------------------------
(* IInv is inductive: it holds before the first client is constructed ...  *)
THEOREM InitIInv == Init => IInv
  BY PahoAssumption
  DEF Init, IInv, TypeOK, ContextInv, PromiseInv, ResultInv, AwaitInv, InCall, NoAnswer

(* Types: every step keeps each variable in its range; what Fulfil writes  *)
(* is an answer of a client.                                               *)
LEMMA TypeStep == ASSUME TypeOK, Next PROVE TypeOK'
<1> USE PahoAssumption DEF TypeOK
<1> PICK i \in Clients :
      \/ Create(i) \/ Destroy(i) \/ ConnectBegin(i)
      \/ ConnectStep(i) \/ Library(i) \/ RepeatFailure(i)
  BY DEF Next
<1>1. CASE Create(i)
  BY <1>1 DEF Create
<1>2. CASE Destroy(i)
  BY <1>2 DEF Destroy
<1>3. CASE ConnectBegin(i)
  BY <1>3 DEF ConnectBegin, ConnectWith, FirstThis
<1>4. CASE ConnectRequested(i)
  BY <1>4 DEF ConnectRequested
<1>5. CASE ConnectRefused(i)
  BY <1>5 DEF ConnectRefused
<1>6. CASE ConnectReturn(i)
  BY <1>6 DEF ConnectReturn
<1>7. ASSUME NEW r \in Outcomes, Fulfil(i, r)
      PROVE  promise' \in [Clients -> Answers \cup {NoAnswer}]
  <2>1. <<i, r>> \in Answers
    BY DEF Answers
  <2> QED
    BY <1>7, <2>1 DEF Fulfil
<1>8. ASSUME NEW r \in Outcomes, Answer(i, r) PROVE TypeOK'
  BY <1>7, <1>8 DEF Answer, Outcomes
<1>9. CASE RepeatFailure(i)
  <2>1. promise' \in [Clients -> Answers \cup {NoAnswer}]
    BY <1>7, <1>9 DEF RepeatFailure, Outcomes
  <2>2. repeats' \in [Clients -> 0..MaxRepeats]
    BY <1>9 DEF RepeatFailure
  <2>3. hardship' \subseteq {"overlap", "refused", "lateRepeat"}
    BY <1>9 DEF RepeatFailure
  <2> QED
    BY <1>9, <2>1, <2>2, <2>3 DEF RepeatFailure
<1> QED
  BY <1>1, <1>2, <1>3, <1>4, <1>5, <1>6, <1>8, <1>9 DEF ConnectStep, Library

(* Hardship is never forgotten.                                            *)
LEMMA CalmBefore == ASSUME Next, Calm' PROVE Calm
  BY DEF Calm, Next, Create, Destroy, ConnectBegin, ConnectWith, ConnectStep, ConnectRequested,
     ConnectRefused, ConnectReturn, Library, Answer, RepeatFailure

(* A repetition that stays calm comes while its own call is waiting, so    *)
(* the promise it may reach is that call's.                                *)
LEMMA CalmRepeat ==
  ASSUME TypeOK, ContextInv, NEW i \in Clients, RepeatFailure(i), Calm'
  PROVE  call[i] = "waiting" /\ ctxPromise = i
  BY DEF TypeOK, ContextInv, InCall, RepeatFailure, Calm

(* A call that begins calmly begins while no other is under way.           *)
LEMMA CalmBegin ==
  ASSUME NEW i \in Clients, ConnectBegin(i), Calm'
  PROVE  \A j \in Clients : ~InCall(j)
  BY DEF ConnectBegin, ConnectWith, Calm

(* While it is calm, one step keeps the context, the promises and the      *)
(* results right.                                                          *)
LEMMA CalmStep ==
  ASSUME TypeOK, ContextInv, PromiseInv, ResultInv, Next, Calm'
  PROVE  ContextInv' /\ PromiseInv' /\ ResultInv'
<1> USE PahoAssumption DEF TypeOK, ContextInv, PromiseInv, ResultInv, InCall
<1> PICK i \in Clients :
      \/ Create(i) \/ Destroy(i) \/ ConnectBegin(i)
      \/ ConnectStep(i) \/ Library(i) \/ RepeatFailure(i)
  BY DEF Next
<1>1. CASE Create(i)
  BY <1>1 DEF Create
<1>2. CASE Destroy(i)
  BY <1>2 DEF Destroy
<1>3. CASE ConnectBegin(i)
  BY <1>3, CalmBegin DEF ConnectBegin, ConnectWith
<1>4. CASE ConnectRequested(i)
  BY <1>4 DEF ConnectRequested
<1>5. CASE ConnectRefused(i)
  BY <1>5 DEF ConnectRefused
<1>6. CASE ConnectReturn(i)
  BY <1>6 DEF ConnectReturn
<1>7. ASSUME NEW r \in Outcomes, Answer(i, r)
      PROVE  ContextInv' /\ PromiseInv' /\ ResultInv'
  <2>1. call[i] = "waiting" /\ ctxPromise = i /\ promise' = [promise EXCEPT ![i] = <<i, r>>]
    BY <1>7 DEF Answer, Fulfil
  <2> QED
    BY <1>7, <2>1 DEF Answer, Outcomes, NoAnswer
<1>8. CASE RepeatFailure(i)
  <2>1. /\ call[i] = "waiting" /\ request[i] = "failed"
        /\ promise' = promise \/ promise' = [promise EXCEPT ![i] = <<i, "failed">>]
    BY <1>8, CalmRepeat DEF RepeatFailure, Fulfil
  <2> QED
    BY <1>8, <2>1 DEF RepeatFailure, NoAnswer
<1> QED
  BY <1>1, <1>2, <1>3, <1>4, <1>5, <1>6, <1>7, <1>8 DEF ConnectStep, Library

(* Until calls overlap, one step keeps whom the answers go to and what the *)
(* waiting call is owed.                                                   *)
LEMMA ApartStep == ASSUME TypeOK, Apart => AwaitInv, Next, Apart' PROVE AwaitInv'
<1> USE PahoAssumption DEF TypeOK, Apart, AwaitInv, InCall
<1> PICK i \in Clients :
      \/ Create(i) \/ Destroy(i) \/ ConnectBegin(i)
      \/ ConnectStep(i) \/ Library(i) \/ RepeatFailure(i)
  BY DEF Next
<1>1. CASE Create(i)
  BY <1>1 DEF Create
<1>2. CASE Destroy(i)
  BY <1>2 DEF Destroy
<1>3. CASE ConnectBegin(i)
  <2>1. \A j \in Clients : ~InCall(j)
    BY <1>3 DEF ConnectBegin, ConnectWith
  <2> QED
    BY <1>3, <2>1 DEF ConnectBegin, ConnectWith
<1>4. CASE ConnectRequested(i)
  BY <1>4 DEF ConnectRequested
<1>5. CASE ConnectRefused(i)
  BY <1>5 DEF ConnectRefused
<1>6. CASE ConnectReturn(i)
  BY <1>6 DEF ConnectReturn
<1>7. ASSUME NEW r, Fulfil(i, r), NEW j \in Clients, promise'[j] = NoAnswer
      PROVE  promise[j] = NoAnswer
  BY <1>7 DEF Fulfil, NoAnswer
<1>8. ASSUME NEW r \in Outcomes, Answer(i, r) PROVE AwaitInv'
  <2>1. call[i] = "waiting" => promise'[i] # NoAnswer
    BY <1>8 DEF Answer, Fulfil, NoAnswer
  <2> QED
    BY <1>7, <1>8, <2>1 DEF Answer
<1>9. CASE RepeatFailure(i)
  BY <1>7, <1>9 DEF RepeatFailure
<1> QED
  BY <1>1, <1>2, <1>3, <1>4, <1>5, <1>6, <1>8, <1>9 DEF ConnectStep, Library

(* ... and every step keeps it.                                            *)
THEOREM NextIInv == IInv /\ [Next]_vars => IInv'
<1> SUFFICES ASSUME IInv, [Next]_vars PROVE IInv'
  OBVIOUS
<1>1. CASE Next
  BY <1>1, TypeStep, CalmBefore, CalmStep, ApartStep DEF IInv
<1>2. CASE UNCHANGED vars
  BY <1>2 DEF vars, IInv, TypeOK, Calm, ContextInv, PromiseInv, ResultInv, Apart, AwaitInv, InCall
<1> QED
  BY <1>1, <1>2

(* The invariant holds in every behaviour of the clients.                  *)
THEOREM Invariance == Spec => []IInv
  BY InitIInv, NextIInv, PTL DEF Spec
-----------------------------------------------------------------------------
(* Types, for any number of clients and calls.                             *)
THEOREM TypeCorrect == Spec => []TypeOK
<1>1. IInv => TypeOK
  BY DEF IInv
<1> QED
  BY <1>1, Invariance, PTL

(* PahoClient.cpp:257-260: without overlap and late repetition, the        *)
(* library never holds the address of a promise that is gone.              *)
THEOREM PromiseSafe == Spec => []PromiseOutlivesRequest
<1>1. IInv => PromiseOutlivesRequest
  BY DEF IInv, Calm, ContextInv, PromiseOutlivesRequest, InCall
<1> QED
  BY <1>1, Invariance, PTL

(* PahoClient.cpp:318-323: under the same conditions ConnectAsync returns  *)
(* what became of its own request, however often the client reconnects.    *)
THEOREM AnswerIsOwn == Spec => []OwnAnswer
<1>1. IInv => OwnAnswer
  BY DEF IInv, Calm, ResultInv, OwnAnswer
<1> QED
  BY <1>1, Invariance, PTL

(* PahoClient.cpp:318: unless calls overlap or Paho refuses a request,     *)
(* however often failures are repeated late, whoever waits for an answer   *)
(* has an accepted request that will be answered.                          *)
THEOREM WaitsForAnAnswer == Spec => []NobodyWaitsInVain
<1>1. IInv => NobodyWaitsInVain
  BY DEF IInv, Apart, AwaitInv, NobodyWaitsInVain
<1> QED
  BY <1>1, Invariance, PTL
=============================================================================
