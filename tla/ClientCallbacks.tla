--------------------------- MODULE ClientCallbacks --------------------------
(***************************************************************************)
(* The commands of a client (SubscribeAsync, UnSubscribeAsync,             *)
(* PublishAsync of both backends), the callbacks that report them, and the *)
(* listener they are reported to, which the user may replace at any time   *)
(* (SetCallbacks, IMqttClient.cpp).                                        *)
(*                                                                         *)
(* The user's threads issue commands and replace the listener; the         *)
(* library's thread answers, one callback at a time.  A callback first     *)
(* reads the plain pointer cmdCb and then calls what it read.  The pointer *)
(* is not atomic; an aligned store is whole all the same, and the model    *)
(* assumes that the next read sees it.  Commands may also be issued inside *)
(* callbacks, on the library's thread.                                     *)
(*                                                                         *)
(* The libraries are external: they accept or refuse, give an accepted     *)
(* command a token (modelled as its number), answer it once.  Mosquitto    *)
(* writes the token before it sends, drops what was not answered when the  *)
(* connection is lost, and has no answer of its own; Paho may fail a       *)
(* command locally, and gives every QoS 0 publish the token 0.             *)
(***************************************************************************)
EXTENDS LibraryLogging, Sequences

CONSTANTS
  Commands,          (* the commands: positive numbers                       *)
  Listeners,         (* the IMqttCommandCallbacks objects of the user        *)
  Self,              (* the client, whose own callbacks do nothing           *)
  Unknown,           (* a token the user's variable does not hold yet        *)
  MaxReplacements    (* calls of SetCallbacks: bounds the model              *)

ASSUME CallbackAssumption ==
  /\ Commands \subseteq Nat \ {0}
  /\ Self \notin Listeners
  /\ Unknown \notin Nat
  /\ MaxReplacements \in Nat

VARIABLES
  cmdCb,         (* IMqttClient::cmdCb                                       *)
  wanted,        (* history: the listener the user last asked for            *)
  replacements,  (* how often SetCallbacks was called                        *)
  late,          (* history: reports each listener got since it was replaced *)
  kind, origin,  (* what each command is and which thread issued it          *)
  call, status,  (* where the user's call is, what it returned or will return*)
  token,         (* the variable the user passed for the token               *)
  request,       (* the library's view of the command                        *)
  outcome,       (* what became of it                                        *)
  libThread,     (* what the library's thread does                           *)
  serving,       (* the command it answers, or 0                             *)
  target,        (* the listener it has read from cmdCb                      *)
  reported       (* the reports the user got for each command                *)

registry == <<cmdCb, wanted, replacements>>
issued == <<kind, origin, call, status, token>>
thread == <<libThread, serving, target>>
answered == <<request, outcome, thread, reported, late>>
vars == <<logVars, registry, issued, answered>>

(* Subscriptions and unsubscriptions are handled alike, and so is QoS 0 by *)
(* Mosquitto.                                                              *)
Publishes == {"publish"} \cup IF backend = "paho" THEN {"publishQoS0"} ELSE {}
Kinds == {"subscription"} \cup Publishes
Outcomes == {"success", "refused", "localFailure"}
LibThread == {"idle", "hasRead", "inCallback"}
Reports == [token : Nat, rc : {"none", "SUCCESS", "failure"}]

Init ==
  /\ LogInit
  /\ cmdCb \in Listeners \cup {Self}
  /\ wanted = cmdCb
  /\ replacements = 0
  /\ late = [l \in Listeners \cup {Self} |-> 0]
  /\ kind = [c \in Commands |-> "none"]
  /\ origin = [c \in Commands |-> "none"]
  /\ call = [c \in Commands |-> "idle"]
  /\ status = [c \in Commands |-> "none"]
  /\ token = [c \in Commands |-> Unknown]
  /\ request = [c \in Commands |-> "none"]
  /\ outcome = [c \in Commands |-> "none"]
  /\ libThread = "idle"
  /\ serving = 0
  /\ target = Self
  /\ reported = [c \in Commands |-> <<>>]

LogStep ==
  /\ \/ \E s \in Settings : UserInitLog(s)
     \/ ConstructorInitLog
  /\ UNCHANGED <<registry, issued, answered>>
-----------------------------------------------------------------------------
(* SetCallbacks: a null pointer makes the client its own listener.         *)
(* Deviation: a null pointer is ignored.                                   *)
SetCallbacksOrKeep(l) ==
  /\ clients > 0
  /\ replacements < MaxReplacements
  /\ replacements' = replacements + 1
  /\ wanted' = l
  /\ cmdCb' = IF l = Self THEN cmdCb ELSE l
  /\ late' = [late EXCEPT ![l] = 0]
  /\ UNCHANGED <<logVars, issued, request, outcome, thread, reported>>

SetCallbacks(l) ==
  /\ clients > 0
  /\ replacements < MaxReplacements
  /\ replacements' = replacements + 1
  /\ wanted' = l
  /\ cmdCb' = l
  /\ late' = [late EXCEPT ![l] = 0]
  /\ UNCHANGED <<logVars, issued, request, outcome, thread, reported>>
-----------------------------------------------------------------------------
(* The token the library gives an accepted command.                        *)
LibraryToken(k, c) == IF k = "publishQoS0" THEN 0 ELSE c

(* The call up to and including the library's function.                    *)
IssueWith(c, k, o, accepted, written) ==
  /\ clients > 0
  /\ call[c] = "idle"
  /\ o = "callback" => libThread = "inCallback"
  /\ kind' = [kind EXCEPT ![c] = k]
  /\ origin' = [origin EXCEPT ![c] = o]
  /\ call' = [call EXCEPT ![c] = "calling"]
  /\ status' = [status EXCEPT ![c] = IF accepted THEN "OKAY" ELSE "ERROR"]
  /\ request' = [request EXCEPT ![c] = IF accepted THEN "pending" ELSE "none"]
  /\ token' = [token EXCEPT ![c] = written]
  /\ UNCHANGED <<logVars, registry, outcome, thread, reported, late>>

(* libmosquitto writes through the user's pointer itself.                  *)
Issue(c, k, o) ==
  \E accepted \in BOOLEAN :
    IssueWith(c, k, o, accepted,
              IF backend = "mosquitto" /\ accepted THEN LibraryToken(k, c) ELSE Unknown)

(* The rest of the call: Paho's functions pass the token on, those for     *)
(* subscriptions also that of a request that was refused, which is 0.      *)
(* Deviation: only the token of a subscription is passed on.               *)
ReturnSubscriptionToken(c) ==
  /\ call[c] = "calling"
  /\ call' = [call EXCEPT ![c] = "returned"]
  /\ token' = IF backend = "paho" /\ kind[c] \notin Publishes
              THEN [token EXCEPT ![c] = IF status[c] = "OKAY" THEN LibraryToken(kind[c], c) ELSE 0]
              ELSE token
  /\ UNCHANGED <<logVars, registry, kind, origin, status, answered>>

Return(c) ==
  /\ call[c] = "calling"
  /\ call' = [call EXCEPT ![c] = "returned"]
  /\ token' = IF backend = "paho" /\ (status[c] = "OKAY" \/ kind[c] \notin Publishes)
              THEN [token EXCEPT ![c] = IF status[c] = "OKAY" THEN LibraryToken(kind[c], c) ELSE 0]
              ELSE token
  /\ UNCHANGED <<logVars, registry, kind, origin, status, answered>>
-----------------------------------------------------------------------------
(* The callbacks of the clients.  Paho's onFailure5 of a subscription or   *)
(* unsubscription only logs; Mosquitto has one callback for either         *)
(* outcome.                                                                *)
(* Deviations: Paho's failures are reported like successes; only           *)
(* successes of a publish are reported.                                    *)
IsReportedAlways(k, out) == TRUE
IsReportedOnSuccess(k, out) == backend = "paho" => out = "success"

IsReported(k, out) == backend = "paho" /\ k \notin Publishes => out = "success"

(* The reason code that comes with the report: none for subscriptions.  If *)
(* Paho fails a publish locally, its reason code is not the broker's.      *)
(* Deviation: what is reported then is Paho's return code.                 *)
ReasonCodesRaw(k, out) ==
  CASE k \notin Publishes -> {"none"}
    [] out = "success" -> {"SUCCESS"}
    [] out = "refused" -> {"failure"}
    [] out = "localFailure" -> {"return code"}

ReasonCodes(k, out) ==
  CASE k \notin Publishes -> {"none"}
    [] out = "success" -> {"SUCCESS"}
    [] out = "refused" -> {"failure"}
    [] out = "localFailure" -> {"SUCCESS", "failure"}

(* The library answers a command; the callback reads cmdCb.                *)
Answer(c, out) ==
  /\ libThread = "idle"
  /\ request[c] = "pending"
  /\ backend = "mosquitto" => out # "localFailure"
  /\ request' = [request EXCEPT ![c] = "answered"]
  /\ outcome' = [outcome EXCEPT ![c] = out]
  /\ IF IsReported(kind[c], out)
     THEN libThread' = "hasRead" /\ serving' = c /\ target' = cmdCb
     ELSE UNCHANGED thread
  /\ UNCHANGED <<logVars, registry, issued, reported, late>>

(* The connection is lost before Mosquitto's broker has answered.          *)
Drop(c) ==
  /\ backend = "mosquitto"
  /\ request[c] = "pending"
  /\ request' = [request EXCEPT ![c] = "dropped"]
  /\ UNCHANGED <<logVars, registry, issued, outcome, thread, reported, late>>

(* OnSubscribe, OnUnSubscribe, OnPublish of the listener that was read.    *)
EnterListener ==
  /\ libThread = "hasRead"
  /\ libThread' = "inCallback"
  /\ serving' = 0
  /\ target' = Self
  /\ \E rc \in ReasonCodes(kind[serving], outcome[serving]) :
       reported' = [reported EXCEPT ![serving] = Append(@,
         [token |-> LibraryToken(kind[serving], serving), rc |-> rc])]
  /\ late' = IF target = wanted THEN late ELSE [late EXCEPT ![target] = @ + 1]
  /\ UNCHANGED <<logVars, registry, issued, request, outcome>>

(* Another callback, for a message or a change of the connection.          *)
OtherCallback ==
  /\ clients > 0
  /\ libThread = "idle"
  /\ libThread' = "inCallback"
  /\ UNCHANGED <<logVars, registry, issued, request, outcome, serving, target, reported, late>>

(* A callback returns when the commands issued in it have returned.        *)
LeaveCallback ==
  /\ libThread = "inCallback"
  /\ \A c \in Commands : origin[c] = "callback" => call[c] # "calling"
  /\ libThread' = "idle"
  /\ UNCHANGED <<logVars, registry, issued, request, outcome, serving, target, reported, late>>
-----------------------------------------------------------------------------
Library == EnterListener \/ LeaveCallback

Next ==
  \/ LogStep
  \/ \E l \in Listeners \cup {Self} : SetCallbacks(l)
  \/ \E c \in Commands :
       \/ \E k \in Kinds, o \in {"user", "callback"} : Issue(c, k, o)
       \/ Return(c)
       \/ \E out \in Outcomes : Answer(c, out)
       \/ Drop(c)
  \/ OtherCallback
  \/ Library

Spec == Init /\ [][Next]_vars

(* A call returns, a callback returns, and a pending command is answered   *)
(* or dropped: strongly fair, because other callbacks may keep the         *)
(* library's thread busy in between.                                       *)
Fairness ==
  /\ WF_vars(Library)
  /\ \A c \in Commands :
       /\ WF_vars(Return(c))
       /\ SF_vars(\E out \in Outcomes : Answer(c, out))

FairSpec == Spec /\ Fairness
-----------------------------------------------------------------------------
(* Every variable stays in its range.                                      *)
TypeOK ==
  /\ LogTypeOK
  /\ cmdCb \in Listeners \cup {Self}
  /\ wanted \in Listeners \cup {Self}
  /\ replacements \in 0 .. MaxReplacements
  /\ late \in [Listeners \cup {Self} -> Nat]
  /\ kind \in [Commands -> Kinds \cup {"none"}]
  /\ origin \in [Commands -> {"none", "user", "callback"}]
  /\ call \in [Commands -> {"idle", "calling", "returned"}]
  /\ status \in [Commands -> {"none", "OKAY", "ERROR"}]
  /\ token \in [Commands -> Nat \cup {Unknown}]
  /\ request \in [Commands -> {"none", "pending", "answered", "dropped"}]
  /\ outcome \in [Commands -> Outcomes \cup {"none"}]
  /\ libThread \in LibThread
  /\ libThread = "hasRead" <=> serving \in Commands
  /\ serving \in Commands \cup {0}
  /\ target \in Listeners \cup {Self}
  /\ reported \in [Commands -> Seq(Reports)]

IsToldTo(c) == reported[c] # <<>>

(* "can be used in order to correlate callbacks" (IMqttClient.h): the      *)
(* token of a report is the one the user's variable holds once the call    *)
(* has returned, and a report never belongs to a call that returned an     *)
(* error.  Mosquitto's reports, and all reports of commands issued inside  *)
(* a callback, do not even come before the user can know the token.        *)
TokenCorrelates ==
  \A c \in Commands : \A i \in DOMAIN reported[c] :
    /\ status[c] = "OKAY"
    /\ \/ call[c] = "returned"
       \/ backend = "mosquitto"
       \/ origin[c] = "callback"
       => token[c] = reported[c][i].token

(* A listener that was replaced (IMqttClient.cpp:160-186) may be called    *)
(* once more, by the callback that had read the pointer before, and then   *)
(* never again until it is registered again.                               *)
OneLateReport == \A l \in Listeners \cup {Self} : late[l] <= 1

(* What a report says of success can be relied on, except that Mosquitto   *)
(* does not tell refused subscriptions (the TODOs at MosquittoClient.cpp   *)
(* :309 and :319) and that Paho's code for a local failure may be SUCCESS. *)
SuccessIsSuccess ==
  \A c \in Commands : \A i \in DOMAIN reported[c] :
    \/ outcome[c] = "success"
    \/ reported[c][i].rc = "failure"
    \/ backend = "mosquitto" /\ kind[c] \notin Publishes
    \/ outcome[c] = "localFailure" /\ kind[c] \in Publishes

(* Every accepted command is reported, except the subscriptions Paho       *)
(* failed (the TODOs at PahoClient.cpp:354 and :380) and what a lost       *)
(* connection dropped.                                                     *)
AcceptedIsReported ==
  \A c \in Commands :
    status[c] = "OKAY" ~>
      \/ IsToldTo(c)
      \/ backend = "paho" /\ kind[c] \notin Publishes /\ outcome[c] \in {"refused", "localFailure"}
      \/ request[c] = "dropped"
=============================================================================
