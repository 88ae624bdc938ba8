------------------------------ MODULE SampleApp -----------------------------
(***************************************************************************)
(* The sample application (src/Sample/Main.cpp): the main thread in        *)
(* Sample::Run and ~Sample, the library's thread that calls Sample and the *)
(* dispatch queue back, the queue's worker, and the handler of SIGINT,     *)
(* which runs on whichever thread the signal interrupts and keeps that     *)
(* thread from going on.  All of them take Sample's mutexes: exitRunMutex  *)
(* in Run and in the handler, coutMutex in every Log.                      *)
(*                                                                         *)
(* The queue is the abstract one (FifoDelivery), which DispatchQueue       *)
(* implements; added is what its threads do with its mutex and condition   *)
(* variable, and where they Log.  ConnectAsync blocks with Paho until the  *)
(* request is answered, and returns at once with Mosquitto.  The libraries *)
(* are external: they connect again after a loss, not after a disconnect   *)
(* was asked for.                                                          *)
(*                                                                         *)
(* Consecutive Logs of one thread are one, and so are those of LogLib,     *)
(* which takes coutMutex like Log does, with the Log next to them; who     *)
(* waits for coutMutex is followed, what is written is not.                *)
(***************************************************************************)
EXTENDS Naturals, Sequences, FiniteSets

CONSTANTS
  MaxMessages,   (* messages that arrive                                     *)
  MaxSignals     (* SIGINTs                                                  *)

ASSUME SampleAssumption == MaxMessages \in Nat /\ MaxSignals \in Nat

Threads == {"main", "lib", "worker"}
Nobody == "nobody"
NoMessage == 0
Messages == 1 .. MaxMessages

VARIABLES
  backend,     (* the library this build wraps                               *)
  main,        (* what the main thread does                                  *)
  lib,         (* what the library's thread does                             *)
  worker,      (* what the queue's worker does                               *)
  handler,     (* how far InterruptHandler is on each thread                 *)
  signals,     (* SIGINTs so far                                             *)
  exitRun,     (* Sample::exitRun                                            *)
  exitOwner,   (* who holds exitRunMutex                                     *)
  coutOwner,   (* who holds coutMutex                                        *)
  link,        (* the connection                                             *)
  requested,   (* a disconnect was asked for                                 *)
  arrived,     (* messages that have arrived                                 *)
  phase, call, pending, handing, delivered, lost   (* the queue              *)

queue == <<phase, call, pending, handing, delivered, lost>>
threads == <<main, lib, worker>>
interrupts == <<handler, signals, exitRun>>
net == <<link, requested, arrived>>
vars == <<backend, threads, interrupts, exitOwner, coutOwner, net, queue>>

Dispatcher == INSTANCE FifoDelivery WITH Callers <- {"lib"}

InRun == {"GetLibVersion", "connecting", "connectReturned", "predicate", "goingToSleep",
          "unsubscribe", "disconnect", "disconnectReturned"}
InDestructor == {"~dispatcher", "notify_all", "join", "~client", "loop_stop", "done"}
Main == {"Run", "asleep", "woken"} \cup InRun \cup InDestructor
InQueue == {"OnMqttMessage", "pushing", "notify_one"}
Lib == {"idle", "connectAnswer", "connected", "callback", "astray", "ended"} \cup InQueue
HoldsQueue == {"number", "testing", "goingToSleep", "exiting"}
Worker == {"asleep", "woken", "OnMqttMessage", "gone"} \cup HoldsQueue
Handler == {"none", "lock", "set", "notify"}
Link == {"new", "trying", "up", "subscribed"}

(* Sample and its queue exist, the client has not been asked to connect.   *)
Init ==
  /\ backend \in {"mosquitto", "paho"}
  /\ main = "Run"
  /\ lib = "idle"
  /\ worker = "number"
  /\ handler = [t \in Threads |-> "none"]
  /\ signals = 0
  /\ exitRun = FALSE
  /\ exitOwner = Nobody
  /\ coutOwner = Nobody
  /\ link = "new"
  /\ requested = FALSE
  /\ arrived = 0
  /\ Dispatcher!Init
-----------------------------------------------------------------------------
Runs(t) == handler[t] = "none"

(* Where each thread is about to Log, and then goes on.                    *)
LogsAt ==
  [main |-> {"GetLibVersion", "connectReturned", "unsubscribe", "disconnect",
             "disconnectReturned", "join", "~client"},
   lib |-> {"connectAnswer", "connected", "callback"},
   worker |-> {"number", "OnMqttMessage", "exiting"}]
At == [main |-> main, lib |-> lib, worker |-> worker]

(* The count of lost messages is logged when the worker has gone.          *)
WantsLog(t) ==
  /\ At[t] \in LogsAt[t]
  /\ At[t] = "join" => worker = "gone" /\ pending # <<>>

(* Log: lock_guard on coutMutex; the step that follows gives it back.      *)
TakeCout(t) ==
  /\ Runs(t)
  /\ WantsLog(t)
  /\ coutOwner = Nobody
  /\ coutOwner' = t
  /\ UNCHANGED <<backend, threads, interrupts, exitOwner, net, queue>>

EndLog(t) == coutOwner = t /\ coutOwner' = Nobody

MainGoes(from, to) ==
  /\ Runs("main")
  /\ main = from
  /\ main' = to
  /\ UNCHANGED <<backend, lib, worker, interrupts, arrived>>

LibGoes(from, to) ==
  /\ Runs("lib")
  /\ lib = from
  /\ lib' = to
  /\ UNCHANGED <<backend, worker, interrupts, exitOwner>>

WorkerGoes(from, to) ==
  /\ Runs("worker")
  /\ worker = from
  /\ worker' = to
  /\ UNCHANGED <<backend, main, lib, interrupts, exitOwner, net>>
-----------------------------------------------------------------------------
(* Sample::Run.                                                            *)
LockExitRun ==
  /\ exitOwner = Nobody
  /\ exitOwner' = "main"
  /\ MainGoes("Run", "GetLibVersion")
  /\ UNCHANGED <<coutOwner, link, requested, queue>>

(* A request that Mosquitto refuses leaves the client unconnected; a       *)
(* refusal by Paho, which PahoConnect is about, is left out.               *)
Attempt == IF backend = "mosquitto" THEN {"trying", "new"} ELSE {"trying"}

(* Deviation: the library is called with coutMutex held.                   *)
ConnectInLog ==
  /\ coutOwner = "main"
  /\ link' \in Attempt
  /\ MainGoes("GetLibVersion", IF backend = "paho" THEN "connecting" ELSE "connectReturned")
  /\ UNCHANGED <<exitOwner, coutOwner, requested, queue>>

ConnectAsync ==
  /\ EndLog("main")
  /\ link' \in Attempt
  /\ MainGoes("GetLibVersion", IF backend = "paho" THEN "connecting" ELSE "connectReturned")
  /\ UNCHANGED <<exitOwner, requested, queue>>

(* Both backends log what the library or its callback has answered.        *)
ConnectReturns ==
  /\ EndLog("main")
  /\ MainGoes("connectReturned", "predicate")
  /\ UNCHANGED <<exitOwner, link, requested, queue>>

(* interrupt.wait(lock, predicate)                                         *)
ExitIsSet ==
  /\ exitRun
  /\ MainGoes("predicate", "unsubscribe")
  /\ UNCHANGED <<exitOwner, coutOwner, link, requested, queue>>

ExitIsNotSet ==
  /\ ~exitRun
  /\ MainGoes("predicate", "goingToSleep")
  /\ UNCHANGED <<exitOwner, coutOwner, link, requested, queue>>

(* Deviation: the mutex is kept.                                           *)
SleepLocked ==
  /\ MainGoes("goingToSleep", "asleep")
  /\ UNCHANGED <<exitOwner, coutOwner, link, requested, queue>>

Sleep ==
  /\ exitOwner' = Nobody
  /\ MainGoes("goingToSleep", "asleep")
  /\ UNCHANGED <<coutOwner, link, requested, queue>>

SpuriousWakeup ==
  /\ MainGoes("asleep", "woken")
  /\ UNCHANGED <<exitOwner, coutOwner, link, requested, queue>>

Relock ==
  /\ exitOwner = Nobody
  /\ exitOwner' = "main"
  /\ MainGoes("woken", "predicate")
  /\ UNCHANGED <<coutOwner, link, requested, queue>>

(* UnSubscribeAsync is refused if there is no connection.                  *)
UnSubscribeAsync ==
  /\ EndLog("main")
  /\ MainGoes("unsubscribe", "disconnect")
  /\ UNCHANGED <<exitOwner, link, requested, queue>>

(* Deviation: Run ends without a disconnect.                               *)
RunEndsConnected ==
  /\ EndLog("main")
  /\ MainGoes("disconnect", "disconnectReturned")
  /\ UNCHANGED <<exitOwner, link, requested, queue>>

DisconnectAsync ==
  /\ EndLog("main")
  /\ requested' = TRUE
  /\ MainGoes("disconnect", "disconnectReturned")
  /\ UNCHANGED <<exitOwner, link, queue>>

(* Run ends with its lock.                                                 *)
RunReturns ==
  /\ EndLog("main")
  /\ exitOwner' = Nobody
  /\ MainGoes("disconnectReturned", "~dispatcher")
  /\ UNCHANGED <<link, requested, queue>>

(* notify_one and notify_all wake the queue's worker if it sleeps.         *)
WakeWorker == worker' = IF worker = "asleep" THEN "woken" ELSE worker

(* ~Sample destroys the members in reverse order: the queue, which raises  *)
(* its flag and signals without its mutex, waits for its worker and        *)
(* reports what it loses, ...                                              *)
DispatcherCloses ==
  /\ Dispatcher!Close
  /\ MainGoes("~dispatcher", "notify_all")
  /\ UNCHANGED <<exitOwner, coutOwner, link, requested>>

NotifyAll ==
  /\ Runs("main")
  /\ main = "notify_all"
  /\ main' = "join"
  /\ WakeWorker
  /\ UNCHANGED <<backend, lib, interrupts, exitOwner, coutOwner, net, queue>>

DispatcherGone ==
  /\ worker = "gone"
  /\ Dispatcher!Report
  /\ IF pending # <<>> THEN EndLog("main") ELSE UNCHANGED coutOwner
  /\ MainGoes("join", "~client")
  /\ UNCHANGED <<exitOwner, link, requested>>

(* ... and the client, whose destructor disconnects if it is connected;    *)
(* that of Mosquitto waits for the library's thread.                       *)
ClientDisconnects ==
  /\ EndLog("main")
  /\ requested' = (requested \/ link \in {"up", "subscribed"})
  /\ MainGoes("~client", "loop_stop")
  /\ UNCHANGED <<exitOwner, link, queue>>

ClientGone ==
  /\ backend = "mosquitto" => lib = "ended"
  /\ MainGoes("loop_stop", "done")
  /\ UNCHANGED <<exitOwner, coutOwner, link, requested, queue>>

MainStep ==
  \/ LockExitRun \/ ConnectAsync \/ ConnectReturns
  \/ ExitIsSet \/ ExitIsNotSet \/ Sleep \/ Relock
  \/ UnSubscribeAsync \/ DisconnectAsync \/ RunReturns
  \/ DispatcherCloses \/ NotifyAll \/ DispatcherGone \/ ClientDisconnects \/ ClientGone
-----------------------------------------------------------------------------
(* The library's thread.  The answer to Paho's connect request fulfils the *)
(* promise ConnectAsync waits for; it is logged first.                     *)
ConnectionMade ==
  /\ link = "trying"
  /\ ~requested
  /\ link' = "up"
  /\ LibGoes("idle", IF main = "connecting" THEN "connectAnswer" ELSE "connected")
  /\ UNCHANGED <<main, coutOwner, requested, arrived, queue>>

(* Mosquitto tries again, Paho does not after its first attempt.           *)
ConnectionRefused ==
  /\ link = "trying"
  /\ ~requested
  /\ link' = IF main = "connecting" THEN "new" ELSE "trying"
  /\ LibGoes("idle", IF main = "connecting" THEN "connectAnswer" ELSE "callback")
  /\ UNCHANGED <<main, coutOwner, requested, arrived, queue>>

ConnectAnswered ==
  /\ EndLog("lib")
  /\ main' = "connectReturned"
  /\ LibGoes("connectAnswer", IF link = "up" THEN "connected" ELSE "idle")
  /\ UNCHANGED <<net, queue>>

(* OnConnectionStatusChanged subscribes.                                   *)
OnConnected ==
  /\ EndLog("lib")
  /\ link' = "subscribed"
  /\ LibGoes("connected", "idle")
  /\ UNCHANGED <<main, requested, arrived, queue>>

ConnectionLost ==
  /\ link \in {"up", "subscribed"}
  /\ link' = IF requested THEN "new" ELSE "trying"
  /\ LibGoes("idle", "callback")
  /\ UNCHANGED <<main, coutOwner, requested, arrived, queue>>

(* OnSubscribe, OnUnSubscribe, OnPublish: Sample only logs and publishes.  *)
CommandAnswered ==
  /\ link = "subscribed"
  /\ LibGoes("idle", "callback")
  /\ UNCHANGED <<main, coutOwner, net, queue>>

CallbackDone ==
  /\ EndLog("lib")
  /\ LibGoes("callback", "idle")
  /\ UNCHANGED <<main, net, queue>>

(* A message, which goes to the queue.                                     *)
MessageArrives ==
  /\ link = "subscribed"
  /\ arrived < MaxMessages
  /\ arrived' = arrived + 1
  /\ LibGoes("idle", "OnMqttMessage")
  /\ UNCHANGED <<main, coutOwner, link, requested, queue>>

MessageAccepted ==
  /\ Dispatcher!Begin("lib", arrived)
  /\ LibGoes("OnMqttMessage", "pushing")
  /\ UNCHANGED <<main, coutOwner, net>>

MessageDropped ==
  /\ phase = "closing"
  /\ LibGoes("OnMqttMessage", "idle")
  /\ UNCHANGED <<main, coutOwner, net, queue>>

(* The push waits while the worker has the queue's mutex, the signal comes *)
(* after it.                                                               *)
MessagePushed ==
  /\ phase # "reported"
  /\ worker \notin HoldsQueue
  /\ Dispatcher!Append1("lib")
  /\ LibGoes("pushing", "notify_one")
  /\ UNCHANGED <<main, coutOwner, net>>

NotifyOne ==
  /\ phase # "reported"
  /\ Runs("lib")
  /\ lib = "notify_one"
  /\ lib' = "idle"
  /\ WakeWorker
  /\ UNCHANGED <<backend, main, interrupts, exitOwner, coutOwner, net, queue>>

(* The queue has been destroyed under the call: it may return, or not.     *)
DeadQueueCalled ==
  /\ phase = "reported"
  /\ \E from \in InQueue, to \in {"idle", "astray"} : LibGoes(from, to)
  /\ call' = [call EXCEPT !["lib"] = NoMessage]
  /\ UNCHANGED <<main, coutOwner, net, phase, pending, handing, delivered, lost>>

ThreadEnds ==
  /\ requested
  /\ link \in {"new", "trying"}
  /\ LibGoes("idle", "ended")
  /\ UNCHANGED <<main, coutOwner, net, queue>>

LibStep ==
  \/ ConnectAnswered \/ OnConnected \/ CallbackDone
  \/ MessageAccepted \/ MessageDropped \/ MessagePushed \/ NotifyOne
  \/ ThreadEnds

Network ==
  \/ ConnectionMade \/ ConnectionRefused \/ ConnectionLost
  \/ CommandAnswered \/ MessageArrives
-----------------------------------------------------------------------------
(* The worker has the queue's mutex except while it sleeps and while       *)
(* Sample::OnMqttMessage runs: unless the queue is being destroyed it logs *)
(* how many messages are left, and waits for one or for the end.           *)
NumberLogged ==
  /\ EndLog("worker")
  /\ WorkerGoes("number", "testing")
  /\ UNCHANGED queue

HandOver ==
  /\ Dispatcher!HandOver
  /\ WorkerGoes("testing", "OnMqttMessage")
  /\ UNCHANGED coutOwner

MessageProcessed ==
  /\ EndLog("worker")
  /\ Dispatcher!Return
  /\ WorkerGoes("OnMqttMessage", IF phase = "open" THEN "number" ELSE "exiting")

(* The wait, which a signal between its predicate and its sleep misses.    *)
WorkerFindsNothing ==
  /\ phase = "open"
  /\ pending = <<>>
  /\ WorkerGoes("testing", "goingToSleep")
  /\ UNCHANGED <<coutOwner, queue>>

WorkerSleeps ==
  /\ WorkerGoes("goingToSleep", "asleep")
  /\ UNCHANGED <<coutOwner, queue>>

WorkerSpuriousWakeup ==
  /\ WorkerGoes("asleep", "woken")
  /\ UNCHANGED <<coutOwner, queue>>

WorkerRelocks ==
  /\ WorkerGoes("woken", "testing")
  /\ UNCHANGED <<coutOwner, queue>>

WorkerLeavesLoop ==
  /\ phase # "open"
  /\ WorkerGoes("testing", "exiting")
  /\ UNCHANGED <<coutOwner, queue>>

WorkerEnds ==
  /\ EndLog("worker")
  /\ WorkerGoes("exiting", "gone")
  /\ UNCHANGED queue

WorkerStep ==
  \/ NumberLogged \/ HandOver \/ MessageProcessed
  \/ WorkerFindsNothing \/ WorkerSleeps \/ WorkerRelocks
  \/ WorkerLeavesLoop \/ WorkerEnds
-----------------------------------------------------------------------------
(* SIGINT, on any thread that is there and not in the handler already.     *)
Signal(t) ==
  /\ signals < MaxSignals
  /\ Runs(t)
  /\ main # "done"
  /\ At[t] \notin {"ended", "gone", "astray"}
  /\ signals' = signals + 1
  /\ handler' = [handler EXCEPT ![t] = "lock"]
  /\ UNCHANGED <<backend, threads, exitRun, exitOwner, coutOwner, net, queue>>

(* InterruptHandler                                                        *)
(* Deviation: it does not wait for the mutex.                              *)
HandlerBarges(t) ==
  /\ handler[t] = "lock"
  /\ exitOwner' = "handler"
  /\ handler' = [handler EXCEPT ![t] = "set"]
  /\ UNCHANGED <<backend, threads, signals, exitRun, coutOwner, net, queue>>

HandlerLocks(t) ==
  /\ handler[t] = "lock"
  /\ exitOwner = Nobody
  /\ exitOwner' = "handler"
  /\ handler' = [handler EXCEPT ![t] = "set"]
  /\ UNCHANGED <<backend, threads, signals, exitRun, coutOwner, net, queue>>

HandlerSets(t) ==
  /\ handler[t] = "set"
  /\ exitRun' = TRUE
  /\ handler' = [handler EXCEPT ![t] = "notify"]
  /\ UNCHANGED <<backend, threads, signals, exitOwner, coutOwner, net, queue>>

(* notify_all, and the lock goes.                                          *)
HandlerNotifies(t) ==
  /\ handler[t] = "notify"
  /\ main' = IF main = "asleep" THEN "woken" ELSE main
  /\ exitOwner' = Nobody
  /\ handler' = [handler EXCEPT ![t] = "none"]
  /\ UNCHANGED <<backend, lib, worker, signals, exitRun, coutOwner, net, queue>>

HandlerStep(t) == HandlerLocks(t) \/ HandlerSets(t) \/ HandlerNotifies(t)
-----------------------------------------------------------------------------
(* The process is over when main returns.                                  *)
Next ==
  /\ main # "done"
  /\ \/ MainStep \/ SpuriousWakeup
     \/ LibStep \/ Network \/ DeadQueueCalled
     \/ WorkerStep \/ WorkerSpuriousWakeup
     \/ \E t \in Threads : Signal(t) \/ HandlerStep(t) \/ TakeCout(t)

Spec == Init /\ [][Next]_vars

(* Every thread goes on when it can, a request to connect is answered, and *)
(* a connection is closed when asked, which other callbacks may delay.     *)
(* exitRunMutex is granted to a handler, and coutMutex to main or the      *)
(* worker, if it is free again and again; nobody else is owed more than a  *)
(* turn when it can go on for good.                                        *)
Fairness ==
  /\ WF_vars(MainStep)
  /\ WF_vars(LibStep \/ DeadQueueCalled \/ TakeCout("lib"))
  /\ WF_vars(main = "connecting" /\ (ConnectionMade \/ ConnectionRefused))
  /\ SF_vars(requested /\ ConnectionLost)
  /\ WF_vars(WorkerStep)
  /\ SF_vars(\E t \in Threads : HandlerStep(t))
  /\ SF_vars(TakeCout("main"))
  /\ SF_vars(TakeCout("worker"))

FairSpec == Spec /\ Fairness
-----------------------------------------------------------------------------
(* Every variable stays in its range; exitRunMutex has exactly the owner   *)
(* the threads think it has.                                               *)
TypeOK ==
  /\ backend \in {"mosquitto", "paho"}
  /\ main \in Main /\ lib \in Lib /\ worker \in Worker
  /\ handler \in [Threads -> Handler]
  /\ signals \in 0 .. MaxSignals
  /\ exitRun \in BOOLEAN
  /\ coutOwner \in Threads \cup {Nobody}
  /\ link \in Link
  /\ requested \in BOOLEAN
  /\ arrived \in 0 .. MaxMessages
  /\ exitOwner = CASE main \in InRun -> "main"
                   [] \E t \in Threads : handler[t] \in {"set", "notify"} -> "handler"
                   [] OTHER -> Nobody
  /\ Cardinality({t \in Threads : handler[t] \in {"set", "notify"}}) <= 1

(* The exit flag and its signal are under exitRunMutex (Main.cpp:263-265): *)
(* main never sleeps on an exit that was asked for, unless the handler is  *)
(* just about to wake it.  The queue's destructor does not have this.      *)
NoSleepOnExit ==
  main = "asleep" /\ exitRun => \E t \in Threads : handler[t] = "notify"

(* Who waits for whom: the handler for the holder of exitRunMutex, a Log   *)
(* for that of coutMutex, ConnectAsync for the library's answer, a push    *)
(* for the worker's mutex, the join for the worker.                        *)
WaitsFor(t) ==
  IF handler[t] = "lock" THEN IF exitOwner = "main" THEN {"main"} ELSE {}
  ELSE IF ~Runs(t) THEN {}
  ELSE CASE WantsLog(t) /\ coutOwner # t -> {coutOwner} \ {Nobody}
         [] At[t] = "connecting" -> {"lib"}
         [] At[t] = "pushing" -> IF worker \in HoldsQueue THEN {"worker"} ELSE {}
         [] At[t] = "join" /\ worker # "gone" -> {"worker"}
         [] OTHER -> {}

WaitsForSet(S) == UNION {WaitsFor(t) : t \in S}

Deadlocked ==
  \E t \in Threads :
    LET one == WaitsFor(t)
        two == WaitsForSet(one)
    IN  t \in one \cup two \cup WaitsForSet(two)

(* Sample's two mutexes, the queue's, the blocking connect and the join    *)
(* never make the threads wait for each other in a circle, except that a   *)
(* SIGINT interrupts a thread Run needs, or Run itself, while Run has      *)
(* exitRunMutex (Main.cpp:246 and 263).                                    *)
DeadlockNeedsSignalInRun ==
  Deadlocked => exitOwner = "main" /\ \E t \in Threads : handler[t] = "lock"

(* dispatcher is declared after client, so destroyed before it             *)
(* (Main.cpp:51-52, 113): a message reaches the destroyed queue, but only  *)
(* while the disconnect that Run asked for is still under way.             *)
DeadQueueOnlyWhileClosing ==
  phase = "reported" /\ lib \in InQueue => requested /\ link \in {"up", "subscribed"}

(* The worker went to sleep although the flag had been raised and signalled*)
(* (DispatchQueue.cpp:35 and 70): only a spurious wake-up ends the join.   *)
ShutdownMissed == main = "join" /\ worker = "asleep"

(* A SIGINT brings the application to its end: the network thread, which   *)
(* Mosquitto's destructor waits for without having asked it to end         *)
(* (MosquittoClient.cpp:172), does end because Run asked for a disconnect, *)
(* connected or not.  Three things can prevent it: threads that wait for   *)
(* each other because of a SIGINT at a bad time (see above), a call of the *)
(* destroyed queue that never returns, and a queue whose worker misses its *)
(* shutdown.                                                               *)
InterruptedAppEnds ==
  signals > 0 ~> (main = "done" \/ Deadlocked \/ lib = "astray" \/ ShutdownMissed)
=============================================================================
