-------------------------- MODULE SampleAppProofs --------------------------
(***************************************************************************)
(* Safety of the sample application for any number of messages and         *)
(* SIGINTs: who holds exitRunMutex and coutMutex, that main does not sleep *)
(* on an exit that was asked for, that the mutexes deadlock only by a      *)
(* SIGINT in Run, and when the destroyed queue can be called.              *)
(***************************************************************************)
EXTENDS SampleApp, FiniteSetTheorems, TLAPS

(* A handler that has exitRunMutex.                                        *)
InHandler(t) == handler[t] \in {"set", "notify"}

(* TypeOK but for the owner of exitRunMutex, which OwnerInv is about.      *)
Ranges ==
  /\ backend \in {"mosquitto", "paho"}
  /\ main \in Main /\ lib \in Lib /\ worker \in Worker
  /\ handler \in [Threads -> Handler]
  /\ signals \in 0 .. MaxSignals
  /\ exitRun \in BOOLEAN
  /\ coutOwner \in Threads \cup {Nobody}
  /\ link \in Link
  /\ requested \in BOOLEAN
  /\ arrived \in 0 .. MaxMessages

QueueRanges ==
  /\ call \in [{"lib"} -> Nat]
  /\ pending \in Seq(Nat)

(* exitRunMutex: Run holds it except before its lock, while it waits and   *)
(* after it; so does one handler between its lock and its signal.          *)
OwnerInv ==
  /\ exitOwner \in {"main", "handler", Nobody}
  /\ exitOwner = "main" <=> main \in InRun
  /\ exitOwner = "handler" <=> \E t \in Threads : InHandler(t)
  /\ \A t, u \in Threads : InHandler(t) /\ InHandler(u) => t = u

(* The exit is not asked for between the predicate and the sleep.          *)
SleepInv ==
  /\ NoSleepOnExit
  /\ main = "goingToSleep" => ~exitRun

(* How far Run and the destructors are shows in the connection, the        *)
(* request to disconnect and the queue.                                    *)
ProgressInv ==
  /\ main \in {"Run", "GetLibVersion"} => link = "new" /\ lib = "idle"
  /\ requested <=> main \in {"disconnectReturned"} \cup InDestructor
  /\ phase = CASE main \in {"~client", "loop_stop", "done"} -> "reported"
               [] main \in {"notify_all", "join"} -> "closing"
               [] OTHER -> "open"

(* Only a connection that is up brings messages, and it stays up until the *)
(* library's thread is back from them; the answer ConnectAsync waits for   *)
(* is given while it waits.                                                *)
LibInv ==
  /\ lib \in InQueue => link \in {"up", "subscribed"}
  /\ lib = "connectAnswer" => main = "connecting"

(* coutMutex is held only by a thread that is about to log.                *)
CoutInv ==
  /\ coutOwner = "main" =>
       /\ main \in {"GetLibVersion", "connectReturned", "unsubscribe", "disconnect",
                   "disconnectReturned", "join", "~client"}
       /\ main = "join" => worker = "gone" /\ pending # <<>>
  /\ coutOwner = "lib" => lib \in {"connectAnswer", "connected", "callback"}
  /\ coutOwner = "worker" => worker \in {"number", "exiting", "OnMqttMessage"}

IInv ==
  /\ Ranges /\ QueueRanges /\ OwnerInv /\ SleepInv
  /\ ProgressInv /\ LibInv /\ CoutInv
-----------------------------------------------------------------------------
USE DEF Threads, Nobody, NoMessage, InRun, InDestructor, Main, InQueue, Lib, HoldsQueue, Worker,
        Handler, Link

(* WantsLog thread by thread.                                              *)
LEMMA LogPoints ==
  /\ WantsLog("main") <=>
       /\ main \in {"GetLibVersion", "connectReturned", "unsubscribe", "disconnect",
                   "disconnectReturned", "join", "~client"}
       /\ main = "join" => worker = "gone" /\ pending # <<>>
  /\ WantsLog("lib") <=> lib \in {"connectAnswer", "connected", "callback"}
  /\ WantsLog("worker") <=> worker \in {"number", "exiting", "OnMqttMessage"}
BY DEF WantsLog, At, LogsAt

(* The invariant is inductive: it holds before Run ...                     *)
THEOREM InitIInv == Init => IInv
<1> SUFFICES ASSUME Init PROVE IInv
  OBVIOUS
<1> USE DEF Init, Dispatcher!Init
<1>1. Ranges
  <2>1. signals \in 0 .. MaxSignals /\ arrived \in 0 .. MaxMessages
    BY SampleAssumption
  <2>2. handler \in [Threads -> Handler]
    OBVIOUS
  <2>3. exitRun \in BOOLEAN /\ requested \in BOOLEAN
    OBVIOUS
  <2> QED
    BY <2>1, <2>2, <2>3 DEF Ranges
<1>2. QueueRanges
  BY DEF QueueRanges
<1>3. OwnerInv
  BY DEF OwnerInv, InHandler
<1>4. SleepInv
  BY DEF SleepInv, NoSleepOnExit
<1>5. ProgressInv /\ LibInv
  BY DEF ProgressInv, LibInv
<1>6. CoutInv
  BY DEF CoutInv
<1> QED
  BY <1>1, <1>2, <1>3, <1>4, <1>5, <1>6 DEF IInv

(* ... and each step keeps it: those of Run and ~Sample; ...               *)
LEMMA MainStepIInv == ASSUME IInv, MainStep \/ SpuriousWakeup PROVE IInv'
<1> USE DEF IInv, Ranges, QueueRanges, OwnerInv, InHandler, SleepInv, NoSleepOnExit,
           ProgressInv, LibInv, CoutInv,
           MainGoes, Runs, EndLog, interrupts, queue
<1>1. CASE LockExitRun
  BY <1>1 DEF LockExitRun
<1>2. CASE ConnectAsync
  BY <1>2 DEF ConnectAsync, Attempt
<1>3. CASE ExitIsSet
  BY <1>3 DEF ExitIsSet
<1>4. CASE ExitIsNotSet
  BY <1>4 DEF ExitIsNotSet
<1>5. CASE Sleep
  BY <1>5 DEF Sleep
<1>6. CASE SpuriousWakeup
  BY <1>6 DEF SpuriousWakeup
<1>7. CASE Relock
  BY <1>7 DEF Relock
<1>8. CASE UnSubscribeAsync
  BY <1>8 DEF UnSubscribeAsync
<1>9. CASE DisconnectAsync
  BY <1>9 DEF DisconnectAsync
<1>10. CASE DispatcherCloses
  BY <1>10 DEF DispatcherCloses, Dispatcher!Close
<1>11. CASE DispatcherGone
  BY <1>11 DEF DispatcherGone, Dispatcher!Report
<1>12. CASE ClientDisconnects  \* Run has asked for the disconnect
  <2>1. requested' = TRUE
    BY <1>12 DEF ClientDisconnects
  <2> QED
    BY <1>12, <2>1 DEF ClientDisconnects
<1>13. CASE ClientGone
  BY <1>13 DEF ClientGone
<1>14. CASE ConnectReturns
  BY <1>14 DEF ConnectReturns
<1>15. CASE RunReturns
  BY <1>15 DEF RunReturns
<1>16. CASE NotifyAll
  <2>1. worker' \in Worker
    BY <1>16 DEF NotifyAll, WakeWorker
  <2>2. coutOwner # "main"
    BY <1>16 DEF NotifyAll
  <2>3. coutOwner = "worker" => worker' = worker
    BY <1>16 DEF NotifyAll, WakeWorker
  <2>4. main = "notify_all" /\ main' = "join"
    BY <1>16 DEF NotifyAll
  <2>5. /\ UNCHANGED <<backend, lib, handler, signals, exitRun, exitOwner, coutOwner, net>>
        /\ UNCHANGED <<phase, call, pending>>
    BY <1>16 DEF NotifyAll
  <2>6. Ranges' /\ QueueRanges'
    BY <2>1, <2>4, <2>5 DEF net
  <2>7. OwnerInv' /\ SleepInv'
    BY <2>4, <2>5
  <2>8. ProgressInv' /\ LibInv'
    BY <2>4, <2>5 DEF net
  <2>9. CoutInv'
    BY <2>2, <2>3, <2>5
  <2> QED
    BY <2>6, <2>7, <2>8, <2>9
<1> QED
  BY <1>1, <1>2, <1>3, <1>4, <1>5, <1>6, <1>7, <1>8, <1>9, <1>10, <1>11, <1>12, <1>13, <1>14, <1>15, <1>16
  DEF MainStep

(* ... those of the library's thread, whose connect answer lets main go on *)
(* from "connecting", where it has exitRunMutex and not coutMutex; ...     *)
LEMMA LibStepIInv == ASSUME IInv, LibStep \/ DeadQueueCalled PROVE IInv'
<1> USE DEF IInv, Ranges, QueueRanges, OwnerInv, InHandler, SleepInv, NoSleepOnExit,
           ProgressInv, LibInv, CoutInv,
           LibGoes, Runs, EndLog, interrupts, net, queue
<1>1. CASE ConnectAnswered
  BY <1>1 DEF ConnectAnswered
<1>2. CASE OnConnected
  BY <1>2 DEF OnConnected
<1>3. CASE CallbackDone
  BY <1>3 DEF CallbackDone
<1>4. CASE MessageAccepted
  BY <1>4 DEF MessageAccepted, Dispatcher!Begin
<1>5. CASE MessageDropped
  BY <1>5 DEF MessageDropped
<1>6. CASE MessagePushed
  BY <1>6 DEF MessagePushed, Dispatcher!Append1
<1>7. CASE ThreadEnds
  BY <1>7 DEF ThreadEnds
<1>8. CASE DeadQueueCalled
  BY <1>8 DEF DeadQueueCalled
<1>9. CASE NotifyOne
  BY <1>9 DEF NotifyOne, WakeWorker
<1> QED
  BY <1>1, <1>2, <1>3, <1>4, <1>5, <1>6, <1>7, <1>8, <1>9 DEF LibStep

(* ... what happens to the connection, which calls that thread back; ...   *)
LEMMA NetworkIInv == ASSUME IInv, Network PROVE IInv'
<1> USE DEF IInv, Ranges, QueueRanges, OwnerInv, InHandler, SleepInv, NoSleepOnExit,
           ProgressInv, LibInv, CoutInv,
           LibGoes, Runs, EndLog, interrupts, net, queue
<1>1. CASE ConnectionMade
  BY <1>1 DEF ConnectionMade
<1>2. CASE ConnectionRefused
  BY <1>2 DEF ConnectionRefused
<1>3. CASE ConnectionLost
  BY <1>3 DEF ConnectionLost
<1>4. CASE CommandAnswered
  BY <1>4 DEF CommandAnswered
<1>5. CASE MessageArrives
  BY <1>5, SampleAssumption DEF MessageArrives
<1> QED
  BY <1>1, <1>2, <1>3, <1>4, <1>5 DEF Network

(* ... those of the queue's worker; ...                                    *)
LEMMA WorkerStepIInv == ASSUME IInv, WorkerStep \/ WorkerSpuriousWakeup PROVE IInv'
<1> USE DEF IInv, Ranges, QueueRanges, OwnerInv, InHandler, SleepInv, NoSleepOnExit,
           ProgressInv, LibInv, CoutInv,
           WorkerGoes, Runs, EndLog, interrupts, net, queue
<1>1. CASE NumberLogged
  BY <1>1 DEF NumberLogged
<1>2. CASE HandOver
  BY <1>2 DEF HandOver, Dispatcher!HandOver
<1>3. CASE MessageProcessed
  BY <1>3 DEF MessageProcessed, Dispatcher!Return
<1>4. CASE WorkerLeavesLoop
  BY <1>4 DEF WorkerLeavesLoop
<1>5. CASE WorkerEnds
  BY <1>5 DEF WorkerEnds
<1>6. CASE WorkerFindsNothing
  BY <1>6 DEF WorkerFindsNothing
<1>7. CASE WorkerSleeps \/ WorkerSpuriousWakeup \/ WorkerRelocks
  BY <1>7 DEF WorkerSleeps, WorkerSpuriousWakeup, WorkerRelocks
<1> QED
  BY <1>1, <1>2, <1>3, <1>4, <1>5, <1>6, <1>7 DEF WorkerStep

(* ... a SIGINT, InterruptHandler, which sets the flag while main cannot   *)
(* be at its predicate, and the locking of coutMutex.                      *)
LEMMA HandlerIInv ==
  ASSUME IInv, NEW t \in Threads, Signal(t) \/ HandlerStep(t) \/ TakeCout(t)
  PROVE  IInv'
<1> USE DEF IInv, Ranges, QueueRanges, OwnerInv, InHandler, SleepInv, NoSleepOnExit,
           ProgressInv, LibInv, CoutInv,
           Runs, threads, interrupts, net, queue
<1>1. CASE Signal(t)
  BY <1>1, SampleAssumption DEF Signal
<1>2. CASE HandlerLocks(t)
  BY <1>2 DEF HandlerLocks
<1>3. CASE HandlerSets(t)
  <2>1. main \notin InRun
    BY <1>3 DEF HandlerSets
  <2>2. SleepInv'
    BY <1>3, <2>1 DEF HandlerSets
  <2> QED
    BY <1>3, <2>2 DEF HandlerSets
<1>4. CASE HandlerNotifies(t)
  BY <1>4 DEF HandlerNotifies
<1>5. CASE TakeCout(t)
  BY <1>5, LogPoints DEF TakeCout
<1> QED
  BY <1>1, <1>2, <1>3, <1>4, <1>5 DEF HandlerStep

(* Every step keeps the invariant.                                         *)
THEOREM NextIInv == IInv /\ [Next]_vars => IInv'
<1> SUFFICES ASSUME IInv, [Next]_vars PROVE IInv'
  OBVIOUS
<1>1. CASE UNCHANGED vars
  BY <1>1 DEF vars, threads, interrupts, net, queue, IInv, Ranges, QueueRanges, OwnerInv, InHandler,
              SleepInv, NoSleepOnExit, ProgressInv, LibInv, CoutInv
<1>2. CASE Next
  BY <1>2, MainStepIInv, LibStepIInv, NetworkIInv, WorkerStepIInv, HandlerIInv DEF Next
<1> QED
  BY <1>1, <1>2

(* The invariant holds in every behaviour of the sample.                   *)
THEOREM Invariance == Spec => []IInv
BY InitIInv, NextIInv, PTL DEF Spec

(* Variables stay in their ranges, and exitRunMutex has the one owner that *)
(* Run (Main.cpp:246-258) and InterruptHandler (263-265) make it have.     *)
THEOREM TypeCorrect == Spec => []TypeOK
<1>1. ASSUME IInv PROVE TypeOK
  <2> DEFINE Inside == {t \in Threads : InHandler(t)}
  <2>1. exitOwner = CASE main \in InRun -> "main"
                      [] \E t \in Threads : handler[t] \in {"set", "notify"} -> "handler"
                      [] OTHER -> Nobody
    BY <1>1 DEF IInv, OwnerInv, InHandler
  <2>2. Cardinality(Inside) <= 1
    <3>1. CASE Inside = {}
      BY <3>1, FS_EmptySet
    <3>2. ASSUME NEW t \in Inside PROVE Inside = {t}
      BY <1>1, <3>2 DEF IInv, OwnerInv
    <3> HIDE DEF Inside
    <3> QED
      BY <3>1, <3>2, FS_Singleton
  <2> QED
    BY <1>1, <2>1, <2>2 DEF IInv, Ranges, TypeOK, InHandler
<1> QED
  BY <1>1, Invariance, PTL

(* Run does not wait (Main.cpp:251) with the exit flag set, except until   *)
(* the handler that has set it signals (264-265).                          *)
THEOREM ExitIsNotSlept == Spec => []NoSleepOnExit
<1>1. IInv => NoSleepOnExit
  BY DEF IInv, SleepInv
<1> QED
  BY <1>1, Invariance, PTL

(* The destroyed dispatcher (Main.cpp:51-52, 113) is called only before    *)
(* the disconnect that Run asked for has come about.                       *)
THEOREM DeadQueueRarelyCalled == Spec => []DeadQueueOnlyWhileClosing
<1>1. IInv => DeadQueueOnlyWhileClosing
  BY DEF IInv, Ranges, ProgressInv, LibInv, DeadQueueOnlyWhileClosing
<1> QED
  BY <1>1, Invariance, PTL

-----------------------------------------------------------------------------
(* No handler waits for Run.                                               *)
Unsignalled == ~(exitOwner = "main" /\ \E t \in Threads : handler[t] = "lock")

(* Who waits, waits for a lower one: the holder of coutMutex at the ground *)
(* waits for nobody, the worker only for it, the library's thread only for *)
(* these two, and main for all of them.                                    *)
Height(t) == IF coutOwner = t THEN 0
             ELSE CASE t = "worker" -> 1 [] t = "lib" -> 2 [] t = "main" -> 3

(* Whom each thread may wait for when no handler waits for Run.            *)
LEMMA Waits ==
  ASSUME IInv, Unsignalled
  PROVE  /\ \A t \in Threads : coutOwner = t => WaitsFor(t) = {}
         /\ WaitsFor("worker") \subseteq {coutOwner} \ {Nobody}
         /\ WaitsFor("lib") \subseteq {coutOwner, "worker"} \ {Nobody, "lib"}
         /\ WaitsFor("main") \subseteq {coutOwner, "lib", "worker"} \ {Nobody, "main"}
<1> USE DEF IInv, CoutInv, Unsignalled
<1>1. At["main"] = main /\ At["lib"] = lib /\ At["worker"] = worker
  BY DEF At
<1>2. coutOwner \in Threads \cup {Nobody}
  BY DEF Ranges
<1>3. /\ main \in Main /\ lib \in Lib /\ worker \in Worker
  BY DEF Ranges
<1>4. coutOwner = "main" => WaitsFor("main") = {}
  BY <1>1, LogPoints DEF WaitsFor
<1>5. coutOwner = "lib" => WaitsFor("lib") = {}
  BY <1>1, LogPoints DEF WaitsFor
<1>6. coutOwner = "worker" => WaitsFor("worker") = {}
  BY <1>1, LogPoints DEF WaitsFor
<1>7. WaitsFor("worker") \subseteq {coutOwner} \ {Nobody}
  BY <1>1, <1>2, <1>3, LogPoints DEF WaitsFor
<1>8. WaitsFor("lib") \subseteq {coutOwner, "worker"} \ {Nobody, "lib"}
  BY <1>1, <1>2, <1>3, LogPoints DEF WaitsFor
<1>9. WaitsFor("main") \subseteq {coutOwner, "lib", "worker"} \ {Nobody, "main"}
  BY <1>1, <1>2, <1>3, LogPoints DEF WaitsFor
<1> QED
  BY <1>4, <1>5, <1>6, <1>7, <1>8, <1>9

(* Waiting goes down, ...                                                  *)
LEMMA Downhill ==
  ASSUME IInv, Unsignalled, NEW t \in Threads, NEW u \in WaitsFor(t)
  PROVE  u \in Threads /\ Height(u) < Height(t)
<1>1. coutOwner \in Threads \cup {Nobody}
  BY DEF IInv, Ranges
<1> QED
  BY <1>1, Waits DEF Height

(* ... so no thread waits for itself, over however many others: only a     *)
(* SIGINT while Run has exitRunMutex makes threads wait in a circle        *)
(* (Main.cpp:246 and 263).                                                 *)
THEOREM DeadlocksAreSignals == Spec => []DeadlockNeedsSignalInRun
<1>1. ASSUME IInv, Unsignalled, Deadlocked PROVE FALSE
  <2>1. PICK t \in Threads :
          LET one == WaitsFor(t)
              two == WaitsForSet(one)
          IN  t \in one \cup two \cup WaitsForSet(two)
    BY <1>1 DEF Deadlocked
  <2> DEFINE Below(S) == S \subseteq {u \in Threads : Height(u) < Height(t)}
  <2>2. \A u \in Threads : Height(u) \in 0 .. 3
    BY DEF Height
  <2>3. Below(WaitsFor(t))
    BY <1>1, Downhill
  <2>4. ASSUME NEW S, Below(S) PROVE Below(WaitsForSet(S))
    BY <1>1, <2>2, <2>4, Downhill DEF WaitsForSet
  <2> QED
    BY <2>1, <2>2, <2>3, <2>4
<1>2. IInv => DeadlockNeedsSignalInRun
  BY <1>1 DEF DeadlockNeedsSignalInRun, Unsignalled
<1> QED
  BY <1>2, Invariance, PTL
=============================================================================
