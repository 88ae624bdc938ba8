---------------------------- MODULE DispatchQueue ---------------------------
(***************************************************************************)
(* The dispatch queue (src/MqttClient/DispatchQueue.{h,cpp}): threads of   *)
(* the MQTT library push messages under a mutex and signal a condition     *)
(* variable; one worker thread pops them and runs the user's callback with *)
(* the mutex released; the owner's destructor raises the exit flag and     *)
(* signals without taking the mutex, joins the worker and counts what is   *)
(* left.                                                                   *)
(*                                                                         *)
(* One action per stretch of code between two points where another thread  *)
(* can interfere.  The flag is atomic and read and written outside the     *)
(* mutex, so each of its accesses is a step; the queue is only touched     *)
(* under the mutex, so a short critical section (push, count) is one step  *)
(* that needs the mutex free.                                              *)
(***************************************************************************)
EXTENDS Sequences, Naturals, FiniteSets

CONSTANTS
  Callers,      (* the library threads that call OnMqttMessage               *)
  Messages,     (* the messages; each is offered at most once                *)
  NoMessage,    (* a call that holds no message                              *)
  GarbageExit   (* what reading messageDispatcherExit can return before its  *)
                (* initialiser has run (it is declared after the thread)     *)

ASSUME DispatchAssumption ==
  /\ NoMessage \notin Messages
  /\ GarbageExit \subseteq BOOLEAN
  /\ GarbageExit # {}
  /\ IsFiniteSet(Callers)

VARIABLES
  exit,       (* messageDispatcherExit, "uninit" until the constructor gets there *)
  queue,      (* messageDispatcherQueue                                      *)
  mutex,      (* messageDispatcherMutex: "free" or held by the "worker"      *)
  worker,     (* where messageDispatcherThread is                            *)
  inHand,     (* the message the worker popped: at most one                  *)
  caller,     (* where each call of OnMqttMessage is                         *)
  callMsg,    (* the message of that call                                    *)
  owner,      (* where the owner is between constructor and end of destructor*)
  lost,       (* the number the destructor logs as lost                      *)
  offered,    (* history: every message OnMqttMessage was called with        *)
  accepted,   (* history: the pushed messages, in the order of the pushes    *)
  delivered   (* history: the messages whose callback returned, in order     *)

sync == <<exit, mutex, worker, owner>>
data == <<queue, inHand, lost, accepted, delivered>>
calls == <<caller, callMsg, offered>>
vars == <<exit, queue, mutex, worker, inHand, caller, callMsg, owner, lost,
          offered, accepted, delivered>>

WorkerHolding == {"loop", "pred", "block", "check"}
WorkerPc == WorkerHolding \cup
            {"starting", "asleep", "woken", "callback", "relock", "exited"}
CallerPc == {"idle", "pushing", "notifying"}
OwnerPc == {"constructing", "alive", "notify", "join", "count", "counted",
            "destroyed"}

(* The constructor's member list starts the thread (DispatchQueue.cpp:29)  *)
(* before the flag, the member after it, is initialised.                   *)
Init ==
  /\ exit = "uninit"
  /\ queue = <<>>
  /\ mutex = "free"
  /\ worker = "starting"
  /\ inHand = <<>>
  /\ caller = [c \in Callers |-> "idle"]
  /\ callMsg = [c \in Callers |-> NoMessage]
  /\ owner = "constructing"
  /\ lost = 0
  /\ offered = {}
  /\ accepted = <<>>
  /\ delivered = <<>>

(* The values a read of the flag may return now.                           *)
ExitReads == IF exit = "uninit" THEN GarbageExit ELSE {exit = "true"}
-----------------------------------------------------------------------------
(* The constructor, after the thread is started.                           *)
InitExit ==
  /\ owner = "constructing"
  /\ owner' = "alive"
  /\ exit' = "false"
  /\ UNCHANGED <<mutex, worker, data, calls>>

(* OnMqttMessage: the unlocked test of the flag.  The flag is up: the      *)
(* message is dropped without a trace.                                     *)
MayCall(c, m) ==
  /\ owner \notin {"constructing", "destroyed"}
  /\ caller[c] = "idle"
  /\ m \notin offered
  /\ offered' = offered \cup {m}

(* Deviation: the flag is not tested before the push.                      *)
AcceptAlways(c, m) ==
  /\ MayCall(c, m)
  /\ caller' = [caller EXCEPT ![c] = "pushing"]
  /\ callMsg' = [callMsg EXCEPT ![c] = m]
  /\ UNCHANGED <<sync, data>>

OnMqttMessageAccept(c, m) ==
  /\ MayCall(c, m)
  /\ FALSE \in ExitReads
  /\ caller' = [caller EXCEPT ![c] = "pushing"]
  /\ callMsg' = [callMsg EXCEPT ![c] = m]
  /\ UNCHANGED <<sync, data>>

OnMqttMessageDrop(c, m) ==
  /\ MayCall(c, m)
  /\ TRUE \in ExitReads
  /\ UNCHANGED <<sync, data, caller, callMsg>>

(* Deviations: a copy of the message is pushed and the original kept;      *)
(* notify_one is missing.                                                  *)
PushCopy(c) ==
  /\ owner # "destroyed"
  /\ caller[c] = "pushing"
  /\ mutex = "free"
  /\ queue' = Append(queue, callMsg[c])
  /\ accepted' = Append(accepted, callMsg[c])
  /\ caller' = [caller EXCEPT ![c] = "notifying"]
  /\ UNCHANGED <<sync, inHand, lost, offered, delivered, callMsg>>

PushSilently(c) ==
  /\ owner # "destroyed"
  /\ caller[c] = "pushing"
  /\ mutex = "free"
  /\ queue' = Append(queue, callMsg[c])
  /\ accepted' = Append(accepted, callMsg[c])
  /\ caller' = [caller EXCEPT ![c] = "idle"]
  /\ callMsg' = [callMsg EXCEPT ![c] = NoMessage]
  /\ UNCHANGED <<sync, inHand, lost, offered, delivered>>

Push(c) ==
  /\ owner # "destroyed"
  /\ caller[c] = "pushing"
  /\ mutex = "free"
  /\ queue' = Append(queue, callMsg[c])
  /\ accepted' = Append(accepted, callMsg[c])
  /\ caller' = [caller EXCEPT ![c] = "notifying"]
  /\ callMsg' = [callMsg EXCEPT ![c] = NoMessage]
  /\ UNCHANGED <<sync, inHand, lost, offered, delivered>>

(* A signal reaches the worker only if it sleeps; otherwise it is gone.    *)
WakeWorker == worker' = IF worker = "asleep" THEN "woken" ELSE worker

NotifyOne(c) ==
  /\ owner # "destroyed"
  /\ caller[c] = "notifying"
  /\ caller' = [caller EXCEPT ![c] = "idle"]
  /\ WakeWorker
  /\ UNCHANGED <<exit, mutex, owner, data, callMsg, offered>>
-----------------------------------------------------------------------------
(* messageDispatcherWorker.  unique_lock takes the mutex: at the start,    *)
(* after a callback (then the loop condition is next), and on the way out  *)
(* of a wait (then the predicate is next).                                 *)
WorkerLock(from, to) ==
  /\ worker = from
  /\ mutex = "free"
  /\ mutex' = "worker"
  /\ worker' = to
  /\ UNCHANGED <<exit, owner, data, calls>>

Start == WorkerLock("starting", "loop")
RelockAfterCallback == WorkerLock("relock", "loop")
RelockAfterWait == WorkerLock("woken", "pred")

(* while (!messageDispatcherExit)                                          *)
LoopEnter ==
  /\ worker = "loop"
  /\ FALSE \in ExitReads
  /\ worker' = "pred"
  /\ UNCHANGED <<exit, mutex, owner, data, calls>>

LoopLeave ==
  /\ worker = "loop"
  /\ TRUE \in ExitReads
  /\ worker' = "exited"
  /\ mutex' = "free"
  /\ UNCHANGED <<exit, owner, data, calls>>

(* wait(lock, pred): the predicate is evaluated under the mutex ...        *)
PredTrue ==
  /\ worker = "pred"
  /\ queue # <<>> \/ TRUE \in ExitReads
  /\ worker' = "check"
  /\ UNCHANGED <<exit, mutex, owner, data, calls>>

PredFalse ==
  /\ worker = "pred"
  /\ queue = <<>>
  /\ FALSE \in ExitReads
  /\ worker' = "block"
  /\ UNCHANGED <<exit, mutex, owner, data, calls>>

(* ... and only the later release-and-sleep is atomic.                     *)
Block ==
  /\ worker = "block"
  /\ worker' = "asleep"
  /\ mutex' = "free"
  /\ UNCHANGED <<exit, owner, data, calls>>

SpuriousWakeup ==
  /\ worker = "asleep"
  /\ worker' = "woken"
  /\ UNCHANGED <<exit, mutex, owner, data, calls>>

(* if (!messageDispatcherExit && size()): pop and release the mutex.       *)
(* Deviations: the newest message is popped; the flag is not tested again  *)
(* after the wait.                                                         *)
TakeNewest ==
  /\ worker = "check"
  /\ FALSE \in ExitReads
  /\ queue # <<>>
  /\ inHand' = <<queue[Len(queue)]>>
  /\ queue' = SubSeq(queue, 1, Len(queue) - 1)
  /\ mutex' = "free"
  /\ worker' = "callback"
  /\ UNCHANGED <<exit, owner, lost, accepted, delivered, calls>>

TakeUnchecked ==
  /\ worker = "check"
  /\ queue # <<>>
  /\ inHand' = <<Head(queue)>>
  /\ queue' = Tail(queue)
  /\ mutex' = "free"
  /\ worker' = "callback"
  /\ UNCHANGED <<exit, owner, lost, accepted, delivered, calls>>

TakeMessage ==
  /\ worker = "check"
  /\ FALSE \in ExitReads
  /\ queue # <<>>
  /\ inHand' = <<Head(queue)>>
  /\ queue' = Tail(queue)
  /\ mutex' = "free"
  /\ worker' = "callback"
  /\ UNCHANGED <<exit, owner, lost, accepted, delivered, calls>>

SkipMessage ==
  /\ worker = "check"
  /\ TRUE \in ExitReads \/ queue = <<>>
  /\ worker' = "loop"
  /\ UNCHANGED <<exit, mutex, owner, data, calls>>

(* The user's callback, however long it takes, has returned.               *)
CallbackReturn ==
  /\ worker = "callback"
  /\ delivered' = delivered \o inHand
  /\ inHand' = <<>>
  /\ worker' = "relock"
  /\ UNCHANGED <<exit, mutex, owner, queue, lost, accepted, calls>>
-----------------------------------------------------------------------------
(* ~DispatchQueue: flag and signal, neither under the mutex.               *)
SetExit ==
  /\ owner = "alive"
  /\ owner' = "notify"
  /\ exit' = "true"
  /\ UNCHANGED <<mutex, worker, data, calls>>

(* Deviation: the destructor raises the flag and signals nobody.           *)
NotifyNobody ==
  /\ owner = "notify"
  /\ owner' = "join"
  /\ UNCHANGED <<exit, mutex, worker, data, calls>>

NotifyAll ==
  /\ owner = "notify"
  /\ owner' = "join"
  /\ WakeWorker
  /\ UNCHANGED <<exit, mutex, data, calls>>

(* Deviation: the thread is not joined.                                    *)
JoinNot ==
  /\ owner = "join"
  /\ owner' = "count"
  /\ UNCHANGED <<exit, mutex, worker, data, calls>>

Join ==
  /\ owner = "join"
  /\ worker = "exited"
  /\ owner' = "count"
  /\ UNCHANGED <<exit, mutex, worker, data, calls>>

CountLost ==
  /\ owner = "count"
  /\ mutex = "free"
  /\ owner' = "counted"
  /\ lost' = Len(queue)
  /\ UNCHANGED <<exit, mutex, worker, queue, inHand, accepted, delivered, calls>>

(* The members are destroyed; nothing of the object may be used any more.  *)
Destroy ==
  /\ owner = "counted"
  /\ owner' = "destroyed"
  /\ UNCHANGED <<exit, mutex, worker, data, calls>>
-----------------------------------------------------------------------------
WorkerStep ==
  \/ Start \/ RelockAfterCallback \/ RelockAfterWait
  \/ LoopEnter \/ LoopLeave
  \/ PredTrue \/ PredFalse \/ Block
  \/ TakeMessage \/ SkipMessage \/ CallbackReturn

Destructor == NotifyAll \/ Join \/ CountLost \/ Destroy

Next ==
  \/ InitExit \/ SetExit \/ Destructor
  \/ WorkerStep \/ SpuriousWakeup
  \/ \E c \in Callers :
       \/ Push(c) \/ NotifyOne(c)
       \/ \E m \in Messages : OnMqttMessageAccept(c, m) \/ OnMqttMessageDrop(c, m)

Spec == Init /\ [][Next]_vars

(* The operating system runs every thread that can run, and the user's     *)
(* callback returns.  Whether anybody calls OnMqttMessage or destroys the  *)
(* queue is up to the environment; a spurious wake-up is never owed.       *)
Fairness ==
  /\ WF_vars(InitExit)
  /\ WF_vars(WorkerStep)
  /\ WF_vars(Destructor)
  /\ \A c \in Callers : WF_vars(Push(c)) /\ WF_vars(NotifyOne(c))

FairSpec == Spec /\ Fairness
-----------------------------------------------------------------------------
Seqs == Seq(Messages)

(* Every variable stays in its range; in particular the queue and the      *)
(* history sequences only ever hold messages, never an empty slot.         *)
TypeOK ==
  /\ exit \in {"uninit", "false", "true"}
  /\ queue \in Seqs
  /\ mutex \in {"free", "worker"}
  /\ worker \in WorkerPc
  /\ inHand \in Seqs /\ Len(inHand) <= 1
  /\ caller \in [Callers -> CallerPc]
  /\ callMsg \in [Callers -> Messages \cup {NoMessage}]
  /\ \A c \in Callers : caller[c] = "pushing" <=> callMsg[c] # NoMessage
  /\ owner \in OwnerPc
  /\ lost \in Nat
  /\ offered \subseteq Messages
  /\ accepted \in Seqs
  /\ delivered \in Seqs

(* FIFO, exactly once: what has been handed to the user, then what the     *)
(* worker has in hand, then what is queued is the order of the pushes of   *)
(* all library threads, with nothing missing, doubled or overtaken,        *)
(* whatever the shutdown interrupts.                                       *)
FifoOrder == accepted = delivered \o inHand \o queue

(* No lost wake-up on the producer side: when the worker sleeps although a *)
(* message is queued, some call has pushed and is still to signal          *)
(* (DispatchQueue.cpp:55-57 signals after the mutex is released).          *)
NoSleepOnWork ==
  worker = "asleep" /\ queue # <<>> => \E c \in Callers : caller[c] = "notifying"

(* The destructor neither counts nor frees anything while the worker can   *)
(* still touch the queue or run the user's callback (lines 37-46).         *)
WorkerGoneBeforeCount ==
  owner \in {"count", "counted", "destroyed"} =>
    worker = "exited" /\ inHand = <<>> /\ mutex = "free"

(* The "Lost N MQTT messages" warning (line 44) accounts for every message *)
(* accepted and not delivered, but for calls that passed the test of the   *)
(* flag before the shutdown and push after the count: at most one per      *)
(* library thread.                                                         *)
UnreportedLossBounded ==
  owner = "destroyed" =>
    /\ lost <= Len(queue)
    /\ Len(accepted) - Len(delivered) <= lost + Cardinality(Callers)

(* A destructor that raises the flag while the worker is not between       *)
(* evaluating the wait predicate and falling asleep always runs to its     *)
(* end: from the wait, from the callback, from any other point, and with   *)
(* any number of library threads still pushing.                            *)
ShutdownOutsideWindow ==
  (owner = "notify" /\ worker # "block") ~> (owner = "destroyed")

(* What the warning of line 44 takes for granted: a shutdown gets to the   *)
(* point where it reports the messages it lost.                            *)
ShutdownReports == (owner = "notify") ~> (owner \in {"counted", "destroyed"})

(* IDispatchQueue.h:34-35, "IDispatch queue will hand them over in the     *)
(* same way": a message the queue took reaches the user unless the queue   *)
(* is shut down.                                                           *)
TakenIsHandedOver ==
  \A m \in Messages :
    (\E i \in DOMAIN queue : queue[i] = m)
      ~> (owner # "alive" \/ \E i \in DOMAIN delivered : delivered[i] = m)

(* The worker, mutex and condition variable implement the promise of       *)
(* FifoDelivery.                                                           *)
Phase ==
  IF owner \in {"constructing", "alive"} THEN "open"
  ELSE IF owner \in {"notify", "join", "count"} THEN "closing"
  ELSE "reported"

Fifo == INSTANCE FifoDelivery
          WITH phase <- Phase, call <- callMsg, pending <- queue, handing <- inHand

KeepsPromise == Fifo!Spec
=============================================================================
