------------------------- MODULE DispatchQueueProofs ------------------------
(***************************************************************************)
(* The safety of the dispatch queue for any number of library threads and  *)
(* messages and for any garbage the uninitialised flag may hold.           *)
(***************************************************************************)
EXTENDS DispatchQueue, SequenceTheorems, FiniteSetTheorems, TLAPS

(* The worker holds the mutex exactly at the points of WorkerHolding.      *)
LockInv == mutex = "worker" <=> worker \in WorkerHolding

(* A message is in hand exactly during the callback.                       *)
InHandInv == worker # "callback" => inHand = <<>>

(* The flag follows the owner's progress.                                  *)
ExitInv ==
  /\ exit = "uninit" <=> owner = "constructing"
  /\ exit = "false" <=> owner = "alive"

(* The decision to sleep is only taken, and kept, with an empty queue.     *)
SleepInv == (worker = "block" => queue = <<>>) /\ NoSleepOnWork

Pushing == {c \in Callers : caller[c] = "pushing"}

(* After the count no call can begin to push any more: each push that      *)
(* lengthens the queue uses up one of the calls still pushing.             *)
LossInv ==
  owner \in {"counted", "destroyed"} =>
    /\ lost <= Len(queue)
    /\ Len(queue) + Cardinality(Pushing) <= lost + Cardinality(Callers)

IInv ==
  /\ TypeOK /\ LockInv /\ InHandInv /\ ExitInv /\ FifoOrder /\ SleepInv
  /\ WorkerGoneBeforeCount /\ LossInv
-----------------------------------------------------------------------------
(* IInv, TypeOK and the named facts above together, is inductive: it holds *)
(* when the constructor has started the worker ...                         *)
THEOREM InitIInv == Init => IInv
<1> SUFFICES ASSUME Init PROVE IInv
  OBVIOUS
<1>1. TypeOK
  BY DispatchAssumption, EmptySeq DEF Init, TypeOK, Seqs, WorkerPc, CallerPc, OwnerPc
<1>2. LockInv /\ InHandInv /\ ExitInv /\ SleepInv
  BY DEF Init, LockInv, WorkerHolding, InHandInv, ExitInv, SleepInv, NoSleepOnWork
<1>3. FifoOrder
  BY DEF Init, FifoOrder
<1>4. WorkerGoneBeforeCount /\ LossInv
  BY DEF Init, WorkerGoneBeforeCount, LossInv
<1> QED
  BY <1>1, <1>2, <1>3, <1>4 DEF IInv

(* Types: only the steps that build a sequence need more than a look.      *)
LEMMA TypeStep == ASSUME TypeOK, Next PROVE TypeOK'
<1> USE DispatchAssumption DEF TypeOK, Seqs, WorkerPc, WorkerHolding, CallerPc, OwnerPc,
        sync, data, calls
<1>1. CASE InitExit
  BY <1>1 DEF InitExit
<1>2. CASE SetExit
  BY <1>2 DEF SetExit
<1>3. CASE Destructor
  <2>1. CASE NotifyAll
    BY <2>1 DEF NotifyAll, WakeWorker
  <2>2. CASE Join
    BY <2>2 DEF Join
  <2>3. CASE CountLost
    BY <2>3, LenProperties DEF CountLost
  <2>4. CASE Destroy
    BY <2>4 DEF Destroy
  <2> QED
    BY <1>3, <2>1, <2>2, <2>3, <2>4 DEF Destructor
<1>4. CASE WorkerStep
  <2>1. CASE Start \/ RelockAfterCallback \/ RelockAfterWait
    BY <2>1 DEF Start, RelockAfterCallback, RelockAfterWait, WorkerLock
  <2>2. CASE LoopEnter \/ LoopLeave
    BY <2>2 DEF LoopEnter, LoopLeave
  <2>3. CASE PredTrue \/ PredFalse \/ Block
    BY <2>3 DEF PredTrue, PredFalse, Block
  <2>4. CASE TakeMessage
    <3>1. Head(queue) \in Messages /\ Tail(queue) \in Seq(Messages)
      BY <2>4, HeadTailProperties DEF TakeMessage
    <3>2. inHand' \in Seq(Messages) /\ Len(inHand') <= 1
      BY <2>4, <3>1 DEF TakeMessage
    <3> QED
      BY <2>4, <3>1, <3>2 DEF TakeMessage
  <2>5. CASE SkipMessage
    BY <2>5 DEF SkipMessage
  <2>6. CASE CallbackReturn
    <3>1. delivered \o inHand \in Seq(Messages)
      BY ConcatProperties
    <3>2. inHand' \in Seq(Messages) /\ Len(inHand') <= 1
      BY <2>6, EmptySeq DEF CallbackReturn
    <3> QED
      BY <2>6, <3>1, <3>2 DEF CallbackReturn
  <2> QED
    BY <1>4, <2>1, <2>2, <2>3, <2>4, <2>5, <2>6 DEF WorkerStep
<1>5. CASE SpuriousWakeup
  BY <1>5 DEF SpuriousWakeup
<1>6. ASSUME NEW c \in Callers, Push(c) PROVE TypeOK'
  <2>1. callMsg[c] \in Messages
    BY <1>6 DEF Push
  <2>2. Append(queue, callMsg[c]) \in Seq(Messages) /\ Append(accepted, callMsg[c]) \in Seq(Messages)
    BY <2>1, AppendProperties
  <2> QED
    BY <1>6, <2>2 DEF Push
<1>7. ASSUME NEW c \in Callers, NotifyOne(c) PROVE TypeOK'
  BY <1>7 DEF NotifyOne, WakeWorker
<1>8. ASSUME NEW c \in Callers, NEW m \in Messages,
             OnMqttMessageAccept(c, m) \/ OnMqttMessageDrop(c, m) PROVE TypeOK'
  BY <1>8 DEF OnMqttMessageAccept, OnMqttMessageDrop, MayCall
<1> QED
  BY <1>1, <1>2, <1>3, <1>4, <1>5, <1>6, <1>7, <1>8 DEF Next

(* Where the threads are: none of these facts depends on the data.         *)
LEMMA ControlStep ==
  ASSUME TypeOK, LockInv, InHandInv, ExitInv, WorkerGoneBeforeCount, Next
  PROVE  LockInv' /\ InHandInv' /\ ExitInv' /\ WorkerGoneBeforeCount'
<1> USE DEF TypeOK, LockInv, InHandInv, ExitInv, WorkerGoneBeforeCount, WorkerPc,
        WorkerHolding, OwnerPc, ExitReads, sync, data, calls
<1>1. CASE InitExit
  BY <1>1 DEF InitExit
<1>2. CASE SetExit
  BY <1>2 DEF SetExit
<1>3. CASE Destructor
  BY <1>3 DEF Destructor, NotifyAll, WakeWorker, Join, CountLost, Destroy
<1>4. CASE WorkerStep
  <2>1. CASE Start \/ RelockAfterCallback \/ RelockAfterWait
    BY <2>1 DEF Start, RelockAfterCallback, RelockAfterWait, WorkerLock
  <2>2. CASE LoopEnter \/ LoopLeave
    BY <2>2 DEF LoopEnter, LoopLeave
  <2>3. CASE PredTrue \/ PredFalse \/ Block
    BY <2>3 DEF PredTrue, PredFalse, Block
  <2>4. CASE TakeMessage \/ SkipMessage \/ CallbackReturn
    BY <2>4 DEF TakeMessage, SkipMessage, CallbackReturn
  <2> QED
    BY <1>4, <2>1, <2>2, <2>3, <2>4 DEF WorkerStep
<1>5. CASE SpuriousWakeup
  BY <1>5 DEF SpuriousWakeup
<1>6. ASSUME NEW c \in Callers, Push(c) \/ NotifyOne(c)
      PROVE  LockInv' /\ InHandInv' /\ ExitInv' /\ WorkerGoneBeforeCount'
  BY <1>6 DEF Push, NotifyOne, WakeWorker
<1>7. ASSUME NEW c \in Callers, NEW m \in Messages,
             OnMqttMessageAccept(c, m) \/ OnMqttMessageDrop(c, m)
      PROVE  LockInv' /\ InHandInv' /\ ExitInv' /\ WorkerGoneBeforeCount'
  BY <1>7 DEF OnMqttMessageAccept, OnMqttMessageDrop, MayCall
<1> QED
  BY <1>1, <1>2, <1>3, <1>4, <1>5, <1>6, <1>7 DEF Next

(* The order of the pushes is kept by the three steps that move a message. *)
LEMMA FifoStep ==
  ASSUME TypeOK, LockInv, InHandInv, FifoOrder, Next
  PROVE  FifoOrder'
<1> USE DEF TypeOK, Seqs, FifoOrder, sync, data, calls
<1>0. delivered \o inHand \in Seq(Messages)
  BY ConcatProperties
<1>1. ASSUME NEW c \in Callers, Push(c) PROVE FifoOrder'
  <2>1. callMsg[c] \in Messages
    BY <1>1, DispatchAssumption DEF Push
  <2>2. Append((delivered \o inHand) \o queue, callMsg[c])
          = (delivered \o inHand) \o Append(queue, callMsg[c])
    <3>1. <<callMsg[c]>> \in Seq(Messages)
      BY <2>1
    <3>2. ((delivered \o inHand) \o queue) \o <<callMsg[c]>>
            = (delivered \o inHand) \o (queue \o <<callMsg[c]>>)
      BY <1>0, <3>1, ConcatAssociative
    <3>3. (delivered \o inHand) \o queue \in Seq(Messages)
      BY <1>0, ConcatProperties
    <3> QED
      BY <2>1, <3>2, <3>3, AppendIsConcat
  <2> QED
    BY <1>1, <2>2 DEF Push
<1>2. CASE TakeMessage
  <2>1. inHand = <<>>
    BY <1>2 DEF TakeMessage, InHandInv
  <2>2. queue = <<Head(queue)>> \o Tail(queue)
    BY <1>2, HeadTailProperties, SubSeqFull, ConcatProperties, SeqEqual DEF TakeMessage
  <2>3. <<Head(queue)>> \in Seq(Messages) /\ Tail(queue) \in Seq(Messages)
    BY <1>2, HeadTailProperties DEF TakeMessage
  <2>4. delivered \o queue = (delivered \o <<Head(queue)>>) \o Tail(queue)
    <3>1. delivered \o (<<Head(queue)>> \o Tail(queue))
            = (delivered \o <<Head(queue)>>) \o Tail(queue)
      BY <2>3, ConcatAssociative
    <3> QED
      BY <2>2, <3>1, Zenon
  <2> QED
    BY <1>2, <2>1, <2>4, ConcatEmptySeq DEF TakeMessage
<1>3. CASE CallbackReturn
  BY <1>0, <1>3, ConcatEmptySeq DEF CallbackReturn
<1>4. ASSUME UNCHANGED <<queue, inHand, accepted, delivered>> PROVE FifoOrder'
  BY <1>4
<1>5. CASE InitExit \/ SetExit \/ SpuriousWakeup
  BY <1>4, <1>5 DEF InitExit, SetExit, SpuriousWakeup
<1>6. CASE Destructor
  BY <1>4, <1>6 DEF Destructor, NotifyAll, Join, CountLost, Destroy
<1>7. CASE Start \/ RelockAfterCallback \/ RelockAfterWait \/ LoopEnter \/ LoopLeave
           \/ PredTrue \/ PredFalse \/ Block \/ SkipMessage
  BY <1>4, <1>7 DEF Start, RelockAfterCallback, RelockAfterWait, WorkerLock, LoopEnter,
     LoopLeave, PredTrue, PredFalse, Block, SkipMessage
<1>8. ASSUME NEW c \in Callers, NotifyOne(c) PROVE FifoOrder'
  BY <1>4, <1>8 DEF NotifyOne
<1>9. ASSUME NEW c \in Callers, NEW m \in Messages,
             OnMqttMessageAccept(c, m) \/ OnMqttMessageDrop(c, m) PROVE FifoOrder'
  BY <1>4, <1>9 DEF OnMqttMessageAccept, OnMqttMessageDrop, MayCall
<1> QED
  BY <1>1, <1>2, <1>3, <1>5, <1>6, <1>7, <1>8, <1>9 DEF Next, WorkerStep

(* A queue that fills while the worker sleeps was filled by a call that    *)
(* still has to signal, and a signal finds the sleeping worker.            *)
LEMMA SleepStep ==
  ASSUME TypeOK, LockInv, SleepInv, Next
  PROVE  SleepInv'
<1> USE DEF TypeOK, LockInv, SleepInv, NoSleepOnWork, WorkerHolding, sync, data, calls
<1>1. ASSUME NEW c \in Callers, Push(c) PROVE SleepInv'
  BY <1>1 DEF Push
<1>2. ASSUME NEW c \in Callers, NotifyOne(c) PROVE SleepInv'
  BY <1>2 DEF NotifyOne, WakeWorker
<1>3. ASSUME NEW c \in Callers, NEW m \in Messages,
             OnMqttMessageAccept(c, m) \/ OnMqttMessageDrop(c, m) PROVE SleepInv'
  BY <1>3 DEF OnMqttMessageAccept, OnMqttMessageDrop, MayCall
<1>4. CASE InitExit \/ SetExit \/ SpuriousWakeup \/ Destructor
  BY <1>4 DEF InitExit, SetExit, SpuriousWakeup, Destructor, NotifyAll, WakeWorker, Join,
     CountLost, Destroy
<1>5. CASE WorkerStep
  <2>1. CASE Start \/ RelockAfterCallback \/ RelockAfterWait \/ LoopEnter \/ LoopLeave
    BY <2>1 DEF Start, RelockAfterCallback, RelockAfterWait, WorkerLock, LoopEnter, LoopLeave
  <2>2. CASE PredTrue \/ PredFalse \/ Block
    BY <2>2 DEF PredTrue, PredFalse, Block
  <2>3. CASE TakeMessage \/ SkipMessage \/ CallbackReturn
    BY <2>3 DEF TakeMessage, SkipMessage, CallbackReturn
  <2> QED
    BY <1>5, <2>1, <2>2, <2>3 DEF WorkerStep
<1> QED
  BY <1>1, <1>2, <1>3, <1>4, <1>5 DEF Next

(* After the count each late push is paid for by a call that stops         *)
(* pushing, and no call starts to push.                                    *)
LEMMA LossStep ==
  ASSUME TypeOK, ExitInv, WorkerGoneBeforeCount, LossInv, Next
  PROVE  LossInv'
<1> USE DEF TypeOK, Seqs, CallerPc, OwnerPc, sync, data, calls
<1>0. IsFiniteSet(Pushing) /\ Cardinality(Pushing) \in Nat
      /\ Cardinality(Pushing) <= Cardinality(Callers) /\ Cardinality(Callers) \in Nat
  BY DispatchAssumption, FS_Subset, FS_CardinalityType DEF Pushing
<1>1. ASSUME NEW c \in Callers, Push(c) PROVE LossInv'
  <2>1. Pushing' = Pushing \ {c} /\ c \in Pushing
    BY <1>1 DEF Push, Pushing
  <2>2. Cardinality(Pushing') = Cardinality(Pushing) - 1
    BY <1>0, <2>1, FS_RemoveElement
  <2>3. callMsg[c] \in Messages
    BY <1>1, DispatchAssumption DEF Push
  <2>4. Len(queue') = Len(queue) + 1
    BY <1>1, <2>3, AppendProperties DEF Push
  <2> QED
    BY <1>0, <1>1, <2>2, <2>4, LenProperties DEF Push, LossInv
<1>2. ASSUME NEW c \in Callers, NotifyOne(c) PROVE LossInv'
  <2>1. Pushing' = Pushing
    BY <1>2 DEF NotifyOne, Pushing
  <2> QED
    BY <1>2, <2>1 DEF NotifyOne, LossInv
<1>3. ASSUME NEW c \in Callers, NEW m \in Messages, OnMqttMessageAccept(c, m) PROVE LossInv'
  BY <1>3 DEF OnMqttMessageAccept, MayCall, ExitReads, ExitInv, LossInv
<1>4. ASSUME NEW c \in Callers, NEW m \in Messages, OnMqttMessageDrop(c, m) PROVE LossInv'
  BY <1>4 DEF OnMqttMessageDrop, MayCall, LossInv, Pushing
<1>5. CASE CountLost
  <2>1. Pushing' = Pushing
    BY <1>5 DEF CountLost, Pushing
  <2> QED
    BY <1>0, <1>5, <2>1, LenProperties DEF CountLost, LossInv
<1>6. CASE Destroy \/ InitExit \/ SetExit \/ NotifyAll \/ Join \/ SpuriousWakeup
  BY <1>6 DEF Destroy, InitExit, SetExit, NotifyAll, Join, SpuriousWakeup, LossInv, Pushing
<1>7. CASE WorkerStep
  <2>1. worker # "exited"
    BY <1>7 DEF WorkerStep, Start, RelockAfterCallback, RelockAfterWait, WorkerLock, LoopEnter,
       LoopLeave, PredTrue, PredFalse, Block, TakeMessage, SkipMessage, CallbackReturn
  <2>2. owner' = owner
    BY <1>7 DEF WorkerStep, Start, RelockAfterCallback, RelockAfterWait, WorkerLock, LoopEnter,
       LoopLeave, PredTrue, PredFalse, Block, TakeMessage, SkipMessage, CallbackReturn
  <2> QED
    BY <2>1, <2>2 DEF WorkerGoneBeforeCount, LossInv
<1> QED
  BY <1>1, <1>2, <1>3, <1>4, <1>5, <1>6, <1>7 DEF Next, Destructor

(* ... and no step of the worker, a library thread or the owner breaks it, *)
(* so it holds throughout.                                                 *)
THEOREM NextIInv == IInv /\ [Next]_vars => IInv'
<1> SUFFICES ASSUME IInv, [Next]_vars PROVE IInv'
  OBVIOUS
<1>1. CASE Next
  BY <1>1, TypeStep, ControlStep, FifoStep, SleepStep, LossStep DEF IInv
<1>2. CASE UNCHANGED vars
  BY <1>2 DEF vars, IInv, TypeOK, LockInv, InHandInv, ExitInv, FifoOrder, SleepInv,
     NoSleepOnWork, WorkerGoneBeforeCount, LossInv, Pushing
<1> QED
  BY <1>1, <1>2

(* The inductive invariant holds in every behaviour of the queue.          *)
THEOREM Invariance == Spec => []IInv
<1>1. Init => IInv
  BY InitIInv
<1>2. IInv /\ [Next]_vars => IInv'
  BY NextIInv
<1> QED
  BY <1>1, <1>2, PTL DEF Spec

(* Every variable of the dispatch queue stays in its range.                *)
THEOREM TypeCorrect == Spec => []TypeOK
<1>1. IInv => TypeOK
  BY DEF IInv
<1> QED
  BY <1>1, Invariance, PTL

(* First in, first out, nothing lost or doubled on the way to the user.    *)
THEOREM FirstInFirstOut == Spec => []FifoOrder
<1>1. IInv => FifoOrder
  BY DEF IInv
<1> QED
  BY <1>1, Invariance, PTL

(* The worker does not sleep on a queued message without a signal to come. *)
THEOREM NoLostWakeup == Spec => []NoSleepOnWork
<1>1. IInv => NoSleepOnWork
  BY DEF IInv, SleepInv
<1> QED
  BY <1>1, Invariance, PTL

(* The destructor counts and frees only after the worker has gone.         *)
THEOREM WorkerGone == Spec => []WorkerGoneBeforeCount
<1>1. IInv => WorkerGoneBeforeCount
  BY DEF IInv
<1> QED
  BY <1>1, Invariance, PTL

(* The reported loss is short of the real one by at most one message per   *)
(* library thread.                                                         *)
THEOREM LossBounded == Spec => []UnreportedLossBounded
<1>1. IInv => UnreportedLossBounded
  <2> SUFFICES ASSUME IInv, owner = "destroyed"
               PROVE  /\ lost <= Len(queue)
                      /\ Len(accepted) - Len(delivered) <= lost + Cardinality(Callers)
    BY DEF UnreportedLossBounded
  <2>1. inHand = <<>> /\ accepted = (delivered \o inHand) \o queue
    BY DEF IInv, WorkerGoneBeforeCount, FifoOrder
  <2>2. queue \in Seq(Messages) /\ delivered \in Seq(Messages) /\ lost \in Nat
    BY DEF IInv, TypeOK, Seqs
  <2>3. Len(accepted) = Len(delivered) + Len(queue)
    BY <2>1, <2>2, ConcatEmptySeq, ConcatProperties
  <2>4. Cardinality(Pushing) \in Nat /\ Cardinality(Callers) \in Nat
    BY DispatchAssumption, FS_Subset, FS_CardinalityType DEF Pushing
  <2>5. Len(queue) \in Nat /\ Len(delivered) \in Nat
    BY <2>2, LenProperties
  <2> QED
    BY <2>2, <2>3, <2>4, <2>5 DEF IInv, LossInv
<1> QED
  BY <1>1, Invariance, PTL
-----------------------------------------------------------------------------
(* Each step of the threads is a step of FifoDelivery, or leaves what the  *)
(* promise talks about alone.                                              *)
LEMMA FifoSimulation ==
  ASSUME IInv, Next
  PROVE  Fifo!Next \/ UNCHANGED Fifo!vars
<1> USE DEF sync, data, calls
<1>1. ASSUME NEW c \in Callers, NEW m \in Messages, OnMqttMessageAccept(c, m)
      PROVE  Fifo!Begin(c, m)
  BY <1>1 DEF OnMqttMessageAccept, MayCall, ExitReads, Fifo!Begin, Phase, IInv, ExitInv,
     TypeOK
<1>2. ASSUME NEW c \in Callers, Push(c) PROVE Fifo!Append1(c)
  BY <1>2 DEF Push, Fifo!Append1, Phase, IInv, TypeOK
<1>3. CASE TakeMessage
  <2>1. Fifo!HandOver
    BY <1>3 DEF TakeMessage, ExitReads, Fifo!HandOver, Phase, IInv, ExitInv, InHandInv, TypeOK
  <2> QED
    BY <2>1 DEF Fifo!Next
<1>4. CASE CallbackReturn
  <2>1. CASE inHand = <<>>
    BY <1>4, <2>1, ConcatEmptySeq
    DEF CallbackReturn, IInv, TypeOK, Seqs, Phase, Fifo!vars
  <2>2. CASE inHand # <<>>
    BY <1>4, <2>2 DEF CallbackReturn, Fifo!Return, Fifo!Next, Phase
  <2> QED
    BY <2>1, <2>2
<1>5. CASE SetExit
  BY <1>5 DEF SetExit, Fifo!Close, Fifo!Next, Phase
<1>6. CASE CountLost
  BY <1>6 DEF CountLost, Fifo!Report, Fifo!Next, Phase, IInv, WorkerGoneBeforeCount
<1>7. CASE InitExit \/ NotifyAll \/ Join \/ Destroy
  BY <1>7 DEF InitExit, NotifyAll, WakeWorker, Join, Destroy, Phase, Fifo!vars
<1>8. CASE \/ SpuriousWakeup \/ Start \/ RelockAfterCallback \/ RelockAfterWait
           \/ LoopEnter \/ LoopLeave \/ PredTrue \/ PredFalse \/ Block \/ SkipMessage
  BY <1>8 DEF SpuriousWakeup, Start, RelockAfterCallback, RelockAfterWait, WorkerLock,
     LoopEnter, LoopLeave, PredTrue, PredFalse, Block, SkipMessage, Phase, Fifo!vars
<1>9. ASSUME NEW c \in Callers, NotifyOne(c) PROVE UNCHANGED Fifo!vars
  BY <1>9 DEF NotifyOne, Phase, Fifo!vars
<1>10. ASSUME NEW c \in Callers, NEW m \in Messages, OnMqttMessageDrop(c, m)
       PROVE  UNCHANGED Fifo!vars
  BY <1>10 DEF OnMqttMessageDrop, Phase, Fifo!vars
<1> QED
  BY <1>1, <1>2, <1>3, <1>4, <1>5, <1>6, <1>7, <1>8, <1>9, <1>10
  DEF Next, Destructor, WorkerStep, Fifo!Next

(* The safety part of the promise of IDispatchQueue: whatever the threads  *)
(* do is a behaviour of the plain FIFO.                                    *)
THEOREM KeepsPromiseSafely == Spec => Fifo!Safety
<1>1. Init => Fifo!Init
  BY DEF Init, Fifo!Init, Phase
<1>2. IInv /\ [Next]_vars => [Fifo!Next]_(Fifo!vars)
  BY FifoSimulation DEF vars, Fifo!vars, Phase
<1> QED
  BY <1>1, <1>2, Invariance, PTL DEF Spec, Fifo!Safety
=============================================================================
