------------------------ MODULE MosquittoClientProofs -----------------------
(***************************************************************************)
(* The safety of the client lifetime for any number of clients: the        *)
(* library is ready whenever a client uses it, IsConnected tells what the  *)
(* user was told, and the end of a connection is told before the client    *)
(* goes.                                                                   *)
(***************************************************************************)
EXTENDS MosquittoClient, FiniteSetTheorems, TLAPS

(* The clients the counter stands for: also those whose constructor threw. *)
Counted == {i \in Clients : life[i] \in Using \cup {"initialising", "initThrown", "thrown"}}

CounterInv == counter = Cardinality(Counted)

LockInv == \A i \in Clients : libMutex = i <=> life[i] \in {"initialising", "cleaning"}

(* Whoever holds libMutex is the only client counted, or the last gone.    *)
HolderInv ==
  \A i \in Clients : /\ life[i] = "initialising" => counter = 1
                     /\ life[i] = "cleaning" => counter = 0

(* Between critical sections the library is ready iff somebody is counted. *)
ReadyInv ==
  (\A i \in Clients : life[i] # "initThrown") /\ libMutex = NoClient =>
    (libReady <=> counter > 0)

LibraryInv == CounterInv /\ LockInv /\ HolderInv /\ ReadyInv

ThreadInv ==
  \A i \in Clients :
    thread[i] = "none" <=>
      life[i] \in {"none", "initialising", "initThrown", "thrown", "setup"}

(* The destructor gets past loop_stop when the thread has ended.           *)
JoinInv ==
  \A i \in Clients : life[i] \in {"joined", "unregistering", "cleaning", "gone"} =>
                       thread[i] = "ended"

(* FlagAgreesWithReports, with what the connection is during a callback    *)
(* and before the thread starts; the thread ends without a connection.     *)
FlagInv ==
  /\ FlagAgreesWithReports
  /\ \A i \in Clients :
       /\ thread[i] \in {"connectCb", "connectUser"} => link[i] = "up"
       /\ thread[i] \in {"none", "refusedUser", "disconnectCb", "disconnectUser", "ended"} =>
            link[i] # "up"
       /\ thread[i] = "none" => ~connected[i] /\ told[i] # "connected"

IInv == TypeOK /\ LibraryInv /\ ThreadInv /\ FlagInv /\ JoinInv
-----------------------------------------------------------------------------
(* IInv is inductive: it holds before the first client is constructed ...  *)
THEOREM InitIInv == Init => IInv
<1> SUFFICES ASSUME Init PROVE IInv
  OBVIOUS
<1>1. TypeOK
  BY DEF Init, TypeOK, Life, Using, Link, Thread, Told
<1>2. LibraryInv
  <2>1. Counted = {}
    BY DEF Init, Counted, Using
  <2> QED
    BY <2>1, FS_EmptySet, ClientAssumption
    DEF Init, LibraryInv, CounterInv, LockInv, HolderInv, ReadyInv
<1>3. ThreadInv /\ FlagInv /\ JoinInv
  BY DEF Init, ThreadInv, FlagInv, FlagAgreesWithReports, JoinInv
<1> QED
  BY <1>1, <1>2, <1>3 DEF IInv

(* The counted clients, before and after a step of client i.               *)
LEMMA CountedFinite ==
  /\ IsFiniteSet(Counted)
  /\ Cardinality(Counted) \in Nat
  /\ Cardinality(Counted) = 0 <=> Counted = {}
  BY ClientAssumption, FS_Subset, FS_CardinalityType, FS_EmptySet DEF Counted

(* A client that registers is counted once more ...                        *)
LEMMA CountedAdd ==
  ASSUME TypeOK, NEW i \in Clients, NEW to \in Using \cup {"initialising"},
         life[i] = "none", life' = [life EXCEPT ![i] = to]
  PROVE  Cardinality(Counted') = Cardinality(Counted) + 1
<1>1. Counted' = Counted \cup {i} /\ i \notin Counted
  BY DEF Counted, Using, TypeOK
<1> QED
  BY <1>1, CountedFinite, FS_AddElement

(* ... and one that deregisters once less.                                 *)
LEMMA CountedRemove ==
  ASSUME TypeOK, NEW i \in Clients, NEW to \in {"cleaning", "gone"},
         life[i] = "unregistering", life' = [life EXCEPT ![i] = to]
  PROVE  Cardinality(Counted') = Cardinality(Counted) - 1
<1>1. Counted' = Counted \ {i} /\ i \in Counted
  BY DEF Counted, Using, TypeOK
<1> QED
  BY <1>1, CountedFinite, FS_RemoveElement

(* A step of a client that stays counted, or stays uncounted.              *)
LEMMA CountedSame ==
  ASSUME TypeOK, NEW i \in Clients, NEW from, NEW to, Live(i, from, to),
         \/ {from, to} \subseteq Using \cup {"initialising", "initThrown", "thrown"}
         \/ from = "cleaning" /\ to = "gone"
  PROVE  Counted' = Counted
  BY DEF Counted, Live, Using, TypeOK

-----------------------------------------------------------------------------
(* Types: the counter is lowered only by a client that it counts.          *)
LEMMA TypeStep == ASSUME TypeOK, CounterInv, Next PROVE TypeOK'
<1> USE ClientAssumption DEF TypeOK, Life, Using, Link, Thread, Told, library, network, Live
<1> PICK i \in Clients :
      \/ Constructor(i) \/ ConnectAsync(i) \/ DisconnectAsync(i)
      \/ LinkUp(i) \/ LinkRefused(i) \/ LinkLost(i) \/ LinkClosed(i)
      \/ ThreadEnds(i) \/ Callback(i) \/ DestructorStart(i) \/ DestructorRest(i)
  BY DEF Next
<1>1. CASE Constructor(i)
  <2>1. CASE RegisterFirst(i)
    BY <2>1 DEF RegisterFirst
  <2>2. CASE RegisterNext(i)
    BY <2>2 DEF RegisterNext
  <2>3. CASE LibInit(i)
    BY <2>3 DEF LibInit
  <2>4. CASE LibInitThrows(i)
    BY <2>4 DEF LibInitThrows
  <2>5. CASE SetupThrows(i)
    BY <2>5 DEF SetupThrows
  <2>6. CASE SetupDone(i)
    BY <2>6 DEF SetupDone
  <2> QED
    BY <1>1, <2>1, <2>2, <2>3, <2>4, <2>5, <2>6 DEF Constructor
<1>2. CASE ConnectAsync(i) \/ DisconnectAsync(i) \/ ThreadEnds(i)
  <2>1. CASE ConnectAsync(i)
    <3>1. requested' \in [Clients -> BOOLEAN]
      <4>1. PICK asked \in {requested[i], FALSE} : requested' = [requested EXCEPT ![i] = asked]
        BY <2>1 DEF ConnectAsync
      <4>2. asked \in BOOLEAN
        OBVIOUS
      <4> QED
        BY <4>1, <4>2
    <3> QED
      BY <2>1, <3>1 DEF ConnectAsync
  <2>2. CASE DisconnectAsync(i) \/ ThreadEnds(i)
    BY <2>2 DEF DisconnectAsync, ThreadEnds
  <2> QED
    BY <1>2, <2>1, <2>2
<1>3. CASE LinkUp(i) \/ LinkRefused(i) \/ LinkLost(i) \/ LinkClosed(i)
  BY <1>3 DEF LinkUp, LinkRefused, LinkLost, LinkClosed, Report
<1>4. CASE Callback(i)
  BY <1>4 DEF Callback, OnConnectFlag, OnDisconnectFlag, SetFlag, OnConnectUser, OnRefusedUser,
     OnDisconnectUser, TellUser
<1>5. CASE DestructorStart(i)
  BY <1>5 DEF DestructorStart, DtorConnected, DtorNotConnected
<1>6. CASE DestructorRest(i)
  <2>1. CASE DtorDisconnect(i)
    BY <2>1 DEF DtorDisconnect
  <2>3. CASE LoopStop(i) \/ DestroyHandle(i)
    BY <2>3 DEF LoopStop, DestroyHandle
  <2>4. CASE UnregisterLast(i)
    BY <2>4 DEF UnregisterLast
  <2>5. CASE LibCleanup(i)
    BY <2>5 DEF LibCleanup
  <2>2. CASE Unregister(i)
    <3>1. i \in Counted
      BY <2>2 DEF Unregister, Counted
    <3>2. counter # 0
      BY <3>1, CountedFinite DEF CounterInv
    <3> QED
      BY <2>2, <3>2 DEF Unregister
  <2> QED
    BY <1>6, <2>1, <2>2, <2>3, <2>4, <2>5 DEF DestructorRest
<1> QED
  BY <1>1, <1>2, <1>3, <1>4, <1>5, <1>6

(* Only constructor and destructor steps touch the library, each of them   *)
(* either with libMutex held from before or within one critical section.   *)
LEMMA LibraryStep == ASSUME TypeOK, LibraryInv, Next PROVE LibraryInv'
<1> USE ClientAssumption DEF library, network
<1>0. TypeOK /\ CounterInv /\ LockInv /\ HolderInv /\ ReadyInv
  BY DEF LibraryInv
<1> PICK i \in Clients :
      \/ Constructor(i) \/ ConnectAsync(i) \/ DisconnectAsync(i)
      \/ LinkUp(i) \/ LinkRefused(i) \/ LinkLost(i) \/ LinkClosed(i)
      \/ ThreadEnds(i) \/ Callback(i) \/ DestructorStart(i) \/ DestructorRest(i)
  BY DEF Next
<1>1. ASSUME UNCHANGED <<counter, libMutex, libReady, life>> PROVE LibraryInv'
  BY <1>1 DEF LibraryInv, CounterInv, LockInv, HolderInv, ReadyInv, Counted
<1>2. ASSUME UNCHANGED <<counter, libMutex, libReady>>,
             NEW from \in Using, NEW to \in Using \cup {"thrown"}, Live(i, from, to)
      PROVE  LibraryInv'
  <2>1. Counted' = Counted
    BY <1>0, <1>2, CountedSame
  <2> QED
    BY <1>0, <1>2, <2>1
    DEF LibraryInv, CounterInv, LockInv, HolderInv, ReadyInv, Live, Using, TypeOK
<1>3. CASE RegisterFirst(i)
  <2>1. CounterInv'
    <3>1. Cardinality(Counted') = Cardinality(Counted) + 1
      BY <1>0, <1>3, CountedAdd DEF RegisterFirst, Live
    <3>2. counter' = counter + 1
      BY <1>3 DEF RegisterFirst
    <3> QED
      BY <1>0, <3>1, <3>2 DEF CounterInv
  <2>2. LockInv' /\ HolderInv' /\ ReadyInv'
    BY <1>0, <1>3 DEF RegisterFirst, Live, LockInv, HolderInv, ReadyInv, TypeOK
  <2> QED
    BY <2>1, <2>2 DEF LibraryInv
<1>4. CASE RegisterNext(i)
  <2>1. CounterInv'
    BY <1>0, <1>4, CountedAdd DEF RegisterNext, Live, CounterInv, Using
  <2>2. LockInv' /\ HolderInv'
    BY <1>0, <1>4 DEF RegisterNext, Live, LockInv, HolderInv, TypeOK
  <2>3. ReadyInv'
    BY <1>0, <1>4 DEF RegisterNext, Live, ReadyInv, TypeOK
  <2> QED
    BY <2>1, <2>2, <2>3 DEF LibraryInv
<1>5. CASE LibInit(i)
  <2>1. CounterInv'
    BY <1>0, <1>5, CountedSame DEF LibInit, CounterInv, Using
  <2>2. LockInv' /\ HolderInv'
    BY <1>0, <1>5 DEF LibInit, Live, LockInv, HolderInv, TypeOK
  <2>3. ReadyInv'
    BY <1>0, <1>5 DEF LibInit, Live, ReadyInv, HolderInv
  <2> QED
    BY <2>1, <2>2, <2>3 DEF LibraryInv
<1>6. CASE LibInitThrows(i)
  <2>1. CounterInv'
    BY <1>0, <1>6, CountedSame DEF LibInitThrows, CounterInv
  <2>2. LockInv' /\ HolderInv' /\ ReadyInv'
    BY <1>0, <1>6 DEF LibInitThrows, Live, LockInv, HolderInv, ReadyInv, TypeOK
  <2> QED
    BY <2>1, <2>2 DEF LibraryInv
<1>7. CASE UnregisterLast(i)
  <2>1. CounterInv'
    <3>1. Cardinality(Counted') = Cardinality(Counted) - 1
      BY <1>0, <1>7, CountedRemove DEF UnregisterLast, Live
    <3>2. counter' = counter - 1
      BY <1>7 DEF UnregisterLast
    <3> QED
      BY <1>0, <3>1, <3>2 DEF CounterInv
  <2>2. LockInv' /\ ReadyInv'
    BY <1>0, <1>7 DEF UnregisterLast, Live, LockInv, ReadyInv, TypeOK
  <2>3. HolderInv'
    BY <1>0, <1>7 DEF UnregisterLast, Live, LockInv, HolderInv, TypeOK
  <2> QED
    BY <2>1, <2>2, <2>3 DEF LibraryInv
<1>8. CASE Unregister(i)
  <2>1. CounterInv'
    BY <1>0, <1>8, CountedRemove DEF Unregister, Live, CounterInv
  <2>2. i \in Counted /\ counter # 0
    BY <1>0, <1>8, CountedFinite DEF Unregister, Live, Counted, Using, CounterInv
  <2>3. LockInv' /\ HolderInv'
    BY <1>0, <1>8 DEF Unregister, Live, LockInv, HolderInv, TypeOK
  <2>4. ReadyInv'
    BY <1>0, <1>8, <2>2 DEF Unregister, Live, ReadyInv, TypeOK
  <2> QED
    BY <2>1, <2>3, <2>4 DEF LibraryInv
<1>9. CASE LibCleanup(i)
  <2>1. CounterInv'
    BY <1>0, <1>9, CountedSame DEF LibCleanup, CounterInv
  <2>2. LockInv' /\ HolderInv' /\ ReadyInv'
    BY <1>0, <1>9 DEF LibCleanup, Live, LockInv, HolderInv, ReadyInv, TypeOK
  <2> QED
    BY <2>1, <2>2 DEF LibraryInv
<1>10. CASE SetupThrows(i) \/ SetupDone(i)
  BY <1>2, <1>10 DEF SetupThrows, SetupDone, Using
<1>11. CASE DtorConnected(i) \/ DtorNotConnected(i) \/ DtorDisconnect(i) \/ LoopStop(i)
            \/ DestroyHandle(i)
  BY <1>2, <1>11 DEF DtorConnected, DtorNotConnected, DtorDisconnect, LoopStop, DestroyHandle,
     Using
<1>12. CASE \/ ConnectAsync(i) \/ DisconnectAsync(i) \/ ThreadEnds(i)
            \/ LinkUp(i) \/ LinkRefused(i) \/ LinkLost(i) \/ LinkClosed(i)
  BY <1>1, <1>12 DEF ConnectAsync, DisconnectAsync, ThreadEnds, LinkUp, LinkRefused, LinkLost,
     LinkClosed, Report
<1>13. CASE Callback(i)
  BY <1>1, <1>13 DEF Callback, OnConnectFlag, OnDisconnectFlag, SetFlag, OnConnectUser,
     OnRefusedUser, OnDisconnectUser, TellUser
<1> QED
  BY <1>3, <1>4, <1>5, <1>6, <1>7, <1>8, <1>9, <1>10, <1>11, <1>12, <1>13
  DEF Constructor, DestructorStart, DestructorRest

(* The thread starts with the object, and ends for good.                   *)
LEMMA ThreadStep ==
  ASSUME TypeOK, ThreadInv, JoinInv, Next
  PROVE  ThreadInv' /\ JoinInv'
<1> USE DEF TypeOK, ThreadInv, JoinInv, library, network, Live
<1> PICK i \in Clients :
      \/ Constructor(i) \/ ConnectAsync(i) \/ DisconnectAsync(i)
      \/ LinkUp(i) \/ LinkRefused(i) \/ LinkLost(i) \/ LinkClosed(i)
      \/ ThreadEnds(i) \/ Callback(i) \/ DestructorStart(i) \/ DestructorRest(i)
  BY DEF Next
<1>1. CASE Constructor(i)
  <2>1. CASE SetupDone(i)
    BY <2>1 DEF SetupDone
  <2>2. CASE RegisterFirst(i) \/ RegisterNext(i)
    BY <2>2 DEF RegisterFirst, RegisterNext
  <2>3. CASE LibInit(i) \/ LibInitThrows(i) \/ SetupThrows(i)
    BY <2>3 DEF LibInit, LibInitThrows, SetupThrows
  <2> QED
    BY <1>1, <2>1, <2>2, <2>3 DEF Constructor
<1>2. CASE ConnectAsync(i) \/ DisconnectAsync(i)
  BY <1>2 DEF ConnectAsync, DisconnectAsync
<1>3. CASE ThreadEnds(i)
  BY <1>3 DEF ThreadEnds
<1>4. CASE LinkUp(i) \/ LinkRefused(i) \/ LinkLost(i) \/ LinkClosed(i)
  BY <1>4 DEF LinkUp, LinkRefused, LinkLost, LinkClosed, Report
<1>5. CASE Callback(i)
  <2>1. CASE OnConnectFlag(i) \/ OnDisconnectFlag(i)
    BY <2>1 DEF OnConnectFlag, OnDisconnectFlag, SetFlag
  <2>2. CASE OnConnectUser(i) \/ OnRefusedUser(i) \/ OnDisconnectUser(i)
    BY <2>2 DEF OnConnectUser, OnRefusedUser, OnDisconnectUser, TellUser
  <2> QED
    BY <1>5, <2>1, <2>2 DEF Callback
<1>6. CASE DestructorStart(i)
  BY <1>6 DEF DestructorStart, DtorConnected, DtorNotConnected
<1>7. CASE DestructorRest(i)
  <2>1. CASE DtorDisconnect(i)
    BY <2>1 DEF DtorDisconnect
  <2>2. CASE LoopStop(i) \/ DestroyHandle(i)
    BY <2>2 DEF LoopStop, DestroyHandle
  <2>3. CASE UnregisterLast(i) \/ Unregister(i) \/ LibCleanup(i)
    BY <2>3 DEF UnregisterLast, Unregister, LibCleanup
  <2> QED
    BY <1>7, <2>1, <2>2, <2>3 DEF DestructorRest
<1> QED
  BY <1>1, <1>2, <1>3, <1>4, <1>5, <1>6, <1>7

(* The flag, the connection and the reports move together: one callback at *)
(* a time separates them, and restores the agreement when it returns.      *)
LEMMA FlagStep == ASSUME TypeOK, FlagInv, ThreadInv, Next PROVE FlagInv'
<1> USE DEF TypeOK, FlagInv, FlagAgreesWithReports, library, network, Thread
<1> PICK i \in Clients :
      \/ Constructor(i) \/ ConnectAsync(i) \/ DisconnectAsync(i)
      \/ LinkUp(i) \/ LinkRefused(i) \/ LinkLost(i) \/ LinkClosed(i)
      \/ ThreadEnds(i) \/ Callback(i) \/ DestructorStart(i) \/ DestructorRest(i)
  BY DEF Next
<1>1. ASSUME UNCHANGED network PROVE FlagInv'
  BY <1>1
<1>2. CASE SetupDone(i)
  <2>1. thread[i] = "none"
    BY <1>2 DEF SetupDone, Live, ThreadInv
  <2> QED
    BY <1>2, <2>1 DEF SetupDone
<1>3. CASE ConnectAsync(i)
  BY <1>3 DEF ConnectAsync
<1>4. CASE ThreadEnds(i)
  BY <1>4 DEF ThreadEnds
<1>5. CASE LinkUp(i) \/ LinkRefused(i)
  BY <1>5 DEF LinkUp, LinkRefused, Report
<1>6. CASE LinkLost(i) \/ LinkClosed(i)
  BY <1>6 DEF LinkLost, LinkClosed, Report
<1>7. CASE OnConnectFlag(i) \/ OnDisconnectFlag(i)
  BY <1>7 DEF OnConnectFlag, OnDisconnectFlag, SetFlag
<1>8. CASE OnConnectUser(i)
  BY <1>8 DEF OnConnectUser, TellUser, Told
<1>9. CASE OnRefusedUser(i) \/ OnDisconnectUser(i)
  BY <1>9 DEF OnRefusedUser, OnDisconnectUser, TellUser, Told
<1>10. CASE \/ RegisterFirst(i) \/ RegisterNext(i) \/ LibInit(i) \/ LibInitThrows(i)
            \/ SetupThrows(i) \/ DisconnectAsync(i) \/ DestructorStart(i)
            \/ DestructorRest(i)
  BY <1>1, <1>10 DEF RegisterFirst, RegisterNext, LibInit, LibInitThrows, SetupThrows,
     DisconnectAsync, DestructorStart, DtorConnected, DtorNotConnected, DestructorRest,
     DtorDisconnect, LoopStop, DestroyHandle, UnregisterLast, Unregister, LibCleanup
<1> QED
  BY <1>2, <1>3, <1>4, <1>5, <1>6, <1>7, <1>8, <1>9, <1>10 DEF Constructor, Callback

(* ... and no constructor, callback or destructor step of any client       *)
(* breaks it.                                                              *)
THEOREM NextIInv == IInv /\ [Next]_vars => IInv'
<1> SUFFICES ASSUME IInv, [Next]_vars PROVE IInv'
  OBVIOUS
<1>1. CASE Next
  BY <1>1, TypeStep, LibraryStep, ThreadStep, FlagStep DEF IInv, LibraryInv
<1>2. CASE UNCHANGED vars
  <2>1. TypeOK' /\ ThreadInv' /\ JoinInv'
    BY <1>2 DEF vars, IInv, TypeOK, ThreadInv, JoinInv
  <2>2. LibraryInv'
    BY <1>2 DEF vars, IInv, LibraryInv, CounterInv, LockInv, HolderInv, ReadyInv, Counted
  <2>3. FlagInv'
    BY <1>2 DEF vars, IInv, FlagInv, FlagAgreesWithReports
  <2> QED
    BY <2>1, <2>2, <2>3 DEF IInv
<1> QED
  BY <1>1, <1>2

(* The inductive invariant holds however the clients' lifetimes overlap.   *)
THEOREM Invariance == Spec => []IInv
  BY InitIInv, NextIInv, PTL DEF Spec
-----------------------------------------------------------------------------
(* Every variable of the client lifetime stays in its range; the counter   *)
(* never goes below zero.                                                  *)
THEOREM TypeCorrect == Spec => []TypeOK
<1>1. IInv => TypeOK
  BY DEF IInv
<1> QED
  BY <1>1, Invariance, PTL

(* However many clients are constructed and destroyed at once, none uses   *)
(* the library before lib_init has succeeded or after lib_cleanup, unless  *)
(* an initialisation has failed.                                           *)
THEOREM LibraryIsReady == Spec => []LibraryReadyUnlessInitThrown
<1>1. IInv => LibraryReadyUnlessInitThrown
  <2> SUFFICES ASSUME IInv, \A j \in Clients : life[j] # "initThrown",
                      NEW i \in Clients, life[i] \in Using
               PROVE  libReady
    BY DEF LibraryReadyUnlessInitThrown, LibraryReady
  <2>1. i \in Counted /\ counter = Cardinality(Counted) /\ counter > 0
    <3>1. i \in Counted
      BY DEF Counted
    <3> QED
      BY <3>1, CountedFinite DEF IInv, LibraryInv, CounterInv
  <2>2. CASE libMutex = NoClient
    BY <2>1, <2>2 DEF IInv, LibraryInv, ReadyInv
  <2>3. ASSUME NEW j \in Clients, libMutex = j PROVE FALSE
    <3>1. life[j] \in {"initialising", "cleaning"}
      BY <2>3 DEF IInv, LibraryInv, LockInv
    <3>2. life[j] # "cleaning"
      BY <2>1 DEF IInv, LibraryInv, HolderInv
    <3>3. counter = 1 /\ j \in Counted
      BY <3>1, <3>2 DEF IInv, LibraryInv, HolderInv, Counted
    <3>4. \E x : Counted = {x}
      BY <2>1, <3>3, CountedFinite, FS_Singleton
    <3>5. i = j
      BY <2>1, <3>3, <3>4
    <3> QED
      BY <3>1, <3>5 DEF Using
  <2> QED
    BY <2>2, <2>3 DEF IInv, TypeOK
<1> QED
  BY <1>1, Invariance, PTL

(* When the last client has gone and no constructor ever threw, the        *)
(* library has been cleaned.                                               *)
THEOREM LibraryIsCleaned == Spec => []LibraryCleanedUnlessThrown
<1>1. IInv => LibraryCleanedUnlessThrown
  <2> SUFFICES ASSUME IInv, \A i \in Clients : life[i] \in {"none", "gone"}
               PROVE  ~libReady
    BY DEF LibraryCleanedUnlessThrown
  <2>1. Counted = {}
    BY DEF Counted, Using
  <2>2. counter = 0
    BY <2>1, FS_EmptySet DEF IInv, LibraryInv, CounterInv
  <2>3. libMutex = NoClient
    BY DEF IInv, LibraryInv, LockInv, TypeOK
  <2> QED
    BY <2>2, <2>3 DEF IInv, LibraryInv, ReadyInv
<1> QED
  BY <1>1, Invariance, PTL

(* IsConnected, the connection and the reports to the user agree.          *)
THEOREM FlagIsTrue == Spec => []FlagAgreesWithReports
<1>1. IInv => FlagAgreesWithReports
  BY DEF IInv, FlagInv
<1> QED
  BY <1>1, Invariance, PTL

(* MosquittoClient.cpp:172: the destructor does not let go of a client     *)
(* whose user believes it connected, however the connection changed while  *)
(* it decided.                                                             *)
THEOREM EndsAreTold == Spec => []EndIsTold
<1>1. IInv => EndIsTold
  BY DEF IInv, JoinInv, FlagInv, FlagAgreesWithReports, EndIsTold
<1> QED
  BY <1>1, Invariance, PTL
=============================================================================
