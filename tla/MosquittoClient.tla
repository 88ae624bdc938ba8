--------------------------- MODULE MosquittoClient --------------------------
(***************************************************************************)
(* The lifetime of the clients built on libmosquitto                       *)
(* (src/MqttClient/Mosquitto/MosquittoClient.cpp): construction, which     *)
(* initialises the library for the first of them, the connection as the    *)
(* network thread of each client sees and reports it, and destruction,     *)
(* which stops that thread and cleans the library after the last client.   *)
(*                                                                         *)
(* libmosquitto is external.  What the code relies on is modelled: one     *)
(* network thread per client runs all callbacks; it retries a lost or      *)
(* refused connection by itself; it ends once a disconnect was requested   *)
(* and the connection is down; mosquitto_loop_stop(_, false) waits for it. *)
(***************************************************************************)
EXTENDS Naturals, FiniteSets

CONSTANTS
  Clients,   (* the MosquittoClient objects; each is constructed at most once *)
  NoClient   (* nobody holds libMutex                                        *)

ASSUME ClientAssumption ==
  /\ IsFiniteSet(Clients)
  /\ NoClient \notin Clients

VARIABLES
  counter,    (* MosquittoClient::counter                                    *)
  libMutex,   (* MosquittoClient::libMutex: its holder, or NoClient          *)
  libReady,   (* libmosquitto is between lib_init and lib_cleanup            *)
  life,       (* how far the user's thread is with each client               *)
  connected,  (* the flag behind IsConnected                                 *)
  requested,  (* mosquitto_disconnect_v5 was called                          *)
  link,       (* the connection: not asked for, being tried, up              *)
  thread,     (* what the network thread of each client does                 *)
  told        (* the last OnConnectionStatusChanged the user got             *)

library == <<counter, libMutex, libReady>>
network == <<connected, link, thread, told>>
vars == <<counter, libMutex, libReady, life, connected, requested, link, thread, told>>

(* A constructed client, from its registration to its deregistration.      *)
Using == {"setup", "alive", "disconnecting", "joining", "joined", "unregistering"}
Life == Using \cup {"none", "initialising", "initThrown", "thrown", "cleaning", "gone"}
Link == {"new", "trying", "up"}
Thread == {"none", "idle", "connectCb", "connectUser", "refusedUser", "disconnectCb",
           "disconnectUser", "ended"}
Told == {"nothing", "connected", "refused", "disconnected"}

Init ==
  /\ counter = 0
  /\ libMutex = NoClient
  /\ libReady = FALSE
  /\ life = [i \in Clients |-> "none"]
  /\ connected = [i \in Clients |-> FALSE]
  /\ requested = [i \in Clients |-> FALSE]
  /\ link = [i \in Clients |-> "new"]
  /\ thread = [i \in Clients |-> "none"]
  /\ told = [i \in Clients |-> "nothing"]

Live(i, from, to) ==
  /\ life[i] = from
  /\ life' = [life EXCEPT ![i] = to]
-----------------------------------------------------------------------------
(* The constructor.  The first client keeps libMutex until the library is  *)
(* initialised; a later one finds the counter raised and goes on.          *)
RegisterFirst(i) ==
  /\ libMutex = NoClient
  /\ counter = 0
  /\ Live(i, "none", "initialising")
  /\ libMutex' = i
  /\ counter' = 1
  /\ UNCHANGED <<libReady, requested, network>>

(* Deviations: the client is not counted; the client does not wait for the *)
(* one that initialises the library.                                       *)
RegisterUncounted(i) ==
  /\ libMutex = NoClient
  /\ counter > 0
  /\ Live(i, "none", "setup")
  /\ UNCHANGED <<library, requested, network>>

RegisterUnlocked(i) ==
  /\ counter > 0
  /\ Live(i, "none", "setup")
  /\ counter' = counter + 1
  /\ UNCHANGED <<libMutex, libReady, requested, network>>

RegisterNext(i) ==
  /\ libMutex = NoClient
  /\ counter > 0
  /\ Live(i, "none", "setup")
  /\ counter' = counter + 1
  /\ UNCHANGED <<libMutex, libReady, requested, network>>

LibInit(i) ==
  /\ Live(i, "initialising", "setup")
  /\ libReady' = TRUE
  /\ libMutex' = NoClient
  /\ UNCHANGED <<counter, requested, network>>

(* The exception releases libMutex and leaves the counter as it is.        *)
LibInitThrows(i) ==
  /\ Live(i, "initialising", "initThrown")
  /\ libMutex' = NoClient
  /\ UNCHANGED <<counter, libReady, requested, network>>

(* Credentials, reconnect delay, protocol version, TLS, loop_start: any    *)
(* failure throws, no destructor runs, the counter stays.                  *)
SetupThrows(i) ==
  /\ Live(i, "setup", "thrown")
  /\ UNCHANGED <<library, requested, network>>

SetupDone(i) ==
  /\ Live(i, "setup", "alive")
  /\ thread' = [thread EXCEPT ![i] = "idle"]
  /\ UNCHANGED <<library, requested, connected, link, told>>
-----------------------------------------------------------------------------
(* The user's calls; a call that the library refuses changes nothing.  A   *)
(* new connect may make the library forget an earlier disconnect, or not.  *)
ConnectAsync(i) ==
  /\ life[i] = "alive"
  /\ link[i] # "up"
  /\ link' = [link EXCEPT ![i] = "trying"]
  /\ \E asked \in {requested[i], FALSE} : requested' = [requested EXCEPT ![i] = asked]
  /\ UNCHANGED <<library, life, connected, thread, told>>

DisconnectAsync(i) ==
  /\ life[i] = "alive"
  /\ requested' = [requested EXCEPT ![i] = TRUE]
  /\ UNCHANGED <<library, life, network>>
-----------------------------------------------------------------------------
(* The network thread.  What the connection does is up to the network and  *)
(* the broker; each change makes the thread run one callback.              *)
Report(i, from, to, linkFrom, linkTo) ==
  /\ thread[i] = from
  /\ link[i] = linkFrom
  /\ thread' = [thread EXCEPT ![i] = to]
  /\ link' = [link EXCEPT ![i] = linkTo]
  /\ UNCHANGED <<library, life, requested, connected, told>>

LinkUp(i) == ~requested[i] /\ Report(i, "idle", "connectCb", "trying", "up")
LinkRefused(i) == ~requested[i] /\ Report(i, "idle", "refusedUser", "trying", "trying")
LinkLost(i) == Report(i, "idle", "disconnectCb", "up", "trying")
LinkClosed(i) == requested[i] /\ Report(i, "idle", "disconnectCb", "up", "new")

ThreadEnds(i) ==
  /\ requested[i]
  /\ link[i] # "up"
  /\ thread[i] = "idle"
  /\ thread' = [thread EXCEPT ![i] = "ended"]
  /\ UNCHANGED <<library, life, requested, connected, link, told>>

(* onConnectCb and onDisconnectCb: first the flag ...                      *)
SetFlag(i, from, to, flag) ==
  /\ thread[i] = from
  /\ thread' = [thread EXCEPT ![i] = to]
  /\ connected' = [connected EXCEPT ![i] = flag]
  /\ UNCHANGED <<library, life, requested, link, told>>

OnConnectFlag(i) == SetFlag(i, "connectCb", "connectUser", TRUE)
(* Deviation: a lost connection leaves the flag up.                        *)
KeepFlag(i) == SetFlag(i, "disconnectCb", "disconnectUser", connected[i])
OnDisconnectFlag(i) == SetFlag(i, "disconnectCb", "disconnectUser", FALSE)

(* ... then the user's OnConnectionStatusChanged.  A refusal leaves the    *)
(* flag alone.                                                             *)
TellUser(i, from, status) ==
  /\ thread[i] = from
  /\ thread' = [thread EXCEPT ![i] = "idle"]
  /\ told' = [told EXCEPT ![i] = status]
  /\ UNCHANGED <<library, life, requested, link, connected>>

OnConnectUser(i) == TellUser(i, "connectUser", "connected")
OnRefusedUser(i) == TellUser(i, "refusedUser", "refused")
OnDisconnectUser(i) == TellUser(i, "disconnectUser", "disconnected")
-----------------------------------------------------------------------------
(* The destructor: disconnect only if connected, stop the thread, free the *)
(* handle, and with libMutex held deregister and clean the library if this *)
(* was the last client.                                                    *)
DtorConnected(i) ==
  /\ connected[i]
  /\ Live(i, "alive", "disconnecting")
  /\ UNCHANGED <<library, requested, network>>

DtorNotConnected(i) ==
  /\ ~connected[i]
  /\ Live(i, "alive", "joining")
  /\ UNCHANGED <<library, requested, network>>

(* Deviation: the thread is stopped without a disconnect.                  *)
DtorKeepsLink(i) ==
  /\ Live(i, "disconnecting", "joining")
  /\ UNCHANGED <<library, requested, network>>

DtorDisconnect(i) ==
  /\ Live(i, "disconnecting", "joining")
  /\ requested' = [requested EXCEPT ![i] = TRUE]
  /\ UNCHANGED <<library, network>>

(* Deviation: the loop is stopped by force, so the thread ends wherever it *)
(* is.                                                                     *)
LoopStopForced(i) ==
  /\ Live(i, "joining", "joined")
  /\ thread' = [thread EXCEPT ![i] = "ended"]
  /\ UNCHANGED <<library, requested, connected, link, told>>

LoopStop(i) ==
  /\ thread[i] = "ended"
  /\ Live(i, "joining", "joined")
  /\ UNCHANGED <<library, requested, network>>

DestroyHandle(i) ==
  /\ Live(i, "joined", "unregistering")
  /\ UNCHANGED <<library, requested, network>>

UnregisterLast(i) ==
  /\ libMutex = NoClient
  /\ counter = 1
  /\ Live(i, "unregistering", "cleaning")
  /\ counter' = 0
  /\ libMutex' = i
  /\ UNCHANGED <<libReady, requested, network>>

(* Deviation: every client only lowers the counter.                        *)
UnregisterOnly(i) ==
  /\ libMutex = NoClient
  /\ Live(i, "unregistering", "gone")
  /\ counter' = counter - 1
  /\ UNCHANGED <<libMutex, libReady, requested, network>>

Unregister(i) ==
  /\ libMutex = NoClient
  /\ counter # 1
  /\ Live(i, "unregistering", "gone")
  /\ counter' = counter - 1
  /\ UNCHANGED <<libMutex, libReady, requested, network>>

LibCleanup(i) ==
  /\ Live(i, "cleaning", "gone")
  /\ libReady' = FALSE
  /\ libMutex' = NoClient
  /\ UNCHANGED <<counter, requested, network>>
-----------------------------------------------------------------------------
Constructor(i) ==
  \/ RegisterFirst(i) \/ RegisterNext(i) \/ LibInit(i) \/ LibInitThrows(i)
  \/ SetupThrows(i) \/ SetupDone(i)

Callback(i) ==
  \/ OnConnectFlag(i) \/ OnConnectUser(i) \/ OnRefusedUser(i)
  \/ OnDisconnectFlag(i) \/ OnDisconnectUser(i)

DestructorStart(i) == DtorConnected(i) \/ DtorNotConnected(i)

DestructorRest(i) ==
  \/ DtorDisconnect(i) \/ LoopStop(i) \/ DestroyHandle(i)
  \/ UnregisterLast(i) \/ Unregister(i) \/ LibCleanup(i)

Next ==
  \E i \in Clients :
    \/ Constructor(i)
    \/ ConnectAsync(i) \/ DisconnectAsync(i)
    \/ LinkUp(i) \/ LinkRefused(i) \/ LinkLost(i) \/ LinkClosed(i)
    \/ ThreadEnds(i) \/ Callback(i)
    \/ DestructorStart(i) \/ DestructorRest(i)

Spec == Init /\ [][Next]_vars

(* The network thread finishes its callbacks, closes a connection it was   *)
(* asked to close and ends; a constructor or destructor that is running    *)
(* goes on.  libMutex is handed to those that wait for it often enough:    *)
(* strong fairness, because others may take it in between.  Nothing is     *)
(* owed by the network, the broker or the user.                            *)
Fairness ==
  \A i \in Clients :
    /\ WF_vars(Callback(i))
    /\ WF_vars(LinkClosed(i))
    /\ WF_vars(ThreadEnds(i))
    /\ WF_vars(LibInit(i))
    /\ WF_vars(DtorDisconnect(i) \/ LoopStop(i) \/ DestroyHandle(i) \/ LibCleanup(i))
    /\ SF_vars(UnregisterLast(i) \/ Unregister(i))

FairSpec == Spec /\ Fairness
-----------------------------------------------------------------------------
(* Every variable stays in its range; the unsigned counter never goes      *)
(* below zero, however often clients are constructed, fail and go.         *)
TypeOK ==
  /\ counter \in Nat
  /\ libMutex \in Clients \cup {NoClient}
  /\ libReady \in BOOLEAN
  /\ life \in [Clients -> Life]
  /\ connected \in [Clients -> BOOLEAN]
  /\ requested \in [Clients -> BOOLEAN]
  /\ link \in [Clients -> Link]
  /\ thread \in [Clients -> Thread]
  /\ told \in [Clients -> Told]

(* "Init lib, if nobody ever did" (MosquittoClient.cpp:47): every client   *)
(* that uses libmosquitto finds it initialised.                            *)
LibraryReady == \A i \in Clients : life[i] \in Using => libReady

(* The same unless an initialisation has failed: however constructions and *)
(* destructions overlap, no client touches the library outside the span    *)
(* between lib_init and lib_cleanup.                                       *)
LibraryReadyUnlessInitThrown ==
  (\A i \in Clients : life[i] # "initThrown") => LibraryReady

(* "If no users are left, clean the lib" (line 174).                       *)
LibraryCleaned ==
  (\A i \in Clients : life[i] \in {"none", "initThrown", "thrown", "gone"}) => ~libReady

(* The same, as long as no constructor has thrown.                         *)
LibraryCleanedUnlessThrown ==
  (\A i \in Clients : life[i] \in {"none", "gone"}) => ~libReady

(* IsConnected agrees with what the user was told, also inside the user's  *)
(* own callback, and between callbacks it agrees with the connection       *)
(* (lines 190, 203).                                                       *)
FlagAgreesWithReports ==
  \A i \in Clients :
    /\ thread[i] = "connectUser" => connected[i]
    /\ thread[i] \in {"refusedUser", "disconnectUser"} => ~connected[i]
    /\ thread[i] \in {"idle", "ended"} =>
         /\ connected[i] <=> told[i] = "connected"
         /\ connected[i] <=> link[i] = "up"

(* Who was told of a connection is told of its end before the destructor  *)
(* lets the client go, although it decides by a flag that may be stale     *)
(* (line 169): the loop is not stopped by force (line 172), and its thread *)
(* ends only when the connection is down and every callback has returned.  *)
EndIsTold ==
  \A i \in Clients : life[i] \in {"joined", "unregistering", "cleaning", "gone"} =>
                       link[i] # "up" /\ told[i] # "connected"

(* A destructor comes to its end, whatever the connection does meanwhile,  *)
(* if it found the client connected (lines 169-179), or if the user had    *)
(* asked for a disconnect before, at whatever state of the connection.     *)
(* Otherwise nobody asks the network thread to end, and line 172 waits for *)
(* it forever.                                                             *)
DestructorEndsOnceAsked ==
  \A i \in Clients :
    (life[i] = "disconnecting" \/ (life[i] = "joining" /\ requested[i]))
      ~> (life[i] = "gone")
=============================================================================
