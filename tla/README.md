# Specifications of IMqtt

IMqtt is a C++ wrapper that hides an MQTT library (libmosquitto or Paho) behind the
interface `IMqttClient`, with an optional FIFO, `IDispatchQueue`, between the library's
callback and the user's message processing. It is small (about 1700 lines of C++ and
1000 of headers under `src/src/`) and has no tests. What can go wrong in it is what tests
reach badly: three kinds of threads (the user's, the library's, the queue's), callbacks,
constructors that throw half-way, a destructor racing the network.

The modules here describe that behaviour in TLA+, are checked with TLC on small
instances, and for each of them safety is proved with TLAPS for every instance: every
invariant a run checks is a theorem.

## Inventory

| Component | State it keeps | Operations | Talks to | What makes it correct |
|---|---|---|---|---|
| Dispatch queue (`DispatchQueue.cpp`, `IDispatchQueue.h`) | exit flag, mutex, condition variable, FIFO, worker thread | constructor, `OnMqttMessage`, worker loop, destructor | called by the library's threads, calls the user's `OnMqttMessage` and `Log` | first in first out exactly once; no sleep on work; shutdown ends and reports what it loses |
| Mosquitto client, lifetime (`MosquittoClient.cpp`) | static client counter and mutex, handle, `connected` flag; the library's network thread | constructor, `ConnectAsync`, `DisconnectAsync`, `onConnectCb`, `onDisconnectCb`, destructor | calls libmosquitto, called by its thread, calls the user | library initialised while used, cleaned when not; the flag is true; the end of a connection is told before the client goes; destruction ends |
| Paho client, connect (`PahoClient.cpp`) | static context, promise on the caller's stack | `ConnectAsync`, its success and failure callback | calls Paho, blocks for Paho's thread | the caller comes back with the answer to its own request |
| Message transfer (`PublishAsync`, `onMessageCb`, `IMqttMessage.h`) | none of its own: the message, the encoded properties | encode and publish, receive and decode | library, broker, user | what arrives is what was sent; a refused message is not sent |
| Commands (`SubscribeAsync`, `UnSubscribeAsync`, tokens, `onSubscribeCb` ...) | commands in flight (in the library) | three calls, three callbacks per backend | library, user | each accepted command is reported, under a token the user can know |
| Callback registry (`IMqttClient.cpp` `SetCallbacks`) | four pointers, never null | constructor, `SetCallbacks` | written by the user's thread, read by the library's | a callback goes to a listener that is, or just was, registered |
| Library logging (`InitLogMqttLib`, `LogMqttLib`) | callback and level, set once | initialise, log | user, both clients' constructors | the first setting stays; nothing below the level is passed on |
| Paho client, the rest | once-flag, handle | library initialisation, disconnect, connection reports, destructor | Paho, user | destruction and disconnect do not collide; one report per event |
| Reason code tables | none | look-ups | logs | texts only |
| Sample application (`Sample/Main.cpp`) | exit flag, mutex, condition variable, client, dispatcher | `Run`, callbacks, signal handler | everything above | ends on SIGINT; members destroyed in an order that is safe |

Hard behaviours, by line, are listed under `hazards` in `PROJECT.json`; each names the
properties that would catch it or says why none does.

## Modules

| Module | What it is |
|---|---|
| `FifoDelivery` | abstract: what `IDispatchQueue` promises (FIFO, hand over while open, report at shutdown), without threads |
| `DispatchQueue` | the queue at the granularity of flag, mutex and condition variable; refines `FifoDelivery` |
| `DispatchQueueProofs` | TLAPS: inductive invariant, five safety theorems, refinement of `FifoDelivery!Safety` |
| `MosquittoClient` | construction, connection and destruction of clients that share libmosquitto |
| `MosquittoClientProofs` | TLAPS: inductive invariant, five safety theorems |
| `PahoConnect` | `PahoClient::ConnectAsync` with its static context |
| `PahoConnectProofs` | TLAPS: inductive invariant, four safety theorems |
| `MessageTransfer` | a message from `PublishAsync` of one client to `OnMqttMessage` of another, for each pair of backends |
| `MessageTransferProofs` | TLAPS: what pairing, coding and decoding do to a message, inductive invariant, three safety theorems |
| `LibraryLogging` | the process-wide setting of the libraries' logs, what the constructors make of it, what the user hears |
| `LibraryLoggingProofs` | TLAPS: lemmas about the levels, and the part of the invariant that is about logs |
| `ClientCallbacks` | extends `LibraryLogging`: commands, tokens, reports, and the listener that is replaced under them |
| `ClientCallbacksProofs` | TLAPS: inductive invariant, five safety theorems, on top of `LibraryLoggingProofs` |
| `SampleApp` | `Sample/Main.cpp` with its threads, mutexes and signal handler, composed with `FifoDelivery` as its queue |
| `SampleAppProofs` | TLAPS: inductive invariant, four safety theorems |
| `MC...` | instances for TLC |

Operators marked *Deviation* are changed forms of the operator that follows them, the way
a slip in the code would change it (a lost signal, a missing join, a dropped test). No
specification uses them; put in place of the original each breaks the property that
`PROJECT.json` (`mutants`) names, which shows that the property speaks about that code.

### DispatchQueue and the code

| Code | Actions |
|---|---|
| constructor (26-31): the thread is a member declared before the flag (`DispatchQueue.h:39-40`) | `Init`: worker started, flag uninitialised; `InitExit` |
| `OnMqttMessage` (49-60) | `OnMqttMessageAccept` / `OnMqttMessageDrop` (unlocked test), `Push` (critical section), `NotifyOne` |
| worker (62-81) | `Start`, `LoopEnter` / `LoopLeave`, `PredTrue` / `PredFalse`, `Block`, `SpuriousWakeup`, `RelockAfterWait`, `TakeMessage` / `SkipMessage`, `CallbackReturn`, `RelockAfterCallback` |
| destructor (33-47) | `SetExit`, `NotifyAll`, `Join`, `CountLost`, `Destroy` |

`mutex` is `"worker"` over the spans in which the worker keeps it; the critical sections of
`Push` and `CountLost` contain no other shared access and are one step. Between the
predicate and the sleep there is a step (`PredFalse`, then `Block`): the worker keeps the
mutex there, but the destructor's flag and signal do not need it. Until `InitExit` a
read of the flag returns any value of `GarbageExit`. `accepted` and `delivered` are
history variables.

### MosquittoClient and the code

| Code | Actions |
|---|---|
| constructor 45-61, under `libMutex` | `RegisterFirst`, `LibInit`, `LibInitThrows`; `RegisterNext` |
| constructor 63-164 | `SetupDone`, `SetupThrows` (any of the seven throws) |
| `onConnectCb` 182-196 | `OnConnectFlag`, `OnConnectUser`; refused: `OnRefusedUser` |
| `onDisconnectCb` 198-208 | `OnDisconnectFlag`, `OnDisconnectUser` |
| destructor 166-180 | `DtorConnected` / `DtorNotConnected`, `DtorDisconnect`, `LoopStop`, `DestroyHandle`, `Unregister` / `UnregisterLast`, `LibCleanup` |
| libmosquitto (external) | `LinkUp`, `LinkRefused`, `LinkLost`, `LinkClosed`, `ThreadEnds` |

Of libmosquitto the model assumes what the code relies on: callbacks of one client run
on one thread, one at a time; the thread retries by itself; it ends after a disconnect
was requested and the connection is down; `mosquitto_loop_stop(_, false)` waits for it.
`ConnectAsync` (352-359) tests nothing, so the model lets a user connect again after
`DisconnectAsync`, with the connection down; whether the library then forgets the disconnect is
open. Left out is a connect while the connection is up: what becomes of that connection, and
whether its end is reported, is the library's affair.

### PahoConnect and the code

`ConnectBegin` is lines 241-260 (first call constructs the static context, every call
overwrites the promise's address), `ConnectRequested` / `ConnectRefused` the two outcomes
of `MQTTAsync_connect` (312), `Answer` and `RepeatFailure` the callbacks (261-279, a second
`set_value` throws and is caught), `ConnectReturn` the wait (319). The variable
`hardship` records what the code does not reckon with: overlapping calls, a refusal, a failure
repeated after its call returned. The properties say what holds without them.
A client is not connected by two of its user's threads at once. A write
through the address of a promise that is gone is undefined; the model ignores it, and
`PromiseOutlivesRequest` states when it cannot happen. `NobodyWaitsInVain` and
`ConnectReturns` allow late repetitions; a refused request, whose caller waits for an answer
that nobody owes (313), and overlapping calls are their exceptions.

### MessageTransfer and the code

`Encoded` and `PublishAsync` are the two `PublishAsync` functions (Mosquitto 393-456, Paho
391-479), `ReasonCode` the two return code mappings (464-496, 487-507), `Decoded` and
`OnMessage` the two `onMessageCb` (224-295, 183-239). They are one operator per
idea with the backend as parameter, because their differences are the subject: Mosquitto
cuts sizes to 16 bits and files the content type under the response topic. A payload
is its size; topic, QoS, retain flag and message identifier pass through unchanged and
are left out. Several refused properties are one refusal: each only clears
`propertiesOkay`. Correlation data longer than MQTT allows is refused by the
library.

### LibraryLogging and the code

`InitLogMqttLib` is `call_once` (`IMqttClient.cpp:142-148`), called by the user
(`UserInitLog`) and by each constructor (`ConstructorInitLog`: `PahoClient.cpp:38-99`, where
an outer `call_once` makes it once per process, and `MosquittoClient.cpp:73-79`, once per
client). `TraceLevel` is what Paho is asked for (80-96), `LevelOf` what its trace
callback (53-78) and Mosquitto's `onLog` (323-350) make of a report, `LogMqttLib` the
last filter (150-156). `Heard` puts the three together. The levels of the libraries, and
that Paho passes on what ranks at or above its trace level, are external.

### ClientCallbacks and the code

| Code | Actions |
|---|---|
| `IMqttClient` constructor, `SetCallbacks` (`IMqttClient.cpp:160-199`) | `Init`, `SetCallbacks` (a null pointer makes the client itself the listener, `Self`) |
| `SubscribeAsync`, `UnSubscribeAsync`, `PublishAsync` (Mosquitto 369-391, 445-456; Paho 342-406, 469-479) | `Issue`: up to and including the library's function, accepted or refused; `Return`: the rest, where Paho's functions pass on the token |
| `onPublishCb`, `onSubscribeCb`, `onUnSubscribeCb` (Mosquitto 210-222, 297-321); `onSuccess5`, `onFailure5` (Paho 348-355, 374-381, 397-406) | `Answer`: the library answers, the callback reads `cmdCb`; `EnterListener`: it calls what it read; `LeaveCallback` |
| other callbacks | `OtherCallback`, in which commands may be issued too |

Each command remembers the thread it was issued on, because that decides whether a report can come before
the call has returned. Topics and subscription options are left out. Libraries
(external): accept or refuse, number what they accept, answer once; Mosquitto forgets
what was unanswered when the connection is lost; Paho may fail a command without an
answer of the broker.

### SampleApp and the code

| Code | Actions |
|---|---|
| `Sample::Run` (243-258) | `LockExitRun`, `ConnectAsync`, `ConnectReturns`, `ExitIsSet` / `ExitIsNotSet`, `Sleep`, `Relock`, `UnSubscribeAsync`, `DisconnectAsync`, `RunReturns` |
| `~Sample` (113; members 48-52, in reverse) | `DispatcherCloses`, `NotifyAll`, `DispatcherGone`, `ClientDisconnects`, `ClientGone` |
| callbacks (121-169) on the library's thread | `OnConnected`, `CallbackDone`, `ConnectAnswered` (Paho's promise); `MessageAccepted`, `MessageDropped`, `MessagePushed`, `NotifyOne` for the queue |
| the queue's worker (`DispatchQueue.cpp:62-81`) and `OnMqttMessage` (229-241) on it | `NumberLogged`, `WorkerFindsNothing`, `WorkerSleeps`, `WorkerRelocks`, `HandOver`, `MessageProcessed`, `WorkerLeavesLoop`, `WorkerEnds` |
| `Log` (200-227) | `TakeCout`, then `EndLog` in the step that follows |
| `InterruptHandler` (260-266), on any thread, which does not go on meanwhile | `Signal`, `HandlerLocks`, `HandlerSets`, `HandlerNotifies` |

What the queue holds and hands over is the abstract `FifoDelivery`. Added to it is what its
threads do with its mutex and condition variable: the worker has the mutex while it logs,
tests its predicate and goes to sleep, so a push waits for it, and a signal that comes before
the sleep is lost; the destructor logs its losses. So the lost wake-up of `DispatchQueue`
(finding 1) can hang the sample too, and does: `ShutdownMissed` is one of the exceptions of
`InterruptedAppEnds`. A call on the destroyed queue is undefined:
it returns, or never (`astray`). Locking a mutex twice on one thread, which the handler
does when it interrupts `Run`, is taken as waiting forever. With Paho the connect request
is accepted (`PahoConnect` is about a refusal).

Consecutive `Log`s of one thread, with nothing but thread-local work between them, are one.
`LogLib` (171-198), which the libraries call on whatever thread they are, takes `coutMutex` as
`Log` does and nothing else; it is one with the `Log` next to it. Where `main` logs the result
of a connect or a disconnect (`PahoClient.cpp:504`, `MosquittoClient.cpp:493`), a step of its own
separates the two.

## Runs

| Run | Bounds | Shows |
|---|---|---|
| `dq_safety` | 2 library threads, 4 messages, flag garbage either way, symmetry | order, wake-up on push, join before count, bound on unreported losses |
| `dq_live` | 2 threads, 3 messages, flag memory happens to be false | shutdown outside the window ends; refinement of `FifoDelivery` with its liveness |
| `dq_lost_wakeup` | 2 threads, 3 messages | **violated**: flag and signal between predicate and sleep |
| `dq_garbage_flag` | 2 threads, 3 messages, garbage true | **violated**: worker gone before the queue opens |
| `mosq_life` | 2 clients | library ready and cleaned, flag true, the end of a connection told before the client goes, a destructor that was asked for ends |
| `mosq_lib_cleanup` | 2 clients | **violated**: throwing constructor stays counted |
| `paho_connect` | 2 clients, 2 calls each, 1 repetition each | every call gets its own answer, absent hardship; late repetitions alone leave nobody waiting |
| `paho_shared_context` | 2 clients, 1 call each, no repetition | **violated**: overlapping calls share one promise address |
| `message_transfer` | 2 publishes out of 5 messages, 2 foreign forms, 4 pairs of backends | round trip, refusals |
| `message_content_type` | the same | **violated**: content type lost at a Mosquitto receiver |
| `client_callbacks` | 2 commands, 1 listener and the client itself, 2 replacements; 2 clients and 5 log settings, each half followed while the other rests (`LogsApart`) | tokens correlate, one late report at most, no false success, every accepted command is reported, the user hears the library logs that were asked for: each with the exceptions its comment names |
| `sample_app` | 2 messages, 2 SIGINTs, both backends | the sample ends on SIGINT, with three exceptions; its mutexes deadlock only by a SIGINT during `Run`; the destroyed queue is called only while the disconnect is under way |

Why the bounds are enough. Two library threads are needed for the gap between test and
push to be entered twice and for a signal to be meant for another message; four messages
fill the queue while one is in hand and both threads are pushing. Two clients are needed
for every pair of overlapping constructor, destructor and callback, and for the library
to be cleaned and initialised again; the proofs then cover any number. Two calls per
Paho client let a later call meet the remains of an earlier one. The sizes 5, 40000,
65536 and 65541 lie on all sides of the 15 and 16 bit limits, and 65541 collides with 5 when cut.
A third command would only repeat what one of two does beside the other, since the
library's thread serves one at a time; two replacements take a listener away and bring it
back. Two SIGINTs are needed for the second to hit `Run` on its way out, or a thread
that holds `coutMutex` when the first one wakes `Run`; two messages put one into the queue
while another is in hand. Commands and logs share nothing but the backend and whether there
is a client, so `LogsApart` loses no behaviour of either.
Messages and callers of the queue are interchangeable, hence the symmetry in `dq_safety`;
runs with liveness use none. Deadlock is not checked where the system may
stop: after the queue or the clients are destroyed, when no message is left, in the
known hangs, when all commands are done or `main` has returned. `message_transfer` can always receive a foreign message, so it is checked
there.

Fairness. `DispatchQueue`: the worker, a caller inside `OnMqttMessage` and the destructor
run when they can, and the user's callback returns; calling `OnMqttMessage`, starting the
destructor and spurious wake-ups are not owed. `MosquittoClient`: callbacks return,
a disconnect that was requested closes the connection, a thread that has nothing left ends, a
destructor goes on; `libMutex` is granted to a waiting destructor that finds it free
again and again (strong fairness, as a mutex among finitely many short critical sections
gives). `PahoConnect`: a call goes on when it can, an accepted request is answered once.
`ClientCallbacks`: a call and a callback return, an accepted command is answered or
dropped (strong, because other callbacks may come before it). `SampleApp`: threads go on
when they can, a request to connect is answered, a requested disconnect takes place, and a mutex that is
free again and again is granted to a waiting handler (`exitRunMutex`), to `main` and to the worker (`coutMutex`). SIGINT,
messages and spurious wake-ups are not owed.

## Findings

1. A destructor of the queue may hang: flag and `notify_all` are not under the mutex
   (`dq_lost_wakeup`). Setting the flag with the mutex held closes the window. The sample
   inherits the hang: after a SIGINT it may stay in the destructor of its dispatcher.
2. The worker reads the exit flag before it is initialised (`dq_garbage_flag`). Declaring
   the flag before the thread cures it.
3. A constructor of a Mosquitto client that throws leaves the counter raised: the library
   is not cleaned after the last client (`mosq_lib_cleanup`), and if what failed was
   `mosquitto_lib_init`, the next client does not try it again (`LibraryReady`, which is why
   `LibraryReadyUnlessInitThrown` has its condition).
4. Two Paho clients that connect at once can block one of them for good
   (`paho_shared_context`).
5. A Mosquitto receiver files the content type as response topic (`message_content_type`).

Exceptions that properties of passing runs name, each a behaviour one may want to change:

- the sample deadlocks if SIGINT hits its main thread during `Run` except in the wait, a
  thread that holds `coutMutex`, or with Paho the library's thread before the connect is
  answered (`DeadlockNeedsSignalInRun`): the handler locks a mutex, which handlers must not;
- a message may be handed to the sample's destroyed queue between `DisconnectAsync` and
  the disconnect (`DeadQueueOnlyWhileClosing`): `dispatcher` is declared after `client`;
- with Paho a report may come before the caller's variable holds the token, unless the command is
  issued inside a callback (`TokenCorrelates`);
- Paho's failed subscriptions are not reported (`AcceptedIsReported`), Mosquitto's refused
  ones are reported like granted ones, and a publish that Paho fails by itself may be reported with
  SUCCESS (`SuccessIsSuccess`);
- a listener may be called once after it was replaced (`OneLateReport`, which assumes that
  the next read of the plain pointer sees the store), which whoever
  destroys listeners has to know.

Seen while modelling, not shown by a run: the destructor of a Mosquitto client that nobody asked
to disconnect and that is not connected waits for a thread nobody asked to end
(`MosquittoClient.cpp:172`; `DestructorEndsOnceAsked` states the other case, and the
sample is in it); Paho's `ConnectAsync` blocks until the answer, where `IMqttClient.h:169`
calls it asynchronous; Paho's `SubscribeAsync` stores the choice about retained messages (0 or 2) in
`retainAsPublished` (`PahoClient.cpp:358`); Mosquitto's `PublishAsync` cuts payloads to 16 bits
(`MosquittoClient.cpp:444`); the copies made by libmosquitto's property readers are not
freed (245-281).

## Proofs

`DispatchQueueProofs` proves, for any sets of callers (finite) and messages and any
garbage in the flag (`DispatchAssumption`), that `IInv` is inductive:

- `LockInv`: the worker holds the mutex exactly at the points the code says, so no push
  falls between its test of the queue and its pop;
- `InHandInv`, `ExitInv`: what is in hand, and how far the owner is, follow from the
  program counters;
- `FifoOrder`: itself inductive, by the associativity of concatenation;
- `SleepInv`: `NoSleepOnWork` strengthened by "the queue is empty at the point between
  predicate and sleep", which is what makes falling asleep harmless;
- `LossInv`: the bound strengthened by counting calls that still push: queue length plus
  pushing calls never exceeds the reported loss plus the number of callers.

From it follow `TypeCorrect`, `FirstInFirstOut`, `NoLostWakeup`, `WorkerGone`,
`LossBounded`. `KeepsPromiseSafely` maps each step to a step of `FifoDelivery` or a
stutter; it needs `ExitInv` (a message is taken only while the queue is open) and
`InHandInv` and `WorkerGoneBeforeCount` (the report waits for the callback).

`MosquittoClientProofs` proves, for any finite set of clients, that `IInv` is inductive:
the counter is the number of clients registered, including those that threw (`CounterInv`); the
holder of `libMutex` is the one initialising or cleaning (`LockInv`) and alone counted,
or the last gone (`HolderInv`); outside the critical sections the library is ready
exactly if somebody is counted (`ReadyInv`, absent a failed initialisation); the thread exists from the end
of set-up on (`ThreadInv`); flag, connection and reports agree outside callbacks, and in
a callback the connection has already changed (`FlagInv`). From it follow
`TypeCorrect`, `LibraryIsReady`, `LibraryIsCleaned`, `FlagIsTrue`, and `EndsAreTold`: past
`loop_stop` the thread has ended (`JoinInv`), it ends without a connection, and then flag,
connection and reports agree.

`PahoConnectProofs` proves, for any set of clients and any bounds, that `IInv` is
inductive. Its heart holds only while it is `Calm` (no overlapping calls, no failure
repeated after its call; refusals are allowed): the context points to the call under way,
and only that call's request is unanswered (`ContextInv`); a promise is empty until then
and afterwards holds the request's outcome (`PromiseInv`). `CalmBefore` shows that a calm
state has only calm ones before it, `CalmBegin` and `CalmRepeat` what calm says of the
two steps that could do harm. From it follow `TypeCorrect`, `PromiseSafe`, `AnswerIsOwn`.
A second part, `AwaitInv`, survives late repetitions and needs only that calls keep apart: the
context still leads to the call under way, which has an answer or an accepted request unless
one was refused. From it follows `WaitsForAnAnswer`.

`LibraryLoggingProofs` rests on two facts. `RankOrder`: Paho's levels rank in the order of
their list. `TraceLevelSuffices`: every report at or above the level the user asked for also
passes the trace level that `PahoClient` requests for it. The part of the invariant about
logs (`LogInv`: until the first client is constructed the setting is what the user asked
for; from then on it is that or silence, and the library was told so) is kept by each step
that touches logs, and `HeardAsAsked` draws the conclusion.

`ClientCallbacksProofs` proves, for any commands, listeners, settings and number of clients,
that `IInv` is inductive. Besides types and `LogInv` it has:

- `RegistryInv`: neither the listener in use nor one that a callback has read and is about
  to call has had a late report yet, so the next one is its first;
- `CallInv`: what a command's call, status and request say of each other, and when the
  user's variable has the token (with Mosquitto from acceptance, with Paho from the return on);
- `OriginInv`: a command issued inside a callback keeps the library's thread until its call
  returns, so it is answered after that;
- `AnswerInv`: only an answered command has an outcome, is being reported or was;
- `ReportInv`: each report has the library's token, and that of a refused publish is a failure.

From it follow `TypeCorrect`, `TokensCorrelate`, `AtMostOneLate`, `SuccessIsTrue`,
`LogsAsAsked`.

`MessageTransferProofs` proves, for any messages and foreign traffic, that whatever is in
flight or handed over is `Genuine` (a foreign message, or the encoding of a message whose
`PublishAsync` returned OKAY), and that what was handed over is the receiver's decoding of
it. The rest is about the operators. `PairsOfMap`: the list made of a map of user
properties has each pair once (a surjection of an interval on a set of its own size is an
injection). `InsertedFirst`, `InsertedPairs`: inserting a list keeps the first value of each
name, so inserting the list of a map gives the map back. `Cut`: 16 bits leave smaller sizes
alone. From them follow `TypeCorrect`, `RefusedStaysHome`, `ArrivesAsPublished`. `TransferAssumption` says what the types of the code say: sizes are
numbers, user properties a finite map (`std::map`) in a message and a list of pairs on the
wire, and absence is none of these values.

`SampleAppProofs` proves, for any number of messages and SIGINTs, that `IInv` is inductive:

- `OwnerInv`: `exitRunMutex` belongs to `Run` exactly between its lock and its unlock, or
  to exactly one handler between its lock and its signal, or to nobody;
- `SleepInv`: `NoSleepOnExit` strengthened by "the flag is not set between predicate and
  sleep", which `OwnerInv` keeps, because who sets the flag has the mutex;
- `ProgressInv`: how far `Run` and the destructors are determines the queue's phase and
  whether a disconnect was asked for, and nothing is connected before `Run` connects;
- `LibInv`: a connection brings messages only while it is up and stays up until the
  library's thread is back from them; the connect answer is given while `main` waits for it;
- `CoutInv`: whoever holds `coutMutex` is about to log. `TypeOK` does not imply it.

From it follow `TypeCorrect`, `ExitIsNotSlept`, `DeadQueueRarelyCalled`, and
`DeadlocksAreSignals`: while no handler waits for `Run`, each wait goes to a lower thread
(`Height`: the holder of `coutMutex` waits for nobody, the worker only for it, the library's
thread for these two, `main` for any), so there is no circle.

Every theorem holds under the constants' named assumptions alone. Only model-checked: all
liveness (`ShutdownOutsideWindow`, the liveness half of `KeepsPromise`,
`DestructorEndsOnceAsked`, `ConnectReturns`, `AcceptedIsReported`, `InterruptedAppEnds`),
which TLAPS does not reach.

## Not modelled

- Build, packaging, the generated documentation with its scripts: no part of the library.
- The reason code tables: constant texts for log lines. What log lines say.
- Paho: errors of the constructor (the handle it leaks has no connection, so nothing
  follows from it); the second DISCONNECT report of one loss and what Paho does with callbacks of a
  handle that is destroyed, or with a client the static context outlives: the code keeps no
  state about any of these, passes them through, and does not say what it expects of Paho.
- Topics, quality of service, retained messages, subscription options: passed through.

## Plan

Safety parts of the liveness properties that are not proved yet: that a command that is
accepted and neither answered nor dropped can still be answered (`ClientCallbacks`), that a
destructor past its disconnect leaves its thread only ways to end (`MosquittoClient`), and
that the only states of `DispatchQueue` from which a shutdown cannot go on are those in which
the signal fell between predicate and sleep.
