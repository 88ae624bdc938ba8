--------------------------- MODULE LibraryLogging ---------------------------
(***************************************************************************)
(* The logs of the MQTT library (IMqttClient.cpp: InitLogMqttLib and       *)
(* LogMqttLib; the constructors of both clients).  The first call of       *)
(* InitLogMqttLib decides for the whole process: the user's, made before   *)
(* the first client, or that of a client's constructor, which switches the *)
(* logs off.  The constructor then tells the library what to report, and   *)
(* each report is mapped to a level of IMqtt and filtered again.           *)
(*                                                                         *)
(* The libraries are external: their levels, which of them Paho passes on  *)
(* for a given trace level.                                                *)
(***************************************************************************)
EXTENDS Naturals

CONSTANTS
  Settings,     (* the MqttLogInit_t values the user may choose              *)
  NotSet,       (* InitLogMqttLib was not called                             *)
  MaxClients    (* clients constructed: bounds the model                     *)

(* LogLevelLib; NONE, the greatest int, is only compared.                  *)
TRACE == 1
DEBUG == 2
INFO == 3
WARNING == 4
ERROR == 5
FATAL == 6
NONE == 7
LogLevelLib == TRACE .. NONE
MqttLogInit == [callback : BOOLEAN, level : LogLevelLib]

Backends == {"mosquitto", "paho"}

ASSUME LoggingAssumption ==
  /\ Settings \subseteq MqttLogInit
  /\ NotSet \notin MqttLogInit
  /\ MaxClients \in Nat

VARIABLES
  backend,    (* the library this build wraps                                *)
  clients,    (* how many clients were constructed                           *)
  logInit,    (* mqttLibLogInitParams, NotSet until its once_flag is taken   *)
  libLog,     (* the library was told to report, and from which of its       *)
              (* levels on                                                   *)
  asked       (* history: what the user chose before the first client        *)

logVars == <<backend, clients, logInit, libLog, asked>>

Silent == [callback |-> FALSE, level |-> NONE]

LogInit ==
  /\ backend \in Backends
  /\ clients = 0
  /\ logInit = NotSet
  /\ libLog = [on |-> FALSE, from |-> 1]
  /\ asked = NotSet
-----------------------------------------------------------------------------
(* The levels of the libraries.  Paho's are ordered: a trace level lets    *)
(* itself and everything above it through.                                 *)
PahoLevels == <<"MAXIMUM", "MEDIUM", "MINIMUM", "PROTOCOL", "ERROR", "SEVERE", "FATAL">>
LibraryLevels ==
  IF backend = "paho" THEN {PahoLevels[r] : r \in 1 .. 7}
  ELSE {"INFO", "NOTICE", "WARNING", "ERR", "DEBUG", "SUBSCRIBE", "UNSUBSCRIBE", "WEBSOCKETS"}

Rank(l) == CHOOSE r \in 1 .. 7 : PahoLevels[r] = l

(* onLog, and the trace callback of the Paho client.                       *)
LevelOf(l) ==
  IF backend = "paho"
  THEN CASE l \in {"MAXIMUM", "MEDIUM", "MINIMUM"} -> TRACE
         [] l = "PROTOCOL" -> DEBUG
         [] l \in {"ERROR", "SEVERE"} -> ERROR
         [] l = "FATAL" -> FATAL
  ELSE CASE l = "WARNING" -> WARNING
         [] l = "ERR" -> ERROR
         [] l \in {"SUBSCRIBE", "UNSUBSCRIBE", "WEBSOCKETS", "DEBUG"} -> DEBUG
         [] OTHER -> INFO

(* Deviation: DEBUG falls through to the default.                          *)
TraceLevelCoarse(level) ==
  CASE level = TRACE -> "MAXIMUM" [] level = FATAL -> "FATAL" [] OTHER -> "ERROR"

(* The trace level the Paho client asks for.                               *)
TraceLevel(level) ==
  CASE level = TRACE -> "MAXIMUM"
    [] level = DEBUG -> "PROTOCOL"
    [] level = FATAL -> "FATAL"
    [] OTHER -> "ERROR"
-----------------------------------------------------------------------------
(* InitLogMqttLib: call_once, then the setting that stays.                 *)
InitLogMqttLib(s) == logInit' = IF logInit = NotSet THEN s ELSE logInit

UserInitLog(s) ==
  /\ InitLogMqttLib(s)
  /\ asked' = IF clients = 0 /\ asked = NotSet THEN s ELSE asked
  /\ UNCHANGED <<backend, clients, libLog>>

(* What a constructor does about the logs: Paho's once per process, that   *)
(* of Mosquitto for the handle of every client.                            *)
ConstructorInitLog ==
  /\ clients < MaxClients
  /\ clients' = clients + 1
  /\ IF backend = "paho" /\ clients > 0
     THEN UNCHANGED <<logInit, libLog>>
     ELSE /\ InitLogMqttLib(Silent)
          /\ libLog' =
               IF logInit'.level = NONE THEN [on |-> FALSE, from |-> 1]
               ELSE [on |-> TRUE,
                     from |-> IF backend = "paho" THEN Rank(TraceLevel(logInit'.level)) ELSE 1]
  /\ UNCHANGED <<backend, asked>>

(* LogMqttLib: what the user hears of a report of level l.                 *)
LogMqttLib(l) == logInit.callback /\ LevelOf(l) >= logInit.level

Heard(l) ==
  /\ libLog.on
  /\ backend = "paho" => Rank(l) >= libLog.from
  /\ LogMqttLib(l)
-----------------------------------------------------------------------------
LogTypeOK ==
  /\ backend \in Backends
  /\ clients \in 0 .. MaxClients
  /\ logInit \in MqttLogInit \cup {NotSet}
  /\ libLog \in [on : BOOLEAN, from : 1 .. 7]
  /\ asked \in Settings \cup {NotSet}
  /\ clients > 0 => logInit # NotSet

(* "can only be called one single time and has to be called before         *)
(* instantiating the first IMqtt object" (IMqttClientCallbacks.h:48): once *)
(* there is a client the user hears exactly the reports at or above the    *)
(* level chosen before, whichever library, and none if nothing was chosen. *)
(* Neither the trace level nor a later call loses or adds any.             *)
LibraryLogAsAsked ==
  clients > 0 =>
    \A l \in LibraryLevels :
      Heard(l) <=> asked # NotSet /\ asked.callback /\ LevelOf(l) >= asked.level
=============================================================================
