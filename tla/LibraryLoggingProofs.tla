------------------------ MODULE LibraryLoggingProofs ------------------------
(***************************************************************************)
(* The user hears of the library's logs what was asked for, whichever      *)
(* library, for any settings, any number of clients, and calls of          *)
(* InitLogMqttLib at any time.                                             *)
(***************************************************************************)
EXTENDS LibraryLogging, TLAPS

(* What a constructor tells the library, given the level that is set.      *)
LibLogFor(level) ==
  IF level = NONE THEN [on |-> FALSE, from |-> 1]
  ELSE [on |-> TRUE, from |-> IF backend = "paho" THEN Rank(TraceLevel(level)) ELSE 1]

(* The setting is the user's until the first client; from then on it is    *)
(* what the user had asked for, else silence, and the library knows.       *)
LogInv ==
  /\ clients = 0 => logInit = asked
  /\ clients > 0 => /\ logInit = IF asked = NotSet THEN Silent ELSE asked
                    /\ libLog = LibLogFor(logInit.level)

LogIInv == LogTypeOK /\ LogInv
-----------------------------------------------------------------------------
(* Rank numbers Paho's levels in the order of the list.                    *)
LEMMA RankOrder ==
  /\ Rank("MAXIMUM") = 1 /\ Rank("MEDIUM") = 2 /\ Rank("MINIMUM") = 3
  /\ Rank("PROTOCOL") = 4 /\ Rank("ERROR") = 5 /\ Rank("SEVERE") = 6
  /\ Rank("FATAL") = 7
  BY DEF Rank, PahoLevels

(* A trace level lets through every report at or above the level it        *)
(* stands for.                                                             *)
LEMMA TraceLevelSuffices ==
  ASSUME backend = "paho", NEW l \in LibraryLevels, NEW level \in LogLevelLib,
         LevelOf(l) >= level
  PROVE  level # NONE /\ Rank(l) >= Rank(TraceLevel(level))
<1>1. l \in {"MAXIMUM", "MEDIUM", "MINIMUM", "PROTOCOL", "ERROR", "SEVERE", "FATAL"}
  BY DEF LibraryLevels, PahoLevels
<1> QED
  BY <1>1, RankOrder
  DEF LevelOf, TraceLevel, LogLevelLib, TRACE, DEBUG, INFO, WARNING, ERROR, FATAL, NONE

(* What a library reports has a level of its own: none is NONE.            *)
LEMMA NoLevelIsNone ==
  ASSUME backend \in Backends, NEW l \in LibraryLevels
  PROVE  LevelOf(l) \in TRACE .. FATAL
  BY DEF Backends, LibraryLevels, PahoLevels, LevelOf, TRACE, DEBUG, INFO, WARNING, ERROR, FATAL

(* What Paho is asked for is one of its levels.                            *)
LEMMA TraceRankType ==
  ASSUME NEW level PROVE Rank(TraceLevel(level)) \in 1 .. 7
  BY RankOrder DEF TraceLevel
-----------------------------------------------------------------------------
(* LogIInv holds at first, ...                                             *)
LEMMA InitLogIInv == LogInit => LogIInv
  BY LoggingAssumption DEF LogInit, LogIInv, LogTypeOK, LogInv

(* ... a call of InitLogMqttLib by the user keeps it, ...                  *)
LEMMA UserInitLogStep ==
  ASSUME LogIInv, NEW s \in Settings, UserInitLog(s) PROVE LogIInv'
<1>1. LogTypeOK'
  BY LoggingAssumption DEF LogIInv, LogTypeOK, UserInitLog, InitLogMqttLib
<1>2. LogInv'
  BY LoggingAssumption
  DEF LogIInv, LogTypeOK, LogInv, LibLogFor, UserInitLog, InitLogMqttLib
<1> QED
  BY <1>1, <1>2 DEF LogIInv

(* ... and so does a constructor.                                          *)
LEMMA ConstructorStep == ASSUME LogIInv, ConstructorInitLog PROVE LogIInv'
<1> USE LoggingAssumption DEF LogIInv, LogTypeOK, LogInv, ConstructorInitLog
<1>1. Silent \in MqttLogInit
  BY DEF Silent, MqttLogInit, LogLevelLib, TRACE, NONE
<1>2. CASE backend = "paho" /\ clients > 0
  BY <1>2 DEF LibLogFor
<1>3. CASE ~(backend = "paho" /\ clients > 0)
  <2>1. libLog' = LibLogFor(logInit'.level) /\ backend' = backend
    BY <1>3 DEF LibLogFor
  <2>2. libLog' \in [on : BOOLEAN, from : 1 .. 7]
    BY <2>1, TraceRankType DEF LibLogFor
  <2>3. logInit' = IF logInit = NotSet THEN Silent ELSE logInit
    BY <1>3 DEF InitLogMqttLib
  <2>4. LogTypeOK'
    BY <1>1, <2>2, <2>3
  <2> QED
    BY <2>1, <2>3, <2>4 DEF LibLogFor
<1> QED
  BY <1>2, <1>3

(* A step that is not about the logs keeps the invariant.                  *)
LEMMA LogFrame == ASSUME LogIInv, UNCHANGED logVars PROVE LogIInv'
  BY DEF LogIInv, LogTypeOK, LogInv, LibLogFor, logVars
-----------------------------------------------------------------------------
(* Of every library report the user hears iff it was asked for.            *)
LEMMA HeardAsAsked == LogIInv => LibraryLogAsAsked
<1> SUFFICES ASSUME LogIInv, clients > 0, NEW l \in LibraryLevels
             PROVE  Heard(l) <=> asked # NotSet /\ asked.callback /\ LevelOf(l) >= asked.level
  BY DEF LibraryLogAsAsked
<1> USE DEF LogIInv, LogTypeOK, LogInv
<1>1. CASE asked = NotSet
  BY <1>1 DEF Heard, LogMqttLib, Silent
<1>2. CASE asked # NotSet
  <2>1. logInit = asked /\ asked \in MqttLogInit /\ libLog = LibLogFor(asked.level)
    BY <1>2
  <2>2. asked.level \in LogLevelLib
    BY <2>1 DEF MqttLogInit
  <2>3. LevelOf(l) >= asked.level => libLog.on
    BY <2>1, <2>2, NoLevelIsNone DEF LibLogFor, TRACE, FATAL, NONE, LogLevelLib
  <2>4. LevelOf(l) >= asked.level /\ backend = "paho" => Rank(l) >= libLog.from
    BY <2>1, <2>2, TraceLevelSuffices DEF LibLogFor
  <2> QED
    BY <1>2, <2>1, <2>3, <2>4 DEF Heard, LogMqttLib
<1> QED
  BY <1>1, <1>2
=============================================================================
