------------------------ MODULE ClientCallbacksProofs -----------------------
(***************************************************************************)
(* The safety of commands, reports and listeners, for any number of        *)
(* commands, listeners, replacements and clients: tokens correlate, a      *)
(* replaced listener gets one late report at most, success is success, and *)
(* the library's logs are heard as asked.                                  *)
(***************************************************************************)
EXTENDS ClientCallbacks, LibraryLoggingProofs, SequenceTheorems

(* The listener in use is the one asked for and has no late report; nor    *)
(* has the one a callback has read and is about to call.                   *)
RegistryInv ==
  /\ cmdCb = wanted
  /\ late[wanted] = 0
  /\ libThread = "hasRead" => late[target] = 0

(* What a command's call, status and request say of each other; the token  *)
(* is known when the call has returned, with Mosquitto earlier.            *)
CallInv(c) ==
  /\ call[c] = "idle" <=> kind[c] = "none"
  /\ request[c] # "none" => status[c] = "OKAY" /\ call[c] # "idle"
  /\ status[c] = "OKAY" /\ (call[c] = "returned" \/ backend = "mosquitto") =>
       token[c] = LibraryToken(kind[c], c)
  /\ status[c] = "OKAY" => call[c] # "idle"

(* A command issued in a callback is under way only during that callback,  *)
(* so it is answered after it has returned.                                *)
OriginInv(c) ==
  origin[c] = "callback" =>
    /\ call[c] = "calling" => libThread = "inCallback"
    /\ request[c] = "answered" => call[c] = "returned"

(* Only what is answered has an outcome, is being reported or was.         *)
AnswerInv(c) ==
  /\ request[c] = "answered" <=> outcome[c] # "none"
  /\ serving = c \/ IsToldTo(c) =>
       request[c] = "answered" /\ IsReported(kind[c], outcome[c])

(* A report carries the library's token, and of a refused publish failure. *)
ReportsOf(c) == {reported[c][i] : i \in DOMAIN reported[c]}

ReportInv(c) ==
  \A r \in ReportsOf(c) :
    /\ r.token = LibraryToken(kind[c], c)
    /\ kind[c] \in Publishes /\ outcome[c] = "refused" => r.rc = "failure"

CommandInv == \A c \in Commands : CallInv(c) /\ OriginInv(c) /\ AnswerInv(c) /\ ReportInv(c)

IInv == TypeOK /\ LogInv /\ RegistryInv /\ CommandInv

-----------------------------------------------------------------------------
(* The invariant holds before the first command, ...                       *)
THEOREM InitIInv == Init => IInv
<1> SUFFICES ASSUME Init PROVE IInv
  OBVIOUS
<1> USE CallbackAssumption DEF Init
<1>1. LogIInv
  BY InitLogIInv
<1>2. TypeOK
  BY <1>1 DEF TypeOK, LogIInv, LibThread
<1>3. RegistryInv
  BY DEF RegistryInv
<1>4. CommandInv
  BY DEF CommandInv, CallInv, OriginInv, AnswerInv, IsToldTo, ReportInv, ReportsOf
<1> QED
  BY <1>1, <1>2, <1>3, <1>4 DEF IInv, LogIInv

(* The reason code that comes with a report is a code, and failure if the  *)
(* broker refused a publish.                                               *)
LEMMA ReasonCodesFit ==
  ASSUME NEW k, NEW out \in Outcomes, NEW rc \in ReasonCodes(k, out)
  PROVE  /\ rc \in {"none", "SUCCESS", "failure"}
         /\ k \in Publishes /\ out = "refused" => rc = "failure"
  BY DEF ReasonCodes, Outcomes

(* The token of a command is a number.                                     *)
LEMMA TokenType == ASSUME NEW c \in Commands, NEW k PROVE LibraryToken(k, c) \in Nat
  BY CallbackAssumption DEF LibraryToken

(* A list of reports with one more: what was in it, and the new one.       *)
LEMMA OneMoreReport ==
  ASSUME NEW s \in Seq(Reports), NEW r \in Reports
  PROVE  /\ Append(s, r) \in Seq(Reports)
         /\ Append(s, r) # <<>>
         /\ {Append(s, r)[i] : i \in DOMAIN Append(s, r)} = {s[i] : i \in DOMAIN s} \cup {r}
<1>1. /\ Append(s, r) \in Seq(Reports)
      /\ Append(s, r) # <<>>
      /\ Len(Append(s, r)) = Len(s) + 1
      /\ \A i \in 1 .. Len(s) : Append(s, r)[i] = s[i]
      /\ Append(s, r)[Len(s) + 1] = r
  BY AppendProperties
<1>2. /\ DOMAIN s = 1 .. Len(s) /\ Len(s) \in Nat
      /\ DOMAIN Append(s, r) = 1 .. (Len(s) + 1)
  BY <1>1, LenProperties
<1>3. 1 .. (Len(s) + 1) = (1 .. Len(s)) \cup {Len(s) + 1}
  BY <1>2
<1> QED
  BY <1>1, <1>2, <1>3

(* What EnterListener reports: the command it serves, with a token and a   *)
(* code; nothing else is reported.                                         *)
LEMMA WhatIsReported ==
  ASSUME TypeOK, CommandInv, EnterListener
  PROVE  \E r \in Reports :
           /\ serving \in Commands
           /\ reported' = [reported EXCEPT ![serving] = Append(@, r)]
           /\ r.token = LibraryToken(kind[serving], serving)
           /\ kind[serving] \in Publishes /\ outcome[serving] = "refused" => r.rc = "failure"
<1>1. serving \in Commands
  BY DEF TypeOK, EnterListener
<1>2. outcome[serving] \in Outcomes
  BY <1>1 DEF CommandInv, AnswerInv, TypeOK
<1>3. PICK rc \in ReasonCodes(kind[serving], outcome[serving]) :
        reported' = [reported EXCEPT ![serving] = Append(@,
          [token |-> LibraryToken(kind[serving], serving), rc |-> rc])]
  BY DEF EnterListener
<1> DEFINE r == [token |-> LibraryToken(kind[serving], serving), rc |-> rc]
<1>4. r \in Reports
  BY <1>1, <1>2, TokenType, ReasonCodesFit DEF Reports
<1>5. kind[serving] \in Publishes /\ outcome[serving] = "refused" => r.rc = "failure"
  BY <1>2, ReasonCodesFit
<1> QED
  BY <1>1, <1>3, <1>4, <1>5

(* A build wraps one library.                                              *)
LEMMA BackendStays == ASSUME Next PROVE backend' = backend
  BY DEF Next, LogStep, UserInitLog, ConstructorInitLog, SetCallbacks, Issue, IssueWith, Return,
     Answer, Drop, OtherCallback, Library, EnterListener, LeaveCallback, logVars
-----------------------------------------------------------------------------
(* Every step keeps the setting of the logs right ...                      *)
LEMMA LogPreserved == ASSUME LogIInv, Next PROVE LogIInv'
<1>1. CASE LogStep
  BY <1>1, UserInitLogStep, ConstructorStep DEF LogStep
<1>2. CASE ~LogStep
  <2>1. UNCHANGED logVars
    BY <1>2 DEF Next, SetCallbacks, Issue, IssueWith, Return, Answer, Drop, OtherCallback,
       Library, EnterListener, LeaveCallback
  <2> QED
    BY <2>1, LogFrame
<1> QED
  BY <1>1, <1>2

(* ... the variables in their ranges ...                                   *)
LEMMA TypeStep == ASSUME TypeOK, CommandInv, LogIInv', Next PROVE TypeOK'
<1> USE CallbackAssumption
<1>1. LogTypeOK' /\ Kinds' = Kinds
  BY BackendStays DEF LogIInv, Kinds, Publishes
<1> USE <1>1 DEF TypeOK, LibThread
<1>2. CASE LogStep
  BY <1>2 DEF LogStep, registry, issued, answered, thread
<1>3. ASSUME NEW l \in Listeners \cup {Self}, SetCallbacks(l) PROVE TypeOK'
  BY <1>3 DEF SetCallbacks, issued, thread
<1>4. ASSUME NEW c \in Commands, NEW k \in Kinds, NEW o \in {"user", "callback"}, Issue(c, k, o)
      PROVE  TypeOK'
  <2>1. PICK accepted \in BOOLEAN :
          IssueWith(c, k, o, accepted,
                    IF backend = "mosquitto" /\ accepted THEN LibraryToken(k, c) ELSE Unknown)
    BY <1>4 DEF Issue
  <2>2. token' \in [Commands -> Nat \cup {Unknown}]
    BY <2>1, TokenType DEF IssueWith
  <2>3. /\ kind' \in [Commands -> Kinds \cup {"none"}]
        /\ origin' \in [Commands -> {"none", "user", "callback"}]
        /\ call' \in [Commands -> {"idle", "calling", "returned"}]
    BY <2>1 DEF IssueWith
  <2>4. /\ status' \in [Commands -> {"none", "OKAY", "ERROR"}]
        /\ request' \in [Commands -> {"none", "pending", "answered", "dropped"}]
    BY <2>1 DEF IssueWith
  <2> QED
    BY <2>1, <2>2, <2>3, <2>4 DEF IssueWith, registry, thread
<1>5. ASSUME NEW c \in Commands, Return(c) PROVE TypeOK'
  BY <1>5, TokenType DEF Return, registry, answered, thread
<1>6. ASSUME NEW c \in Commands, NEW out \in Outcomes, Answer(c, out) PROVE TypeOK'
  <2>1. libThread' \in LibThread /\ (libThread' = "hasRead" <=> serving' \in Commands)
    BY <1>6 DEF Answer, thread
  <2>2. serving' \in Commands \cup {0} /\ target' \in Listeners \cup {Self}
    BY <1>6 DEF Answer, thread
  <2>3. /\ request' \in [Commands -> {"none", "pending", "answered", "dropped"}]
        /\ outcome' \in [Commands -> Outcomes \cup {"none"}]
    BY <1>6 DEF Answer
  <2> QED
    BY <1>6, <2>1, <2>2, <2>3 DEF Answer, registry, issued
<1>7. ASSUME NEW c \in Commands, Drop(c) PROVE TypeOK'
  BY <1>7 DEF Drop, registry, issued, thread
<1>8. CASE EnterListener
  <2>1. reported' \in [Commands -> Seq(Reports)]
    <3>1. PICK r \in Reports :
            serving \in Commands /\ reported' = [reported EXCEPT ![serving] = Append(@, r)]
      BY <1>8, WhatIsReported
    <3>2. Append(reported[serving], r) \in Seq(Reports)
      BY <3>1, OneMoreReport
    <3> QED
      BY <3>1, <3>2
  <2> QED
    BY <1>8, <2>1 DEF EnterListener, registry, issued
<1>9. CASE LeaveCallback \/ OtherCallback
  BY <1>9 DEF LeaveCallback, OtherCallback, registry, issued
<1> HIDE DEF TypeOK, LibThread
<1> QED
  BY <1>2, <1>3, <1>4, <1>5, <1>6, <1>7, <1>8, <1>9 DEF Next, Library

(* ... the listener in use, and that about to be called, free of late      *)
(* reports ...                                                             *)
LEMMA RegistryStep == ASSUME TypeOK, RegistryInv, Next PROVE RegistryInv'
<1> USE DEF TypeOK, RegistryInv
<1>1. CASE LogStep
  BY <1>1 DEF LogStep, registry, answered, thread
<1>2. ASSUME NEW l \in Listeners \cup {Self}, SetCallbacks(l) PROVE RegistryInv'
  BY <1>2 DEF SetCallbacks, thread
<1>3. ASSUME NEW c \in Commands,
             \/ \E k \in Kinds, o \in {"user", "callback"} : Issue(c, k, o)
             \/ Return(c) \/ Drop(c)
      PROVE  RegistryInv'
  BY <1>3 DEF Issue, IssueWith, Return, Drop, registry, answered, thread
<1>4. ASSUME NEW c \in Commands, NEW out \in Outcomes, Answer(c, out) PROVE RegistryInv'
  BY <1>4 DEF Answer, registry, thread
<1>5. CASE EnterListener
  BY <1>5 DEF EnterListener, registry
<1>6. CASE LeaveCallback \/ OtherCallback
  BY <1>6 DEF LeaveCallback, OtherCallback, registry
<1> QED
  BY <1>1, <1>2, <1>3, <1>4, <1>5, <1>6 DEF Next, Library

(* ... and each listener at one late report.                               *)
LEMMA LateStep ==
  ASSUME TypeOK, RegistryInv, OneLateReport, Next PROVE OneLateReport'
<1> USE DEF TypeOK, RegistryInv, OneLateReport
<1>1. CASE LogStep
  BY <1>1 DEF LogStep, answered
<1>2. ASSUME NEW l \in Listeners \cup {Self}, SetCallbacks(l) PROVE OneLateReport'
  BY <1>2 DEF SetCallbacks
<1>3. ASSUME NEW c \in Commands,
             \/ \E k \in Kinds, o \in {"user", "callback"} : Issue(c, k, o)
             \/ Return(c) \/ Drop(c) \/ \E out \in Outcomes : Answer(c, out)
      PROVE  OneLateReport'
  BY <1>3 DEF Issue, IssueWith, Return, Drop, Answer, answered
<1>4. CASE EnterListener
  BY <1>4 DEF EnterListener
<1>5. CASE LeaveCallback \/ OtherCallback
  BY <1>5 DEF LeaveCallback, OtherCallback
<1> QED
  BY <1>1, <1>2, <1>3, <1>4, <1>5 DEF Next, Library
-----------------------------------------------------------------------------
(* Every step keeps calls, answers and reports consistent.  A step of the  *)
(* registry or the logs touches none of them.                              *)
LEMMA CommandFrame ==
  ASSUME CommandInv, UNCHANGED <<backend, kind, origin, call, status, token, request, outcome,
                                 reported, libThread, serving>>
  PROVE  CommandInv'
  BY DEF CommandInv, CallInv, OriginInv, AnswerInv, IsToldTo, IsReported, ReportInv, ReportsOf,
     Publishes

(* A command is issued: nothing was known of it before.                    *)
LEMMA IssueStep ==
  ASSUME TypeOK, CommandInv, backend' = backend, NEW c \in Commands, NEW k \in Kinds,
         NEW o \in {"user", "callback"}, Issue(c, k, o)
  PROVE  CommandInv'
<1>1. PICK accepted \in BOOLEAN :
        IssueWith(c, k, o, accepted,
                  IF backend = "mosquitto" /\ accepted THEN LibraryToken(k, c) ELSE Unknown)
  BY DEF Issue
<1>2. request[c] = "none" /\ outcome[c] = "none" /\ ~IsToldTo(c) /\ serving # c
  BY <1>1 DEF IssueWith, CommandInv, CallInv, AnswerInv
<1> SUFFICES ASSUME NEW d \in Commands
             PROVE  CallInv(d)' /\ OriginInv(d)' /\ AnswerInv(d)' /\ ReportInv(d)'
  BY DEF CommandInv
<1> USE <1>1, <1>2 DEF TypeOK, CommandInv, IssueWith, thread
<1>3. CallInv(d)'
  BY DEF CallInv, Kinds, Publishes
<1>4. OriginInv(d)'
  BY DEF OriginInv
<1>5. AnswerInv(d)'
  BY DEF AnswerInv, IsToldTo, IsReported, Publishes
<1>6. ReportInv(d)'
  BY DEF ReportInv, ReportsOf, IsToldTo, Publishes
<1> QED
  BY <1>3, <1>4, <1>5, <1>6

(* The call returns, with Paho after it has passed on the token.           *)
LEMMA ReturnStep ==
  ASSUME TypeOK, CommandInv, backend' = backend, NEW c \in Commands, Return(c)
  PROVE  CommandInv'
<1> SUFFICES ASSUME NEW d \in Commands
             PROVE  CallInv(d)' /\ OriginInv(d)' /\ AnswerInv(d)' /\ ReportInv(d)'
  BY DEF CommandInv
<1> USE DEF TypeOK, CommandInv, Return, answered, thread
<1>1. CallInv(d)'
  BY DEF CallInv, LogTypeOK, Backends
<1>2. OriginInv(d)'
  BY DEF OriginInv
<1>3. AnswerInv(d)' /\ ReportInv(d)'
  BY DEF AnswerInv, IsToldTo, IsReported, ReportInv, ReportsOf, Publishes
<1> QED
  BY <1>1, <1>2, <1>3

(* The library answers: the thread was free, the command unanswered.       *)
LEMMA AnswerStep ==
  ASSUME TypeOK, CommandInv, backend' = backend, NEW c \in Commands, NEW out \in Outcomes,
         Answer(c, out)
  PROVE  CommandInv'
<1>1. call[c] # "idle" /\ ~IsToldTo(c) /\ serving \notin Commands
  BY DEF TypeOK, CommandInv, CallInv, AnswerInv, Answer
<1> SUFFICES ASSUME NEW d \in Commands
             PROVE  CallInv(d)' /\ OriginInv(d)' /\ AnswerInv(d)' /\ ReportInv(d)'
  BY DEF CommandInv
<1> USE <1>1 DEF TypeOK, CommandInv, Answer, issued, thread
<1>2. CallInv(d)'
  BY DEF CallInv
<1>3. OriginInv(d)'
  BY DEF OriginInv
<1>4. AnswerInv(d)'
  BY DEF AnswerInv, IsToldTo, IsReported, Publishes, Outcomes
<1>5. ReportInv(d)'
  BY DEF ReportInv, ReportsOf, IsToldTo, Publishes
<1> QED
  BY <1>2, <1>3, <1>4, <1>5

(* The connection goes before the answer.                                  *)
LEMMA DropStep ==
  ASSUME TypeOK, CommandInv, backend' = backend, NEW c \in Commands, Drop(c)
  PROVE  CommandInv'
  BY DEF TypeOK, CommandInv, Drop, issued, thread, CallInv, OriginInv, AnswerInv, IsToldTo,
     IsReported, ReportInv, ReportsOf, Publishes

(* The report: it goes to the command that is served, with its token.      *)
LEMMA EnterListenerStep ==
  ASSUME TypeOK, CommandInv, backend' = backend, EnterListener
  PROVE  CommandInv'
<1>1. PICK r \in Reports :
        /\ serving \in Commands
        /\ reported' = [reported EXCEPT ![serving] = Append(@, r)]
        /\ r.token = LibraryToken(kind[serving], serving)
        /\ kind[serving] \in Publishes /\ outcome[serving] = "refused" => r.rc = "failure"
  BY WhatIsReported
<1> SUFFICES ASSUME NEW d \in Commands
             PROVE  CallInv(d)' /\ OriginInv(d)' /\ AnswerInv(d)' /\ ReportInv(d)'
  BY DEF CommandInv
<1>2. CASE d = serving
  <2>1. reported'[d] = Append(reported[d], r) /\ reported[d] \in Seq(Reports)
    BY <1>1, <1>2 DEF TypeOK
  <2>2. ReportsOf(d)' = ReportsOf(d) \cup {r}
    BY <2>1, OneMoreReport DEF ReportsOf
  <2>3. CallInv(d)' /\ OriginInv(d)'
    BY DEF CommandInv, CallInv, OriginInv, EnterListener, issued
  <2>4. AnswerInv(d)'
    BY <1>1, <1>2 DEF CommandInv, AnswerInv, IsReported, Publishes, EnterListener, issued
  <2>5. ReportInv(d)'
    BY <1>1, <1>2, <2>2 DEF CommandInv, ReportInv, Publishes, EnterListener, issued
  <2> QED
    BY <2>3, <2>4, <2>5
<1>3. CASE d # serving
  <2>1. reported'[d] = reported[d]
    BY <1>1, <1>3 DEF TypeOK
  <2> QED
    BY <1>3, <2>1, CallbackAssumption
    DEF CommandInv, CallInv, OriginInv, AnswerInv, IsToldTo, IsReported, ReportInv, ReportsOf,
        Publishes, EnterListener, issued
<1> QED
  BY <1>2, <1>3

(* A callback that serves no command, and the end of any.                  *)
LEMMA OtherCallbackStep ==
  ASSUME CommandInv, backend' = backend, OtherCallback \/ LeaveCallback
  PROVE  CommandInv'
  BY DEF CommandInv, OtherCallback, LeaveCallback, issued, CallInv, OriginInv, AnswerInv,
     IsToldTo, IsReported, ReportInv, ReportsOf, Publishes

(* Every step keeps what the invariant says of commands.                   *)
LEMMA CommandStep == ASSUME TypeOK, CommandInv, Next PROVE CommandInv'
<1>1. backend' = backend
  BY BackendStays
<1>2. CASE LogStep \/ \E l \in Listeners \cup {Self} : SetCallbacks(l)
  BY <1>1, <1>2, CommandFrame DEF LogStep, SetCallbacks, issued, answered, thread
<1> QED
  BY <1>1, <1>2, IssueStep, ReturnStep, AnswerStep, DropStep, EnterListenerStep,
     OtherCallbackStep DEF Next, Library
-----------------------------------------------------------------------------
(* ... and every step keeps it, ...                                        *)
THEOREM NextIInv == IInv /\ [Next]_vars => IInv'
<1> SUFFICES ASSUME IInv, [Next]_vars PROVE IInv'
  OBVIOUS
<1>1. LogIInv
  BY DEF IInv, TypeOK, LogIInv
<1>2. CASE Next
  <2>1. LogIInv'
    BY <1>1, <1>2, LogPreserved
  <2> QED
    BY <1>2, <2>1, TypeStep, RegistryStep, CommandStep DEF IInv, LogIInv
<1>3. CASE UNCHANGED vars
  <2>1. LogIInv'
    BY <1>1, <1>3, LogFrame DEF vars
  <2>2. TypeOK'
    BY <1>3, <2>1
    DEF vars, logVars, registry, issued, answered, thread, IInv, TypeOK, LogIInv, Kinds, Publishes
  <2>3. RegistryInv'
    BY <1>3 DEF vars, registry, answered, thread, IInv, RegistryInv
  <2>4. CommandInv'
    BY <1>3, CommandFrame DEF vars, logVars, issued, answered, thread, IInv
  <2> QED
    BY <2>1, <2>2, <2>3, <2>4 DEF IInv, LogIInv
<1> QED
  BY <1>2, <1>3

(* ... so it holds in every behaviour of a client and its user.            *)
THEOREM Invariance == Spec => []IInv
  BY InitIInv, NextIInv, PTL DEF Spec
-----------------------------------------------------------------------------
(* Types, for any number of commands, listeners and clients.               *)
THEOREM TypeCorrect == Spec => []TypeOK
<1>1. IInv => TypeOK
  BY DEF IInv
<1> QED
  BY <1>1, Invariance, PTL

(* IMqttClient.h, the token parameters: a report can be matched with its   *)
(* call by the token, once the call has returned or earlier.               *)
THEOREM TokensCorrelate == Spec => []TokenCorrelates
<1>1. IInv => TokenCorrelates
  <2> SUFFICES ASSUME IInv, NEW c \in Commands, NEW i \in DOMAIN reported[c]
               PROVE  /\ status[c] = "OKAY"
                      /\ \/ call[c] = "returned"
                         \/ backend = "mosquitto"
                         \/ origin[c] = "callback"
                         => token[c] = reported[c][i].token
    BY DEF TokenCorrelates
  <2>1. IsToldTo(c) /\ reported[c][i] \in ReportsOf(c)
    BY DEF IsToldTo, ReportsOf
  <2> QED
    BY <2>1 DEF IInv, CommandInv, CallInv, OriginInv, AnswerInv, ReportInv
<1> QED
  BY <1>1, Invariance, PTL

(* IMqttClient.cpp:160-186: however often listeners are replaced, none is  *)
(* called more than once after its replacement.                            *)
THEOREM AtMostOneLate == Spec => []OneLateReport
<1>1. Init => OneLateReport
  BY DEF Init, OneLateReport
<1>2. IInv /\ OneLateReport /\ [Next]_vars => OneLateReport'
  <2>1. CASE UNCHANGED vars
    BY <2>1 DEF vars, answered, OneLateReport
  <2> QED
    BY <2>1, LateStep DEF IInv
<1> QED
  BY <1>1, <1>2, Invariance, PTL DEF Spec

(* MosquittoClient.cpp:309-319, PahoClient.cpp:399: a report of success    *)
(* means success but for the two exceptions the property names.            *)
THEOREM SuccessIsTrue == Spec => []SuccessIsSuccess
<1>1. IInv => SuccessIsSuccess
  <2> SUFFICES ASSUME IInv, NEW c \in Commands, NEW i \in DOMAIN reported[c]
               PROVE  \/ outcome[c] = "success"
                      \/ reported[c][i].rc = "failure"
                      \/ backend = "mosquitto" /\ kind[c] \notin Publishes
                      \/ outcome[c] = "localFailure" /\ kind[c] \in Publishes
    BY DEF SuccessIsSuccess
  <2>1. IsToldTo(c) /\ reported[c][i] \in ReportsOf(c)
    BY DEF IsToldTo, ReportsOf
  <2>2. outcome[c] \in Outcomes /\ IsReported(kind[c], outcome[c])
    BY <2>1 DEF IInv, TypeOK, CommandInv, AnswerInv
  <2>3. kind[c] \in Publishes /\ outcome[c] = "refused" => reported[c][i].rc = "failure"
    BY <2>1 DEF IInv, CommandInv, ReportInv
  <2> QED
    BY <2>2, <2>3 DEF IInv, TypeOK, LogTypeOK, Backends, IsReported, Outcomes
<1> QED
  BY <1>1, Invariance, PTL

(* IMqttClientCallbacks.h:48, IMqttClient.cpp:146: of the library's logs   *)
(* the user hears exactly what was asked for before the first client.      *)
THEOREM LogsAsAsked == Spec => []LibraryLogAsAsked
<1>1. IInv => LibraryLogAsAsked
  BY HeardAsAsked DEF IInv, TypeOK, LogIInv
<1> QED
  BY <1>1, Invariance, PTL
=============================================================================
