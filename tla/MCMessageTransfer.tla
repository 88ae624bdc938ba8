-------------------------- MODULE MCMessageTransfer -------------------------
(* Instances of MessageTransfer for TLC.  The sizes lie below 2^15, above  *)
(* it and above 2^16; 65541 is cut to 5.  Another client gives one user    *)
(* property twice and leaves properties out.                               *)
EXTENDS MessageTransfer

CONSTANTS key1, key2, val1, val2

NoProps == [k \in {} |-> val1]
Plain == [payload |-> 5, correlation |-> 0, userProps |-> NoProps, responseTopic |-> "",
          contentType |-> "", format |-> "UNSPECIFIED"]
Sample == [payload |-> 6, correlation |-> 5, userProps |-> [k \in {key1, key2} |-> val1],
           responseTopic |-> "reply", contentType |-> "ASCII", format |-> "UTF8"]

MCOffered ==
  {Plain, Sample,
   [Plain EXCEPT !.payload = 65541, !.contentType = "ASCII"],
   [Sample EXCEPT !.correlation = 65536, !.contentType = ""],
   [Sample EXCEPT !.payload = 40000, !.responseTopic = ""]}

MCForeign ==
  {[payload |-> 5, correlation |-> Absent, userProps |-> <<<<key1, val1>>, <<key2, val2>>, <<key1, val2>>>>,
    responseTopic |-> Absent, contentType |-> "ASCII", format |-> Absent],
   [payload |-> 0, correlation |-> 5, userProps |-> <<>>,
    responseTopic |-> "reply", contentType |-> Absent, format |-> 1]}
=============================================================================
