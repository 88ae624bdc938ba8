--------------------------- MODULE MessageTransfer --------------------------
(***************************************************************************)
(* A message on its way from PublishAsync of one client to OnMqttMessage   *)
(* of another, each built on one of the two libraries: which properties    *)
(* the sender encodes, when it refuses the message, what the receiver      *)
(* makes of the properties that arrive.                                    *)
(*                                                                         *)
(* A payload and correlation data are their sizes, a topic or content type *)
(* is a text.  The topic, the quality of service and the retain flag pass  *)
(* through both functions unchanged and are left out, as is the message    *)
(* identifier, which the receiving library assigns.  The libraries and the *)
(* broker are external: a library may refuse anything, the broker may      *)
(* lose, reorder and repeat.  Other clients may publish what an IMqtt      *)
(* client cannot: properties left out, a user property given twice.        *)
(***************************************************************************)
EXTENDS Integers, Sequences, FiniteSets

CONSTANTS
  Offered,      (* the messages the user may publish                         *)
  Foreign,      (* what other clients publish, as it arrives                 *)
  Absent,       (* a property the arriving message does not have             *)
  MaxMessages   (* how many messages are published: bounds the model         *)

Backends == {"mosquitto", "paho"}
Wrap == 65536                 (* 2^16: lengths are 16 bits in MQTT properties *)
Stranger == 0                 (* the origin of a foreign message             *)
Formats == {"UTF8", "UNSPECIFIED"}

(* User properties are a finite map (std::map) in an IMqtt message, and a  *)
(* list of pairs in an MQTT message.                                       *)
IsMap(props) ==
  /\ props = [k \in DOMAIN props |-> props[k]]
  /\ IsFiniteSet(DOMAIN props)

IsList(pairs) ==
  /\ Len(pairs) \in Nat
  /\ DOMAIN pairs = 1 .. Len(pairs)

ASSUME TransferAssumption ==
  /\ MaxMessages \in Nat
  /\ Absent \notin Nat
  /\ \A m \in Offered : /\ m.payload \in Nat
                        /\ m.correlation \in Nat
                        /\ m.format \in Formats
                        /\ Absent \notin {m.responseTopic, m.contentType}
                        /\ IsMap(m.userProps)
  /\ \A w \in Foreign : /\ w.payload \in Nat
                        /\ w.correlation \in Nat \cup {Absent}
                        /\ IsList(w.userProps)

VARIABLES
  sender, receiver,   (* the libraries of the two clients                    *)
  published,          (* every PublishAsync so far, with what it returned    *)
  inFlight,           (* what the libraries and the broker carry             *)
  handed              (* what OnMqttMessage of the receiver got              *)

vars == <<sender, receiver, published, inFlight, handed>>

Init ==
  /\ sender \in Backends
  /\ receiver \in Backends
  /\ published = <<>>
  /\ inFlight = {}
  /\ handed = {}
-----------------------------------------------------------------------------
(* The return codes of the libraries and what the user gets for them.      *)
LibraryCodes(b) ==
  IF b = "mosquitto" THEN {"SUCCESS", "TLS", "TLS_HANDSHAKE", "CONN_LOST", "NO_CONN", "AUTH", "OTHER"}
                     ELSE {"SUCCESS", "DISCONNECTED", "OTHER"}

ReasonCode(b, rc) ==
  CASE rc = "SUCCESS" -> "OKAY"
    [] b = "mosquitto" /\ rc \in {"TLS", "TLS_HANDSHAKE"} -> "ERROR_TLS"
    [] b = "mosquitto" /\ rc \in {"CONN_LOST", "NO_CONN"} -> "ERROR_NO_CONNECTION"
    [] b = "mosquitto" /\ rc = "AUTH" -> "NOT_ALLOWED"
    [] b = "paho" /\ rc = "DISCONNECTED" -> "ERROR_NO_CONNECTION"
    [] OTHER -> "ERROR_GENERAL"

(* A user property map as the pairs of an MQTT message, in some order.     *)
Pairs(props) ==
  CHOOSE s \in [1 .. Cardinality(DOMAIN props) -> {<<k, props[k]>> : k \in DOMAIN props}] :
    \A k \in DOMAIN props : \E i \in DOMAIN s : s[i] = <<k, props[k]>>

(* Deviations: the two texts change places; the sizes are signed.          *)
EncodedSwapped(b, m) ==
  [payload |-> m.payload, correlation |-> m.correlation, userProps |-> Pairs(m.userProps),
   responseTopic |-> m.contentType, contentType |-> m.responseTopic,
   format |-> IF m.format = "UTF8" THEN 1 ELSE 0]

EncodedSigned(b, m) ==
  LET Size(n) == ((n + Wrap \div 2) % Wrap) - Wrap \div 2
  IN  [payload |-> Size(m.payload), correlation |-> Size(m.correlation),
       userProps |-> Pairs(m.userProps), responseTopic |-> m.responseTopic,
       contentType |-> m.contentType, format |-> IF m.format = "UTF8" THEN 1 ELSE 0]

(* What PublishAsync encodes.  Mosquitto's casts both sizes to uint16_t.   *)
Encoded(b, m) ==
  LET Size(n) == IF b = "mosquitto" THEN n % Wrap ELSE n
  IN  [payload |-> Size(m.payload), correlation |-> Size(m.correlation),
       userProps |-> Pairs(m.userProps), responseTopic |-> m.responseTopic,
       contentType |-> m.contentType, format |-> IF m.format = "UTF8" THEN 1 ELSE 0]

(* PublishAsync.  A property the library refuses stops the message before  *)
(* it is handed to the library; so may the library itself, which cannot    *)
(* send correlation data that does not fit.                                *)
PublishAnyway(m) ==
  /\ Len(published) < MaxMessages
  /\ \E propertiesOkay \in BOOLEAN, rc \in LibraryCodes(sender) :
       LET wire == Encoded(sender, m)
           sent == rc = "SUCCESS"
       IN  /\ sent => wire.correlation < Wrap
           /\ published' = Append(published,
                [msg |-> m,
                 status |-> IF propertiesOkay THEN ReasonCode(sender, rc) ELSE "ERROR_GENERAL"])
           /\ inFlight' = IF sent THEN inFlight \cup {[from |-> Len(published) + 1, wire |-> wire]}
                                  ELSE inFlight
  /\ UNCHANGED <<sender, receiver, handed>>

PublishAsync(m) ==
  /\ Len(published) < MaxMessages
  /\ \E propertiesOkay \in BOOLEAN, rc \in LibraryCodes(sender) :
       LET wire == Encoded(sender, m)
           sent == propertiesOkay /\ rc = "SUCCESS"
       IN  /\ sent => wire.correlation < Wrap
           /\ published' = Append(published,
                [msg |-> m,
                 status |-> IF propertiesOkay THEN ReasonCode(sender, rc) ELSE "ERROR_GENERAL"])
           /\ inFlight' = IF sent THEN inFlight \cup {[from |-> Len(published) + 1, wire |-> wire]}
                                  ELSE inFlight
  /\ UNCHANGED <<sender, receiver, handed>>
-----------------------------------------------------------------------------
(* The network: other clients publish, messages are lost.                  *)
ForeignMessage(w) ==
  /\ inFlight' = inFlight \cup {[from |-> Stranger, wire |-> w]}
  /\ UNCHANGED <<sender, receiver, published, handed>>

Lose(f) ==
  /\ inFlight' = inFlight \ {f}
  /\ UNCHANGED <<sender, receiver, published, handed>>
-----------------------------------------------------------------------------
(* The user properties as the map the receiver fills pair by pair: insert  *)
(* refuses a key that is there already.                                    *)
Keys(pairs) == {pairs[i][1] : i \in DOMAIN pairs}

Inserted(pairs) ==
  [k \in Keys(pairs) |->
     pairs[CHOOSE i \in DOMAIN pairs :
             /\ pairs[i][1] = k
             /\ \A j \in DOMAIN pairs : pairs[j][1] = k => i <= j][2]]

(* The message onMessageCb builds.  Mosquitto's copies the content type to *)
(* the response topic; whether the library returns an empty text as a null *)
(* pointer is its choice.                                                  *)
Decoded(b, w, emptyIsNull) ==
  LET Given(v) == v # Absent /\ (b = "mosquitto" /\ emptyIsNull => v # "")
      Text(v) == IF Given(v) THEN v ELSE ""
  IN  [payload |-> w.payload,
       correlation |-> IF w.correlation = Absent THEN 0 ELSE w.correlation,
       userProps |-> Inserted(w.userProps),
       responseTopic |-> IF b = "mosquitto" /\ Given(w.contentType)
                         THEN w.contentType ELSE Text(w.responseTopic),
       contentType |-> IF b = "mosquitto" THEN "" ELSE Text(w.contentType),
       format |-> IF w.format = 1 THEN "UTF8" ELSE "UNSPECIFIED"]

(* onMessageCb on the network thread of the receiver; the broker may send  *)
(* the message again.                                                      *)
OnMessage(f) ==
  /\ \E emptyIsNull \in BOOLEAN :
       handed' = handed \cup {[from |-> f.from, wire |-> f.wire,
                               msg |-> Decoded(receiver, f.wire, emptyIsNull)]}
  /\ \E again \in BOOLEAN : inFlight' = IF again THEN inFlight ELSE inFlight \ {f}
  /\ UNCHANGED <<sender, receiver, published>>

Next ==
  \/ \E m \in Offered : PublishAsync(m)
  \/ \E w \in Foreign : ForeignMessage(w)
  \/ \E f \in inFlight : Lose(f) \/ OnMessage(f)

Spec == Init /\ [][Next]_vars
-----------------------------------------------------------------------------
Origin(h) == published[h.from].msg

(* Every message in flight or handed over has an origin, and its sizes are *)
(* sizes.                                                                  *)
TypeOK ==
  /\ sender \in Backends /\ receiver \in Backends
  /\ \A i \in DOMAIN published :
       /\ published[i].msg \in Offered
       /\ published[i].status \in {"OKAY", "ERROR_GENERAL", "ERROR_NO_CONNECTION", "ERROR_TLS",
                                   "NOT_ALLOWED"}
  /\ \A f \in inFlight \cup handed :
       /\ f.from \in {Stranger} \cup DOMAIN published
       /\ f.from = Stranger => f.wire \in Foreign
  /\ \A h \in handed : h.msg.payload \in Nat /\ h.msg.correlation \in Nat

(* A message PublishAsync reported as failed is not handed to anybody: the *)
(* user may publish it again without making it two messages.               *)
RefusedIsNeverHanded ==
  \A h \in handed : h.from # Stranger => published[h.from].status = "OKAY"

(* What is handed over is what was published: the user properties and the  *)
(* format always, sizes unless Mosquitto's 16 bits cut them, and through   *)
(* Paho's receiver the response topic and the content type too.            *)
HandedAsPublished ==
  \A h \in handed : h.from # Stranger =>
    LET m == Origin(h)
    IN  /\ h.msg.userProps = m.userProps
        /\ h.msg.format = m.format
        /\ sender = "paho" \/ m.payload < Wrap => h.msg.payload = m.payload
        /\ sender = "paho" \/ m.correlation < Wrap => h.msg.correlation = m.correlation
        /\ receiver = "paho" => /\ h.msg.responseTopic = m.responseTopic
                                /\ h.msg.contentType = m.contentType

(* The interface: IMqttMessage::payloadContentType is the "playload        *)
(* content type as defined in the MQTTv5 standard" of the message.  With   *)
(* Mosquitto the receiver finds it in responseTopic instead.               *)
ContentTypeIsHanded ==
  \A h \in handed : h.from # Stranger => h.msg.contentType = Origin(h).contentType
=============================================================================
