------------------------ MODULE MessageTransferProofs -----------------------
(***************************************************************************)
(* What survives the way of a message, for any messages, any number of     *)
(* them, any foreign traffic, and each pair of libraries.                  *)
(***************************************************************************)
EXTENDS MessageTransfer, FiniteSetTheorems, SequenceTheorems, TLAPS

Statuses == {"OKAY", "ERROR_GENERAL", "ERROR_NO_CONNECTION", "ERROR_TLS", "NOT_ALLOWED"}
Publication == [msg : Offered, status : Statuses]

PublishedInv ==
  /\ sender \in Backends /\ receiver \in Backends
  /\ published \in Seq(Publication)

(* What an envelope carries: a foreign message, or what the sender made of *)
(* a message that was accepted.                                            *)
Genuine(e) ==
  \/ e.from = Stranger /\ e.wire \in Foreign
  \/ /\ e.from \in DOMAIN published
     /\ published[e.from].status = "OKAY"
     /\ e.wire = Encoded(sender, published[e.from].msg)

WireInv == \A e \in inFlight \cup handed : Genuine(e)

(* What was handed over is what the receiver makes of what it carried.     *)
HandedInv == \A h \in handed : \E b \in BOOLEAN : h.msg = Decoded(receiver, h.wire, b)

IInv == PublishedInv /\ WireInv /\ HandedInv
-----------------------------------------------------------------------------
(* The list the sender makes of a map has each of its pairs exactly once.  *)
LEMMA PairsOfMap ==
  ASSUME NEW props, IsMap(props)
  PROVE  LET s == Pairs(props)
         IN  /\ IsList(s)
             /\ \A i \in DOMAIN s : s[i][1] \in DOMAIN props /\ s[i][2] = props[s[i][1]]
             /\ \A k \in DOMAIN props : \E i \in DOMAIN s : s[i][1] = k
             /\ \A i, j \in DOMAIN s : s[i][1] = s[j][1] => i = j
<1> DEFINE D == DOMAIN props
           n == Cardinality(D)
           P == {<<k, props[k]>> : k \in D}
           Lists == [1 .. n -> P]
           Good(s) == \A k \in D : \E i \in DOMAIN s : s[i] = <<k, props[k]>>
           s == Pairs(props)
<1>1. n \in Nat /\ ExistsBijection(1 .. n, D)
  BY FS_CardinalityType DEF IsMap
<1>2. PICK f \in [1 .. n -> D] : \A k \in D : \E i \in 1 .. n : f[i] = k
  BY <1>1 DEF ExistsBijection, Bijection, Surjection
<1>3. [i \in 1 .. n |-> <<f[i], props[f[i]]>>] \in Lists
  BY <1>2
<1>4. Good([i \in 1 .. n |-> <<f[i], props[f[i]]>>])
  BY <1>2
<1>5. s \in Lists /\ Good(s)
  <2>1. s = CHOOSE t \in Lists : Good(t)
    BY DEF Pairs
  <2> HIDE DEF Lists, Good, s
  <2> QED
    BY <1>3, <1>4, <2>1
<1>6. DOMAIN s = 1 .. n /\ \A i \in 1 .. n : s[i] \in P
  BY <1>5
<1> HIDE DEF s
<1>7. \A i \in 1 .. n : s[i][1] \in D /\ s[i][2] = props[s[i][1]]
  BY <1>6
<1>8. \A k \in D : \E i \in 1 .. n : s[i][1] = k
  BY <1>5, <1>6
<1>9. \A i, j \in 1 .. n : s[i][1] = s[j][1] => i = j
  <2> DEFINE g == [i \in 1 .. n |-> s[i][1]]
  <2>1. g \in Surjection(1 .. n, D)
    BY <1>7, <1>8 DEF Surjection
  <2>2. IsFiniteSet(1 .. n) /\ Cardinality(1 .. n) = n
    BY <1>1, FS_Interval
  <2>3. g \in Injection(1 .. n, D)
    BY <2>1, <2>2, FS_SurjSameCardinalityImpliesInj
  <2> QED
    BY <2>3 DEF Injection, IsInjective
<1>10. IsList(s)
  <2>1. s \in Seq(P)
    BY <1>1, <1>6, <1>5
  <2> QED
    BY <2>1, LenProperties DEF IsList
<1> QED
  BY <1>6, <1>7, <1>8, <1>9, <1>10 DEF s

(* insert keeps the first value of a key.                                  *)
LEMMA InsertedFirst ==
  ASSUME NEW pairs, IsList(pairs), NEW i \in DOMAIN pairs,
         \A j \in 1 .. i - 1 : pairs[j][1] # pairs[i][1]
  PROVE  Inserted(pairs)[pairs[i][1]] = pairs[i][2]
<1> DEFINE k == pairs[i][1]
           First(x) == pairs[x][1] = k /\ \A j \in DOMAIN pairs : pairs[j][1] = k => x <= j
<1>1. k \in Keys(pairs)
  BY DEF Keys
<1>2. First(i)
  BY DEF IsList
<1>3. \A x \in DOMAIN pairs : First(x) => x = i
  BY <1>2 DEF IsList
<1>4. (CHOOSE x \in DOMAIN pairs : First(x)) = i
  BY <1>2, <1>3
<1>5. Inserted(pairs)[k] = pairs[CHOOSE x \in DOMAIN pairs : First(x)][2]
  BY <1>1 DEF Inserted
<1> QED
  BY <1>4, <1>5

(* A map that is listed by the sender and filled pair by pair by the       *)
(* receiver is the map it was.                                             *)
LEMMA InsertedPairs ==
  ASSUME NEW props, IsMap(props) PROVE Inserted(Pairs(props)) = props
<1> DEFINE s == Pairs(props)
<1>1. /\ IsList(s)
      /\ \A i \in DOMAIN s : s[i][1] \in DOMAIN props /\ s[i][2] = props[s[i][1]]
      /\ \A k \in DOMAIN props : \E i \in DOMAIN s : s[i][1] = k
      /\ \A i, j \in DOMAIN s : s[i][1] = s[j][1] => i = j
  BY PairsOfMap
<1> HIDE DEF s
<1>2. Keys(s) = DOMAIN props
  BY <1>1 DEF Keys
<1>3. ASSUME NEW k \in DOMAIN props PROVE Inserted(s)[k] = props[k]
  <2>1. PICK i \in DOMAIN s : s[i][1] = k
    BY <1>1
  <2>2. \A j \in 1 .. i - 1 : s[j][1] # s[i][1]
    BY <1>1 DEF IsList
  <2> QED
    BY <1>1, <2>1, <2>2, InsertedFirst
<1>4. Inserted(s) = [k \in DOMAIN props |-> Inserted(s)[k]]
  BY <1>2 DEF Inserted
<1> QED
  BY <1>3, <1>4 DEF s, IsMap

(* The fields of what PublishAsync encodes, one by one.                    *)
LEMMA EncodedFields ==
  ASSUME NEW b, NEW m
  PROVE  LET w == Encoded(b, m)
         IN  /\ w.payload = IF b = "mosquitto" THEN m.payload % Wrap ELSE m.payload
             /\ w.correlation = IF b = "mosquitto" THEN m.correlation % Wrap ELSE m.correlation
             /\ w.userProps = Pairs(m.userProps)
             /\ w.responseTopic = m.responseTopic
             /\ w.contentType = m.contentType
             /\ w.format = IF m.format = "UTF8" THEN 1 ELSE 0
  BY DEF Encoded

(* m is what a receiver with library b makes of w, but for what Mosquitto  *)
(* does with the response topic and the content type.                      *)
MadeOf(b, w, m) ==
  /\ m.payload = w.payload
  /\ m.correlation = IF w.correlation = Absent THEN 0 ELSE w.correlation
  /\ m.userProps = Inserted(w.userProps)
  /\ m.format = IF w.format = 1 THEN "UTF8" ELSE "UNSPECIFIED"
  /\ b = "paho" =>
       /\ m.responseTopic = IF w.responseTopic = Absent THEN "" ELSE w.responseTopic
       /\ m.contentType = IF w.contentType = Absent THEN "" ELSE w.contentType

(* onMessageCb makes just that.                                            *)
LEMMA DecodedFields ==
  ASSUME NEW b, NEW w, NEW n, NEW m, m = Decoded(b, w, n) PROVE MadeOf(b, w, m)
<1>1. m.payload = w.payload /\ m.userProps = Inserted(w.userProps)
  BY DEF Decoded
<1>2. m.correlation = IF w.correlation = Absent THEN 0 ELSE w.correlation
  BY DEF Decoded
<1>3. m.format = IF w.format = 1 THEN "UTF8" ELSE "UNSPECIFIED"
  BY DEF Decoded
<1>4. ASSUME b = "paho"
      PROVE  /\ m.responseTopic = IF w.responseTopic = Absent THEN "" ELSE w.responseTopic
             /\ m.contentType = IF w.contentType = Absent THEN "" ELSE w.contentType
  BY <1>4 DEF Decoded
<1> QED
  BY <1>1, <1>2, <1>3, <1>4 DEF MadeOf

(* What the 16 bits of Mosquitto leave of a size.                          *)
LEMMA Cut == ASSUME NEW n \in Nat PROVE n % Wrap \in Nat /\ (n < Wrap => n % Wrap = n)
  BY DEF Wrap
-----------------------------------------------------------------------------
(* The invariant holds before the first message, ...                       *)
THEOREM InitIInv == Init => IInv
  BY EmptySeq DEF Init, IInv, PublishedInv, WireInv, HandedInv

(* A return code is mapped to one of the statuses, ...                     *)
LEMMA ReasonCodeType == ASSUME NEW b, NEW rc PROVE ReasonCode(b, rc) \in Statuses
  BY DEF ReasonCode, Statuses

(* ... success to OKAY.                                                    *)
LEMMA SuccessIsOkay == ASSUME NEW b PROVE ReasonCode(b, "SUCCESS") = "OKAY"
  BY DEF ReasonCode

(* One more publication leaves the earlier ones as they are, so whatever   *)
(* was genuine stays so.                                                   *)
LEMMA PublicationAdded ==
  ASSUME PublishedInv, NEW p \in Publication, published' = Append(published, p),
         UNCHANGED <<sender, receiver>>
  PROVE  /\ PublishedInv'
         /\ Len(published) + 1 \in DOMAIN published'
         /\ published'[Len(published) + 1] = p
         /\ \A e : Genuine(e) => Genuine(e)'
<1>1. /\ published' \in Seq(Publication)
      /\ Len(published') = Len(published) + 1
      /\ \A i \in 1 .. Len(published) : published'[i] = published[i]
      /\ published'[Len(published) + 1] = p
  BY AppendProperties DEF PublishedInv
<1>2. /\ DOMAIN published = 1 .. Len(published)
      /\ Len(published) \in Nat
      /\ DOMAIN published' = 1 .. (Len(published) + 1)
  BY <1>1, LenProperties DEF PublishedInv
<1>3. \A e : Genuine(e) => Genuine(e)'
  BY <1>1, <1>2 DEF Genuine, Encoded
<1> QED
  BY <1>1, <1>2, <1>3 DEF PublishedInv

(* PublishAsync sends only what it accepts.                                *)
LEMMA PublishStep ==
  ASSUME IInv, NEW m \in Offered, PublishAsync(m) PROVE IInv'
<1>0. PICK e : e = [from |-> Len(published) + 1, wire |-> Encoded(sender, m)]
  OBVIOUS
<1>1. PICK propertiesOkay \in BOOLEAN, rc \in LibraryCodes(sender) :
        /\ published' = Append(published,
             [msg |-> m,
              status |-> IF propertiesOkay THEN ReasonCode(sender, rc) ELSE "ERROR_GENERAL"])
        /\ inFlight' = IF propertiesOkay /\ rc = "SUCCESS" THEN inFlight \cup {e} ELSE inFlight
  BY <1>0 DEF PublishAsync
<1> DEFINE p == [msg |-> m,
                 status |-> IF propertiesOkay THEN ReasonCode(sender, rc) ELSE "ERROR_GENERAL"]
<1>2. p \in Publication
  BY ReasonCodeType DEF Publication, Statuses
<1>3. published' = Append(published, p) /\ UNCHANGED <<sender, receiver, handed>>
  BY <1>1 DEF PublishAsync
<1>4. /\ PublishedInv'
      /\ Len(published) + 1 \in DOMAIN published'
      /\ published'[Len(published) + 1] = p
      /\ \A x : Genuine(x) => Genuine(x)'
  BY <1>2, <1>3, PublicationAdded DEF IInv
<1>5. CASE propertiesOkay /\ rc = "SUCCESS"
  <2>1. p.status = "OKAY" /\ p.msg = m
    BY <1>5, SuccessIsOkay
  <2>2. Genuine(e)'
    <3>1. published'[e.from] = p /\ e.from \in DOMAIN published'
      BY <1>0, <1>4
    <3>2. e.wire = Encoded(sender, m)
      BY <1>0
    <3> QED
      BY <1>3, <2>1, <3>1, <3>2 DEF Genuine, Encoded
  <2>3. inFlight' = inFlight \cup {e}
    BY <1>1, <1>5
  <2>4. WireInv'
    BY <1>3, <1>4, <2>2, <2>3 DEF IInv, WireInv
  <2> QED
    BY <1>3, <1>4, <2>4 DEF IInv, HandedInv, Decoded
<1>6. CASE ~(propertiesOkay /\ rc = "SUCCESS")
  <2>1. inFlight' = inFlight
    BY <1>1, <1>6
  <2> QED
    BY <1>3, <1>4, <2>1 DEF IInv, WireInv, HandedInv, Decoded
<1> QED
  BY <1>5, <1>6

(* While nothing is published, genuine stays genuine and handed stays      *)
(* handed.                                                                 *)
LEMMA Frame ==
  ASSUME UNCHANGED <<sender, receiver, published>>
  PROVE  /\ PublishedInv => PublishedInv'
         /\ \A e : Genuine(e) => Genuine(e)'
         /\ \A w, b : Decoded(receiver, w, b)' = Decoded(receiver, w, b)
  BY DEF PublishedInv, Genuine, Encoded, Decoded

(* A message is handed over as the receiver decodes it.                    *)
LEMMA OnMessageStep ==
  ASSUME IInv, NEW f \in inFlight, OnMessage(f) PROVE IInv'
<1>1. PICK b \in BOOLEAN :
        handed' = handed \cup {[from |-> f.from, wire |-> f.wire,
                                msg |-> Decoded(receiver, f.wire, b)]}
  BY DEF OnMessage
<1> DEFINE h == [from |-> f.from, wire |-> f.wire, msg |-> Decoded(receiver, f.wire, b)]
<1>2. inFlight' \subseteq inFlight /\ UNCHANGED <<sender, receiver, published>>
  BY DEF OnMessage
<1>3. Genuine(h)
  BY DEF IInv, WireInv, Genuine
<1>4. WireInv'
  BY <1>1, <1>2, <1>3, Frame DEF IInv, WireInv
<1>5. HandedInv'
  <2> SUFFICES ASSUME NEW x \in handed'
               PROVE  \E c \in BOOLEAN : x.msg = Decoded(receiver, x.wire, c)
    BY <1>2 DEF HandedInv, Decoded
  <2>1. CASE x \in handed
    BY <2>1 DEF IInv, HandedInv
  <2>2. CASE x = h
    BY <2>2
  <2> QED
    BY <1>1, <2>1, <2>2
<1> QED
  BY <1>2, <1>4, <1>5, Frame DEF IInv

(* ... and every step keeps it, ...                                        *)
THEOREM NextIInv == IInv /\ [Next]_vars => IInv'
<1> SUFFICES ASSUME IInv, [Next]_vars PROVE IInv'
  OBVIOUS
<1>1. ASSUME UNCHANGED <<sender, receiver, published, handed>>,
             \A e \in inFlight' : e \in inFlight \/ Genuine(e)
      PROVE  IInv'
  BY <1>1, Frame DEF IInv, WireInv, HandedInv, Decoded
<1>2. ASSUME NEW w \in Foreign, ForeignMessage(w) PROVE IInv'
  BY <1>1, <1>2 DEF ForeignMessage, Genuine
<1>3. ASSUME NEW f \in inFlight, Lose(f) PROVE IInv'
  BY <1>1, <1>3 DEF Lose
<1>4. CASE UNCHANGED vars
  BY <1>1, <1>4 DEF vars
<1> QED
  BY <1>2, <1>3, <1>4, PublishStep, OnMessageStep DEF Next

(* ... so it holds in every behaviour of the two clients.                  *)
THEOREM Invariance == Spec => []IInv
  BY InitIInv, NextIInv, PTL DEF Spec
-----------------------------------------------------------------------------
(* What the invariant says of a message of ours that was handed over, and  *)
(* of a foreign one.                                                       *)
LEMMA OwnMessage ==
  ASSUME IInv, NEW h \in handed, h.from # Stranger
  PROVE  /\ h.from \in DOMAIN published
         /\ published[h.from].status = "OKAY"
         /\ Origin(h) \in Offered
         /\ h.wire = Encoded(sender, Origin(h))
<1>1. /\ h.from \in DOMAIN published
      /\ published[h.from].status = "OKAY"
      /\ h.wire = Encoded(sender, Origin(h))
  BY DEF IInv, WireInv, Genuine, Origin
<1>2. published[h.from] \in Publication
  BY <1>1, LenProperties, ElementOfSeq DEF IInv, PublishedInv
<1> QED
  BY <1>1, <1>2 DEF Publication, Origin

(* What did not come from the sender is a foreign message.                 *)
LEMMA ForeignHanded ==
  ASSUME IInv, NEW h \in handed, h.from = Stranger PROVE h.wire \in Foreign
<1>1. 0 \notin DOMAIN published
  BY LenProperties DEF IInv, PublishedInv
<1> QED
  BY <1>1 DEF IInv, WireInv, Genuine, Stranger

(* What was handed over was made by the receiver's onMessageCb.            *)
LEMMA MadeByReceiver ==
  ASSUME IInv, NEW h \in handed PROVE MadeOf(receiver, h.wire, h.msg)
<1>1. PICK b : h.msg = Decoded(receiver, h.wire, b)
  BY DEF IInv, HandedInv
<1> QED
  BY <1>1, DecodedFields

(* Sizes are sizes: what is encoded and decoded of one is a number.        *)
LEMMA SizesOfHanded ==
  ASSUME IInv, NEW h \in handed
  PROVE  h.wire.payload \in Nat /\ h.wire.correlation \in Nat \cup {Absent}
<1>1. CASE h.from = Stranger
  BY <1>1, ForeignHanded, TransferAssumption
<1>2. CASE h.from # Stranger
  <2> DEFINE m == Origin(h)
  <2>1. h.wire = Encoded(sender, m) /\ m.payload \in Nat /\ m.correlation \in Nat
    BY <1>2, OwnMessage, TransferAssumption
  <2> HIDE DEF m
  <2> QED
    BY <2>1, EncodedFields, Cut
<1> QED
  BY <1>1, <1>2

(* Types, for any messages.                                                *)
THEOREM TypeCorrect == Spec => []TypeOK
<1>1. IInv => TypeOK
  <2> SUFFICES ASSUME IInv PROVE TypeOK
    OBVIOUS
  <2>1. \A i \in DOMAIN published : published[i].msg \in Offered /\ published[i].status \in Statuses
    <3>1. \A i \in DOMAIN published : published[i] \in Publication
      BY LenProperties, ElementOfSeq DEF IInv, PublishedInv
    <3> QED
      BY <3>1 DEF Publication
  <2>2. 0 \notin DOMAIN published
    BY LenProperties DEF IInv, PublishedInv
  <2>3. \A e \in inFlight \cup handed : /\ e.from \in {Stranger} \cup DOMAIN published
                                        /\ e.from = Stranger => e.wire \in Foreign
    BY <2>2 DEF IInv, WireInv, Genuine, Stranger
  <2>4. ASSUME NEW h \in handed PROVE h.msg.payload \in Nat /\ h.msg.correlation \in Nat
    <3>1. /\ h.msg.payload = h.wire.payload
          /\ h.msg.correlation =
               IF h.wire.correlation = Absent THEN 0 ELSE h.wire.correlation
      BY MadeByReceiver DEF MadeOf
    <3>2. h.wire.payload \in Nat /\ h.wire.correlation \in Nat \cup {Absent}
      BY SizesOfHanded
    <3> QED
      BY <3>1, <3>2
  <2> QED
    BY <2>1, <2>3, <2>4 DEF IInv, PublishedInv, TypeOK, Statuses
<1> QED
  BY <1>1, Invariance, PTL

(* MosquittoClient.cpp, PahoClient.cpp, PublishAsync: a message that was   *)
(* reported as refused is handed to nobody.                                *)
THEOREM RefusedStaysHome == Spec => []RefusedIsNeverHanded
<1>1. IInv => RefusedIsNeverHanded
  BY OwnMessage DEF RefusedIsNeverHanded
<1> QED
  BY <1>1, Invariance, PTL

(* The encoders and decoders of both clients: every property arrives as it *)
(* was published, with the exceptions the property names.                  *)
THEOREM ArrivesAsPublished == Spec => []HandedAsPublished
<1>1. IInv => HandedAsPublished
  <2> SUFFICES ASSUME IInv, NEW h \in handed, h.from # Stranger
               PROVE  LET m == Origin(h)
                      IN  /\ h.msg.userProps = m.userProps
                          /\ h.msg.format = m.format
                          /\ sender = "paho" \/ m.payload < Wrap => h.msg.payload = m.payload
                          /\ sender = "paho" \/ m.correlation < Wrap =>
                               h.msg.correlation = m.correlation
                          /\ receiver = "paho" => /\ h.msg.responseTopic = m.responseTopic
                                                  /\ h.msg.contentType = m.contentType
    BY DEF HandedAsPublished
  <2> DEFINE m == Origin(h)
  <2>1. m \in Offered /\ h.wire = Encoded(sender, m)
    BY OwnMessage
  <2> HIDE DEF m
  <2>2. /\ m.payload \in Nat /\ m.correlation \in Nat /\ m.format \in Formats
        /\ Absent \notin {m.responseTopic, m.contentType} /\ IsMap(m.userProps)
    BY <2>1, TransferAssumption
  <2>3. /\ h.wire.payload = IF sender = "mosquitto" THEN m.payload % Wrap ELSE m.payload
        /\ h.wire.correlation =
             IF sender = "mosquitto" THEN m.correlation % Wrap ELSE m.correlation
        /\ h.wire.userProps = Pairs(m.userProps)
        /\ h.wire.responseTopic = m.responseTopic /\ h.wire.contentType = m.contentType
        /\ h.wire.format = IF m.format = "UTF8" THEN 1 ELSE 0
    BY <2>1, EncodedFields
  <2>4. h.msg.userProps = m.userProps
    BY <2>2, <2>3, MadeByReceiver, InsertedPairs DEF MadeOf
  <2>5. h.msg.format = m.format
    <3>1. h.wire.format = 1 <=> m.format = "UTF8"
      BY <2>3
    <3> QED
      BY <2>2, <3>1, MadeByReceiver DEF Formats, MadeOf
  <2>6. sender = "paho" \/ m.payload < Wrap => h.msg.payload = m.payload
    BY <2>2, <2>3, MadeByReceiver, Cut DEF MadeOf
  <2>7. sender = "paho" \/ m.correlation < Wrap => h.msg.correlation = m.correlation
    <3>1. h.wire.correlation \in Nat /\ h.wire.correlation # Absent
      BY <2>2, <2>3, Cut, TransferAssumption
    <3> QED
      BY <2>2, <2>3, <3>1, MadeByReceiver, Cut DEF MadeOf
  <2>8. receiver = "paho" => /\ h.msg.responseTopic = m.responseTopic
                             /\ h.msg.contentType = m.contentType
    BY <2>2, <2>3, MadeByReceiver DEF MadeOf
  <2> QED
    BY <2>4, <2>5, <2>6, <2>7, <2>8 DEF m
<1> QED
  BY <1>1, Invariance, PTL
=============================================================================
