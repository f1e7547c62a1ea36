-------------------------- MODULE MqttSafetyProofs --------------------------
(***************************************************************************)
(* Proof of the inductive invariant of MqttInductive, and with it of the   *)
(* safety properties of MqttClient; then, for sessions in which nothing is *)
(* resent, of DeliveredOnce (OnceInv) and SubscriptionsAgree (FirstInv).   *)
(***************************************************************************)
EXTENDS MqttClientProofs

-----------------------------------------------------------------------------
(* Packets and answers.                                                    *)

\* NoMsg is none of the packets that are sent.
LEMMA NoMsgFields ==
  NoMsg.type = "PINGRESP" /\ NoMsg.qos = 0 /\ NoMsg.content = None /\ NoMsg.id = 0
BY DEF NoMsg, Build

\* The fields of what the send_* calls build.
LEMMA BuildFields ==
  /\ Connect.type = "CONNECT" /\ Connect.id = 0 /\ Connect.qos = 0
  /\ Pingreq.type = "PINGREQ" /\ Disconnect.type = "DISCONNECT"
  /\ \A type, i, ok : Answer(type, i, ok).type = type /\ Answer(type, i, ok).id = i
  /\ \A i, t : /\ Subscribe(i, t).type = "SUBSCRIBE" /\ Subscribe(i, t).id = i
               /\ Subscribe(i, t).qos = 0
               /\ Unsubscribe(i, t).type = "UNSUBSCRIBE" /\ Unsubscribe(i, t).id = i
               /\ Unsubscribe(i, t).qos = 0
  /\ \A i, t, q, c : /\ Publish(i, t, q, c).type = "PUBLISH" /\ Publish(i, t, q, c).id = i
                     /\ Publish(i, t, q, c).qos = q /\ Publish(i, t, q, c).content = c
BY DEF Connect, Pingreq, Disconnect, Answer, Subscribe, Unsubscribe, Publish, Build

\* What each answer is about.
LEMMA RequestFacts ==
  /\ Request("PUBACK") = << "PUBLISH", 1 >>
  /\ Request("PUBREC") = << "PUBLISH", 2 >>
  /\ Request("PUBCOMP") = << "PUBLISH", 2 >>
  /\ Request("SUBACK") = << "SUBSCRIBE", 0 >>
  /\ Request("UNSUBACK") = << "UNSUBSCRIBE", 0 >>
BY DEF Request

\* An answer on the wire is to a packet that was issued.
LEMMA ArrivingFacts ==
  ASSUME NEW a \in Arriving
  PROVE  /\ a \in Packet /\ a.id \in Ids
         /\ a.type = "PUBACK" => issued[a.id].type = "PUBLISH" /\ issued[a.id].qos = 1
                                 /\ Passed(a.id)
         /\ a.type = "PUBREC" => issued[a.id].type = "PUBLISH" /\ issued[a.id].qos = 2
                                 /\ HeldOrPassed(a.id)
         /\ a.type = "PUBCOMP" => issued[a.id].type = "PUBLISH" /\ issued[a.id].qos = 2
                                  /\ Passed(a.id)
         /\ a.type = "SUBACK" => issued[a.id].type = "SUBSCRIBE" /\ issued[a.id].qos = 0
         /\ a.type = "UNSUBACK" => issued[a.id].type = "UNSUBSCRIBE" /\ issued[a.id].qos = 0
<1>1. a \in Packet /\ a.id \in Ids
  BY DEF Arriving, Packet
<1>2. ASSUME NEW ty, NEW q, << ty, q >> = << issued[a.id].type, issued[a.id].qos >>
      PROVE  ty = issued[a.id].type /\ q = issued[a.id].qos
  BY <1>2
<1>3. /\ a.type \in AnswerTypes => Request(a.type) = << issued[a.id].type, issued[a.id].qos >>
      /\ a.type \in { "PUBACK", "PUBCOMP" } => Passed(a.id)
      /\ a.type = "PUBREC" => HeldOrPassed(a.id)
  BY DEF Arriving
<1> QED
  BY <1>1, <1>2, <1>3, RequestFacts DEF AnswerTypes

\* The converse: how an answer gets on the wire.
LEMMA ArrivingIntro ==
  ASSUME NEW a \in Packet,
         a.type = "PUBACK" => issued[a.id].type = "PUBLISH" /\ issued[a.id].qos = 1
                              /\ Passed(a.id),
         a.type = "PUBREC" => issued[a.id].type = "PUBLISH" /\ issued[a.id].qos = 2
                              /\ HeldOrPassed(a.id),
         a.type = "PUBCOMP" => issued[a.id].type = "PUBLISH" /\ issued[a.id].qos = 2
                               /\ Passed(a.id),
         a.type = "SUBACK" => issued[a.id].type = "SUBSCRIBE" /\ issued[a.id].qos = 0,
         a.type = "UNSUBACK" => issued[a.id].type = "UNSUBSCRIBE" /\ issued[a.id].qos = 0
  PROVE  a \in Arriving
BY RequestFacts DEF Arriving, AnswerTypes

\* The history only grows: no identifier is given twice, what the broker has
\* passed on stays passed on, what it holds is passed on or still held.
HistoryGrows ==
  /\ \A i \in Ids : issued[i] # NoMsg => issued'[i] = issued[i]
  /\ \A i \in PublishIds : Passed(i) => Passed(i)'
  /\ \A i \in PublishIds : HeldOrPassed(i) => HeldOrPassed(i)'
  /\ used \subseteq used'

\* Then what was allowed on the wire stays allowed.
LEMMA OutgoingMono ==
  ASSUME HistoryGrows PROVE Outgoing \subseteq Outgoing'
<1> SUFFICES ASSUME NEW m \in Outgoing PROVE m \in Outgoing'
  OBVIOUS
<1>1. m \in Packet /\ m.id \in Ids
  BY DEF Outgoing, Packet
<1>2. (m.type \in { "SUBSCRIBE", "UNSUBSCRIBE", "PUBLISH" } /\ Own(m)) => Own(m)'
  BY <1>1, NoMsgFields DEF HistoryGrows, Own
<1>3. m.type = "PUBREL" => /\ m.id \in PublishIds /\ issued[m.id].qos = 2
                           /\ HeldOrPassed(m.id)
  BY DEF Outgoing
<1>4. m.type = "PUBREL" => /\ m.id \in PublishIds' /\ issued'[m.id].qos = 2
                           /\ HeldOrPassed(m.id)'
  BY <1>1, <1>3, NoMsgFields DEF HistoryGrows, PublishIds
<1> QED
  BY <1>1, <1>2, <1>4 DEF Outgoing, HistoryGrows

LEMMA ArrivingMono ==
  ASSUME HistoryGrows PROVE Arriving \subseteq Arriving'
<1> SUFFICES ASSUME NEW a \in Arriving PROVE a \in Arriving'
  OBVIOUS
<1>1. a \in Packet /\ a.id \in Ids
  BY ArrivingFacts
<1>2. ASSUME issued[a.id] # NoMsg PROVE issued'[a.id] = issued[a.id]
  BY <1>1, <1>2 DEF HistoryGrows
<1>3. a.type \in AnswerTypes => issued'[a.id] = issued[a.id]
  BY <1>1, <1>2, ArrivingFacts, NoMsgFields DEF AnswerTypes
<1>4. a.type \in { "PUBACK", "PUBCOMP" } => Passed(a.id)'
  BY <1>1, ArrivingFacts DEF HistoryGrows, PublishIds
<1>5. a.type = "PUBREC" => HeldOrPassed(a.id)'
  BY <1>1, ArrivingFacts DEF HistoryGrows, PublishIds
<1>6. a.type \in AnswerTypes =>
        Request(a.type) = << issued'[a.id].type, issued'[a.id].qos >>
  BY <1>3 DEF Arriving
<1> QED
  BY <1>1, <1>4, <1>5, <1>6 DEF Arriving

\* The answers of the broker, in the state in which they are sent.
LEMMA AnswerArrives ==
  ASSUME NEW type \in MessageType, NEW i \in Ids, NEW ok \in BOOLEAN,
         type \in AnswerTypes => Request(type) = << issued'[i].type, issued'[i].qos >>,
         type \in { "PUBACK", "PUBCOMP" } => Passed(i)',
         type = "PUBREC" => HeldOrPassed(i)'
  PROVE  Answer(type, i, ok) \in Arriving'
<1>1. Answer(type, i, ok) \in Packet
  BY PacketTypes
<1>2. Answer(type, i, ok).type = type /\ Answer(type, i, ok).id = i
  BY BuildFields
<1> HIDE DEF Answer
<1> QED
  BY <1>1, <1>2 DEF Arriving

\* A published content is one, and its packet has its own identifier.
LEMMA PublishFacts ==
  ASSUME TypeOK, IssuedOK, NEW i \in PublishIds
  PROVE  /\ i \in Ids /\ i # 0 /\ issued[i] # NoMsg /\ issued[i].id = i
         /\ issued[i].content \in Contents /\ issued[i].content \in used
         /\ issued[i].qos \in { 1, 2 }
<1>1. i \in Ids /\ issued[i].type = "PUBLISH"
  BY DEF PublishIds
<1>2. issued[i] # NoMsg
  BY <1>1, NoMsgFields
<1>3. i # 0
  BY <1>1, <1>2, BuildFields DEF IssuedOK
<1> QED
  BY <1>1, <1>2, <1>3 DEF IssuedOK, TypeOK

-----------------------------------------------------------------------------
(* The broker.                                                             *)

\* What a step of the broker leaves alone.
LEMMA BrokerFrame ==
  ASSUME IInv, UNCHANGED << timerVars, restOfClient >>
  PROVE  /\ IssuedOK' /\ ContentsDistinct' /\ MapOK' /\ GuiOK' /\ PubAddOK'
         /\ SavedOK' /\ NoPublishLost'
         /\ issued' = issued /\ used' = used /\ hold' = hold /\ saved' = saved
         /\ PublishIds' = PublishIds
<1> USE DEF IInv, timerVars, restOfClient, guiVars, storeVars
<1>1. IssuedOK' /\ ContentsDistinct' /\ MapOK'
  BY DEF IssuedOK, ContentsDistinct, MapOK, PublishIds
<1>2. GuiOK'
  BY DEF GuiOK, Connecting
<1>3. PubAddOK'
  BY DEF PubAddOK, PublishIds
<1>4. SavedOK' /\ NoPublishLost'
  BY DEF SavedOK, NoPublishLost, PublishIds
<1> QED
  BY <1>1, <1>2, <1>3, <1>4 DEF PublishIds

\* The channels, the held packets and the history after a step of the broker.
LEMMA BrokerKeeps ==
  ASSUME IInv, UNCHANGED << timerVars, restOfClient >>, TypeOK', HistoryGrows,
         outbox' \in Seq(Outgoing), inbox' \in Seq(Arriving'), HeldOK'
  PROVE  IInv'
<1>1. outbox' \in Seq(Outgoing')
  BY OutgoingMono, SeqMono
<1>2. HoldOK'
  BY BrokerFrame, OutgoingMono DEF HoldOK, IInv
<1>3. SavedWasDelivered'
  <2> SUFFICES ASSUME NEW i \in PublishIds', saved'[issued'[i].content] > 0
               PROVE  delivered'[issued'[i].content] > 0
    BY DEF SavedWasDelivered
  <2>1. i \in PublishIds /\ saved[issued[i].content] > 0
    BY BrokerFrame
  <2>2. Passed(i)
    BY <2>1 DEF IInv, SavedWasDelivered, Passed
  <2>3. Passed(i)'
    BY <2>1, <2>2 DEF HistoryGrows
  <2> QED
    BY <2>3 DEF Passed
<1> QED
  BY <1>1, <1>2, <1>3, BrokerFrame DEF IInv

\* The broker's counter never loses a delivery.
LEMMA DeliverFacts ==
  ASSUME BrokerTypeOK, NEW c, deliver(c)
  PROVE  /\ \A d \in Contents : delivered[d] > 0 => delivered'[d] > 0
         /\ c \in Contents => delivered'[c] > 0
<1>1. ASSUME NEW d \in Contents, d # c PROVE delivered'[d] = delivered[d]
  BY <1>1 DEF BrokerTypeOK, deliver
<1>2. ASSUME c \in Contents PROVE delivered'[c] > 0
  BY <1>2 DEF BrokerTypeOK, deliver, DeliveryCap
<1> QED
  BY <1>1, <1>2 DEF BrokerTypeOK

\* Passing on a packet only adds to the history.
LEMMA DeliverGrows ==
  ASSUME TypeOK, IssuedOK, NEW c, deliver(c), UNCHANGED << issued, used, bHeld >>
  PROVE  HistoryGrows
<1>1. \A i \in PublishIds : issued[i].content \in Contents
  BY PublishFacts
<1>2. \A d \in Contents : delivered[d] > 0 => delivered'[d] > 0
  BY DeliverFacts DEF TypeOK
<1>3. \A i \in PublishIds : Passed(i) => Passed(i)'
  BY <1>1, <1>2 DEF Passed
<1> QED
  BY <1>3 DEF HistoryGrows, HeldOrPassed

\* A step that neither issues, holds nor passes on.
LEMMA HistorySame ==
  ASSUME UNCHANGED << issued, used, delivered, bHeld >>
  PROVE  /\ HistoryGrows /\ (HeldOK => HeldOK')
         /\ Outgoing' = Outgoing /\ Arriving' = Arriving /\ PublishIds' = PublishIds
BY DEF HistoryGrows, HeldOK, PublishIds, Passed, HeldOrPassed, Outgoing, Arriving, Own

LEMMA BrokerReadsInv ==
  ASSUME IInv, Broker(BrokerReads)
  PROVE  IInv'
<1>0. TypeOK /\ TypeOK' /\ BrokerTypeOK
  BY BrokerType DEF IInv, TypeOK, BrokerStep
<1>1. outbox' \in Seq(Outgoing)
  BY SeqTake DEF IInv, Broker, BrokerReads
<1>m. PICK m \in Outgoing : m = Head(outbox)
  BY SeqTake DEF IInv, Broker, BrokerReads
<1>2. m \in Packet /\ m.id \in Ids /\ m.qos \in QoS
  BY <1>m DEF Outgoing, Packet
<1>3. UNCHANGED << timerVars, restOfClient >> /\ UNCHANGED << issued, used >>
      /\ PublishIds' = PublishIds
  BY BrokerFrame DEF Broker
<1>4. inbox \in Seq(Arriving)
  BY DEF IInv
<1>5. ASSUME HistoryGrows, HeldOK', \/ inbox' = inbox
                                    \/ \E a \in Arriving' : inbox' = Append(inbox, a)
      PROVE  IInv'
  <2>1. inbox \in Seq(Arriving')
    BY <1>4, <1>5, ArrivingMono, SeqMono
  <2>2. inbox' \in Seq(Arriving')
    BY <1>5, <2>1, SeqAppend
  <2> QED
    BY <1>0, <1>1, <1>3, <1>5, <2>2, BrokerKeeps
<1>6. ASSUME NEW type \in MessageType, NEW ok \in BOOLEAN, NEW i \in Ids,
             inbox' = Append(inbox, Answer(type, i, ok)), HistoryGrows, HeldOK',
             type \in AnswerTypes => Request(type) = << issued[i].type, issued[i].qos >>,
             type \in { "PUBACK", "PUBCOMP" } => Passed(i)',
             type = "PUBREC" => HeldOrPassed(i)'
      PROVE  IInv'
  <2>1. type \in AnswerTypes => Request(type) = << issued'[i].type, issued'[i].qos >>
    BY <1>3, <1>6
  <2>2. Answer(type, i, ok) \in Arriving'
    BY <1>6, <2>1, AnswerArrives
  <2> QED
    BY <1>5, <1>6, <2>2
<1>7. ASSUME UNCHANGED << delivered, bHeld >>, NEW type \in MessageType, NEW ok \in BOOLEAN,
             type \notin AnswerTypes, NEW i \in Ids, inbox' = Append(inbox, Answer(type, i, ok))
      PROVE  IInv'
  <2>1. HistoryGrows /\ HeldOK'
    BY <1>3, <1>7, HistorySame DEF IInv
  <2> QED
    BY <1>6, <1>7, <2>1 DEF AnswerTypes
<1>8. ASSUME UNCHANGED << delivered, bHeld, inbox >> PROVE IInv'
  <2>1. HistoryGrows /\ HeldOK'
    BY <1>3, <1>8, HistorySame DEF IInv
  <2> QED
    BY <1>5, <1>8, <2>1
<1>9. CASE ReadConnect(m)
  <2>1. CASE bConn = "none"
    <3>1. PICK ok \in BOOLEAN : inbox' = Append(inbox, Answer("CONNACK", 0, ok))
      BY <1>9, <2>1 DEF ReadConnect, Reply
    <3> QED
      BY <1>7, <1>9, <3>1, IdFacts DEF ReadConnect, MessageType, AnswerTypes
  <2>2. CASE bConn # "none"
    BY <1>8, <1>9, <2>2 DEF ReadConnect
  <2> QED
    BY <2>1, <2>2
<1>10. CASE ReadBeforeConnect(m)
  BY <1>8, <1>10 DEF ReadBeforeConnect
<1>11. CASE ReadSubscribe(m)
  <2>1. PICK ok \in BOOLEAN : inbox' = Append(inbox, Answer("SUBACK", m.id, ok))
    BY <1>11 DEF ReadSubscribe, Reply
  <2>2. m = issued[m.id] /\ m.type = "SUBSCRIBE"
    BY <1>m, <1>11 DEF ReadSubscribe, Outgoing, Own
  <2>3. issued[m.id].qos = 0 /\ issued[m.id].type = "SUBSCRIBE"
    BY <1>2, <2>2, NoMsgFields, BuildFields DEF IInv, IssuedOK
  <2>4. Request("SUBACK") = << issued[m.id].type, issued[m.id].qos >>
    BY <2>3, RequestFacts
  <2>5. HistoryGrows /\ HeldOK'
    BY <1>3, <1>11, HistorySame DEF ReadSubscribe, IInv
  <2> QED
    BY <1>2, <1>6, <2>1, <2>4, <2>5 DEF MessageType
<1>12. CASE ReadUnsubscribe(m)
  <2>1. inbox' = Append(inbox, Answer("UNSUBACK", m.id, TRUE))
    BY <1>12 DEF ReadUnsubscribe, Reply
  <2>2. m = issued[m.id] /\ m.type = "UNSUBSCRIBE"
    BY <1>m, <1>12 DEF ReadUnsubscribe, Outgoing, Own
  <2>3. issued[m.id].qos = 0 /\ issued[m.id].type = "UNSUBSCRIBE"
    BY <1>2, <2>2, NoMsgFields, BuildFields DEF IInv, IssuedOK
  <2>4. Request("UNSUBACK") = << issued[m.id].type, issued[m.id].qos >>
    BY <2>3, RequestFacts
  <2>5. HistoryGrows /\ HeldOK'
    BY <1>3, <1>12, HistorySame DEF ReadUnsubscribe, IInv
  <2> QED
    BY <1>2, <1>6, <2>1, <2>4, <2>5 DEF MessageType
<1>13. CASE ReadPublish(m)
  <2>1. m.type = "PUBLISH" /\ (m.qos = 0 \/ m = issued[m.id])
    BY <1>m, <1>13 DEF ReadPublish, Outgoing, Own
  <2>2. CASE m.qos = 0
    <3>1. deliver(m.content) /\ UNCHANGED << inbox, bHeld >>
      BY <1>13, <2>2 DEF ReadPublish
    <3>2. HistoryGrows
      BY <1>0, <1>3, <3>1, DeliverGrows DEF IInv
    <3>3. HeldOK'
      BY <1>3, <3>1 DEF HeldOK, IInv
    <3> QED
      BY <1>5, <3>1, <3>2, <3>3
  <2>3. CASE m.qos = 1
    <3>1. deliver(m.content) /\ UNCHANGED bHeld
          /\ inbox' = Append(inbox, Answer("PUBACK", m.id, TRUE))
      <4>1. m.qos # 0 /\ m.qos # 2
        BY <2>3
      <4> QED
        BY <1>13, <4>1, Zenon DEF ReadPublish, Reply
    <3>2. HistoryGrows
      BY <1>0, <1>3, <3>1, DeliverGrows DEF IInv
    <3>3. m = issued[m.id] /\ m.id \in PublishIds
      BY <1>2, <2>1, <2>3 DEF PublishIds
    <3>4. m.content \in Contents
      BY <1>0, <3>3, PublishFacts DEF IInv
    <3>5. Passed(m.id)'
      BY <1>0, <1>3, <3>1, <3>3, <3>4, DeliverFacts DEF Passed
    <3>6. HeldOK'
      BY <1>3, <3>1 DEF HeldOK, IInv
    <3>7. Request("PUBACK") = << issued[m.id].type, issued[m.id].qos >>
      BY <2>1, <2>3, <3>3, RequestFacts
    <3> QED
      BY <1>2, <1>6, <3>1, <3>2, <3>5, <3>6, <3>7 DEF MessageType
  <2>4. CASE m.qos = 2
    <3>1. UNCHANGED delivered /\ bHeld' = [ bHeld EXCEPT ![m.id] = m ]
          /\ inbox' = Append(inbox, Answer("PUBREC", m.id, TRUE))
      <4>1. m.qos # 0 /\ m.qos # 1
        BY <2>4
      <4> QED
        BY <1>13, <4>1, Zenon DEF ReadPublish, Reply
    <3>2. m = issued[m.id] /\ m.id \in PublishIds /\ m # NoMsg
      BY <1>2, <2>1, <2>4, NoMsgFields DEF PublishIds
    <3>3. \A i \in Ids : bHeld'[i] = IF i = m.id THEN m ELSE bHeld[i]
      BY <1>0, <1>2, <3>1 DEF BrokerTypeOK
    <3>4. HistoryGrows
      <4>1. \A i \in Ids : bHeld[i] # NoMsg => bHeld'[i] # NoMsg
        BY <3>2, <3>3
      <4> QED
        BY <1>3, <3>1, <4>1 DEF HistoryGrows, Passed, HeldOrPassed, PublishIds
    <3>5. HeldOK'
      BY <1>3, <3>2, <3>3 DEF HeldOK, IInv
    <3>6. HeldOrPassed(m.id)'
      BY <1>2, <3>2, <3>3 DEF HeldOrPassed
    <3>7. Request("PUBREC") = << issued[m.id].type, issued[m.id].qos >>
      BY <2>1, <2>4, <3>2, RequestFacts
    <3> QED
      BY <1>2, <1>6, <3>1, <3>4, <3>5, <3>6, <3>7 DEF MessageType
  <2> QED
    BY <1>2, <2>2, <2>3, <2>4 DEF QoS
<1>14. CASE ReadPubrel(m)
  <2>1. m.type = "PUBREL" /\ m.id \in PublishIds /\ issued[m.id].qos = 2 /\ HeldOrPassed(m.id)
    BY <1>m, <1>14 DEF ReadPubrel, Outgoing
  <2>2. \A i \in Ids : bHeld'[i] = IF i = m.id THEN NoMsg ELSE bHeld[i]
    BY <1>0, <1>2, <1>14 DEF ReadPubrel, BrokerTypeOK
  <2>3. /\ \A d \in Contents : delivered[d] > 0 => delivered'[d] > 0
        /\ Passed(m.id)'
    <3>1. CASE bHeld[m.id] = NoMsg
      BY <1>3, <1>14, <2>1, <3>1 DEF ReadPubrel, HeldOrPassed, Passed
    <3>2. CASE bHeld[m.id] # NoMsg
      <4>1. deliver(bHeld[m.id].content) /\ bHeld[m.id] = issued[m.id]
        BY <1>2, <1>14, <3>2 DEF ReadPubrel, HeldOK, IInv
      <4>2. issued[m.id].content \in Contents
        BY <1>0, <2>1, PublishFacts DEF IInv
      <4> QED
        BY <1>0, <1>3, <4>1, <4>2, DeliverFacts DEF Passed
    <3> QED
      BY <3>1, <3>2
  <2>4. \A i \in PublishIds : Passed(i) => Passed(i)'
    <3>1. \A i \in PublishIds : issued[i].content \in Contents
      BY <1>0, PublishFacts DEF IInv
    <3> QED
      BY <1>3, <2>3, <3>1 DEF Passed
  <2>5. \A i \in PublishIds : HeldOrPassed(i) => HeldOrPassed(i)'
    BY <1>3, <2>2, <2>3, <2>4 DEF HeldOrPassed, PublishIds
  <2>6. HistoryGrows
    BY <1>3, <2>4, <2>5 DEF HistoryGrows
  <2>7. HeldOK'
    BY <1>3, <2>2 DEF HeldOK, IInv
  <2>8. Request("PUBCOMP") = << issued[m.id].type, issued[m.id].qos >>
    BY <2>1, RequestFacts DEF PublishIds
  <2>9. inbox' = Append(inbox, Answer("PUBCOMP", m.id, TRUE))
    BY <1>14 DEF ReadPubrel, Reply
  <2> QED
    BY <1>2, <1>6, <2>3, <2>6, <2>7, <2>8, <2>9 DEF MessageType
<1>15. CASE ReadAck(m)
  <2>1. CASE m.type = "PUBREC"
    BY <1>2, <1>7, <1>15, <2>1 DEF ReadAck, Reply, MessageType, AnswerTypes
  <2>2. CASE m.type # "PUBREC"
    BY <1>8, <1>15, <2>2 DEF ReadAck
  <2> QED
    BY <2>1, <2>2
<1>16. CASE ReadPingreq(m)
  BY <1>7, <1>16, IdFacts DEF ReadPingreq, Reply, MessageType, AnswerTypes, brokerVars
<1>17. CASE ReadDisconnect(m)
  BY <1>8, <1>17 DEF ReadDisconnect
<1> QED
  BY <1>9, <1>10, <1>11, <1>12, <1>13, <1>14, <1>15, <1>16, <1>17, <1>m
  DEF Broker, BrokerReads

\* No step of the broker breaks the invariant.
LEMMA BrokerInv == ASSUME IInv, BrokerStep PROVE IInv'
<1>0. TypeOK'
  BY BrokerType DEF IInv
<1>1. CASE Broker(BrokerReads)
  BY <1>1, BrokerReadsInv
<1>2. ASSUME UNCHANGED << timerVars, restOfClient, outbox, bHeld, delivered >>,
             \/ inbox' = inbox
             \/ \E a \in Packet : a.type \notin AnswerTypes /\ inbox' = Append(inbox, a)
      PROVE  IInv'
  <2>1. issued' = issued /\ used' = used
    BY <1>2, BrokerFrame
  <2>2. inbox' \in Seq(Arriving)
    BY <1>2, SeqAppend, ArrivingIntro DEF IInv, AnswerTypes
  <2> QED
    BY <1>0, <1>2, <2>1, <2>2, HistorySame, BrokerKeeps DEF IInv
<1>3. ASSUME NEW i \in Incoming, Broker(BrokerPublishes(i)) PROVE IInv'
  <2>1. PICK q \in QoS, t \in Topics : inbox' = Append(inbox, Publish(i, t, q, None))
    BY <1>3 DEF Broker, BrokerPublishes, Reply
  <2>2. Publish(i, t, q, None) \in Packet
    BY PacketTypes, BrokerBounds
  <2>3. Publish(i, t, q, None).type \notin AnswerTypes
    BY BuildFields DEF AnswerTypes
  <2> QED
    BY <1>2, <1>3, <2>1, <2>2, <2>3 DEF Broker, BrokerPublishes
<1>4. CASE Broker(BrokerCloses)
  BY <1>2, <1>4 DEF Broker, BrokerCloses, linkVars
<1>5. CASE Broker(BrokerSendsUnacceptable)
  <2>1. Disconnect \in Packet /\ Disconnect.type \notin AnswerTypes
    BY PacketTypes, BuildFields DEF AnswerTypes
  <2> QED
    BY <1>2, <1>5, <2>1 DEF Broker, BrokerSendsUnacceptable, Reply
<1> QED
  BY <1>1, <1>3, <1>4, <1>5 DEF BrokerStep

-----------------------------------------------------------------------------
(* The timer threads and the worker thread.                                *)

\* What the invariant reads besides the map, the channels and the history rows.
steady == << gui, guiMsg, current_packet_number, issued, used, base, bHeld, delivered >>

\* A step of a thread that only takes entries out of the map.
LEMMA MapShrinks ==
  ASSUME IInv, TypeOK', UNCHANGED steady,
         \A i \in Ids : messages_map'[i] = messages_map[i] \/ messages_map'[i] = NoMsg,
         outbox' \in Seq(Outgoing), inbox' \in Seq(Arriving),
         \A th \in Threads : hold'[th] \in Outgoing /\ hold'[th].type # "PUBREL",
         PubAddOK', SavedOK', NoPublishLost', SavedWasDelivered'
  PROVE  IInv'
<1>1. issued' = issued /\ Outgoing' = Outgoing /\ Arriving' = Arriving
  BY HistorySame DEF steady
<1>2. IssuedOK' /\ ContentsDistinct' /\ HeldOK'
  BY <1>1, HistorySame DEF IInv, IssuedOK, ContentsDistinct, PublishIds, steady
<1>3. MapOK'
  BY <1>1 DEF IInv, MapOK
<1>4. GuiOK'
  BY DEF IInv, GuiOK, Connecting, steady
<1>5. HoldOK' /\ outbox' \in Seq(Outgoing') /\ inbox' \in Seq(Arriving')
  BY <1>1 DEF HoldOK
<1> QED
  BY <1>2, <1>3, <1>4, <1>5 DEF IInv

\* A step of a thread that only moves packets.
LEMMA OnlyMoves ==
  ASSUME IInv, TypeOK', UNCHANGED << steady, messages_map, mapState, saved >>,
         outbox' \in Seq(Outgoing), inbox' \in Seq(Arriving),
         \A th \in Threads : hold'[th] \in Outgoing /\ hold'[th].type # "PUBREL"
  PROVE  IInv'
<1>1. PublishIds' = PublishIds
  BY DEF PublishIds, steady
<1>2. PubAddOK'
  BY <1>1 DEF IInv, PubAddOK, steady
<1>3. SavedOK'
  BY DEF IInv, SavedOK, steady
<1>4. NoPublishLost' /\ SavedWasDelivered'
  BY <1>1 DEF IInv, NoPublishLost, SavedWasDelivered, steady
<1> QED
  BY <1>2, <1>3, <1>4, MapShrinks DEF steady

\* encode_and_fire of an allowed packet.
LEMMA FireAllowed ==
  ASSUME outbox \in Seq(Outgoing), NEW m \in Outgoing, encode_and_fire(m)
  PROVE  outbox' \in Seq(Outgoing)
BY SeqAppend DEF encode_and_fire

\* A packet of the map may be resent.
LEMMA StoredOutgoing ==
  ASSUME IInv, NEW i \in Ids
  PROVE  messages_map[i] \in Outgoing /\ messages_map[i].type # "PUBREL"
<1>1. messages_map[i] \in Packet
  BY DEF IInv, TypeOK, TimersTypeOK
<1>2. CASE messages_map[i] = NoMsg
  BY <1>1, <1>2, NoMsgFields DEF Outgoing
<1>3. CASE messages_map[i] # NoMsg
  <2>1. messages_map[i] = issued[i] /\ issued[i] # NoMsg
    BY <1>3 DEF IInv, MapOK
  <2>2. issued[i].id = i
    BY <2>1 DEF IInv, IssuedOK
  <2>3. issued[i].type \in { "CONNECT", "SUBSCRIBE", "UNSUBSCRIBE", "PUBLISH" }
    BY <2>1, BuildFields DEF IInv, IssuedOK
  <2>4. issued[i].type = "PUBLISH" => issued[i].content \in used
    BY <2>1, BuildFields DEF IInv, IssuedOK
  <2> QED
    BY <1>1, <2>1, <2>2, <2>3, <2>4 DEF Outgoing, Own
<1> QED
  BY <1>2, <1>3

\* No step of a timer thread breaks the invariant.
LEMMA TimerInv == ASSUME IInv, TimerStep PROVE IInv'
<1>0. TypeOK'
  BY TimerType DEF IInv
<1>1. hold \in [ Threads -> Packet ]
  BY DEF IInv, TypeOK, TimersTypeOK
<1>2. \A th \in Threads : hold[th] \in Outgoing /\ hold[th].type # "PUBREL"
  BY DEF IInv, HoldOK
<1>3. outbox \in Seq(Outgoing) /\ inbox \in Seq(Arriving)
  BY DEF IInv
<1>4. ASSUME UNCHANGED << brokerVars, restOfClient, messages_map, mapState, inbox >>,
             outbox' \in Seq(Outgoing),
             \A th \in Threads : hold'[th] \in Outgoing /\ hold'[th].type # "PUBREL"
      PROVE  IInv'
  BY <1>0, <1>3, <1>4, OnlyMoves DEF steady, brokerVars, restOfClient, guiVars, storeVars
<1>5. ASSUME NEW th \in Threads, NEW m \in Outgoing, m.type # "PUBREL", Take(th, m)
      PROVE  \A x \in Threads : hold'[x] \in Outgoing /\ hold'[x].type # "PUBREL"
  BY <1>1, <1>2, <1>5 DEF Take
<1>6. NoMsg \in Outgoing /\ NoMsg.type # "PUBREL"
  BY PacketTypes, NoMsgFields DEF Outgoing
<1>7. Pingreq \in Outgoing /\ Pingreq.type # "PUBREL"
  BY PacketTypes, BuildFields DEF Outgoing
<1>8. CASE Timer(connect_task)
  <2>1. \A th \in Threads : hold'[th] \in Outgoing /\ hold'[th].type # "PUBREL"
    <3>1. CASE RoundLeft
      <4>1. Take("connecter", messages_map[0])
        BY <1>8, <3>1 DEF Timer, connect_task, get_message_from_map
      <4> QED
        BY <1>5, <4>1, StoredOutgoing, IdFacts DEF Threads
    <3>2. CASE ~RoundLeft
      BY <1>2, <1>8, <3>2 DEF Timer, connect_task
    <3> QED
      BY <3>1, <3>2
  <2> QED
    BY <1>3, <1>4, <1>8, <2>1 DEF Timer, connect_task, linkVars
<1>9. CASE Timer(ping_task)
  <2>1. Take("pinger", Pingreq)
    BY <1>9 DEF Timer, ping_task
  <2>2. \A th \in Threads : hold'[th] \in Outgoing /\ hold'[th].type # "PUBREL"
    BY <1>5, <1>7, <2>1 DEF Threads
  <2> QED
    BY <1>3, <1>4, <1>9, <2>2 DEF Timer, ping_task, linkVars
<1>10. ASSUME NEW i \in Ids, Timer(message_resend_task(i)) PROVE IInv'
  <2>1. Take("messager", messages_map[i])
    BY <1>10 DEF Timer, message_resend_task, get_message_from_map
  <2>2. \A th \in Threads : hold'[th] \in Outgoing /\ hold'[th].type # "PUBREL"
    BY <1>5, <2>1, StoredOutgoing DEF Threads
  <2> QED
    BY <1>3, <1>4, <1>10, <2>2 DEF Timer, message_resend_task, linkVars
<1>11. ASSUME NEW th \in Threads, Timer(TimerFires(th)) PROVE IInv'
  <2>1. Take(th, NoMsg) /\ encode_and_fire(hold[th])
    BY <1>11 DEF Timer, TimerFires
  <2>2. \A x \in Threads : hold'[x] \in Outgoing /\ hold'[x].type # "PUBREL"
    BY <1>5, <1>6, <2>1
  <2>3. outbox' \in Seq(Outgoing)
    BY <1>2, <1>3, <2>1, FireAllowed
  <2> QED
    BY <1>4, <1>11, <2>2, <2>3 DEF Timer, TimerFires
<1>12. ASSUME NEW th \in Threads, Timer(TimerReadsFreedMap(th)) PROVE IInv'
  BY <1>2, <1>3, <1>4, <1>12 DEF Timer, TimerReadsFreedMap, timerVars
<1> QED
  BY <1>8, <1>9, <1>10, <1>11, <1>12 DEF TimerStep

\* A packet that is not a PUBLISH, or the whole map, leaves the map.
LEMMA Drops ==
  ASSUME IInv, TypeOK', UNCHANGED << steady, saved, hold >>,
         outbox' \in Seq(Outgoing), inbox' \in Seq(Arriving),
         \A i \in Ids : messages_map'[i] = messages_map[i] \/ messages_map'[i] = NoMsg,
         \/ mapState' # "live"
         \/ /\ mapState' = mapState
            /\ \A i \in PublishIds : messages_map'[i] = messages_map[i]
  PROVE  IInv'
<1>1. PublishIds' = PublishIds /\ PublishIds \subseteq Ids
  BY DEF PublishIds, steady
<1>2. \A th \in Threads : hold'[th] \in Outgoing /\ hold'[th].type # "PUBREL"
  BY DEF IInv, HoldOK
<1>3. PubAddOK'
  <2> SUFFICES ASSUME gui' = "pub_add" PROVE PubAddOK'
    BY DEF PubAddOK
  <2>1. guiMsg.id \in Ids
    BY DEF IInv, TypeOK, Packet
  <2>2. messages_map[guiMsg.id] = NoMsg => messages_map'[guiMsg.id] = NoMsg
    BY <2>1
  <2> QED
    BY <1>1, <2>2 DEF IInv, PubAddOK, steady
<1>4. SavedOK'
  <2>1. \A i \in Ids : messages_map'[i].type = "PUBLISH" => messages_map'[i] = messages_map[i]
    BY NoMsgFields
  <2> QED
    BY <2>1 DEF IInv, SavedOK, steady
<1>5. NoPublishLost'
  BY <1>1 DEF IInv, NoPublishLost, steady
<1>6. SavedWasDelivered'
  BY <1>1 DEF IInv, SavedWasDelivered, steady
<1> QED
  BY <1>2, <1>3, <1>4, <1>5, <1>6, MapShrinks

\* The PUBACK or PUBCOMP of the stored packet under i: saved and removed.
LEMMA Saves ==
  ASSUME IInv, TypeOK', UNCHANGED << steady, hold, mapState >>,
         outbox' \in Seq(Outgoing), inbox' \in Seq(Arriving),
         NEW i \in PublishIds, messages_map[i] # NoMsg, Passed(i),
         messages_map' = removed(i), save_message(messages_map[i].content)
  PROVE  IInv'
<1> DEFINE c == issued[i].content
<1>1. /\ i \in Ids /\ c \in Contents /\ c \in used
      /\ issued[i].type = "PUBLISH" /\ messages_map[i] = issued[i]
  BY PublishFacts DEF IInv, MapOK, PublishIds
<1>2. saved \in [ Contents -> Nat ] /\ messages_map \in [ Ids -> Packet ]
  BY DEF IInv, TypeOK, TimersTypeOK
<1>3. \A d \in Contents : saved'[d] = IF d = c THEN saved[d] + 1 ELSE saved[d]
  BY <1>1, <1>2 DEF save_message
<1>4. saved[c] = 0 /\ saved'[c] = 1
  BY <1>1, <1>2, <1>3 DEF IInv, SavedOK
<1>5. \A j \in Ids : messages_map'[j] = IF j = i THEN NoMsg ELSE messages_map[j]
  BY <1>1, <1>2 DEF removed
<1>6. PublishIds' = PublishIds /\ PublishIds \subseteq Ids
  BY DEF PublishIds, steady
<1>7. \A j \in PublishIds : j # i => issued[j].content # c /\ issued[j].content \in Contents
  BY PublishFacts DEF IInv, ContentsDistinct
<1>8. \A th \in Threads : hold'[th] \in Outgoing /\ hold'[th].type # "PUBREL"
  BY DEF IInv, HoldOK
<1> HIDE DEF c
<1>9. PubAddOK'
  <2> SUFFICES ASSUME gui = "pub_add" PROVE PubAddOK'
    BY DEF PubAddOK, steady
  <2>1. guiMsg.id \in Ids /\ guiMsg.content \in Contents /\ guiMsg.type = "PUBLISH"
    BY DEF IInv, TypeOK, Packet, PubAddOK
  <2>2. guiMsg.content # c
    <3>1. CASE guiMsg.qos = 0
      BY <3>1 DEF IInv, PubAddOK, c
    <3>2. CASE guiMsg.qos # 0
      <4>1. guiMsg = issued[guiMsg.id] /\ messages_map[guiMsg.id] = NoMsg
        BY <3>2 DEF IInv, PubAddOK
      <4>2. guiMsg.id # i /\ guiMsg.id \in PublishIds
        BY <2>1, <4>1 DEF PublishIds
      <4> QED
        BY <1>7, <4>1, <4>2
    <3> QED
      BY <3>1, <3>2
  <2>3. saved'[guiMsg.content] = 0
    BY <1>3, <2>1, <2>2 DEF IInv, PubAddOK
  <2>4. messages_map[guiMsg.id] = NoMsg => messages_map'[guiMsg.id] = NoMsg
    BY <1>5, <2>1
  <2> QED
    BY <1>6, <2>3, <2>4 DEF IInv, PubAddOK, steady
<1>10. SavedOK'
  <2>1. \A d \in Contents : saved'[d] <= 1 /\ (d \notin used => saved'[d] = 0)
    BY <1>1, <1>3, <1>4 DEF IInv, SavedOK
  <2>2. ASSUME NEW j \in Ids, messages_map'[j].type = "PUBLISH"
        PROVE  saved'[messages_map'[j].content] = 0
    <3>1. j # i /\ messages_map'[j] = messages_map[j] /\ messages_map[j] # NoMsg
      BY <1>5, <2>2, NoMsgFields
    <3>2. messages_map[j] = issued[j] /\ j \in PublishIds
      BY <2>2, <3>1 DEF IInv, MapOK, PublishIds
    <3>3. saved[messages_map[j].content] = 0
      BY <2>2, <3>1 DEF IInv, SavedOK
    <3> QED
      BY <1>3, <1>7, <3>1, <3>2, <3>3
  <2> QED
    BY <2>1, <2>2 DEF SavedOK, steady
<1>11. NoPublishLost'
  <2> SUFFICES ASSUME mapState = "live", NEW j \in PublishIds, j > base
               PROVE  \/ messages_map'[j] = issued[j]
                      \/ guiMsg = issued[j]
                      \/ saved'[issued[j].content] = 1
    BY <1>6 DEF NoPublishLost, steady
  <2>1. CASE j = i
    BY <1>4, <2>1 DEF c
  <2>2. CASE j # i
    <3>1. \/ messages_map[j] = issued[j]
          \/ guiMsg = issued[j]
          \/ saved[issued[j].content] = 1
      BY DEF IInv, NoPublishLost
    <3>2. messages_map'[j] = messages_map[j]
      BY <1>5, <1>6, <2>2
    <3>3. saved'[issued[j].content] = saved[issued[j].content]
      BY <1>3, <1>7, <2>2
    <3> QED
      BY <3>1, <3>2, <3>3
  <2> QED
    BY <2>1, <2>2
<1>12. SavedWasDelivered'
  <2> SUFFICES ASSUME NEW j \in PublishIds, saved'[issued[j].content] > 0
               PROVE  delivered[issued[j].content] > 0
    BY <1>6 DEF SavedWasDelivered, steady
  <2>1. CASE j = i
    BY <2>1 DEF Passed
  <2>2. CASE j # i
    BY <1>3, <1>7, <2>2 DEF IInv, SavedWasDelivered
  <2> QED
    BY <2>1, <2>2
<1>13. \A j \in Ids : messages_map'[j] = messages_map[j] \/ messages_map'[j] = NoMsg
  BY <1>5
<1> QED
  BY <1>8, <1>9, <1>10, <1>11, <1>12, <1>13, MapShrinks

\* No step of the worker thread breaks the invariant.
LEMMA WorkerInv == ASSUME IInv, WorkerStep PROVE IInv'
<1>0. TypeOK'
  BY WorkerType DEF IInv
<1>1. outbox \in Seq(Outgoing) /\ inbox \in Seq(Arriving)
  BY DEF IInv
<1>2. \A th \in Threads : hold[th] \in Outgoing /\ hold[th].type # "PUBREL"
  BY DEF IInv, HoldOK
<1>3. messages_map \in [ Ids -> Packet ]
  BY DEF IInv, TypeOK, TimersTypeOK
<1>4. ASSUME NEW types, Rx(types)
      PROVE  Head(inbox) \in Arriving /\ Head(inbox).type \in types
             /\ inbox' \in Seq(Arriving)
  BY <1>1, <1>4, SeqTake DEF Rx
<1>5. ASSUME UNCHANGED << brokerVars, guiVars, timerVars, saved >>,
             outbox' \in Seq(Outgoing), inbox' \in Seq(Arriving)
      PROVE  IInv'
  BY <1>0, <1>2, <1>5, OnlyMoves DEF brokerVars, guiVars, timerVars, steady
<1>6. ASSUME NEW type \in MessageType, NEW i \in Ids, NEW ok \in BOOLEAN,
             type \notin { "SUBSCRIBE", "UNSUBSCRIBE", "PUBLISH", "PUBREL" }
      PROVE  Answer(type, i, ok) \in Outgoing
  <2>1. Answer(type, i, ok) \in Packet
    BY PacketTypes
  <2>2. Answer(type, i, ok).type = type
    BY BuildFields
  <2> HIDE DEF Answer
  <2> QED
    BY <1>6, <2>1, <2>2 DEF Outgoing
<1>7. CASE rx_connack
  <2>1. inbox' \in Seq(Arriving) /\ outbox' \in Seq(Outgoing)
    BY <1>1, <1>4, <1>7 DEF rx_connack
  <2>2. \A i \in Ids : messages_map'[i] = IF i = 0 THEN NoMsg ELSE messages_map[i]
    BY <1>3, <1>7, IdFacts DEF rx_connack, removed
  <2>3. \A i \in PublishIds : messages_map'[i] = messages_map[i]
    BY <2>2, PublishFacts DEF IInv
  <2> QED
    BY <1>0, <1>7, <2>1, <2>2, <2>3, Drops DEF rx_connack, steady, brokerVars
<1>8. CASE rx_connack_timers
  BY <1>0, <1>1, <1>2, <1>8, OnlyMoves
  DEF rx_connack_timers, start_ping_and_message_timer, steady, linkVars, brokerVars,
      guiVars, storeVars
<1>9. CASE rx_publish
  <2>1. Head(inbox) \in Arriving /\ inbox' \in Seq(Arriving)
    BY <1>4, <1>9 DEF rx_publish
  <2>2. Head(inbox).id \in Ids
    BY <2>1, ArrivingFacts
  <2>3. \/ outbox' = outbox
        \/ encode_and_fire(Answer("PUBACK", Head(inbox).id, TRUE))
        \/ encode_and_fire(Answer("PUBREC", Head(inbox).id, TRUE))
    BY <1>9 DEF rx_publish
  <2>4. /\ Answer("PUBACK", Head(inbox).id, TRUE) \in Outgoing
        /\ Answer("PUBREC", Head(inbox).id, TRUE) \in Outgoing
    BY <1>6, <2>2 DEF MessageType
  <2>5. outbox' \in Seq(Outgoing)
    BY <1>1, <2>3, <2>4, FireAllowed
  <2> QED
    BY <1>5, <1>9, <2>1, <2>5 DEF rx_publish
<1>10. CASE rx_publish_done
  <2>1. Head(inbox) \in Arriving /\ Head(inbox).type \in { "PUBACK", "PUBCOMP" }
        /\ inbox' \in Seq(Arriving) /\ outbox' \in Seq(Outgoing)
    BY <1>1, <1>4, <1>10 DEF rx_publish_done
  <2>2. PICK i : i = Head(inbox).id
    OBVIOUS
  <2>3. i \in PublishIds /\ Passed(i)
    BY <2>1, <2>2, ArrivingFacts DEF PublishIds
  <2>4. CASE Matched = NoMsg
    BY <1>5, <1>10, <2>1, <2>4 DEF rx_publish_done, timerVars
  <2>5. CASE Matched # NoMsg
    <3>1. messages_map[i] # NoMsg /\ messages_map' = removed(i)
          /\ save_message(messages_map[i].content)
      BY <1>10, <2>2, <2>5 DEF rx_publish_done, Matched, get_message_from_map
    <3>2. UNCHANGED << steady, hold, mapState >>
      BY <1>10 DEF rx_publish_done, steady, brokerVars, guiVars
    <3> QED
      BY <1>0, <2>1, <2>3, <3>1, <3>2, Saves
  <2> QED
    BY <2>4, <2>5
<1>11. CASE rx_pubrec
  <2>1. Head(inbox) \in Arriving /\ Head(inbox).type = "PUBREC" /\ inbox' \in Seq(Arriving)
    BY <1>4, <1>11 DEF rx_pubrec
  <2>2. PICK i \in Ids : i = Head(inbox).id
    BY <2>1, ArrivingFacts
  <2>3. i \in PublishIds /\ issued[i].qos = 2 /\ HeldOrPassed(i)
    BY <2>1, <2>2, ArrivingFacts DEF PublishIds
  <2>4. \A ok \in BOOLEAN : Answer("PUBREL", i, ok) \in Outgoing
    <3> TAKE ok \in BOOLEAN
    <3>1. Answer("PUBREL", i, ok) \in Packet
      BY <2>2, PacketTypes DEF MessageType
    <3>2. Answer("PUBREL", i, ok).type = "PUBREL" /\ Answer("PUBREL", i, ok).id = i
      BY BuildFields
    <3> HIDE DEF Answer
    <3> QED
      BY <2>3, <3>1, <3>2 DEF Outgoing
  <2>5. outbox' \in Seq(Outgoing)
    <3>1. encode_and_fire(Answer("PUBREL", i, TRUE))
      BY <1>11, <2>2 DEF rx_pubrec
    <3> QED
      BY <1>1, <2>4, <3>1, FireAllowed
  <2> QED
    BY <1>5, <1>11, <2>1, <2>5 DEF rx_pubrec, storeVars
<1>12. CASE rx_pubrel
  <2>1. Head(inbox) \in Arriving /\ inbox' \in Seq(Arriving)
    BY <1>4, <1>12 DEF rx_pubrel
  <2>2. Answer("PUBCOMP", Head(inbox).id, TRUE) \in Outgoing
    BY <1>6, <2>1, ArrivingFacts DEF MessageType
  <2>3. outbox' \in Seq(Outgoing)
    BY <1>1, <1>12, <2>2, FireAllowed DEF rx_pubrel
  <2> QED
    BY <1>5, <1>12, <2>1, <2>3 DEF rx_pubrel, storeVars
<1>13. ASSUME Rx({"SUBACK"}) \/ Rx({"UNSUBACK"}),
              UNCHANGED << outbox, mapState, hold, brokerVars, guiVars, saved >>,
              messages_map' = IF Matched = NoMsg THEN messages_map
                              ELSE removed(Head(inbox).id)
       PROVE  IInv'
  <2>1. Head(inbox) \in Arriving /\ Head(inbox).type \in { "SUBACK", "UNSUBACK" }
        /\ inbox' \in Seq(Arriving)
    BY <1>4, <1>13
  <2>2. PICK i \in Ids : i = Head(inbox).id
    BY <2>1, ArrivingFacts
  <2>3. i \notin PublishIds
    BY <2>1, <2>2, ArrivingFacts DEF PublishIds
  <2>4. \A j \in Ids : messages_map'[j] = messages_map[j] \/ (j = i /\ messages_map'[j] = NoMsg)
    BY <1>3, <1>13, <2>2 DEF removed
  <2>5. \A j \in PublishIds : messages_map'[j] = messages_map[j]
    BY <2>3, <2>4 DEF PublishIds
  <2>6. UNCHANGED << steady, saved, hold >> /\ mapState' = mapState
    BY <1>13 DEF steady, brokerVars, guiVars
  <2> QED
    BY <1>0, <1>1, <1>13, <2>1, <2>4, <2>5, <2>6, Drops
<1>14. CASE rx_suback
  BY <1>13, <1>14 DEF rx_suback
<1>15. CASE rx_unsuback
  BY <1>13, <1>15 DEF rx_unsuback
<1>16. CASE rx_pingresp
  BY <1>1, <1>4, <1>5, <1>16 DEF rx_pingresp, storeVars
<1>17. CASE rx_unacceptable
  BY <1>1, <1>4, <1>5, <1>17 DEF rx_unacceptable, storeVars
<1>18. CASE raw_close
  <2>1. UNCHANGED << steady, saved, hold, inbox, outbox >>
    BY <1>18 DEF raw_close, steady, brokerVars, storeVars, timerVars
  <2>2. CASE connection_established
    BY <1>0, <1>1, <1>2, <1>18, <2>1, <2>2, OnlyMoves DEF raw_close, timerVars
  <2>3. CASE ~connection_established
    <3>1. mapState' # "live" /\ \A i \in Ids : messages_map'[i] = NoMsg
      <4>1. mapState' = (IF mapState = "null" THEN "null" ELSE "destroyed")
            /\ messages_map' = EmptyMap
        BY <1>18, <2>3 DEF raw_close
      <4> QED
        BY <4>1 DEF EmptyMap
    <3> QED
      BY <1>0, <1>1, <2>1, <3>1, Drops
  <2> QED
    BY <2>2, <2>3
<1>19. CASE service_task_ends
  BY <1>5, <1>19, SeqEmpty DEF service_task_ends, ServiceTaskEnds, storeVars
<1> QED
  BY <1>7, <1>8, <1>9, <1>10, <1>11, <1>12, <1>14, <1>15, <1>16, <1>17, <1>18, <1>19
  DEF WorkerStep

-----------------------------------------------------------------------------
(* The GTK thread.                                                         *)

\* ++current_packet_number gives an identifier that was never given.
LEMMA FreshId ==
  ASSUME IInv, MayIssue
  PROVE  /\ NextId = current_packet_number + 1 /\ NextId \in Ids /\ NextId # 0
         /\ issued[NextId] = NoMsg /\ messages_map[NextId] = NoMsg
         /\ NextId \notin PublishIds
<1>1. current_packet_number \in 0 .. (MaxPackets - 1)
  BY PacketBounds DEF IInv, TypeOK, MayIssue
<1>2. NextId = current_packet_number + 1 /\ NextId \in Ids
  BY <1>1, IdFacts DEF NextId
<1>3. NextId # 0 /\ ~(NextId <= current_packet_number)
  BY <1>1, <1>2
<1>4. issued[NextId] = NoMsg
  BY <1>2, <1>3 DEF IInv, IssuedOK
<1> QED
  BY <1>2, <1>3, <1>4, NoMsgFields DEF IInv, MapOK, PublishIds

\* Giving that identifier to m.
LEMMA Issue ==
  ASSUME IInv, MayIssue, NEW m \in Packet, m.id = NextId, m # NoMsg,
         issued' = [ issued EXCEPT ![m.id] = m ],
         UNCHANGED << delivered, bHeld >>, used \subseteq used'
  PROVE  /\ issued'[NextId] = m
         /\ \A i \in Ids : i # NextId => issued'[i] = issued[i]
         /\ HistoryGrows /\ HeldOK'
         /\ PublishIds' = IF m.type = "PUBLISH" THEN PublishIds \cup {NextId} ELSE PublishIds
<1>1. issued \in [ Ids -> Packet ]
  BY DEF IInv, TypeOK
<1>2. /\ NextId \in Ids /\ issued[NextId] = NoMsg /\ NextId \notin PublishIds
  BY FreshId
<1> HIDE DEF NextId
<1>3. issued'[NextId] = m /\ \A i \in Ids : i # NextId => issued'[i] = issued[i]
  BY <1>1, <1>2
<1>4. HistoryGrows
  <2>1. \A i \in PublishIds : issued'[i] = issued[i]
    BY <1>2, <1>3 DEF PublishIds
  <2> QED
    BY <1>2, <1>3, <2>1 DEF HistoryGrows, Passed, HeldOrPassed
<1>5. PublishIds' = IF m.type = "PUBLISH" THEN PublishIds \cup {NextId} ELSE PublishIds
  <2>1. \A i \in Ids : issued'[i].type = "PUBLISH" <=>
                       (IF i = NextId THEN m.type = "PUBLISH" ELSE issued[i].type = "PUBLISH")
    BY <1>3
  <2> QED
    BY <1>2, <2>1 DEF PublishIds
<1>6. HeldOK'
  <2> SUFFICES ASSUME NEW i \in Ids, bHeld[i] # NoMsg
               PROVE  bHeld[i] = issued'[i] /\ i \in PublishIds'
    BY DEF HeldOK
  <2>1. bHeld[i] = issued[i] /\ i \in PublishIds
    BY DEF IInv, HeldOK
  <2> QED
    BY <1>2, <1>3, <1>5, <2>1
<1> QED
  BY <1>3, <1>4, <1>5, <1>6

\* The channels and the threads' hands, when the history grows.
LEMMA ChannelsGrow ==
  ASSUME IInv, HistoryGrows, UNCHANGED hold,
         outbox' \in Seq(Outgoing'), inbox' = inbox
  PROVE  HoldOK' /\ inbox' \in Seq(Arriving')
<1>1. inbox' \in Seq(Arriving')
  BY ArrivingMono, SeqMono DEF IInv
<1>2. HoldOK'
  BY OutgoingMono DEF IInv, HoldOK
<1> QED
  BY <1>1, <1>2

\* A new session: the CONNECT is given identifier 0, everything else waits.
LEMMA LogInInv == ASSUME IInv, LogIn, TypeOK' PROVE IInv'
<1>1. /\ issued \in [ Ids -> Packet ] /\ 0 \in Ids
      /\ current_packet_number \in Nat /\ base \in Nat
  BY IdFacts DEF IInv, TypeOK
<1>2. /\ issued' = [ issued EXCEPT ![0] = Connect ] /\ base' = current_packet_number
      /\ gui' = "conn_fire" /\ guiMsg' = Connect
      /\ bHeld' = [ i \in Ids |-> NoMsg ] /\ outbox' = << >> /\ inbox' = << >>
      /\ UNCHANGED << messages_map, mapState, hold, saved, used, delivered,
                      current_packet_number >>
  BY DEF LogIn, NewConnection, open_lws_net_connection, timerVars, storeVars
<1>3. issued'[0] = Connect /\ \A i \in Ids : i # 0 => issued'[i] = issued[i]
  BY <1>1, <1>2
<1>4. \A i \in Ids : issued[i] # NoMsg => issued'[i] = issued[i]
  BY <1>3 DEF IInv, IssuedOK
<1>5. PublishIds' = PublishIds /\ PublishIds \subseteq Ids
  <2>1. \A i \in Ids : issued'[i].type = "PUBLISH" <=> issued[i].type = "PUBLISH"
    BY <1>3, <1>4, NoMsgFields, BuildFields
  <2> QED
    BY <2>1 DEF PublishIds
<1>6. \A i \in PublishIds : issued'[i] = issued[i]
  BY <1>4, PublishFacts DEF IInv
<1>7. IssuedOK'
  <2> SUFFICES ASSUME NEW i \in Ids, issued'[i] # NoMsg
               PROVE  /\ issued'[i].id = i /\ i <= current_packet_number
                      /\ IF i = 0 THEN issued'[i] = Connect
                         ELSE \/ /\ issued'[i].type \in { "SUBSCRIBE", "UNSUBSCRIBE" }
                                 /\ issued'[i].qos = 0
                              \/ /\ issued'[i].type = "PUBLISH"
                                 /\ issued'[i].qos \in { 1, 2 }
                                 /\ issued'[i].content \in used
    BY <1>2 DEF IssuedOK
  <2>1. CASE i = 0
    BY <1>1, <1>3, <2>1, BuildFields
  <2>2. CASE i # 0
    BY <1>3, <2>2 DEF IInv, IssuedOK
  <2> QED
    BY <2>1, <2>2
<1>8. ContentsDistinct'
  BY <1>5, <1>6 DEF IInv, ContentsDistinct
<1>9. MapOK'
  <2> SUFFICES ASSUME NEW i \in Ids, messages_map[i] # NoMsg
               PROVE  messages_map[i] = issued'[i]
    BY <1>2 DEF MapOK
  <2> QED
    BY <1>4 DEF IInv, MapOK
<1>10. GuiOK'
  BY <1>1, <1>2, <1>3 DEF GuiOK, Connecting
<1>11. PubAddOK'
  BY <1>2 DEF PubAddOK
<1>12. outbox' \in Seq(Outgoing') /\ inbox' \in Seq(Arriving')
  BY <1>2, SeqEmpty
<1>13. HoldOK'
  <2> SUFFICES ASSUME NEW th \in Threads
               PROVE  hold[th] \in Outgoing' /\ hold[th].type # "PUBREL"
    BY <1>2 DEF HoldOK
  <2>1. hold[th] \in Outgoing /\ hold[th].type # "PUBREL"
    BY DEF IInv, HoldOK
  <2>2. PICK m \in Packet : m = hold[th] /\ m.id \in Ids
    BY <2>1 DEF Outgoing, Packet
  <2>3. (m.type \in { "SUBSCRIBE", "UNSUBSCRIBE", "PUBLISH" } /\ Own(m)) => Own(m)'
    BY <1>4, <2>2, NoMsgFields DEF Own
  <2> QED
    BY <1>2, <2>1, <2>2, <2>3 DEF Outgoing
<1>14. HeldOK'
  BY <1>2 DEF HeldOK
<1>15. SavedOK'
  BY <1>2 DEF IInv, SavedOK
<1>16. NoPublishLost'
  <2>1. \A i \in PublishIds : ~(i > current_packet_number)
    <3> TAKE i \in PublishIds
    <3>1. i <= current_packet_number
      BY PublishFacts DEF IInv, IssuedOK
    <3> QED
      BY <1>1, <1>5, <3>1 DEF Ids
  <2> QED
    BY <1>2, <1>5, <2>1 DEF NoPublishLost
<1>17. SavedWasDelivered'
  BY <1>2, <1>5, <1>6 DEF IInv, SavedWasDelivered
<1> QED
  BY <1>7, <1>8, <1>9, <1>10, <1>11, <1>12, <1>13, <1>14, <1>15, <1>16, <1>17 DEF IInv

\* A SUBSCRIBE or UNSUBSCRIBE is numbered and stored.
LEMMA StoredInv ==
  ASSUME IInv, TypeOK', MayIssue, NEW m \in Packet, m.id = NextId, m.qos = 0,
         m.type \in { "SUBSCRIBE", "UNSUBSCRIBE" }, send_stored(m)
  PROVE  IInv'
<1> DEFINE n == NextId
<1>1. /\ issued \in [ Ids -> Packet ] /\ messages_map \in [ Ids -> Packet ]
      /\ current_packet_number \in Nat /\ base \in Nat
  BY DEF IInv, TypeOK, TimersTypeOK
<1>2. /\ n = current_packet_number + 1 /\ n \in Ids /\ n # 0 /\ n \notin PublishIds
      /\ issued[n] = NoMsg
  BY FreshId
<1>3. /\ issued' = [ issued EXCEPT ![m.id] = m ]
      /\ current_packet_number' = current_packet_number + 1
      /\ messages_map' = [ messages_map EXCEPT ![m.id] = m ]
      /\ gui' = "sub_fire" /\ guiMsg' = m
      /\ UNCHANGED << outbox, inbox, mapState, hold, bHeld, delivered, saved, used, base >>
  BY DEF send_stored, add_message_in_map, linkVars, brokerVars, storeVars
<1>4. m # NoMsg
  BY NoMsgFields
<1>5. /\ issued'[n] = m /\ \A i \in Ids : i # n => issued'[i] = issued[i]
      /\ HistoryGrows /\ HeldOK' /\ PublishIds' = PublishIds
  BY <1>3, <1>4, Issue
<1>6. \A i \in Ids : messages_map'[i] = IF i = n THEN m ELSE messages_map[i]
  BY <1>1, <1>2, <1>3
<1>7. m.id = n /\ PublishIds \subseteq Ids
  BY DEF PublishIds
<1> HIDE DEF n
<1>8. IssuedOK'
  <2> SUFFICES ASSUME NEW i \in Ids, issued'[i] # NoMsg
               PROVE  /\ issued'[i].id = i /\ i <= current_packet_number + 1
                      /\ IF i = 0 THEN issued'[i] = Connect
                         ELSE \/ /\ issued'[i].type \in { "SUBSCRIBE", "UNSUBSCRIBE" }
                                 /\ issued'[i].qos = 0
                              \/ /\ issued'[i].type = "PUBLISH"
                                 /\ issued'[i].qos \in { 1, 2 }
                                 /\ issued'[i].content \in used
    BY <1>3 DEF IssuedOK
  <2>1. CASE i = n
    BY <1>1, <1>2, <1>5, <1>7, <2>1
  <2>2. CASE i # n
    <3>1. issued'[i] = issued[i] /\ i \in Int
      BY <1>5, <2>2 DEF Ids
    <3>2. i <= current_packet_number
      BY <3>1 DEF IInv, IssuedOK
    <3> QED
      BY <1>1, <3>1, <3>2 DEF IInv, IssuedOK
  <2> QED
    BY <2>1, <2>2
<1>9. \A i \in PublishIds : issued'[i] = issued[i] /\ messages_map'[i] = messages_map[i]
  BY <1>2, <1>5, <1>6, <1>7
<1>10. ContentsDistinct'
  BY <1>5, <1>9 DEF IInv, ContentsDistinct
<1>11. MapOK'
  BY <1>5, <1>6 DEF IInv, MapOK
<1>12. GuiOK'
  BY <1>1, <1>3, <1>5, <1>7 DEF IInv, GuiOK, Connecting
<1>13. PubAddOK'
  BY <1>3 DEF PubAddOK
<1>14. outbox' \in Seq(Outgoing')
  BY <1>3, <1>5, OutgoingMono, SeqMono DEF IInv
<1>15. HoldOK' /\ inbox' \in Seq(Arriving')
  BY <1>3, <1>5, <1>14, ChannelsGrow
<1>16. SavedOK'
  <2>1. \A i \in Ids : messages_map'[i].type = "PUBLISH" => messages_map'[i] = messages_map[i]
    BY <1>6
  <2> QED
    BY <1>3, <2>1 DEF IInv, SavedOK
<1>17. NoPublishLost'
  <2>1. guiMsg = NoMsg
    BY DEF IInv, GuiOK, MayIssue
  <2>2. \A i \in PublishIds : issued[i] # guiMsg
    BY <2>1, PublishFacts DEF IInv
  <2> QED
    BY <1>3, <1>5, <1>9, <2>2 DEF IInv, NoPublishLost
<1>18. SavedWasDelivered'
  BY <1>3, <1>5, <1>9 DEF IInv, SavedWasDelivered
<1> QED
  BY <1>5, <1>8, <1>10, <1>11, <1>12, <1>13, <1>14, <1>15, <1>16, <1>17, <1>18 DEF IInv

\* send_publish with QoS 0: no identifier, the packet is only fired.
LEMMA PublishQos0Inv ==
  ASSUME IInv, TypeOK', NEW c \in Contents, NEW t \in Topics, send_publish(c, t, 0)
  PROVE  IInv'
<1>1. PICK m \in Packet : m = Publish(0, t, 0, c)
  BY IdFacts, PacketTypes DEF QoS
<1>2. m.type = "PUBLISH" /\ m.qos = 0 /\ m.content = c
  BY <1>1, BuildFields
<1>3. /\ encode_and_fire(m) /\ gui = "idle" /\ gui' = "pub_add" /\ guiMsg' = m
      /\ c \notin used /\ used' = used \cup {c}
      /\ UNCHANGED << inbox, messages_map, mapState, hold, bHeld, delivered, saved,
                      issued, current_packet_number, base >>
  BY <1>1 DEF send_publish, MayIssue, timerVars, brokerVars, storeVars
<1>4. PublishIds' = PublishIds /\ HistoryGrows /\ HeldOK'
  BY <1>3 DEF IInv, HistoryGrows, PublishIds, HeldOK, Passed, HeldOrPassed
<1>5. IssuedOK' /\ ContentsDistinct' /\ MapOK'
  BY <1>3, <1>4 DEF IInv, IssuedOK, ContentsDistinct, MapOK
<1>6. GuiOK'
  BY <1>3 DEF IInv, GuiOK, Connecting
<1>7. \A i \in PublishIds : issued[i].content # c /\ issued[i] # guiMsg
  <2>1. guiMsg = NoMsg
    BY <1>3 DEF IInv, GuiOK
  <2> QED
    BY <1>3, <2>1, PublishFacts DEF IInv
<1>8. saved[c] = 0
  BY <1>3 DEF IInv, SavedOK
<1>9. PubAddOK'
  BY <1>2, <1>3, <1>4, <1>7, <1>8 DEF PubAddOK
<1>10. m \in Outgoing'
  BY <1>2, <1>3 DEF Outgoing
<1>11. outbox' \in Seq(Outgoing')
  <2>1. outbox \in Seq(Outgoing')
    BY <1>4, OutgoingMono, SeqMono DEF IInv
  <2> QED
    BY <1>3, <1>10, <2>1, SeqAppend DEF encode_and_fire
<1>12. HoldOK' /\ inbox' \in Seq(Arriving')
  BY <1>3, <1>4, <1>11, ChannelsGrow
<1>13. SavedOK'
  BY <1>3 DEF IInv, SavedOK
<1>14. NoPublishLost' /\ SavedWasDelivered'
  BY <1>3, <1>4, <1>7 DEF IInv, NoPublishLost, SavedWasDelivered
<1> QED
  BY <1>4, <1>5, <1>6, <1>9, <1>11, <1>12, <1>13, <1>14 DEF IInv

\* send_publish with QoS 1 or 2: the packet is numbered and fired.
LEMMA PublishInv ==
  ASSUME IInv, TypeOK', NEW c \in Contents, NEW t \in Topics, NEW q \in { 1, 2 },
         send_publish(c, t, q)
  PROVE  IInv'
<1> DEFINE n == NextId
<1>0. MayIssue
  BY DEF send_publish
<1>1. /\ n = current_packet_number + 1 /\ n \in Ids /\ n # 0 /\ n \notin PublishIds
      /\ issued[n] = NoMsg /\ messages_map[n] = NoMsg
  BY <1>0, FreshId
<1>2. PICK m \in Packet : m = Publish(n, t, q, c)
  BY <1>1, PacketTypes DEF QoS
<1>3. m.type = "PUBLISH" /\ m.qos = q /\ m.content = c /\ m.id = n
  BY <1>2, BuildFields
<1>4. /\ encode_and_fire(m) /\ gui = "idle" /\ gui' = "pub_add" /\ guiMsg' = m
      /\ c \notin used /\ used' = used \cup {c}
      /\ issued' = [ issued EXCEPT ![n] = m ]
      /\ current_packet_number' = current_packet_number + 1
      /\ UNCHANGED << inbox, messages_map, mapState, hold, bHeld, delivered, saved, base >>
  <2>1. q # 0
    OBVIOUS
  <2> QED
    BY <1>2, <2>1 DEF send_publish, MayIssue, timerVars, brokerVars, storeVars
<1>5. m # NoMsg
  BY <1>3, NoMsgFields
<1>6. /\ issued'[n] = m /\ \A i \in Ids : i # n => issued'[i] = issued[i]
      /\ HistoryGrows /\ HeldOK' /\ PublishIds' = PublishIds \cup {n}
  <2>1. issued' = [ issued EXCEPT ![m.id] = m ] /\ m.id = NextId
    BY <1>3, <1>4
  <2> QED
    BY <1>0, <1>3, <1>4, <1>5, <2>1, Issue
<1>7. current_packet_number \in Nat /\ base \in Nat /\ PublishIds \subseteq Ids
  BY DEF IInv, TypeOK, PublishIds
<1> HIDE DEF n
<1>8. IssuedOK'
  <2> SUFFICES ASSUME NEW i \in Ids, issued'[i] # NoMsg
               PROVE  /\ issued'[i].id = i /\ i <= current_packet_number + 1
                      /\ IF i = 0 THEN issued'[i] = Connect
                         ELSE \/ /\ issued'[i].type \in { "SUBSCRIBE", "UNSUBSCRIBE" }
                                 /\ issued'[i].qos = 0
                              \/ /\ issued'[i].type = "PUBLISH"
                                 /\ issued'[i].qos \in { 1, 2 }
                                 /\ issued'[i].content \in used'
    BY <1>4 DEF IssuedOK
  <2>1. CASE i = n
    BY <1>1, <1>3, <1>4, <1>6, <1>7, <2>1
  <2>2. CASE i # n
    <3>1. issued'[i] = issued[i] /\ i \in Int
      BY <1>6, <2>2 DEF Ids
    <3>2. i <= current_packet_number
      BY <3>1 DEF IInv, IssuedOK
    <3> QED
      BY <1>4, <1>7, <3>1, <3>2 DEF IInv, IssuedOK
  <2> QED
    BY <2>1, <2>2
<1>9. \A i \in PublishIds : /\ issued'[i] = issued[i] /\ issued[i].content # c
                            /\ issued[i] # guiMsg /\ i # n
  <2>1. guiMsg = NoMsg
    BY <1>4 DEF IInv, GuiOK
  <2> QED
    BY <1>1, <1>4, <1>6, <1>7, <2>1, PublishFacts DEF IInv
<1>10. ContentsDistinct'
  <2> SUFFICES ASSUME NEW i \in PublishIds \cup {n}, NEW j \in PublishIds \cup {n},
                      issued'[i].content = issued'[j].content
               PROVE  i = j
    BY <1>6 DEF ContentsDistinct
  <2> QED
    BY <1>3, <1>6, <1>9 DEF IInv, ContentsDistinct
<1>11. MapOK'
  BY <1>1, <1>4, <1>6 DEF IInv, MapOK
<1>12. GuiOK'
  BY <1>4, <1>7 DEF IInv, GuiOK, Connecting
<1>13. saved[c] = 0
  BY <1>4 DEF IInv, SavedOK
<1>14. PubAddOK'
  BY <1>1, <1>3, <1>4, <1>6, <1>13 DEF PubAddOK
<1>15. m \in Outgoing'
  BY <1>3, <1>4, <1>6 DEF Outgoing, Own
<1>16. outbox' \in Seq(Outgoing')
  <2>1. outbox \in Seq(Outgoing')
    BY <1>6, OutgoingMono, SeqMono DEF IInv
  <2> QED
    BY <1>4, <1>15, <2>1, SeqAppend DEF encode_and_fire
<1>17. HoldOK' /\ inbox' \in Seq(Arriving')
  BY <1>4, <1>6, <1>16, ChannelsGrow
<1>18. SavedOK'
  BY <1>4 DEF IInv, SavedOK
<1>19. NoPublishLost'
  <2> SUFFICES ASSUME mapState = "live", NEW i \in PublishIds \cup {n}, i > base
               PROVE  \/ messages_map[i] = issued'[i]
                      \/ m = issued'[i]
                      \/ saved[issued'[i].content] = 1
    BY <1>4, <1>6 DEF NoPublishLost
  <2>1. CASE i = n
    BY <1>6, <2>1
  <2>2. CASE i # n
    BY <1>9, <2>2 DEF IInv, NoPublishLost
  <2> QED
    BY <2>1, <2>2
<1>20. SavedWasDelivered'
  <2> SUFFICES ASSUME NEW i \in PublishIds \cup {n}, saved[issued'[i].content] > 0
               PROVE  delivered[issued'[i].content] > 0
    BY <1>4, <1>6 DEF SavedWasDelivered
  <2>1. i # n
    BY <1>3, <1>6, <1>13
  <2> QED
    BY <1>9, <2>1 DEF IInv, SavedWasDelivered
<1> QED
  BY <1>6, <1>8, <1>10, <1>11, <1>12, <1>14, <1>16, <1>17, <1>18, <1>19, <1>20 DEF IInv

\* A step of the GTK thread that gives out no identifier.
LEMMA GuiMoves ==
  ASSUME IInv, TypeOK',
         UNCHANGED << issued, used, base, current_packet_number, bHeld, delivered, hold,
                      inbox >>,
         outbox' \in Seq(Outgoing), MapOK', GuiOK', PubAddOK', SavedOK', NoPublishLost',
         SavedWasDelivered'
  PROVE  IInv'
<1>1. Outgoing' = Outgoing /\ Arriving' = Arriving /\ HeldOK' /\ PublishIds' = PublishIds
  BY HistorySame DEF IInv
<1>2. IssuedOK' /\ ContentsDistinct'
  BY <1>1 DEF IInv, IssuedOK, ContentsDistinct
<1>3. HoldOK' /\ outbox' \in Seq(Outgoing') /\ inbox' \in Seq(Arriving')
  BY <1>1 DEF IInv, HoldOK
<1> QED
  BY <1>1, <1>2, <1>3 DEF IInv

\* No step of the GTK thread outside a handler breaks the invariant.
LEMMA UserInv == ASSUME IInv, UserStep PROVE IInv'
<1>0. TypeOK'
  BY UserType DEF IInv
<1>1. CASE LogIn
  BY <1>0, <1>1, LogInInv
<1>2. ASSUME NEW t \in Topics, send_subscribe(t) PROVE IInv'
  <2>1. NextId \in Ids
    BY <1>2, FreshId DEF send_subscribe
  <2>2. PICK m \in Packet : m = Subscribe(NextId, t)
    BY <2>1, PacketTypes
  <2>3. m.id = NextId /\ m.qos = 0 /\ m.type = "SUBSCRIBE"
    BY <2>2, BuildFields
  <2> QED
    BY <1>0, <1>2, <2>2, <2>3, StoredInv DEF send_subscribe
<1>3. ASSUME NEW t \in Topics, send_unsubscribe(t) PROVE IInv'
  <2>1. NextId \in Ids
    BY <1>3, FreshId DEF send_unsubscribe
  <2>2. PICK m \in Packet : m = Unsubscribe(NextId, t)
    BY <2>1, PacketTypes
  <2>3. m.id = NextId /\ m.qos = 0 /\ m.type = "UNSUBSCRIBE"
    BY <2>2, BuildFields
  <2> QED
    BY <1>0, <1>3, <2>2, <2>3, StoredInv DEF send_unsubscribe
<1>4. ASSUME NEW c \in Contents, NEW t \in Topics, NEW q \in UserQoS, send_publish(c, t, q)
      PROVE  IInv'
  <2>1. q \in 0 .. 2
    BY ClientBounds DEF QoS
  <2>2. CASE q = 0
    BY <1>0, <1>4, <2>2, PublishQos0Inv
  <2>3. CASE q # 0
    BY <1>0, <1>4, <2>1, <2>3, PublishInv
  <2> QED
    BY <2>2, <2>3
<1>5. CASE log_out_handle
  <2>1. /\ UNCHANGED << linkVars, timerVars, brokerVars, saved, guiMsg, issued, used, base,
                        current_packet_number >>
        /\ gui = "idle" /\ gui' = "disc_ping"
    BY <1>5 DEF log_out_handle
  <2>2. UNCHANGED << issued, used, base, current_packet_number, bHeld, delivered, hold,
                     inbox, outbox, messages_map, mapState, saved, guiMsg >>
    BY <2>1 DEF linkVars, timerVars, brokerVars
  <2>3. MapOK' /\ SavedOK' /\ NoPublishLost' /\ SavedWasDelivered'
    BY <2>2 DEF IInv, MapOK, SavedOK, NoPublishLost, SavedWasDelivered, PublishIds
  <2>4. GuiOK' /\ PubAddOK'
    BY <2>1, <2>2 DEF IInv, GuiOK, PubAddOK, Connecting
  <2> QED
    BY <1>0, <2>2, <2>3, <2>4, GuiMoves DEF IInv
<1> QED
  BY <1>1, <1>2, <1>3, <1>4, <1>5 DEF UserStep

\* No later step of a handler of the GTK thread breaks the invariant.
LEMMA GuiInv == ASSUME IInv, GuiStep PROVE IInv'
<1>0. TypeOK'
  BY GuiType DEF IInv
<1>1. /\ outbox \in Seq(Outgoing) /\ messages_map \in [ Ids -> Packet ]
      /\ saved \in [ Contents -> Nat ] /\ guiMsg \in Packet
  BY DEF IInv, TypeOK, TimersTypeOK
<1>2. ASSUME UNCHANGED << issued, used, base, current_packet_number, bHeld, delivered, hold,
                          inbox, messages_map, mapState, saved >>,
             outbox' \in Seq(Outgoing), guiMsg.type # "PUBLISH", gui' # "pub_add", GuiOK'
      PROVE  IInv'
  <2>1. MapOK' /\ SavedOK' /\ SavedWasDelivered' /\ PubAddOK'
    BY <1>2 DEF IInv, MapOK, SavedOK, SavedWasDelivered, PublishIds, PubAddOK
  <2>2. NoPublishLost'
    BY <1>2 DEF IInv, NoPublishLost, PublishIds
  <2> QED
    BY <1>0, <1>2, <2>1, <2>2, GuiMoves
<1>3. CASE send_connect_fire
  <2>1. /\ gui = "conn_fire" /\ gui' = "conn_timer" /\ encode_and_fire(guiMsg)
        /\ UNCHANGED << issued, used, base, current_packet_number, bHeld, delivered, hold,
                        inbox, messages_map, mapState, saved, guiMsg >>
    BY <1>3 DEF send_connect_fire, timerVars, brokerVars, storeVars
  <2>2. guiMsg = Connect
    BY <2>1 DEF IInv, GuiOK, Connecting
  <2>3. guiMsg \in Outgoing /\ guiMsg.type # "PUBLISH"
    BY <2>2, PacketTypes, BuildFields DEF Outgoing
  <2>4. outbox' \in Seq(Outgoing)
    BY <1>1, <2>1, <2>3, FireAllowed
  <2>5. GuiOK'
    BY <2>1 DEF IInv, GuiOK, Connecting
  <2> QED
    BY <1>2, <2>1, <2>3, <2>4, <2>5
<1>4. CASE send_connect_timer
  <2>1. /\ gui = "conn_timer" /\ gui' = "conn_add" /\ messages_map' = EmptyMap
        /\ UNCHANGED << issued, used, base, current_packet_number, bHeld, delivered, hold,
                        inbox, outbox, saved, guiMsg >>
    BY <1>4 DEF send_connect_timer, start_connect_timer, linkVars, brokerVars, storeVars
  <2>2. \A i \in Ids : messages_map'[i] = NoMsg
    BY <2>1 DEF EmptyMap
  <2>3. GuiOK' /\ PubAddOK'
    BY <2>1 DEF IInv, GuiOK, PubAddOK, Connecting
  <2>4. MapOK' /\ SavedOK' /\ SavedWasDelivered'
    BY <2>1, <2>2, NoMsgFields DEF IInv, MapOK, SavedOK, SavedWasDelivered, PublishIds
  <2>5. NoPublishLost'
    <3>1. base = current_packet_number /\ current_packet_number \in Nat
      BY <2>1 DEF IInv, GuiOK, Connecting, TypeOK
    <3>2. \A i \in PublishIds : i <= current_packet_number /\ i \in Int
      BY PublishFacts DEF IInv, IssuedOK, Ids
    <3>3. \A i \in PublishIds : ~(i > base)
      BY <3>1, <3>2
    <3> QED
      BY <2>1, <3>3 DEF NoPublishLost, PublishIds
  <2> QED
    BY <1>0, <1>1, <2>1, <2>3, <2>4, <2>5, GuiMoves
<1>5. CASE send_connect_add
  <2>1. /\ gui = "conn_add" /\ gui' = "idle" /\ guiMsg' = NoMsg
        /\ messages_map' = [ messages_map EXCEPT ![guiMsg.id] = guiMsg ]
        /\ UNCHANGED << issued, used, base, current_packet_number, bHeld, delivered, hold,
                        inbox, outbox, saved, mapState >>
    BY <1>5 DEF send_connect_add, add_message_in_map, linkVars, brokerVars, storeVars
  <2>2. guiMsg = Connect /\ issued[0] = Connect /\ guiMsg.id = 0 /\ guiMsg.type = "CONNECT"
    BY <2>1, BuildFields DEF IInv, GuiOK, Connecting
  <2>3. \A i \in Ids : messages_map'[i] = IF i = 0 THEN Connect ELSE messages_map[i]
    BY <1>1, <2>1, <2>2, IdFacts
  <2>4. GuiOK' /\ PubAddOK'
    BY <2>1 DEF IInv, GuiOK, PubAddOK, Connecting
  <2>5. MapOK'
    BY <2>1, <2>2, <2>3 DEF IInv, MapOK
  <2>6. SavedOK'
    BY <2>1, <2>3, BuildFields DEF IInv, SavedOK
  <2>7. SavedWasDelivered'
    BY <2>1 DEF IInv, SavedWasDelivered, PublishIds
  <2>8. NoPublishLost'
    <3>1. \A i \in PublishIds : /\ messages_map'[i] = messages_map[i]
                                /\ issued[i] # guiMsg
      BY <2>2, <2>3, PublishFacts DEF IInv, PublishIds
    <3> QED
      BY <2>1, <3>1 DEF IInv, NoPublishLost, PublishIds
  <2> QED
    BY <1>0, <1>1, <2>1, <2>4, <2>5, <2>6, <2>7, <2>8, GuiMoves
<1>6. CASE send_stored_fire
  <2>1. /\ gui = "sub_fire" /\ gui' = "idle" /\ guiMsg' = NoMsg /\ encode_and_fire(guiMsg)
        /\ UNCHANGED << issued, used, base, current_packet_number, bHeld, delivered, hold,
                        inbox, messages_map, mapState, saved >>
    BY <1>6 DEF send_stored_fire, timerVars, brokerVars, storeVars
  <2>2. guiMsg.type \in { "SUBSCRIBE", "UNSUBSCRIBE" } /\ guiMsg = issued[guiMsg.id]
    BY <2>1 DEF IInv, GuiOK
  <2>3. guiMsg \in Outgoing
    BY <1>1, <2>2 DEF Outgoing, Own
  <2>4. outbox' \in Seq(Outgoing)
    BY <1>1, <2>1, <2>3, FireAllowed
  <2>5. GuiOK'
    BY <2>1 DEF IInv, GuiOK, Connecting
  <2> QED
    BY <1>2, <2>1, <2>2, <2>4, <2>5
<1>7. CASE send_publish_add
  <2>1. /\ gui = "pub_add" /\ gui' = "idle" /\ guiMsg' = NoMsg
        /\ UNCHANGED << issued, used, base, current_packet_number, bHeld, delivered,
                        inbox, outbox >>
    BY <1>7 DEF send_publish_add, linkVars, brokerVars
  <2>2. UNCHANGED << hold, mapState >>
    BY <1>7 DEF send_publish_add, add_message_in_map, timerVars
  <2>3. guiMsg.type = "PUBLISH" /\ guiMsg.content \in used /\ saved[guiMsg.content] = 0
    BY <2>1 DEF IInv, PubAddOK
  <2>4. guiMsg.content \in Contents /\ guiMsg.id \in Ids
    BY <2>3 DEF IInv, TypeOK, Packet
  <2>5. GuiOK' /\ PubAddOK'
    BY <2>1 DEF IInv, GuiOK, PubAddOK, Connecting
  <2>6. PublishIds' = PublishIds
    BY <2>1 DEF PublishIds
  <2>7. CASE guiMsg.qos = 0
    <3>1. messages_map' = messages_map /\ save_message(guiMsg.content)
      BY <1>7, <2>7 DEF send_publish_add, SavedAtOnce, timerVars
    <3>2. \A d \in Contents : saved'[d] = IF d = guiMsg.content THEN 1 ELSE saved[d]
      BY <1>1, <2>3, <2>4, <3>1 DEF save_message
    <3>3. \A i \in PublishIds : /\ issued[i].content # guiMsg.content
                                /\ issued[i].content \in Contents
      BY <2>1, <2>7, PublishFacts DEF IInv, PubAddOK
    <3>4. \A i \in PublishIds : saved'[issued[i].content] = saved[issued[i].content]
      BY <3>2, <3>3
    <3>5. \A i \in PublishIds : issued[i] # guiMsg
      BY <3>3
    <3>6. NoPublishLost' /\ SavedWasDelivered'
      BY <2>1, <2>2, <2>6, <3>1, <3>4, <3>5 DEF IInv, NoPublishLost, SavedWasDelivered
    <3>7. SavedOK'
      <4>1. \A d \in Contents : saved'[d] <= 1 /\ (d \notin used => saved'[d] = 0)
        BY <2>3, <3>2 DEF IInv, SavedOK
      <4>2. ASSUME NEW i \in Ids, messages_map[i].type = "PUBLISH"
            PROVE  saved'[messages_map[i].content] = 0
        <5>1. messages_map[i] = issued[i] /\ i \in PublishIds
          BY <4>2, NoMsgFields DEF IInv, MapOK, PublishIds
        <5> QED
          BY <3>4, <4>2, <5>1 DEF IInv, SavedOK
      <4> QED
        BY <2>1, <3>1, <4>1, <4>2 DEF SavedOK
    <3>8. MapOK'
      BY <2>1, <3>1 DEF IInv, MapOK
    <3> QED
      BY <1>0, <1>1, <2>1, <2>2, <2>5, <3>6, <3>7, <3>8, GuiMoves
  <2>8. CASE guiMsg.qos # 0
    <3>1. /\ saved' = saved
          /\ messages_map' = [ messages_map EXCEPT ![guiMsg.id] = guiMsg ]
      BY <1>7, <2>8 DEF send_publish_add, SavedAtOnce, add_message_in_map, storeVars
    <3>2. \A i \in Ids : messages_map'[i] = IF i = guiMsg.id THEN guiMsg ELSE messages_map[i]
      BY <1>1, <2>4, <3>1
    <3>3. guiMsg = issued[guiMsg.id]
      BY <2>1, <2>8 DEF IInv, PubAddOK
    <3>4. MapOK'
      BY <2>1, <3>2, <3>3 DEF IInv, MapOK
    <3>5. SavedOK'
      BY <2>1, <2>3, <3>1, <3>2 DEF IInv, SavedOK
    <3>6. SavedWasDelivered'
      BY <2>1, <2>6, <3>1 DEF IInv, SavedWasDelivered
    <3>7. NoPublishLost'
      <4>1. ASSUME NEW i \in PublishIds, guiMsg = issued[i] PROVE messages_map'[i] = issued[i]
        <5>1. guiMsg.id = i /\ i \in Ids
          BY <4>1, PublishFacts DEF IInv
        <5> QED
          BY <3>2, <4>1, <5>1
      <4>2. ASSUME NEW i \in PublishIds, messages_map[i] = issued[i]
            PROVE  messages_map'[i] = issued[i]
        BY <3>2, <3>3, <4>2 DEF PublishIds
      <4> QED
        BY <2>1, <2>2, <2>6, <3>1, <4>1, <4>2 DEF IInv, NoPublishLost
    <3> QED
      BY <1>0, <1>1, <2>1, <2>2, <2>5, <3>4, <3>5, <3>6, <3>7, GuiMoves
  <2> QED
    BY <2>7, <2>8
<1>8. CASE send_disconnect_ping
  <2>1. /\ gui = "disc_ping" /\ gui' = "disc_fire"
        /\ messages_map' = EmptyMap
        /\ mapState' = IF mapState = "null" THEN "null" ELSE "destroyed"
        /\ UNCHANGED << issued, used, base, current_packet_number, bHeld, delivered, hold,
                        inbox, outbox, saved, guiMsg >>
    BY <1>8 DEF send_disconnect_ping, stop_ping_timer, brokerVars, storeVars
  <2>2. mapState' # "live" /\ \A i \in Ids : messages_map'[i] = NoMsg
    BY <2>1 DEF EmptyMap
  <2>3. GuiOK' /\ PubAddOK'
    BY <2>1 DEF IInv, GuiOK, PubAddOK, Connecting
  <2>4. MapOK' /\ SavedOK' /\ SavedWasDelivered' /\ NoPublishLost'
    BY <2>1, <2>2, NoMsgFields
    DEF IInv, MapOK, SavedOK, SavedWasDelivered, NoPublishLost, PublishIds
  <2> QED
    BY <1>0, <1>1, <2>1, <2>3, <2>4, GuiMoves
<1>9. CASE send_disconnect_fire
  <2>1. /\ gui = "disc_fire" /\ gui' = "disc_close"
        /\ encode_and_fire(Disconnect) \/ outbox' = outbox
        /\ UNCHANGED << issued, used, base, current_packet_number, bHeld, delivered, hold,
                        inbox, messages_map, mapState, saved, guiMsg >>
    BY <1>9 DEF send_disconnect_fire, stop_message_timer, brokerVars, storeVars
  <2>2. Disconnect \in Outgoing
    BY PacketTypes, BuildFields DEF Outgoing
  <2>3. outbox' \in Seq(Outgoing)
    BY <1>1, <2>1, <2>2, FireAllowed
  <2>4. GuiOK' /\ guiMsg.type # "PUBLISH"
    BY <2>1, NoMsgFields DEF IInv, GuiOK, Connecting
  <2> QED
    BY <1>2, <2>1, <2>3, <2>4
<1>10. CASE send_disconnect_close
  <2>1. /\ gui = "disc_close" /\ gui' = "idle"
        /\ UNCHANGED << issued, used, base, current_packet_number, bHeld, delivered, hold,
                        inbox, outbox, messages_map, mapState, saved, guiMsg >>
    BY <1>10 DEF send_disconnect_close, timerVars, brokerVars, storeVars
  <2>2. GuiOK' /\ guiMsg.type # "PUBLISH"
    BY <2>1, NoMsgFields DEF IInv, GuiOK, Connecting
  <2> QED
    BY <1>1, <1>2, <2>1, <2>2
<1> QED
  BY <1>3, <1>4, <1>5, <1>6, <1>7, <1>8, <1>9, <1>10 DEF GuiStep

-----------------------------------------------------------------------------
(* The results.                                                            *)

LEMMA InitInv == Init => IInv
<1> SUFFICES ASSUME Init PROVE IInv
  OBVIOUS
<1> USE DEF Init, LinkInit, TimersInit, BrokerInit
<1>1. TypeOK
  BY InitType
<1>2. \A i \in Ids : issued[i] = NoMsg /\ messages_map[i] = NoMsg /\ bHeld[i] = NoMsg
  BY DEF EmptyMap
<1>3. PublishIds = {}
  BY <1>2, NoMsgFields DEF PublishIds
<1>4. IssuedOK /\ ContentsDistinct /\ MapOK /\ HeldOK
  BY <1>2, <1>3 DEF IssuedOK, ContentsDistinct, MapOK, HeldOK
<1>5. GuiOK /\ PubAddOK
  BY DEF GuiOK, PubAddOK, Connecting
<1>6. NoMsg \in Outgoing
  BY PacketTypes, NoMsgFields DEF Outgoing
<1>7. HoldOK
  BY <1>6, NoMsgFields DEF HoldOK
<1>8. SavedOK
  BY <1>2, NoMsgFields DEF SavedOK
<1>9. NoPublishLost /\ SavedWasDelivered
  BY <1>3 DEF NoPublishLost, SavedWasDelivered
<1>10. outbox \in Seq(Outgoing) /\ inbox \in Seq(Arriving)
  BY SeqEmpty
<1> QED
  BY <1>1, <1>4, <1>5, <1>7, <1>8, <1>9, <1>10 DEF IInv

LEMMA StutterInv == ASSUME IInv, UNCHANGED vars PROVE IInv'
<1>1. TypeOK'
  BY NextType DEF IInv
<1>2. UNCHANGED << steady, messages_map, mapState, saved, hold, outbox, inbox >>
  BY DEF vars, linkVars, timerVars, brokerVars, guiVars, storeVars, steady
<1>3. \A th \in Threads : hold[th] \in Outgoing /\ hold[th].type # "PUBREL"
  BY DEF IInv, HoldOK
<1> QED
  BY <1>1, <1>2, <1>3, OnlyMoves DEF IInv

LEMMA NextInv == IInv /\ [Next]_vars => IInv'
<1> SUFFICES ASSUME IInv, [Next]_vars PROVE IInv'
  OBVIOUS
<1> QED
  BY StutterInv, UserInv, GuiInv, WorkerInv, TimerInv, BrokerInv DEF Next

\* The invariant of MqttInductive: every packet in the map, in a thread's hand,
\* on the wire or at the broker is the one that was given its identifier.
THEOREM SafetyInvariant == Spec => []IInv
BY InitInv, NextInv, PTL DEF Spec

\* However often a packet is resent and acknowledged, process_rx stores its
\* message in the history once.
THEOREM SavedOnceHolds == Spec => []SavedOnce
<1>1. IInv => SavedOnce
  BY DEF IInv, SavedOK, SavedOnce
<1> QED
  BY <1>1, SafetyInvariant, PTL

\* While the map is alive no QoS 1 or 2 PUBLISH of the session is forgotten,
\* also when its answer is handled between the fire and the add of send_publish.
THEOREM NoPublishLostHolds == Spec => []NoPublishLost
<1>1. IInv => NoPublishLost
  BY DEF IInv
<1> QED
  BY <1>1, SafetyInvariant, PTL

\* What the history shows as published with QoS 1 or 2 the broker has passed on.
THEOREM SavedWasDeliveredHolds == Spec => []SavedWasDelivered
<1>1. IInv => SavedWasDelivered
  BY DEF IInv
<1> QED
  BY <1>1, SafetyInvariant, PTL

\* The casts of process_rx are right: an answer finds the kind of packet it is
\* for under its identifier, or nothing.
THEOREM AnswerMatchesRequestHolds == Spec => []AnswerMatchesRequest
<1>1. IInv => AnswerMatchesRequest
  <2> SUFFICES ASSUME IInv, NEW k \in 1 .. Len(inbox), inbox[k].type \in AnswerTypes,
                      messages_map[inbox[k].id] # NoMsg
               PROVE  Request(inbox[k].type) =
                        << messages_map[inbox[k].id].type, messages_map[inbox[k].id].qos >>
    BY DEF AnswerMatchesRequest, get_message_from_map
  <2>1. inbox[k] \in Arriving
    BY DEF IInv
  <2>2. inbox[k].id \in Ids
    BY <2>1, ArrivingFacts
  <2>3. messages_map[inbox[k].id] = issued[inbox[k].id]
    BY <2>2 DEF IInv, MapOK
  <2> QED
    BY <2>1, <2>3 DEF Arriving
<1> QED
  BY <1>1, SafetyInvariant, PTL

\* No identifier is given a second time.
LEMMA IssuedStays ==
  ASSUME IInv, [Next]_vars, NEW i \in Ids, issued[i] # NoMsg
  PROVE  issued'[i] = issued[i]
<1>1. issued \in [ Ids -> Packet ]
  BY DEF IInv, TypeOK
<1>2. CASE UNCHANGED issued
  BY <1>2
<1>3. CASE LogIn
  <2>1. issued' = [ issued EXCEPT ![0] = Connect ]
    BY <1>3 DEF LogIn
  <2> QED
    BY <1>1, <2>1 DEF IInv, IssuedOK
<1>4. ASSUME NEW m, MayIssue, issued' = [ issued EXCEPT ![NextId] = m ]
      PROVE  issued'[i] = issued[i]
  <2>1. i # NextId
    BY <1>4, FreshId
  <2> QED
    BY <1>1, <1>4, <2>1
<1>5. ASSUME NEW t \in Topics, send_subscribe(t) PROVE issued'[i] = issued[i]
  <2>1. Subscribe(NextId, t).id = NextId
    BY BuildFields
  <2> QED
    BY <1>4, <1>5, <2>1 DEF send_subscribe, send_stored
<1>6. ASSUME NEW t \in Topics, send_unsubscribe(t) PROVE issued'[i] = issued[i]
  <2>1. Unsubscribe(NextId, t).id = NextId
    BY BuildFields
  <2> QED
    BY <1>4, <1>6, <2>1 DEF send_unsubscribe, send_stored
<1>7. ASSUME NEW c \in Contents, NEW t \in Topics, NEW q \in UserQoS, send_publish(c, t, q)
      PROVE  issued'[i] = issued[i]
  BY <1>4, <1>7 DEF send_publish
<1>8. CASE UNCHANGED vars
  BY <1>2, <1>8 DEF vars, guiVars
<1>9. CASE log_out_handle
  BY <1>2, <1>9 DEF log_out_handle
<1>10. CASE GuiStep
  BY <1>2, <1>10
  DEF GuiStep, send_connect_fire, send_connect_timer, send_connect_add, send_stored_fire,
      send_publish_add, send_disconnect_ping, send_disconnect_fire, send_disconnect_close
<1>11. CASE WorkerStep
  BY <1>2, <1>11
  DEF WorkerStep, rx_connack, rx_connack_timers, rx_publish, rx_publish_done, rx_pubrec,
      rx_pubrel, rx_suback, rx_unsuback, rx_pingresp, rx_unacceptable, raw_close,
      service_task_ends, guiVars
<1>12. CASE TimerStep \/ BrokerStep
  <2>1. UNCHANGED restOfClient
    BY <1>12 DEF TimerStep, BrokerStep, Timer, Broker
  <2> QED
    BY <1>2, <2>1 DEF restOfClient, guiVars
<1> QED
  BY <1>3, <1>5, <1>6, <1>7, <1>8, <1>9, <1>10, <1>11, <1>12 DEF Next, UserStep

\* g_hash_table_insert replaces no packet by another one: an entry is changed
\* only by removing it.
THEOREM NoOverwriteHolds == Spec => NoOverwrite
<1>1. ASSUME IInv, IInv', [Next]_vars
      PROVE  [ \A i \in Ids : (messages_map[i] # NoMsg /\ messages_map'[i] # NoMsg)
                 => messages_map'[i] = messages_map[i] ]_vars
  <2> SUFFICES ASSUME NEW i \in Ids, messages_map[i] # NoMsg, messages_map'[i] # NoMsg
               PROVE  messages_map'[i] = messages_map[i]
    OBVIOUS
  <2>1. messages_map[i] = issued[i]
    BY <1>1 DEF IInv, MapOK
  <2>2. messages_map'[i] = issued'[i]
    BY <1>1 DEF IInv, MapOK
  <2> QED
    BY <1>1, <2>1, <2>2, IssuedStays
<1> QED
  BY <1>1, SafetyInvariant, PTL DEF Spec, NoOverwrite

-----------------------------------------------------------------------------
(* Sessions in which nothing is resent (~LongSessions): the invariants.    *)
(* Every numbered packet is on the wire once, and its answer is on the way *)
(* back once, which is what a QoS 2 message delivered once and a topic     *)
(* list that follows the broker rest on.                                   *)

SubTypes == { "SUBSCRIBE", "UNSUBSCRIBE" }

\* the packets that ask the broker for something under an identifier
Numbered == { m \in Packet : m.type \in SubTypes \/ (m.type = "PUBLISH" /\ m.qos # 0) }

\* the answers that change the topic list
SubAcks == { m \in Packet : m.type \in { "SUBACK", "UNSUBACK" } }

Once(s, D) ==
  \A j, k \in 1 .. Len(s) : (s[j] \in D /\ s[k] \in D /\ s[j].id = s[k].id) => j = k

Absent(s, D, i) == \A k \in 1 .. Len(s) : s[k] \in D => s[k].id # i

NothingResent == \A th \in Threads : hold[th].type \in { "CONNECT", "PINGREQ", "PINGRESP" }

AskedOnce ==
  /\ Once(outbox, Numbered)
  /\ Once(inbox, SubAcks)
  /\ \A k \in 1 .. Len(outbox) :
       outbox[k] \in Numbered => Absent(inbox, SubAcks, outbox[k].id)
  /\ gui = "sub_fire" => /\ Absent(outbox, Numbered, guiMsg.id)
                         /\ Absent(inbox, SubAcks, guiMsg.id)

Unpassed(i) == delivered[issued[i].content] = 0

\* the PUBLISH packets that may still be in the outbox
Passable ==
  { m \in Packet : m.type = "PUBLISH" =>
      /\ m.qos = 0 => /\ m.content \in used
                      /\ \A i \in PublishIds : issued[i].content # m.content
      /\ m.qos = 2 => m.id \in PublishIds /\ bHeld[m.id] = NoMsg /\ Unpassed(m.id) }

PassedOnce ==
  /\ \A c \in Contents : c \notin used => delivered[c] = 0
  /\ outbox \in Seq(Passable)
  /\ \A i \in Ids : bHeld[i] # NoMsg => issued[i].qos = 2 /\ Unpassed(i)
  /\ DeliveredOnce

TopicsKnown ==
  /\ bSubs \subseteq Topics
  /\ \A i \in Ids : issued[i].type \in SubTypes => issued[i].topic \in Topics

OnceInv == IInv /\ NothingResent /\ AskedOnce /\ PassedOnce /\ TopicsKnown

-----------------------------------------------------------------------------
(* Channels again.                                                         *)

\* What a step may do to a channel without a new packet of D.
Moved(s, z, D) ==
  \/ z = s
  \/ z = << >>
  \/ s # << >> /\ z = Tail(s)
  \/ \E m \in Packet : m \notin D /\ z = Append(s, m)

LEMMA TailFacts ==
  ASSUME NEW S, NEW s \in Seq(S), s # << >>
  PROVE  /\ Len(s) \in Nat /\ Len(s) >= 1 /\ Len(Tail(s)) = Len(s) - 1
         /\ 1 \in 1 .. Len(s) /\ s[1] = Head(s) /\ Head(s) \in S
         /\ \A k \in 1 .. Len(Tail(s)) : k + 1 \in 1 .. Len(s) /\ Tail(s)[k] = s[k + 1]
<1>1. Len(s) \in Nat /\ Len(s) >= 1 /\ Len(Tail(s)) = Len(s) - 1
  OBVIOUS
<1> QED
  BY <1>1

LEMMA AppendFacts ==
  ASSUME NEW S, NEW s \in Seq(S), NEW m
  PROVE  /\ Len(s) \in Nat /\ Len(Append(s, m)) = Len(s) + 1
         /\ Append(s, m)[Len(s) + 1] = m
         /\ \A k \in 1 .. Len(s) : Append(s, m)[k] = s[k]
OBVIOUS

\* A moved channel holds packets of D that were there before, in their order.
LEMMA MovedFrom ==
  ASSUME NEW s \in Seq(Packet), NEW z, NEW D, Moved(s, z, D)
  PROVE  \E d \in { 0, 1 } : \A k \in 1 .. Len(z) :
           z[k] \in D => k + d \in 1 .. Len(s) /\ s[k + d] = z[k]
<1>1. CASE z = s
  BY <1>1
<1>2. CASE z = << >>
  BY <1>2
<1>3. CASE s # << >> /\ z = Tail(s)
  BY <1>3, TailFacts
<1>4. ASSUME NEW m \in Packet, m \notin D, z = Append(s, m)
      PROVE  \A k \in 1 .. Len(z) : z[k] \in D => k + 0 \in 1 .. Len(s) /\ s[k + 0] = z[k]
  <2>1. /\ Len(s) \in Nat /\ Len(z) = Len(s) + 1 /\ z[Len(s) + 1] = m
        /\ \A k \in 1 .. Len(s) : z[k] = s[k]
    BY <1>4, AppendFacts
  <2> QED
    BY <1>4, <2>1
<1> QED
  BY <1>1, <1>2, <1>3, <1>4 DEF Moved

\* So what was there once is there once, what was absent is absent.
LEMMA MovedOnce ==
  ASSUME NEW s \in Seq(Packet), NEW z, NEW D, NEW E, E \subseteq D, Moved(s, z, D)
  PROVE  /\ Once(s, E) => Once(z, E)
         /\ \A i : Absent(s, E, i) => Absent(z, E, i)
         /\ \A k \in 1 .. Len(z) : z[k] \in E => \E j \in 1 .. Len(s) : s[j] = z[k]
<1>1. PICK d \in { 0, 1 } : \A k \in 1 .. Len(z) :
        z[k] \in E => k + d \in 1 .. Len(s) /\ s[k + d] = z[k]
  BY MovedFrom
<1>2. ASSUME Once(s, E) PROVE Once(z, E)
  <2> SUFFICES ASSUME NEW j \in 1 .. Len(z), NEW k \in 1 .. Len(z),
                      z[j] \in E, z[k] \in E, z[j].id = z[k].id
               PROVE  j = k
    BY DEF Once
  <2>1. j + d = k + d
    BY <1>1, <1>2 DEF Once
  <2>2. j \in Int /\ k \in Int
    OBVIOUS
  <2> QED
    BY <2>1, <2>2
<1>3. ASSUME NEW i, Absent(s, E, i) PROVE Absent(z, E, i)
  BY <1>1, <1>3 DEF Absent
<1> QED
  BY <1>1, <1>2, <1>3

\* No packet of D is new.
LEMMA MovedIn ==
  ASSUME NEW s \in Seq(Packet), NEW z, NEW D, Moved(s, z, D),
         NEW k \in 1 .. Len(z), z[k] \in D
  PROVE  \E j \in 1 .. Len(s) : s[j] = z[k]
BY MovedFrom

\* A packet of D that was absent is there once.
LEMMA AppendedOnce ==
  ASSUME NEW s \in Seq(Packet), NEW m, NEW D, Once(s, D), Absent(s, D, m.id)
  PROVE  Once(Append(s, m), D)
<1> DEFINE z == Append(s, m)
<1>1. /\ Len(s) \in Nat /\ Len(z) = Len(s) + 1 /\ z[Len(s) + 1] = m
      /\ \A k \in 1 .. Len(s) : z[k] = s[k]
  BY AppendFacts
<1> HIDE DEF z
<1> SUFFICES ASSUME NEW j \in 1 .. Len(z), NEW k \in 1 .. Len(z),
                    z[j] \in D, z[k] \in D, z[j].id = z[k].id
             PROVE  j = k
  BY DEF Once, z
<1>2. CASE j \in 1 .. Len(s) /\ k \in 1 .. Len(s)
  BY <1>1, <1>2 DEF Once
<1>3. CASE j \in 1 .. Len(s) /\ k \notin 1 .. Len(s)
  <2>1. z[k] = m
    BY <1>1, <1>3
  <2> QED
    BY <1>1, <1>3, <2>1 DEF Absent
<1>4. CASE j \notin 1 .. Len(s) /\ k \in 1 .. Len(s)
  <2>1. z[j] = m
    BY <1>1, <1>4
  <2> QED
    BY <1>1, <1>4, <2>1 DEF Absent
<1>5. CASE j \notin 1 .. Len(s) /\ k \notin 1 .. Len(s)
  BY <1>1, <1>5
<1> QED
  BY <1>2, <1>3, <1>4, <1>5

\* The new last packet is the only one that can end an absence.
LEMMA AppendedAbsent ==
  ASSUME NEW s \in Seq(Packet), NEW m, NEW D, NEW i, Absent(s, D, i), m.id # i
  PROVE  Absent(Append(s, m), D, i)
<1> DEFINE z == Append(s, m)
<1>1. /\ Len(s) \in Nat /\ Len(z) = Len(s) + 1 /\ z[Len(s) + 1] = m
      /\ \A k \in 1 .. Len(s) : z[k] = s[k]
  BY AppendFacts
<1> HIDE DEF z
<1>2. ASSUME NEW k \in 1 .. Len(z), z[k] \in D PROVE z[k].id # i
  BY <1>1, <1>2 DEF Absent
<1> QED
  BY <1>2 DEF Absent, z

\* The first packet of its identifier leaves the channel: none is left.
LEMMA TakenAbsent ==
  ASSUME NEW s \in Seq(Packet), NEW D, Once(s, D), s # << >>, Head(s) \in D
  PROVE  Absent(Tail(s), D, Head(s).id)
<1>1. /\ 1 \in 1 .. Len(s) /\ s[1] = Head(s)
      /\ \A k \in 1 .. Len(Tail(s)) : k + 1 \in 1 .. Len(s) /\ Tail(s)[k] = s[k + 1]
  BY TailFacts
<1>2. ASSUME NEW k \in 1 .. Len(Tail(s)), Tail(s)[k] \in D, Tail(s)[k].id = Head(s).id
      PROVE  FALSE
  <2>1. k + 1 = 1
    BY <1>1, <1>2 DEF Once
  <2> QED
    BY <2>1
<1> QED
  BY <1>2 DEF Absent

\* A packet of D in a channel of allowed packets is an allowed one.
LEMMA MovedSeq ==
  ASSUME NEW S, NEW s \in Seq(S), S \subseteq Packet, NEW z, NEW D, Moved(s, z, D),
         \A m \in Packet : m \notin D => m \in S
  PROVE  z \in Seq(S)
<1>1. CASE z = Tail(s) /\ s # << >>
  BY <1>1, SeqTake
<1>2. ASSUME NEW m \in Packet, m \notin D, z = Append(s, m)
      PROVE  z \in Seq(S)
  BY <1>2, SeqAppend
<1> QED
  BY <1>1, <1>2, SeqEmpty DEF Moved

-----------------------------------------------------------------------------
(* Nothing is resent: steps that number, hold and pass on nothing.         *)

\* SUBSCRIBE, UNSUBSCRIBE and PUBLISH packets, numbered or not
Sent == { m \in Packet : m.type \in SubTypes \cup { "PUBLISH" } }

LEMMA Channels ==
  ASSUME IInv PROVE outbox \in Seq(Packet) /\ inbox \in Seq(Packet) /\ Numbered \subseteq Sent
BY DEF IInv, TypeOK, LinkTypeOK, Numbered, Sent

\* What is asked stays asked once when no new packet of its kind is sent.
LEMMA AskedMoved ==
  ASSUME IInv, AskedOnce, Moved(outbox, outbox', Numbered), Moved(inbox, inbox', SubAcks),
         gui' = "sub_fire" => gui = "sub_fire" /\ guiMsg' = guiMsg
  PROVE  AskedOnce'
<1>1. /\ Once(outbox', Numbered)
      /\ \A i : Absent(outbox, Numbered, i) => Absent(outbox', Numbered, i)
      /\ \A k \in 1 .. Len(outbox') :
           outbox'[k] \in Numbered => \E j \in 1 .. Len(outbox) : outbox[j] = outbox'[k]
  BY Channels, MovedOnce DEF AskedOnce
<1>2. /\ Once(inbox', SubAcks)
      /\ \A i : Absent(inbox, SubAcks, i) => Absent(inbox', SubAcks, i)
  BY Channels, MovedOnce DEF AskedOnce
<1>3. ASSUME NEW k \in 1 .. Len(outbox'), outbox'[k] \in Numbered
      PROVE  Absent(inbox', SubAcks, outbox'[k].id)
  <2>1. PICK j \in 1 .. Len(outbox) : outbox[j] = outbox'[k]
    BY <1>1, <1>3
  <2>2. Absent(inbox, SubAcks, outbox[j].id)
    BY <1>3, <2>1 DEF AskedOnce
  <2> QED
    BY <1>2, <2>1, <2>2
<1>4. ASSUME gui' = "sub_fire"
      PROVE  Absent(outbox', Numbered, guiMsg'.id) /\ Absent(inbox', SubAcks, guiMsg'.id)
  BY <1>1, <1>2, <1>4 DEF AskedOnce
<1> QED
  BY <1>1, <1>2, <1>3, <1>4 DEF AskedOnce, Numbered, SubAcks

\* Steps that number, hold and pass on nothing.
LEMMA OnceQuiet ==
  ASSUME OnceInv, IInv', NothingResent',
         UNCHANGED << issued, used, delivered, bHeld, bSubs >>,
         Moved(outbox, outbox', Sent), Moved(inbox, inbox', SubAcks),
         gui' = "sub_fire" => gui = "sub_fire" /\ guiMsg' = guiMsg
  PROVE  OnceInv'
<1>1. Moved(outbox, outbox', Numbered)
  BY Channels DEF OnceInv, Moved
<1>2. AskedOnce'
  BY <1>1, AskedMoved DEF OnceInv
<1>3. Passable' = Passable /\ PublishIds' = PublishIds
  BY DEF Passable, Unpassed, PublishIds
<1>4. outbox' \in Seq(Passable)
  <2>1. outbox \in Seq(Passable) /\ Passable \subseteq Packet
    BY DEF OnceInv, PassedOnce, Passable
  <2>2. \A m \in Packet : m \notin Sent => m \in Passable
    BY DEF Sent, Passable
  <2> QED
    BY <2>1, <2>2, MovedSeq
<1>5. PassedOnce'
  BY <1>3, <1>4 DEF OnceInv, PassedOnce, DeliveredOnce, Unpassed
<1>6. TopicsKnown'
  BY DEF OnceInv, TopicsKnown
<1> QED
  BY <1>2, <1>5, <1>6 DEF OnceInv

\* encode_and_fire of a packet of another kind.
LEMMA FireMoved ==
  ASSUME NEW m \in Packet, NEW D, m \notin D, encode_and_fire(m)
  PROVE  Moved(outbox, outbox', D)
BY DEF encode_and_fire, Moved

\* None of these is sent under an identifier of its own.
LEMMA NotSent ==
  /\ \A m \in Packet : m.type \notin { "SUBSCRIBE", "UNSUBSCRIBE", "PUBLISH" } => m \notin Sent
  /\ \A m \in Packet : m.type \notin { "SUBACK", "UNSUBACK" } => m \notin SubAcks
BY DEF Sent, SubTypes, SubAcks

\* The timer threads have only the CONNECT and PINGREQ packets to fire.
LEMMA OnceTimer ==
  ASSUME OnceInv, IInv', ~LongSessions, TimerStep
  PROVE  OnceInv'
<1>1. hold \in [ Threads -> Packet ]
  BY DEF OnceInv, IInv, TypeOK, TimersTypeOK
<1>2. UNCHANGED << issued, used, delivered, bHeld, bSubs, gui, guiMsg >>
  BY DEF TimerStep, Timer, brokerVars, restOfClient, guiVars
<1>3. ASSUME NothingResent', Moved(outbox, outbox', Sent), inbox' = inbox
      PROVE  OnceInv'
  BY <1>2, <1>3, OnceQuiet DEF Moved
<1>4. ASSUME UNCHANGED << outbox, inbox >>, NothingResent' PROVE OnceInv'
  BY <1>3, <1>4 DEF Moved
<1>5. ASSUME NEW th \in Threads, NEW m, m.type \in { "CONNECT", "PINGREQ", "PINGRESP" },
             Take(th, m)
      PROVE  NothingResent'
  BY <1>1, <1>5 DEF OnceInv, NothingResent, Take
<1>6. CASE Timer(connect_task)
  <2>1. CASE RoundLeft
    <3>1. Take("connecter", messages_map[0]) /\ UNCHANGED << outbox, inbox >>
      BY <1>6, <2>1 DEF Timer, connect_task, get_message_from_map, linkVars
    <3>2. messages_map[0] = NoMsg \/ messages_map[0] = Connect
      BY IdFacts DEF OnceInv, IInv, MapOK, IssuedOK
    <3>3. messages_map[0].type \in { "CONNECT", "PINGREQ", "PINGRESP" }
      BY <3>2, NoMsgFields, BuildFields
    <3> QED
      BY <1>4, <1>5, <3>1, <3>3 DEF Threads
  <2>2. CASE ~RoundLeft
    BY <1>4, <1>6, <2>2 DEF Timer, connect_task, linkVars, OnceInv, NothingResent
  <2> QED
    BY <2>1, <2>2
<1>7. CASE Timer(ping_task)
  <2>1. Take("pinger", Pingreq) /\ UNCHANGED << outbox, inbox >>
    BY <1>7 DEF Timer, ping_task, linkVars
  <2> QED
    BY <1>4, <1>5, <2>1, BuildFields DEF Threads
<1>8. ASSUME NEW i \in Ids, Timer(message_resend_task(i)) PROVE FALSE
  BY <1>8 DEF Timer, message_resend_task, Overdue
<1>9. ASSUME NEW th \in Threads, Timer(TimerFires(th)) PROVE OnceInv'
  <2>1. Take(th, NoMsg) /\ encode_and_fire(hold[th]) /\ inbox' = inbox
    BY <1>9 DEF Timer, TimerFires
  <2>2. hold[th] \in Packet /\ hold[th] \notin Sent
    BY <1>1, <1>9, NotSent DEF OnceInv, NothingResent
  <2> QED
    BY <1>3, <1>5, <1>9, <2>1, <2>2, FireMoved, NoMsgFields
<1>10. ASSUME NEW th \in Threads, Timer(TimerReadsFreedMap(th)) PROVE OnceInv'
  BY <1>4, <1>10 DEF Timer, TimerReadsFreedMap, timerVars, OnceInv, NothingResent
<1> QED
  BY <1>6, <1>7, <1>8, <1>9, <1>10 DEF TimerStep

\* The worker answers and reads, and asks for nothing.
LEMMA OnceWorker ==
  ASSUME OnceInv, IInv', WorkerStep
  PROVE  OnceInv'
<1>1. UNCHANGED << issued, used, delivered, bHeld, bSubs, hold, gui, guiMsg >>
  BY DEF WorkerStep, rx_connack, rx_connack_timers, rx_publish, rx_publish_done, rx_pubrec,
      rx_pubrel, rx_suback, rx_unsuback, rx_pingresp, rx_unacceptable, raw_close,
      service_task_ends, guiVars, brokerVars, timerVars, start_ping_and_message_timer
<1>2. NothingResent'
  BY <1>1 DEF OnceInv, NothingResent
<1>3. \/ outbox' = outbox \/ outbox' = << >>
      \/ \E type \in { "PUBACK", "PUBREC", "PUBREL", "PUBCOMP" } :
           encode_and_fire(Answer(type, Head(inbox).id, TRUE)) /\ inbox # << >>
  BY DEF WorkerStep, rx_connack, rx_connack_timers, rx_publish, rx_publish_done, rx_pubrec,
      rx_pubrel, rx_suback, rx_unsuback, rx_pingresp, rx_unacceptable, raw_close,
      service_task_ends, ServiceTaskEnds, linkVars, Rx
<1>4. Moved(inbox, inbox', SubAcks)
  <2>1. inbox' = inbox \/ inbox' = << >> \/ (inbox # << >> /\ inbox' = Tail(inbox))
    BY DEF WorkerStep, rx_connack, rx_connack_timers, rx_publish, rx_publish_done, rx_pubrec,
        rx_pubrel, rx_suback, rx_unsuback, rx_pingresp, rx_unacceptable, raw_close,
        service_task_ends, ServiceTaskEnds, linkVars, Rx
  <2> QED
    BY <2>1 DEF Moved
<1>5. Moved(outbox, outbox', Sent)
  <2>1. CASE outbox' = outbox \/ outbox' = << >>
    BY <2>1 DEF Moved
  <2>2. ASSUME NEW type \in { "PUBACK", "PUBREC", "PUBREL", "PUBCOMP" }, inbox # << >>,
               encode_and_fire(Answer(type, Head(inbox).id, TRUE))
        PROVE  Moved(outbox, outbox', Sent)
    <3>1. Head(inbox) \in Packet
      BY <2>2, Channels, TailFacts DEF OnceInv
    <3>2. Head(inbox).id \in Ids /\ type \in MessageType
      BY <3>1 DEF Packet, MessageType
    <3>3. PICK a \in Packet : a = Answer(type, Head(inbox).id, TRUE) /\ a.type = type
      BY <3>2, AnswerFields
    <3>4. a \notin Sent
      BY <3>3, NotSent
    <3> QED
      BY <2>2, <3>3, <3>4, FireMoved
  <2> QED
    BY <1>3, <2>1, <2>2
<1> QED
  BY <1>1, <1>2, <1>4, <1>5, OnceQuiet

-----------------------------------------------------------------------------
(* Nothing is resent: the GTK thread.                                      *)

LEMMA OnceGui ==
  ASSUME OnceInv, IInv', GuiStep
  PROVE  OnceInv'
<1>1. UNCHANGED << issued, used, delivered, bHeld, bSubs, hold, inbox >>
  BY DEF GuiStep, send_connect_fire, send_connect_timer, send_connect_add, send_stored_fire,
      send_publish_add, send_disconnect_ping, send_disconnect_fire, send_disconnect_close,
      brokerVars, timerVars, linkVars, start_connect_timer, stop_ping_timer,
      stop_message_timer, add_message_in_map
<1>2. NothingResent' /\ Moved(inbox, inbox', SubAcks)
  BY <1>1 DEF OnceInv, NothingResent, Moved
<1>3. ASSUME Moved(outbox, outbox', Sent), gui' # "sub_fire" PROVE OnceInv'
  BY <1>1, <1>2, <1>3, OnceQuiet
<1>4. ASSUME NEW m \in { Connect, Disconnect }, encode_and_fire(m), gui' # "sub_fire"
      PROVE  OnceInv'
  <2>1. m \in Packet /\ m \notin Sent
    BY PacketTypes, BuildFields, NotSent
  <2> QED
    BY <1>3, <1>4, <2>1, FireMoved
<1>5. ASSUME outbox' = outbox, gui' # "sub_fire" PROVE OnceInv'
  BY <1>3, <1>5 DEF Moved
<1>6. CASE send_connect_fire
  <2>1. guiMsg = Connect
    BY <1>6 DEF send_connect_fire, OnceInv, IInv, GuiOK, Connecting
  <2> QED
    BY <1>4, <1>6, <2>1 DEF send_connect_fire
<1>7. CASE send_connect_timer \/ send_connect_add
  BY <1>5, <1>7 DEF send_connect_timer, send_connect_add, linkVars
<1>8. CASE send_stored_fire
  <2> DEFINE m == guiMsg
  <2>1. /\ m \in Packet /\ gui = "sub_fire" /\ gui' = "idle" /\ encode_and_fire(m)
        /\ UNCHANGED << issued, used, delivered, bHeld, bSubs, inbox >>
    BY <1>1, <1>8 DEF send_stored_fire, OnceInv, IInv, TypeOK
  <2>2. m.type \in SubTypes
    BY <2>1 DEF OnceInv, IInv, GuiOK, SubTypes
  <2>3. Absent(outbox, Numbered, m.id) /\ Absent(inbox, SubAcks, m.id)
    BY <2>1 DEF OnceInv, AskedOnce
  <2> HIDE DEF m
  <2>4. outbox' = outbox \/ outbox' = Append(outbox, m)
    BY <2>1 DEF encode_and_fire
  <2>5. Passable' = Passable /\ PublishIds' = PublishIds
    BY <2>1 DEF Passable, Unpassed, PublishIds
  <2>6. outbox' \in Seq(Passable)
    <3>1. m \in Passable
      BY <2>1, <2>2 DEF Passable, SubTypes
    <3> QED
      BY <2>4, <3>1, SeqAppend DEF OnceInv, PassedOnce
  <2>7. PassedOnce' /\ TopicsKnown'
    BY <2>1, <2>5, <2>6 DEF OnceInv, PassedOnce, DeliveredOnce, Unpassed, TopicsKnown
  <2>8. Once(outbox', Numbered)
    BY <2>3, <2>4, Channels, AppendedOnce DEF OnceInv, AskedOnce
  <2>9. ASSUME NEW k \in 1 .. Len(outbox'), outbox'[k] \in Numbered
        PROVE  Absent(inbox, SubAcks, outbox'[k].id)
    <3>1. outbox'[k] = m \/ (k \in 1 .. Len(outbox) /\ outbox'[k] = outbox[k])
      BY <2>4, Channels, AppendFacts DEF OnceInv
    <3> QED
      BY <2>3, <2>9, <3>1 DEF OnceInv, AskedOnce
  <2>10. AskedOnce'
    BY <2>1, <2>8, <2>9 DEF OnceInv, AskedOnce, Absent, Once, Numbered, SubAcks
  <2> QED
    BY <1>2, <2>7, <2>10 DEF OnceInv
<1>9. CASE send_publish_add
  BY <1>5, <1>9 DEF send_publish_add, linkVars
<1>10. CASE send_disconnect_ping \/ send_disconnect_close
  BY <1>5, <1>10 DEF send_disconnect_ping, send_disconnect_close
<1>11. CASE send_disconnect_fire
  BY <1>4, <1>5, <1>11 DEF send_disconnect_fire
<1> QED
  BY <1>6, <1>7, <1>8, <1>9, <1>10, <1>11 DEF GuiStep

\* A fresh identifier is neither on the wire nor in an answer.
LEMMA FreshAbsent ==
  ASSUME IInv, MayIssue
  PROVE  Absent(outbox, Numbered, NextId) /\ Absent(inbox, SubAcks, NextId)
<1>1. issued[NextId] = NoMsg /\ NoMsg.type = "PINGRESP"
  BY FreshId, NoMsgFields
<1> HIDE DEF NextId
<1>2. ASSUME NEW k \in 1 .. Len(outbox), outbox[k] \in Numbered, outbox[k].id = NextId
      PROVE  FALSE
  <2>1. outbox[k] \in Outgoing
    BY <1>2 DEF IInv
  <2>2. outbox[k] = NoMsg
    BY <1>1, <1>2, <2>1 DEF Outgoing, Numbered, SubTypes, Own
  <2> QED
    BY <1>1, <1>2, <2>2 DEF Numbered, SubTypes
<1>3. ASSUME NEW k \in 1 .. Len(inbox), inbox[k] \in SubAcks, inbox[k].id = NextId
      PROVE  FALSE
  <2>1. inbox[k] \in Arriving
    BY <1>3 DEF IInv
  <2> QED
    BY <1>1, <1>3, <2>1, ArrivingFacts DEF SubAcks
<1> QED
  BY <1>2, <1>3 DEF Absent

\* What the broker holds and has passed on is untouched by a fresh packet.
LEMMA OnceIssue ==
  ASSUME OnceInv, MayIssue, NEW m \in Packet, m.id = NextId, m # NoMsg,
         issued' = [ issued EXCEPT ![m.id] = m ],
         UNCHANGED << delivered, bHeld, bSubs >>,
         used' = IF m.type = "PUBLISH" THEN used \cup { m.content } ELSE used,
         m.type = "PUBLISH" => m.content \notin used /\ m.content \in Contents,
         m.type \in SubTypes => m.topic \in Topics
  PROVE  /\ Passable \subseteq Passable' /\ TopicsKnown' /\ DeliveredOnce'
         /\ \A c \in Contents : c \notin used' => delivered'[c] = 0
         /\ \A i \in Ids : bHeld'[i] # NoMsg => issued'[i].qos = 2 /\ Unpassed(i)'
         /\ m.type = "PUBLISH" => bHeld'[NextId] = NoMsg /\ NextId \in PublishIds'
              /\ delivered'[issued'[NextId].content] = 0
<1>1. /\ issued'[NextId] = m
      /\ \A i \in Ids : i # NextId => issued'[i] = issued[i]
      /\ PublishIds' = IF m.type = "PUBLISH" THEN PublishIds \cup {NextId} ELSE PublishIds
  BY Issue DEF OnceInv
<1>2. NextId \in Ids /\ NextId \notin PublishIds
  BY FreshId DEF OnceInv
<1> HIDE DEF NextId
<1>3. bHeld[NextId] = NoMsg
  BY <1>2 DEF OnceInv, IInv, HeldOK
<1>4. \A i \in Ids : i # NextId => Unpassed(i)' = Unpassed(i)
  BY <1>1 DEF Unpassed
<1>5. PublishIds \subseteq Ids
  BY DEF PublishIds
<1>6. Passable \subseteq Passable'
  <2> SUFFICES ASSUME NEW p \in Passable, p.type = "PUBLISH"
               PROVE  /\ p.qos = 0 => /\ p.content \in used'
                                      /\ \A i \in PublishIds' : issued'[i].content # p.content
                      /\ p.qos = 2 => p.id \in PublishIds' /\ bHeld[p.id] = NoMsg /\ Unpassed(p.id)'
    BY DEF Passable
  <2>1. CASE p.qos = 0
    <3>1. p.content \in used /\ \A i \in PublishIds : issued[i].content # p.content
      BY <2>1 DEF Passable
    <3> QED
      BY <1>1, <1>2, <1>5, <2>1, <3>1
  <2>2. CASE p.qos = 2
    <3>1. p.id \in PublishIds /\ bHeld[p.id] = NoMsg /\ Unpassed(p.id)
      BY <2>2 DEF Passable
    <3>2. p.id \in Ids /\ p.id # NextId /\ p.id \in PublishIds'
      BY <1>1, <1>2, <1>5, <3>1
    <3> QED
      BY <1>4, <2>2, <3>1, <3>2
  <2> QED
    BY <2>1, <2>2
<1>7. \A c \in Contents : c \notin used' => delivered'[c] = 0
  BY DEF OnceInv, PassedOnce
<1>8. m.type = "PUBLISH" => delivered[m.content] = 0
  BY DEF OnceInv, PassedOnce
<1>9. DeliveredOnce'
  <2> SUFFICES ASSUME NEW i \in PublishIds', issued'[i].qos = 2
               PROVE  delivered[issued'[i].content] <= 1
    BY DEF DeliveredOnce
  <2>1. CASE i = NextId
    BY <1>1, <1>2, <1>8, <2>1
  <2>2. CASE i # NextId
    <3>1. i \in PublishIds /\ issued'[i] = issued[i]
      BY <1>1, <1>5, <2>2
    <3> QED
      BY <3>1 DEF OnceInv, PassedOnce, DeliveredOnce
  <2> QED
    BY <2>1, <2>2
<1>10. \A i \in Ids : bHeld'[i] # NoMsg => issued'[i].qos = 2 /\ Unpassed(i)'
  <2> SUFFICES ASSUME NEW i \in Ids, bHeld[i] # NoMsg
               PROVE  issued'[i].qos = 2 /\ Unpassed(i)'
    OBVIOUS
  <2>1. i # NextId
    BY <1>3
  <2> QED
    BY <1>1, <1>4, <2>1 DEF OnceInv, PassedOnce
<1>11. TopicsKnown'
  BY <1>1, <1>2 DEF OnceInv, TopicsKnown
<1>12. ASSUME m.type = "PUBLISH"
       PROVE  bHeld'[NextId] = NoMsg /\ NextId \in PublishIds'
              /\ delivered'[issued'[NextId].content] = 0
  BY <1>1, <1>3, <1>8, <1>12
<1> QED
  BY <1>6, <1>7, <1>9, <1>10, <1>11, <1>12

LEMMA OnceUser ==
  ASSUME OnceInv, IInv', UserStep
  PROVE  OnceInv'
<1>1. CASE LogIn
  <2>1. /\ issued' = [ issued EXCEPT ![0] = Connect ] /\ gui' = "conn_fire"
        /\ bHeld' = [ i \in Ids |-> NoMsg ] /\ outbox' = << >> /\ inbox' = << >>
        /\ bSubs' = {}
        /\ UNCHANGED << hold, used, delivered >>
    BY <1>1 DEF LogIn, NewConnection, open_lws_net_connection, timerVars, storeVars
  <2>2. \A i \in Ids : issued'[i] = IF i = 0 THEN Connect ELSE issued[i]
    BY <2>1, IdFacts DEF OnceInv, IInv, TypeOK
  <2>3. NothingResent' /\ AskedOnce'
    BY <2>1 DEF OnceInv, NothingResent, AskedOnce, Once, Absent
  <2>4. TopicsKnown'
    BY <2>1, <2>2, BuildFields DEF OnceInv, TopicsKnown, SubTypes
  <2>5. DeliveredOnce'
    <3> SUFFICES ASSUME NEW i \in PublishIds', issued'[i].qos = 2
                 PROVE  delivered[issued'[i].content] <= 1
      BY <2>1 DEF DeliveredOnce
    <3>1. i \in PublishIds /\ issued'[i] = issued[i]
      BY <2>2, BuildFields DEF PublishIds
    <3> QED
      BY <3>1 DEF OnceInv, PassedOnce, DeliveredOnce
  <2>6. PassedOnce'
    BY <2>1, <2>5, SeqEmpty DEF OnceInv, PassedOnce
  <2> QED
    BY <2>3, <2>4, <2>6 DEF OnceInv
<1>2. ASSUME NEW m, m \in Packet, m.id = NextId, m.type \in SubTypes, m.topic \in Topics,
             MayIssue, send_stored(m)
      PROVE  OnceInv'
  <2>1. /\ issued' = [ issued EXCEPT ![m.id] = m ] /\ gui' = "sub_fire" /\ guiMsg' = m
        /\ UNCHANGED << outbox, inbox, hold, used, delivered, bHeld, bSubs >>
    BY <1>2 DEF send_stored, linkVars, brokerVars, add_message_in_map
  <2>2. m # NoMsg /\ m.type # "PUBLISH"
    BY <1>2, NoMsgFields DEF SubTypes
  <2>3. /\ Passable \subseteq Passable' /\ TopicsKnown' /\ DeliveredOnce'
        /\ \A c \in Contents : c \notin used' => delivered'[c] = 0
        /\ \A i \in Ids : bHeld'[i] # NoMsg => issued'[i].qos = 2 /\ Unpassed(i)'
    BY <1>2, <2>1, <2>2, OnceIssue
  <2>4. PassedOnce'
    BY <2>1, <2>3, SeqMono DEF OnceInv, PassedOnce
  <2>5. AskedOnce'
    <3>1. Absent(outbox, Numbered, m.id) /\ Absent(inbox, SubAcks, m.id)
      BY <1>2, FreshAbsent DEF OnceInv
    <3> QED
      BY <2>1, <3>1 DEF OnceInv, AskedOnce, Once, Absent, Numbered, SubAcks
  <2> QED
    BY <2>1, <2>3, <2>4, <2>5 DEF OnceInv, NothingResent
<1>3. ASSUME NEW t \in Topics, send_subscribe(t) \/ send_unsubscribe(t)
      PROVE  OnceInv'
  <2>1. MayIssue /\ NextId \in Ids
    BY <1>3, FreshId DEF send_subscribe, send_unsubscribe, OnceInv
  <2>2. PICK m : m \in { Subscribe(NextId, t), Unsubscribe(NextId, t) } /\ send_stored(m)
    BY <1>3 DEF send_subscribe, send_unsubscribe
  <2>3. m \in Packet /\ m.id = NextId /\ m.type \in SubTypes
    BY <2>1, <2>2, PacketTypes, BuildFields DEF SubTypes
  <2>4. m.topic = t
    BY <2>2 DEF Subscribe, Unsubscribe, Build
  <2> QED
    BY <1>2, <2>1, <2>2, <2>3, <2>4
<1>4. ASSUME NEW c \in Contents, NEW t \in Topics, NEW q \in UserQoS, send_publish(c, t, q)
      PROVE  OnceInv'
  <2> DEFINE id == IF q = 0 THEN 0 ELSE NextId
             m == Publish(id, t, q, c)
  <2>1. /\ MayIssue /\ c \notin used /\ used' = used \cup {c} /\ gui' = "pub_add"
        /\ encode_and_fire(m)
        /\ q # 0 => issued' = [ issued EXCEPT ![NextId] = m ]
        /\ q = 0 => issued' = issued
        /\ UNCHANGED << inbox, hold, delivered, bHeld, bSubs >>
    BY <1>4 DEF send_publish, linkVars, brokerVars, timerVars
  <2>2. NextId \in Ids /\ id \in Ids /\ q \in QoS
    BY <2>1, FreshId, IdFacts, ClientBounds DEF OnceInv
  <2>3. m \in Packet /\ m.type = "PUBLISH" /\ m.id = id /\ m.qos = q /\ m.content = c
    BY <2>2, PacketTypes, BuildFields
  <2>4. m # NoMsg /\ m.type \notin SubTypes
    BY <2>3, NoMsgFields DEF SubTypes
  <2> HIDE DEF m
  <2>5. q # 0 =>
        /\ Passable \subseteq Passable' /\ TopicsKnown' /\ DeliveredOnce'
        /\ \A d \in Contents : d \notin used' => delivered'[d] = 0
        /\ \A i \in Ids : bHeld'[i] # NoMsg => issued'[i].qos = 2 /\ Unpassed(i)'
        /\ bHeld'[NextId] = NoMsg /\ NextId \in PublishIds'
        /\ delivered'[issued'[NextId].content] = 0
    BY <2>1, <2>3, <2>4, OnceIssue
  <2>6. q = 0 =>
        /\ Passable \subseteq Passable' /\ TopicsKnown' /\ DeliveredOnce'
        /\ \A d \in Contents : d \notin used' => delivered'[d] = 0
        /\ \A i \in Ids : bHeld'[i] # NoMsg => issued'[i].qos = 2 /\ Unpassed(i)'
        /\ \A i \in PublishIds' : issued'[i].content # c
    <3> SUFFICES ASSUME q = 0
                 PROVE  /\ Passable \subseteq Passable' /\ TopicsKnown' /\ DeliveredOnce'
                        /\ \A d \in Contents : d \notin used' => delivered'[d] = 0
                        /\ \A i \in Ids : bHeld'[i] # NoMsg => issued'[i].qos = 2 /\ Unpassed(i)'
                        /\ \A i \in PublishIds' : issued'[i].content # c
      OBVIOUS
    <3>1. PublishIds' = PublishIds /\ issued' = issued
      BY <2>1 DEF PublishIds
    <3>2. Passable \subseteq Passable'
      BY <2>1, <3>1 DEF Passable, Unpassed
    <3>3. \A i \in PublishIds : issued[i].content # c
      BY <2>1, PublishFacts DEF OnceInv, IInv
    <3> QED
      BY <2>1, <3>1, <3>2, <3>3
      DEF OnceInv, PassedOnce, TopicsKnown, DeliveredOnce, Unpassed
  <2>7. m \in Passable'
    <3>1. CASE q = 0
      BY <2>1, <2>3, <2>6, <3>1 DEF Passable
    <3>2. CASE q # 0
      <4>1. m.id = NextId
        BY <2>3, <3>2
      <4> HIDE DEF NextId
      <4> QED
        BY <2>3, <2>5, <3>2, <4>1 DEF Passable, Unpassed
    <3> QED
      BY <3>1, <3>2
  <2>8. outbox' = outbox \/ outbox' = Append(outbox, m)
    BY <2>1 DEF encode_and_fire
  <2>9. outbox' \in Seq(Passable')
    <3>1. outbox \in Seq(Passable')
      BY <2>5, <2>6, SeqMono DEF OnceInv, PassedOnce
    <3> QED
      BY <2>7, <2>8, <3>1, SeqAppend
  <2>10. PassedOnce'
    BY <2>5, <2>6, <2>9 DEF PassedOnce
  <2>11. AskedOnce'
    <3>1. CASE q = 0
      <4>1. m \notin Numbered
        BY <2>3, <3>1 DEF Numbered, SubTypes
      <4>2. Moved(outbox, outbox', Numbered) /\ Moved(inbox, inbox', SubAcks)
        BY <2>1, <2>3, <2>8, <4>1 DEF Moved
      <4> QED
        BY <2>1, <4>2, AskedMoved DEF OnceInv
    <3>2. CASE q # 0
      <4>1. Absent(outbox, Numbered, m.id) /\ Absent(inbox, SubAcks, m.id)
        BY <2>1, <2>3, <3>2, FreshAbsent DEF OnceInv
      <4>2. Once(outbox', Numbered)
        BY <2>8, <4>1, Channels, AppendedOnce DEF OnceInv, AskedOnce
      <4>3. ASSUME NEW k \in 1 .. Len(outbox'), outbox'[k] \in Numbered
            PROVE  Absent(inbox, SubAcks, outbox'[k].id)
        <5>1. outbox'[k] = m \/ (k \in 1 .. Len(outbox) /\ outbox'[k] = outbox[k])
          BY <2>8, Channels, AppendFacts DEF OnceInv
        <5> QED
          BY <4>1, <4>3, <5>1 DEF OnceInv, AskedOnce
      <4> QED
        BY <2>1, <4>2, <4>3 DEF OnceInv, AskedOnce, Absent, Once, Numbered, SubAcks
    <3> QED
      BY <3>1, <3>2
  <2> QED
    BY <2>1, <2>5, <2>6, <2>10, <2>11 DEF OnceInv, NothingResent
<1>5. CASE log_out_handle
  <2>1. /\ UNCHANGED << issued, used, delivered, bHeld, bSubs, hold, outbox, inbox >>
        /\ gui' # "sub_fire"
    BY <1>5 DEF log_out_handle, linkVars, timerVars, brokerVars
  <2> QED
    BY <2>1, OnceQuiet DEF Moved, OnceInv, NothingResent
<1> QED
  BY <1>1, <1>3, <1>4, <1>5 DEF UserStep

-----------------------------------------------------------------------------
(* Nothing is resent: the broker.                                          *)

\* Passing on a content changes the count of no other.
LEMMA DeliverOne ==
  ASSUME BrokerTypeOK, NEW c, deliver(c)
  PROVE  /\ \A d \in Contents : d # c => delivered'[d] = delivered[d]
         /\ c \in Contents /\ delivered[c] = 0 => delivered'[c] = 1
<1>1. ASSUME NEW d \in Contents, d # c PROVE delivered'[d] = delivered[d]
  BY <1>1 DEF BrokerTypeOK, deliver
<1>2. ASSUME c \in Contents, delivered[c] = 0 PROVE delivered'[c] = 1
  BY <1>2 DEF BrokerTypeOK, deliver, DeliveryCap
<1> QED
  BY <1>1, <1>2

\* The broker answers the SUBSCRIBE or UNSUBSCRIBE it reads.
LEMMA AskedAnswered ==
  ASSUME OnceInv, outbox # << >>, outbox' = Tail(outbox), UNCHANGED << gui, guiMsg >>,
         Head(outbox) \in Numbered,
         NEW a, a.id = Head(outbox).id, inbox' = Append(inbox, a)
  PROVE  AskedOnce'
<1> DEFINE m == Head(outbox)
<1>1. /\ 1 \in 1 .. Len(outbox) /\ outbox[1] = m
      /\ \A k \in 1 .. Len(outbox') : k + 1 \in 1 .. Len(outbox) /\ outbox'[k] = outbox[k + 1]
  BY Channels, TailFacts DEF OnceInv
<1>2. Absent(inbox, SubAcks, m.id)
  BY <1>1 DEF OnceInv, AskedOnce
<1>3. Absent(outbox', Numbered, m.id)
  BY Channels, TakenAbsent DEF OnceInv, AskedOnce
<1>4. Once(inbox', SubAcks)
  BY <1>2, Channels, AppendedOnce DEF OnceInv, AskedOnce
<1>5. /\ Once(outbox', Numbered)
      /\ \A i : Absent(outbox, Numbered, i) => Absent(outbox', Numbered, i)
  BY Channels, MovedOnce DEF OnceInv, AskedOnce, Moved
<1>6. ASSUME NEW k \in 1 .. Len(outbox'), outbox'[k] \in Numbered
      PROVE  Absent(inbox', SubAcks, outbox'[k].id)
  <2>1. Absent(inbox, SubAcks, outbox'[k].id)
    BY <1>1, <1>6 DEF OnceInv, AskedOnce
  <2>2. outbox'[k].id # a.id
    BY <1>3, <1>6 DEF Absent
  <2> QED
    BY <2>1, <2>2, Channels, AppendedAbsent DEF OnceInv
<1>7. ASSUME gui = "sub_fire"
      PROVE  Absent(outbox', Numbered, guiMsg.id) /\ Absent(inbox', SubAcks, guiMsg.id)
  <2>1. Absent(outbox, Numbered, guiMsg.id) /\ Absent(inbox, SubAcks, guiMsg.id)
    BY <1>7 DEF OnceInv, AskedOnce
  <2>2. guiMsg.id # a.id
    BY <1>1, <2>1 DEF Absent
  <2> QED
    BY <1>5, <2>1, <2>2, Channels, AppendedAbsent DEF OnceInv
<1> QED
  BY <1>4, <1>5, <1>6, <1>7 DEF AskedOnce, Numbered, SubAcks

\* What is left in the outbox may still be passed on: it is about other packets.
LEMMA PassableLeft ==
  ASSUME OnceInv, outbox # << >>, outbox' = Tail(outbox), issued' = issued, used' = used,
         \A p \in Packet : (p \in Passable /\ p \in Outgoing /\ p.type = "PUBLISH" /\ p.qos = 2
                            /\ (Head(outbox) \in Numbered => p.id # Head(outbox).id))
                              => bHeld'[p.id] = NoMsg /\ delivered'[issued[p.id].content] = 0
  PROVE  outbox' \in Seq(Passable')
<1>1. /\ Len(outbox') \in Nat
      /\ \A k \in 1 .. Len(outbox') : k + 1 \in 1 .. Len(outbox) /\ outbox'[k] = outbox[k + 1]
  BY Channels, TailFacts DEF OnceInv
<1>2. outbox \in Seq(Passable) /\ outbox \in Seq(Outgoing) /\ outbox' \in Seq(Packet)
  BY Channels, SeqTake DEF OnceInv, PassedOnce, IInv
<1>3. PublishIds' = PublishIds
  BY DEF PublishIds
<1>4. ASSUME NEW k \in 1 .. Len(outbox') PROVE outbox'[k] \in Passable'
  <2>1. PICK p \in Packet : p = outbox'[k] /\ p \in Passable /\ p \in Outgoing
    BY <1>1, <1>2
  <2>2. (Head(outbox) \in Numbered /\ p \in Numbered) => p.id # Head(outbox).id
    BY <2>1, Channels, TakenAbsent DEF OnceInv, AskedOnce, Absent
  <2>3. CASE p.type = "PUBLISH" /\ p.qos = 2
    <3>1. p \in Numbered
      BY <2>3 DEF Numbered
    <3>2. bHeld'[p.id] = NoMsg /\ delivered'[issued[p.id].content] = 0
      BY <2>1, <2>2, <2>3, <3>1
    <3>3. p.id \in PublishIds
      BY <2>1, <2>3 DEF Passable
    <3> QED
      BY <1>3, <2>1, <2>3, <3>2, <3>3 DEF Passable, Unpassed
  <2>4. CASE ~(p.type = "PUBLISH" /\ p.qos = 2)
    BY <1>3, <2>1, <2>4 DEF Passable
  <2> QED
    BY <2>3, <2>4
<1> QED
  BY <1>2, <1>4, SeqEach

\* A content is passed on that no other packet has.
LEMMA PassedOn ==
  ASSUME OnceInv, IInv', UNCHANGED << timerVars, restOfClient >>,
         outbox # << >>, outbox' = Tail(outbox), Moved(inbox, inbox', SubAcks),
         Head(outbox).type \in { "PUBLISH", "PUBREL" }, bSubs' = bSubs,
         NEW c \in Contents, c \in used, deliver(c),
         \A i \in PublishIds : (issued[i].qos = 2 /\ issued[i].content = c)
             => Unpassed(i) /\ bHeld'[i] = NoMsg
                /\ Head(outbox).type = "PUBREL" /\ bHeld[i] # NoMsg,
         \A i \in Ids : bHeld'[i] = bHeld[i] \/ bHeld'[i] = NoMsg
  PROVE  OnceInv'
<1>1. UNCHANGED << issued, used, hold, gui, guiMsg >> /\ PublishIds' = PublishIds
  BY DEF timerVars, restOfClient, guiVars, PublishIds
<1>2. /\ \A d \in Contents : d # c => delivered'[d] = delivered[d]
      /\ delivered[c] = 0 => delivered'[c] = 1
  BY DeliverOne DEF OnceInv, IInv, TypeOK
<1>3. \A i \in PublishIds : issued[i].content \in Contents /\ i \in Ids
  BY PublishFacts DEF OnceInv, IInv
<1>4. AskedOnce'
  BY <1>1, AskedMoved DEF OnceInv, Moved
<1>5. outbox' \in Seq(Passable')
  <2> SUFFICES ASSUME NEW p \in Packet, p \in Passable, p \in Outgoing,
                      p.type = "PUBLISH", p.qos = 2
               PROVE  bHeld'[p.id] = NoMsg /\ delivered'[issued[p.id].content] = 0
    BY <1>1, PassableLeft
  <2>1. p.id \in PublishIds /\ bHeld[p.id] = NoMsg /\ delivered[issued[p.id].content] = 0
        /\ issued[p.id] = p
    BY DEF Passable, Unpassed, Outgoing, Own
  <2>2. issued[p.id].content # c
    BY <2>1
  <2> QED
    BY <1>2, <1>3, <2>1, <2>2
<1>6. ASSUME NEW i \in Ids, bHeld'[i] # NoMsg
      PROVE  issued[i].qos = 2 /\ delivered'[issued[i].content] = 0
  <2>1. bHeld[i] # NoMsg /\ bHeld[i] = issued[i] /\ i \in PublishIds
    BY <1>6 DEF OnceInv, IInv, HeldOK
  <2>2. issued[i].qos = 2 /\ delivered[issued[i].content] = 0
    BY <2>1 DEF OnceInv, PassedOnce, Unpassed
  <2>3. issued[i].content # c
    BY <1>6, <2>1, <2>2
  <2> QED
    BY <1>2, <1>3, <2>1, <2>2, <2>3
<1>7. DeliveredOnce'
  <2> SUFFICES ASSUME NEW i \in PublishIds, issued[i].qos = 2
               PROVE  delivered'[issued[i].content] <= 1
    BY <1>1 DEF DeliveredOnce
  <2>1. CASE issued[i].content = c
    BY <1>2, <2>1 DEF Unpassed
  <2>2. CASE issued[i].content # c
    BY <1>2, <1>3, <2>2 DEF OnceInv, PassedOnce, DeliveredOnce
  <2> QED
    BY <2>1, <2>2
<1>8. \A d \in Contents : d \notin used => delivered'[d] = 0
  BY <1>2 DEF OnceInv, PassedOnce
<1>9. PassedOnce'
  BY <1>1, <1>5, <1>6, <1>7, <1>8 DEF PassedOnce, Unpassed
<1> QED
  BY <1>1, <1>4, <1>9 DEF OnceInv, NothingResent, TopicsKnown

LEMMA OnceReads ==
  ASSUME OnceInv, IInv', Broker(BrokerReads)
  PROVE  OnceInv'
<1>1. /\ UNCHANGED << issued, used, hold, gui, guiMsg >> /\ PublishIds' = PublishIds
      /\ UNCHANGED << timerVars, restOfClient >>
      /\ outbox # << >> /\ outbox' = Tail(outbox)
  BY DEF Broker, BrokerReads, timerVars, restOfClient, guiVars, PublishIds
<1>2. NothingResent' /\ (\A D : Moved(outbox, outbox', D))
  BY <1>1 DEF OnceInv, NothingResent, Moved
<1>m. PICK m \in Outgoing : m = Head(outbox)
  BY <1>1, SeqTake DEF OnceInv, IInv
<1>3. m \in Packet /\ m \in Passable /\ m.id \in Ids /\ m.qos \in QoS
  <2>1. m \in Packet /\ m \in Passable
    BY <1>1, <1>m, SeqTake DEF OnceInv, PassedOnce, Outgoing
  <2> QED
    BY <2>1 DEF Packet
<1>4. /\ bHeld \in [ Ids -> Packet ] /\ BrokerTypeOK
      /\ \A i \in PublishIds : issued[i].content \in Contents /\ i \in Ids
                               /\ issued[i].content \in used
  BY PublishFacts DEF OnceInv, IInv, TypeOK, BrokerTypeOK
<1>5. ASSUME UNCHANGED << delivered, bHeld, bSubs >>,
             \/ inbox' = inbox
             \/ \E type \in MessageType, ok \in BOOLEAN, i \in Ids :
                  type \notin { "SUBACK", "UNSUBACK" } /\ inbox' = Append(inbox, Answer(type, i, ok))
      PROVE  OnceInv'
  <2>1. Moved(inbox, inbox', SubAcks)
    <3>1. CASE inbox' = inbox
      BY <3>1 DEF Moved
    <3>2. ASSUME NEW type \in MessageType, NEW ok \in BOOLEAN, NEW i \in Ids,
                 type \notin { "SUBACK", "UNSUBACK" }, inbox' = Append(inbox, Answer(type, i, ok))
          PROVE  Moved(inbox, inbox', SubAcks)
      <4>1. PICK a \in Packet : a = Answer(type, i, ok) /\ a.type = type
        BY AnswerFields
      <4> QED
        BY <3>2, <4>1, NotSent DEF Moved
    <3> QED
      BY <1>5, <3>1, <3>2
  <2> QED
    BY <1>1, <1>2, <1>5, <2>1, OnceQuiet
<1>6. CASE ReadConnect(m)
  <2>1. \/ inbox' = inbox
        \/ \E ok \in BOOLEAN : inbox' = Append(inbox, Answer("CONNACK", 0, ok))
    BY <1>6 DEF ReadConnect, Reply
  <2>2. "CONNACK" \in MessageType /\ 0 \in Ids
    BY IdFacts DEF MessageType
  <2> QED
    BY <1>5, <1>6, <2>1, <2>2 DEF ReadConnect
<1>7. CASE ReadBeforeConnect(m) \/ ReadDisconnect(m)
  BY <1>5, <1>7 DEF ReadBeforeConnect, ReadDisconnect
<1>8. CASE ReadAck(m)
  <2>1. inbox' = inbox \/ inbox' = Append(inbox, Answer("PUBREL", m.id, TRUE))
    BY <1>8 DEF ReadAck, Reply
  <2>2. "PUBREL" \in MessageType
    BY DEF MessageType
  <2> QED
    BY <1>3, <1>5, <1>8, <2>1, <2>2 DEF ReadAck
<1>9. CASE ReadPingreq(m)
  <2>1. inbox' = Append(inbox, Answer("PINGRESP", 0, TRUE))
    BY <1>9 DEF ReadPingreq, Reply
  <2>2. "PINGRESP" \in MessageType /\ 0 \in Ids
    BY IdFacts DEF MessageType
  <2> QED
    BY <1>5, <1>9, <2>1, <2>2 DEF ReadPingreq, brokerVars
<1>10. ASSUME m.type \in SubTypes, UNCHANGED << delivered, bHeld >>,
              NEW type \in { "SUBACK", "UNSUBACK" }, NEW ok \in BOOLEAN,
              inbox' = Append(inbox, Answer(type, m.id, ok)),
              bSubs' \subseteq bSubs \cup { m.topic }
       PROVE  OnceInv'
  <2>1. m \in Numbered
    BY <1>3, <1>10 DEF Numbered
  <2>2. type \in MessageType
    BY DEF MessageType
  <2>3. Answer(type, m.id, ok).id = m.id
    BY <1>3, <2>2, AnswerFields
  <2>4. AskedOnce'
    BY <1>1, <1>m, <1>10, <2>1, <2>3, AskedAnswered
  <2>5. Passable' = Passable
    BY <1>1, <1>10 DEF Passable, Unpassed
  <2>6. outbox' \in Seq(Passable)
    BY <1>1, SeqTake DEF OnceInv, PassedOnce
  <2>7. PassedOnce'
    BY <1>1, <1>10, <2>5, <2>6 DEF OnceInv, PassedOnce, DeliveredOnce, Unpassed
  <2>8. m.topic \in Topics
    <3>1. m = issued[m.id]
      BY <1>10 DEF Outgoing, Own, SubTypes
    <3> QED
      BY <1>3, <1>10, <3>1 DEF OnceInv, TopicsKnown
  <2>9. TopicsKnown'
    BY <1>1, <1>10, <2>8 DEF OnceInv, TopicsKnown
  <2> QED
    BY <1>2, <2>4, <2>7, <2>9 DEF OnceInv
<1>11. CASE ReadSubscribe(m)
  <2>1. PICK ok \in BOOLEAN : inbox' = Append(inbox, Answer("SUBACK", m.id, ok))
    BY <1>11 DEF ReadSubscribe, Reply
  <2>2. bSubs' \subseteq bSubs \cup { m.topic } /\ m.type \in SubTypes
    BY <1>11 DEF ReadSubscribe, SubTypes
  <2> QED
    BY <1>10, <1>11, <2>1, <2>2 DEF ReadSubscribe
<1>12. CASE ReadUnsubscribe(m)
  <2>1. inbox' = Append(inbox, Answer("UNSUBACK", m.id, TRUE))
    BY <1>12 DEF ReadUnsubscribe, Reply
  <2>2. bSubs' \subseteq bSubs \cup { m.topic } /\ m.type \in SubTypes
    BY <1>12 DEF ReadUnsubscribe, SubTypes
  <2> QED
    BY <1>10, <1>12, <2>1, <2>2 DEF ReadUnsubscribe
<1>13. ASSUME NEW type \in { "PUBACK", "PUBREC", "PUBCOMP" },
              inbox' = Append(inbox, Answer(type, m.id, TRUE))
       PROVE  Moved(inbox, inbox', SubAcks)
  <2>1. type \in MessageType
    BY DEF MessageType
  <2>2. PICK a \in Packet : a = Answer(type, m.id, TRUE) /\ a.type = type
    BY <1>3, <2>1, AnswerFields
  <2> QED
    BY <1>13, <2>2, NotSent DEF Moved
<1>14. CASE ReadPublish(m)
  <2>1. m.type = "PUBLISH" /\ bSubs' = bSubs /\ (m.qos = 0 \/ m = issued[m.id])
    BY <1>14 DEF ReadPublish, Outgoing, Own
  <2>2. CASE m.qos = 0
    <3>1. deliver(m.content) /\ UNCHANGED << inbox, bHeld >>
      BY <1>14, <2>2 DEF ReadPublish
    <3>2. m.content \in used /\ \A i \in PublishIds : issued[i].content # m.content
      BY <1>3, <2>1, <2>2 DEF Passable
    <3>3. m.content \in Contents
      BY <3>2 DEF OnceInv, IInv, TypeOK
    <3>4. Moved(inbox, inbox', SubAcks)
      BY <3>1 DEF Moved
    <3> QED
      BY <1>1, <1>m, <2>1, <3>1, <3>2, <3>3, <3>4, PassedOn
  <2>3. CASE m.qos = 1
    <3>1. deliver(m.content) /\ UNCHANGED bHeld
          /\ inbox' = Append(inbox, Answer("PUBACK", m.id, TRUE))
      <4>1. m.qos # 0 /\ m.qos # 2
        BY <2>3
      <4> QED
        BY <1>14, <4>1, Zenon DEF ReadPublish, Reply
    <3>2. m.id \in PublishIds /\ m = issued[m.id]
      BY <1>3, <2>1, <2>3 DEF PublishIds
    <3>3. \A i \in PublishIds : issued[i].qos = 2 => issued[i].content # m.content
      BY <2>3, <3>2 DEF OnceInv, IInv, ContentsDistinct
    <3>4. m.content \in Contents /\ m.content \in used
      BY <1>4, <3>2
    <3> QED
      BY <1>1, <1>m, <1>13, <2>1, <3>1, <3>3, <3>4, PassedOn
  <2>4. CASE m.qos = 2
    <3>1. UNCHANGED delivered /\ bHeld' = [ bHeld EXCEPT ![m.id] = m ]
          /\ inbox' = Append(inbox, Answer("PUBREC", m.id, TRUE))
      <4>1. m.qos # 0 /\ m.qos # 1
        BY <2>4
      <4> QED
        BY <1>14, <4>1, Zenon DEF ReadPublish, Reply
    <3>2. m.id \in PublishIds /\ m = issued[m.id] /\ Unpassed(m.id) /\ m \in Numbered
      BY <1>3, <2>1, <2>4 DEF PublishIds, Passable, Numbered
    <3>3. \A i \in Ids : bHeld'[i] = IF i = m.id THEN m ELSE bHeld[i]
      BY <1>3, <1>4, <3>1
    <3>4. outbox' \in Seq(Passable')
      <4> SUFFICES ASSUME NEW p \in Packet, p \in Passable, p.type = "PUBLISH", p.qos = 2,
                          p.id # m.id
                   PROVE  bHeld'[p.id] = NoMsg /\ delivered'[issued[p.id].content] = 0
        BY <1>1, <1>m, <3>2, PassableLeft
      <4>1. p.id \in Ids /\ bHeld[p.id] = NoMsg /\ Unpassed(p.id)
        BY <1>4 DEF Passable
      <4> QED
        BY <3>1, <3>3, <4>1 DEF Unpassed
    <3>5. \A i \in Ids : bHeld'[i] # NoMsg => issued[i].qos = 2 /\ Unpassed(i)
      BY <2>4, <3>2, <3>3 DEF OnceInv, PassedOnce
    <3>6. PassedOnce'
      BY <1>1, <3>1, <3>4, <3>5 DEF OnceInv, PassedOnce, DeliveredOnce, Unpassed
    <3>7. AskedOnce'
      BY <1>1, <1>2, <1>13, <3>1, AskedMoved DEF OnceInv
    <3> QED
      BY <1>1, <1>2, <2>1, <3>6, <3>7 DEF OnceInv, TopicsKnown
  <2> QED
    BY <1>3, <2>2, <2>3, <2>4 DEF QoS
<1>15. CASE ReadPubrel(m)
  <2>1. /\ m.type = "PUBREL" /\ bSubs' = bSubs
        /\ bHeld' = [ bHeld EXCEPT ![m.id] = NoMsg ]
        /\ inbox' = Append(inbox, Answer("PUBCOMP", m.id, TRUE))
    BY <1>15 DEF ReadPubrel, Reply
  <2>2. m.id \in PublishIds /\ issued[m.id].qos = 2
    BY <2>1 DEF Outgoing
  <2>3. CASE bHeld[m.id] = NoMsg
    <3>1. UNCHANGED << delivered, bHeld, bSubs >>
      BY <1>3, <1>4, <1>15, <2>1, <2>3 DEF ReadPubrel
    <3> QED
      BY <1>1, <1>2, <1>13, <2>1, <3>1, OnceQuiet
  <2>4. CASE bHeld[m.id] # NoMsg
    <3>1. deliver(issued[m.id].content)
      BY <1>3, <1>15, <2>4 DEF ReadPubrel, OnceInv, IInv, HeldOK
    <3>2. \A i \in Ids : bHeld'[i] = IF i = m.id THEN NoMsg ELSE bHeld[i]
      BY <1>3, <1>4, <2>1
    <3>3. Unpassed(m.id)
      BY <1>3, <2>4 DEF OnceInv, PassedOnce
    <3>4. \A i \in PublishIds : issued[i].content = issued[m.id].content => i = m.id
      BY <2>2 DEF OnceInv, IInv, ContentsDistinct
    <3> QED
      BY <1>1, <1>3, <1>4, <1>m, <1>13, <2>1, <2>2, <2>4, <3>1, <3>2, <3>3, <3>4, PassedOn
  <2> QED
    BY <2>3, <2>4
<1> QED
  BY <1>m, <1>6, <1>7, <1>8, <1>9, <1>11, <1>12, <1>14, <1>15 DEF Broker, BrokerReads

LEMMA OnceBroker ==
  ASSUME OnceInv, IInv', BrokerStep
  PROVE  OnceInv'
<1>1. CASE Broker(BrokerReads)
  BY <1>1, OnceReads
<1>2. ASSUME UNCHANGED << timerVars, restOfClient, outbox, bHeld, delivered, bSubs >>,
             \/ inbox' = inbox
             \/ \E a \in Packet : a.type \notin { "SUBACK", "UNSUBACK" } /\ inbox' = Append(inbox, a)
      PROVE  OnceInv'
  <2>1. Moved(inbox, inbox', SubAcks) /\ Moved(outbox, outbox', Sent)
    BY <1>2, NotSent DEF Moved
  <2>2. UNCHANGED << issued, used, hold, gui, guiMsg >>
    BY <1>2 DEF timerVars, restOfClient, guiVars
  <2> QED
    BY <1>2, <2>1, <2>2, OnceQuiet DEF OnceInv, NothingResent
<1>3. ASSUME NEW i \in Incoming, Broker(BrokerPublishes(i)) PROVE OnceInv'
  <2>1. PICK q \in QoS, t \in Topics : inbox' = Append(inbox, Publish(i, t, q, None))
    BY <1>3 DEF Broker, BrokerPublishes, Reply
  <2>2. Publish(i, t, q, None) \in Packet /\ Publish(i, t, q, None).type = "PUBLISH"
    BY PacketTypes, BrokerBounds, BuildFields
  <2> QED
    BY <1>2, <1>3, <2>1, <2>2 DEF Broker, BrokerPublishes
<1>4. CASE Broker(BrokerCloses)
  BY <1>2, <1>4 DEF Broker, BrokerCloses, linkVars
<1>5. CASE Broker(BrokerSendsUnacceptable)
  <2>1. Disconnect \in Packet /\ Disconnect.type = "DISCONNECT"
    BY PacketTypes, BuildFields
  <2> QED
    BY <1>2, <1>5, <2>1 DEF Broker, BrokerSendsUnacceptable, Reply
<1> QED
  BY <1>1, <1>3, <1>4, <1>5 DEF BrokerStep

LEMMA OnceInit == Init => OnceInv
<1> SUFFICES ASSUME Init PROVE OnceInv
  OBVIOUS
<1>1. IInv /\ inbox = << >> /\ outbox = << >> /\ gui = "idle" /\ bSubs = {}
      /\ hold = [ th \in Threads |-> NoMsg ] /\ issued = [ i \in Ids |-> NoMsg ]
      /\ bHeld = [ i \in Ids |-> NoMsg ] /\ delivered = [ c \in Contents |-> 0 ]
  BY InitInv DEF Init, LinkInit, TimersInit, BrokerInit
<1>2. NothingResent /\ TopicsKnown
  BY <1>1, NoMsgFields DEF NothingResent, TopicsKnown, SubTypes
<1>3. AskedOnce
  BY <1>1 DEF AskedOnce, Once, Absent
<1>4. PublishIds = {}
  BY <1>1, NoMsgFields DEF PublishIds
<1>5. PassedOnce
  BY <1>1, <1>4, SeqEmpty DEF PassedOnce, DeliveredOnce
<1> QED
  BY <1>1, <1>2, <1>3, <1>5 DEF OnceInv

LEMMA OnceNext ==
  ASSUME ~LongSessions, OnceInv, [Next]_vars PROVE OnceInv'
<1>1. IInv'
  BY NextInv DEF OnceInv
<1>2. CASE Next
  BY <1>1, <1>2, OnceUser, OnceGui, OnceWorker, OnceTimer, OnceBroker DEF Next
<1>3. CASE UNCHANGED vars
  BY <1>1, <1>3, OnceQuiet
  DEF vars, linkVars, timerVars, brokerVars, guiVars, Moved, OnceInv, NothingResent
<1> QED
  BY <1>2, <1>3

\* A QoS 2 message reaches the broker's subscribers once, in any number of
\* sessions, as long as none lasts so long that message_resend_task sends a
\* packet again: the PUBREC, PUBREL and PUBCOMP cases of process_rx never make
\* the broker hold or pass on the same PUBLISH twice.
THEOREM DeliveredOnceHolds ==
  ASSUME ~LongSessions PROVE Spec => []DeliveredOnce
<1>1. OnceInv => DeliveredOnce
  BY DEF OnceInv, PassedOnce
<1>2. OnceInv /\ [Next]_vars => OnceInv'
  BY OnceNext
<1> QED
  BY <1>1, <1>2, OnceInit, PTL DEF Spec

-----------------------------------------------------------------------------
(* The topic list of a first session.  A SUBACK or UNSUBACK that is still  *)
(* in the inbox tells what the topic list will be when it has been read:   *)
(* of each topic, the last such answer agrees with the broker, and without *)
(* one the list does.                                                      *)

\* the packets that are answered with one of SubAcks
Asking == { m \in Packet : m.type \in SubTypes }

\* the answers that process_rx changes the topic list on
Listing == { m \in Packet : m.type \in { "CONNACK", "SUBACK", "UNSUBACK" } }

\* the map has what the next answers will be matched with
Awaiting == ui = "main" /\ gui \notin { "disc_fire", "disc_close" }

Early == session = 0 \/ ui = "loading"

FirstSession ==
  /\ base = 0
  /\ session = 0 => ui = "accounts" /\ gui = "idle" /\ net = "closed"
  /\ ui = "loading" => gui \in { "idle", "conn_fire", "conn_timer", "conn_add" }
  /\ Early => current_packet_number = 0 /\ rows = NoRows /\ bSubs = {}
  /\ bConn = "none" => Early
  /\ \A k \in 1 .. Len(inbox) : inbox[k].type = "CONNACK" =>
       /\ ui = "loading" /\ bConn # "none"
       /\ \A j \in 1 .. Len(inbox) : inbox[j].type = "CONNACK" => j = k

Awaited ==
  Awaiting =>
    /\ \A k \in 1 .. Len(outbox) : outbox[k] \in Asking => messages_map[outbox[k].id] # NoMsg
    /\ \A k \in 1 .. Len(inbox) : inbox[k] \in SubAcks => messages_map[inbox[k].id] # NoMsg
    /\ gui = "sub_fire" => messages_map[guiMsg.id] # NoMsg

Listed == { t \in Topics : rows.list[t] > 0 }

\* the answers that say whether t is subscribed to
Deciders(t) ==
  { a \in SubAcks : issued[a.id].topic = t /\ (a.type = "SUBACK" => Granted(a)) }

\* what the channel s and, without a decider, the list L say of t is what B says
Foretold(s, D, t, B, L) ==
  /\ \A k \in 1 .. Len(s) :
       (s[k] \in D /\ \A j \in 1 .. Len(s) : j > k => s[j] \notin D)
         => (t \in B <=> s[k].type = "SUBACK")
  /\ (\A k \in 1 .. Len(s) : s[k] \notin D) => (t \in B <=> t \in L)

Agreeing ==
  (Awaiting /\ net = "open") =>
    \A t \in Topics : Foretold(inbox, Deciders(t), t, bSubs, Listed)

-----------------------------------------------------------------------------
(* Channels that foretell.                                                 *)

\* The head goes: it decided, and the list now says what it said, or it did not.
LEMMA ForetoldRead ==
  ASSUME NEW s \in Seq(Packet), s # << >>, NEW D, NEW t, NEW B, NEW L, NEW M,
         Foretold(s, D, t, B, L),
         Head(s) \in D => (t \in M <=> Head(s).type = "SUBACK"),
         Head(s) \notin D => (t \in M <=> t \in L)
  PROVE  Foretold(Tail(s), D, t, B, M)
<1> DEFINE z == Tail(s)
<1>1. /\ Len(s) \in Nat /\ Len(s) >= 1 /\ Len(z) = Len(s) - 1
      /\ 1 \in 1 .. Len(s) /\ s[1] = Head(s)
      /\ \A k \in 1 .. Len(z) : k + 1 \in 1 .. Len(s) /\ z[k] = s[k + 1]
  BY TailFacts
<1> HIDE DEF z
<1>2. \A j \in 1 .. Len(s) : j > 1 => (j - 1) \in 1 .. Len(z) /\ z[j - 1] = s[j]
  <2> TAKE j \in 1 .. Len(s)
  <2>1. ASSUME j > 1 PROVE (j - 1) \in 1 .. Len(z) /\ (j - 1) + 1 = j
    BY <1>1, <2>1
  <2> QED
    BY <1>1, <2>1
<1>3. ASSUME NEW k \in 1 .. Len(z), z[k] \in D, \A j \in 1 .. Len(z) : j > k => z[j] \notin D
      PROVE  t \in B <=> z[k].type = "SUBACK"
  <2>1. ASSUME NEW j \in 1 .. Len(s), j > k + 1 PROVE s[j] \notin D
    <3>1. j > 1 /\ j - 1 > k
      BY <2>1
    <3> QED
      BY <1>2, <1>3, <3>1
  <2>2. k + 1 \in 1 .. Len(s) /\ s[k + 1] = z[k]
    BY <1>1
  <2> QED
    BY <1>3, <2>1, <2>2 DEF Foretold
<1>4. ASSUME \A k \in 1 .. Len(z) : z[k] \notin D PROVE t \in B <=> t \in M
  <2>1. \A j \in 1 .. Len(s) : j > 1 => s[j] \notin D
    BY <1>2, <1>4
  <2>2. CASE Head(s) \in D
    BY <1>1, <2>1, <2>2 DEF Foretold
  <2>3. CASE Head(s) \notin D
    <3>1. \A j \in 1 .. Len(s) : s[j] \notin D
      BY <1>1, <2>1, <2>3
    <3> QED
      BY <2>3, <3>1 DEF Foretold
  <2> QED
    BY <2>2, <2>3
<1> QED
  BY <1>3, <1>4 DEF Foretold, z

\* A packet arrives: it decides, and says what the broker now says, or it does not.
LEMMA ForetoldArrives ==
  ASSUME NEW s \in Seq(Packet), NEW m, NEW D, NEW t, NEW B, NEW C, NEW L,
         Foretold(s, D, t, B, L),
         m \in D => (t \in C <=> m.type = "SUBACK"),
         m \notin D => (t \in C <=> t \in B)
  PROVE  Foretold(Append(s, m), D, t, C, L)
<1> DEFINE z == Append(s, m)
<1>1. /\ Len(s) \in Nat /\ Len(z) = Len(s) + 1 /\ z[Len(s) + 1] = m
      /\ \A k \in 1 .. Len(s) : z[k] = s[k] /\ k \in 1 .. Len(z)
      /\ Len(s) + 1 \in 1 .. Len(z)
  BY AppendFacts
<1> HIDE DEF z
<1>2. ASSUME NEW k \in 1 .. Len(z), z[k] \in D, \A j \in 1 .. Len(z) : j > k => z[j] \notin D
      PROVE  t \in C <=> z[k].type = "SUBACK"
  <2>1. CASE k = Len(s) + 1
    BY <1>1, <1>2, <2>1
  <2>2. CASE k # Len(s) + 1
    <3>1. k \in 1 .. Len(s) /\ Len(s) + 1 > k
      BY <1>1, <2>2
    <3>2. m \notin D /\ z[k] = s[k] /\ \A j \in 1 .. Len(s) : j > k => s[j] \notin D
      BY <1>1, <1>2, <3>1
    <3> QED
      BY <1>2, <3>1, <3>2 DEF Foretold
  <2> QED
    BY <2>1, <2>2
<1>3. ASSUME \A k \in 1 .. Len(z) : z[k] \notin D PROVE t \in C <=> t \in L
  <2>1. m \notin D /\ \A k \in 1 .. Len(s) : s[k] \notin D
    BY <1>1, <1>3
  <2> QED
    BY <2>1 DEF Foretold
<1> QED
  BY <1>2, <1>3 DEF Foretold, z

\* The deciders of what is in the channel are what they were.
LEMMA ForetoldSame ==
  ASSUME NEW s \in Seq(Packet), NEW D, NEW E, NEW t, NEW B, NEW L, NEW M,
         \A k \in 1 .. Len(s) : s[k] \in D <=> s[k] \in E, t \in L <=> t \in M,
         Foretold(s, D, t, B, L)
  PROVE  Foretold(s, E, t, B, M)
BY DEF Foretold

-----------------------------------------------------------------------------
(* Steps that the topic list does not depend on.                           *)

LogInSteps == { "idle", "conn_fire", "conn_timer", "conn_add" }

IssuedKept == \A i \in Ids : issued[i] # NoMsg => issued'[i] = issued[i]

\* Before the first packet is numbered nothing is asked or answered.
LEMMA NothingAsked ==
  ASSUME OnceInv, current_packet_number = 0
  PROVE  /\ \A i \in Ids : issued[i].type \notin SubTypes
         /\ \A k \in 1 .. Len(outbox) : outbox[k] \notin Asking
         /\ \A k \in 1 .. Len(inbox) : inbox[k] \notin SubAcks
         /\ gui # "sub_fire"
<1>1. ASSUME NEW i \in Ids PROVE issued[i].type \notin SubTypes
  <2>1. issued[i] = NoMsg \/ issued[i] = Connect
    <3> SUFFICES ASSUME issued[i] # NoMsg PROVE issued[i] = Connect
      OBVIOUS
    <3>1. i <= 0
      BY DEF OnceInv, IInv, IssuedOK
    <3>2. i = 0
      BY <3>1 DEF Ids
    <3> QED
      BY <3>2 DEF OnceInv, IInv, IssuedOK
  <2> QED
    BY <2>1, NoMsgFields, BuildFields DEF SubTypes
<1>2. ASSUME NEW k \in 1 .. Len(outbox), outbox[k] \in Asking PROVE FALSE
  <2>1. outbox[k] \in Outgoing /\ outbox[k].id \in Ids
    BY <1>2 DEF OnceInv, IInv, Asking, Packet
  <2>2. outbox[k] = issued[outbox[k].id]
    BY <1>2, <2>1 DEF Outgoing, Asking, SubTypes, Own
  <2> QED
    BY <1>1, <1>2, <2>1, <2>2 DEF Asking
<1>3. ASSUME NEW k \in 1 .. Len(inbox), inbox[k] \in SubAcks PROVE FALSE
  <2>1. inbox[k] \in Arriving
    BY DEF OnceInv, IInv
  <2> QED
    BY <1>1, <1>3, <2>1, ArrivingFacts DEF SubAcks, SubTypes
<1>4. ASSUME gui = "sub_fire" PROVE FALSE
  <2>1. guiMsg.type \in SubTypes /\ guiMsg = issued[guiMsg.id] /\ guiMsg.id \in Ids
    BY <1>4 DEF OnceInv, IInv, GuiOK, SubTypes, TypeOK, Packet
  <2> QED
    BY <1>1, <2>1
<1> QED
  BY <1>1, <1>2, <1>3, <1>4

\* Answers on their way keep their meaning.
LEMMA DecidersKept ==
  ASSUME IInv, IssuedKept, NEW t, NEW k \in 1 .. Len(inbox)
  PROVE  inbox[k] \in Deciders(t) <=> inbox[k] \in Deciders(t)'
<1>1. inbox[k] \in Arriving
  BY DEF IInv
<1>2. ASSUME inbox[k] \in SubAcks PROVE issued'[inbox[k].id] = issued[inbox[k].id]
  <2>1. inbox[k].id \in Ids /\ issued[inbox[k].id].type \in { "SUBSCRIBE", "UNSUBSCRIBE" }
    BY <1>1, <1>2, ArrivingFacts DEF SubAcks
  <2> QED
    BY <2>1, NoMsgFields DEF IssuedKept
<1> QED
  BY <1>2 DEF Deciders, SubAcks, Granted

\* What a channel foretells when other packets come and go.
LEMMA ForetoldMoved ==
  ASSUME NEW s \in Seq(Packet), NEW z, NEW D, NEW t, NEW B, NEW L, Foretold(s, D, t, B, L),
         \/ z = s
         \/ s # << >> /\ z = Tail(s) /\ Head(s) \notin D
         \/ \E m \in Packet : m \notin D /\ z = Append(s, m)
  PROVE  Foretold(z, D, t, B, L)
<1>1. CASE z = s
  BY <1>1
<1>2. CASE s # << >> /\ z = Tail(s) /\ Head(s) \notin D
  BY <1>2, ForetoldRead
<1>3. ASSUME NEW m \in Packet, m \notin D, z = Append(s, m) PROVE Foretold(z, D, t, B, L)
  BY <1>3, ForetoldArrives
<1> QED
  BY <1>1, <1>2, <1>3

\* What a step may do to the inbox without a new or a read answer of this kind.
InboxCalm ==
  \/ inbox' = inbox
  \/ inbox # << >> /\ inbox' = Tail(inbox) /\ Head(inbox) \notin Listing
  \/ \E m \in Packet : m \notin Listing /\ inbox' = Append(inbox, m)
  \/ inbox' = << >> /\ net' # "open"

\* What is foretold is foretold still.
LEMMA AgreeingCalm ==
  ASSUME OnceInv, Agreeing, IssuedKept, InboxCalm, bSubs' = bSubs, rows'.list = rows.list,
         Awaiting' => Awaiting, net' = "open" => net = "open"
  PROVE  Agreeing'
<1> SUFFICES ASSUME Awaiting', net' = "open", NEW t \in Topics
             PROVE  Foretold(inbox', Deciders(t)', t, bSubs', Listed')
  BY DEF Agreeing
<1>1. Listed' = Listed /\ bSubs' = bSubs
  BY DEF Listed
<1>2. Foretold(inbox, Deciders(t), t, bSubs, Listed)
  BY DEF Agreeing
<1>3. \A k \in 1 .. Len(inbox) : inbox[k] \in Deciders(t) <=> inbox[k] \in Deciders(t)'
  BY DecidersKept DEF OnceInv
<1>4. Deciders(t)' \subseteq SubAcks /\ SubAcks \subseteq Listing
  BY DEF Deciders, SubAcks, Listing
<1> DEFINE E == Deciders(t)'
<1>5. Foretold(inbox, E, t, bSubs, Listed)
  <2>1. \A k \in 1 .. Len(inbox) : inbox[k] \in Deciders(t) <=> inbox[k] \in E
    BY <1>3
  <2> HIDE DEF E
  <2> QED
    BY <1>2, <2>1, Channels, ForetoldSame DEF OnceInv
<1>6. \/ inbox' = inbox
      \/ inbox # << >> /\ inbox' = Tail(inbox) /\ Head(inbox) \notin E
      \/ \E m \in Packet : m \notin E /\ inbox' = Append(inbox, m)
  BY <1>4 DEF InboxCalm
<1> HIDE DEF E
<1>7. Foretold(inbox', E, t, bSubs, Listed)
  BY <1>5, <1>6, Channels, ForetoldMoved DEF OnceInv
<1> QED
  BY <1>1, <1>7 DEF E

\* The first CONNACK stays the only one.
LEMMA ConnackCalm ==
  ASSUME inbox \in Seq(Packet), InboxCalm,
         \A k \in 1 .. Len(inbox) : inbox[k].type = "CONNACK" =>
           \A j \in 1 .. Len(inbox) : inbox[j].type = "CONNACK" => j = k
  PROVE  \A k \in 1 .. Len(inbox') : inbox'[k].type = "CONNACK" =>
           /\ \E j \in 1 .. Len(inbox) : inbox[j].type = "CONNACK"
           /\ \A j \in 1 .. Len(inbox') : inbox'[j].type = "CONNACK" => j = k
<1> DEFINE D == { m \in Packet : m.type = "CONNACK" }
<1>1. Moved(inbox, inbox', D)
  BY DEF InboxCalm, Moved, Listing
<1>2. D \subseteq Packet /\ \A m \in Packet : m.type = "CONNACK" <=> m \in D
  OBVIOUS
<1> HIDE DEF D
<1>3. PICK d \in { 0, 1 } : \A k \in 1 .. Len(inbox') :
        inbox'[k] \in D => k + d \in 1 .. Len(inbox) /\ inbox[k + d] = inbox'[k]
  BY <1>1, MovedFrom
<1>4. \A k \in 1 .. Len(inbox') : inbox'[k] \in Packet
  <2>1. inbox' \in Seq(Packet)
    BY <1>1, MovedSeq
  <2> QED
    BY <2>1
<1>5. \A k \in 1 .. Len(inbox') : inbox'[k].type = "CONNACK" =>
        k + d \in 1 .. Len(inbox) /\ inbox[k + d].type = "CONNACK"
  BY <1>2, <1>3, <1>4
<1>6. \A k \in 1 .. Len(inbox'), j \in 1 .. Len(inbox') : k + d = j + d => k = j
  OBVIOUS
<1> QED
  BY <1>5, <1>6

\* Steps of a session that neither enter nor leave its windows.
LEMMA SessionCalm ==
  ASSUME OnceInv, FirstSession, InboxCalm, UNCHANGED << session, base, bSubs, ui >>,
         rows' = rows \/ ui = "main",
         current_packet_number' = current_packet_number \/ ui = "main",
         net' = net \/ net = "open",
         bConn' = bConn \/ bConn' # "none",
         gui' = gui \/ ui = "main" \/ (gui # "idle" /\ gui' \in LogInSteps)
                    \/ gui \notin LogInSteps
  PROVE  FirstSession'
<1>1. session = 0 => gui' = "idle" /\ net' = "closed" /\ ui' = "accounts"
  BY DEF FirstSession, LogInSteps
<1>2. ui' = "loading" => gui' \in LogInSteps
  BY DEF FirstSession, LogInSteps
<1>3. Early' = Early /\ (Early => ui # "main")
  BY DEF FirstSession, Early
<1>4. Early' => current_packet_number' = 0 /\ rows' = NoRows /\ bSubs' = {}
  BY <1>3 DEF FirstSession
<1>5. bConn' = "none" => Early'
  BY <1>3 DEF FirstSession
<1>6. \A k \in 1 .. Len(inbox') : inbox'[k].type = "CONNACK" =>
        /\ \E j \in 1 .. Len(inbox) : inbox[j].type = "CONNACK"
        /\ \A j \in 1 .. Len(inbox') : inbox'[j].type = "CONNACK" => j = k
  BY Channels, ConnackCalm DEF OnceInv, FirstSession
<1>7. ASSUME NEW k \in 1 .. Len(inbox'), inbox'[k].type = "CONNACK"
      PROVE  ui' = "loading" /\ bConn' # "none"
  <2>1. PICK j \in 1 .. Len(inbox) : inbox[j].type = "CONNACK"
    BY <1>6, <1>7
  <2> QED
    BY <2>1 DEF FirstSession
<1> QED
  BY <1>1, <1>2, <1>4, <1>5, <1>6, <1>7 DEF FirstSession, LogInSteps

\* What is awaited still is: no packet asks for more, no entry it needs goes.
LEMMA AwaitedCalm ==
  ASSUME OnceInv, Awaited, Moved(outbox, outbox', Asking), Moved(inbox, inbox', SubAcks),
         Awaiting' => /\ Awaiting
                      /\ \A i \in Ids : (messages_map[i] # NoMsg /\ issued[i].type \in SubTypes)
                                           => messages_map'[i] # NoMsg
                      /\ gui' = "sub_fire" => messages_map'[guiMsg'.id] # NoMsg
  PROVE  Awaited'
<1> SUFFICES ASSUME Awaiting'
             PROVE  /\ \A k \in 1 .. Len(outbox') : outbox'[k] \in Asking =>
                          messages_map'[outbox'[k].id] # NoMsg
                    /\ \A k \in 1 .. Len(inbox') : inbox'[k] \in SubAcks =>
                          messages_map'[inbox'[k].id] # NoMsg
  BY DEF Awaited, Asking, SubAcks
<1>1. ASSUME NEW k \in 1 .. Len(outbox'), outbox'[k] \in Asking
      PROVE  messages_map'[outbox'[k].id] # NoMsg
  <2>1. PICK j \in 1 .. Len(outbox) : outbox[j] = outbox'[k]
    BY <1>1, Channels, MovedIn DEF OnceInv
  <2>2. outbox[j] \in Outgoing /\ outbox[j].id \in Ids
    BY <1>1, <2>1 DEF OnceInv, IInv, Asking, Packet
  <2>3. issued[outbox[j].id].type \in SubTypes
    BY <1>1, <2>1, <2>2 DEF Outgoing, Asking, SubTypes, Own
  <2> QED
    BY <1>1, <2>1, <2>2, <2>3 DEF Awaited
<1>2. ASSUME NEW k \in 1 .. Len(inbox'), inbox'[k] \in SubAcks
      PROVE  messages_map'[inbox'[k].id] # NoMsg
  <2>1. PICK j \in 1 .. Len(inbox) : inbox[j] = inbox'[k]
    BY <1>2, Channels, MovedIn DEF OnceInv
  <2>2. inbox[j] \in Arriving
    BY DEF OnceInv, IInv
  <2>3. inbox[j].id \in Ids /\ issued[inbox[j].id].type \in SubTypes
    BY <1>2, <2>1, <2>2, ArrivingFacts DEF SubAcks, SubTypes
  <2> QED
    BY <1>2, <2>1, <2>3 DEF Awaited
<1> QED
  BY <1>1, <1>2

First == FirstSession /\ Awaited /\ Agreeing

\* Timer threads: they take and fire packets that ask for nothing.
LEMMA FirstTimer ==
  ASSUME OnceInv, First, ~LongSessions, TimerStep
  PROVE  First'
<1>1. /\ UNCHANGED << session, base, bSubs, ui, gui, guiMsg, rows, bConn, messages_map,
                      current_packet_number, issued, inbox, net >>
  BY DEF TimerStep, Timer, brokerVars, restOfClient, guiVars, storeVars, connect_task,
      ping_task, message_resend_task, TimerFires, TimerReadsFreedMap, linkVars, timerVars
<1>2. Moved(outbox, outbox', Asking)
  <2>1. outbox' = outbox \/ \E th \in Threads : hold[th] # NoMsg /\ encode_and_fire(hold[th])
    BY DEF TimerStep, Timer, connect_task, ping_task, message_resend_task, TimerFires,
        TimerReadsFreedMap, linkVars
  <2>2. ASSUME NEW th \in Threads, encode_and_fire(hold[th])
        PROVE  Moved(outbox, outbox', Asking)
    <3>1. hold[th] \in Packet /\ hold[th] \notin Asking
      BY DEF OnceInv, NothingResent, IInv, TypeOK, TimersTypeOK, Asking, SubTypes
    <3> QED
      BY <2>2, <3>1, FireMoved
  <2> QED
    BY <2>1, <2>2 DEF Moved
<1>3. InboxCalm /\ IssuedKept /\ Awaiting' = Awaiting /\ Moved(inbox, inbox', SubAcks)
  BY <1>1 DEF InboxCalm, IssuedKept, Awaiting, Moved
<1>4. Awaited'
  BY <1>1, <1>2, <1>3, AwaitedCalm DEF First, Awaited
<1> QED
  BY <1>1, <1>3, <1>4, SessionCalm, AgreeingCalm DEF First

\* Leaving the windows of the session for the account list.
LEMMA SessionLeft ==
  ASSUME FirstSession, session # 0, UNCHANGED << session, base >>, ui' = "accounts",
         bConn' # "none", \A k \in 1 .. Len(inbox') : inbox'[k].type # "CONNACK"
  PROVE  First'
<1>1. ~Early' /\ ~Awaiting'
  BY DEF Early, Awaiting
<1> QED
  BY <1>1 DEF First, FirstSession, Awaited, Agreeing

\* The GTK thread between two calls of the user.
LEMMA FirstGui ==
  ASSUME OnceInv, First, GuiStep
  PROVE  First'
<1>1. /\ UNCHANGED << session, base, bSubs, rows, bConn, current_packet_number, issued,
                      inbox, net >>
  BY DEF GuiStep, send_connect_fire, send_connect_timer, send_connect_add, send_stored_fire,
      send_publish_add, send_disconnect_ping, send_disconnect_fire, send_disconnect_close,
      brokerVars, storeVars, linkVars, encode_and_fire, save_message
<1>2. InboxCalm /\ IssuedKept /\ Moved(inbox, inbox', SubAcks)
  BY <1>1 DEF InboxCalm, IssuedKept, Moved
<1>3. messages_map \in [ Ids -> Packet ] /\ guiMsg \in Packet
  BY DEF OnceInv, IInv, TypeOK, TimersTypeOK
<1>4. ASSUME ui' = ui, Awaiting' => Awaiting, Awaited',
             (gui # "idle" /\ gui' \in LogInSteps) \/ gui \notin LogInSteps
      PROVE  First'
  BY <1>1, <1>2, <1>4, SessionCalm, AgreeingCalm DEF First
<1>5. ASSUME ui' = ui, Awaiting' => Awaiting, Moved(outbox, outbox', Asking),
             gui' # "sub_fire",
             Awaiting' => \A i \in Ids : (messages_map[i] # NoMsg /\ issued[i].type \in SubTypes)
                                            => messages_map'[i] # NoMsg,
             (gui # "idle" /\ gui' \in LogInSteps) \/ gui \notin LogInSteps
      PROVE  First'
  <2>1. Awaited'
    BY <1>2, <1>5, AwaitedCalm DEF First
  <2> QED
    BY <1>4, <1>5, <2>1
<1>6. ASSUME NEW m \in { Connect, Disconnect }, encode_and_fire(m)
      PROVE  Moved(outbox, outbox', Asking)
  <2>1. m \in Packet /\ m \notin Asking
    BY PacketTypes, BuildFields DEF Asking, SubTypes
  <2> QED
    BY <1>6, <2>1, FireMoved
<1>7. CASE send_connect_fire
  <2>1. guiMsg = Connect
    BY <1>7 DEF send_connect_fire, OnceInv, IInv, GuiOK, Connecting
  <2>2. /\ gui = "conn_fire" /\ gui' = "conn_timer" /\ UNCHANGED << ui, messages_map >>
        /\ encode_and_fire(Connect)
    BY <1>7, <2>1 DEF send_connect_fire, timerVars
  <2> QED
    BY <1>5, <1>6, <2>2 DEF Awaiting, LogInSteps
<1>8. CASE send_connect_timer
  <2>1. gui = "conn_timer" /\ gui' = "conn_add" /\ UNCHANGED << ui, outbox >>
    BY <1>8 DEF send_connect_timer, linkVars
  <2>2. current_packet_number = 0
    BY <2>1 DEF OnceInv, IInv, GuiOK, Connecting, First, FirstSession
  <2> QED
    BY <1>5, <2>1, <2>2, NothingAsked DEF Awaiting, LogInSteps, Moved
<1>9. ASSUME add_message_in_map(guiMsg), guiMsg # NoMsg, ui' = ui, outbox' = outbox,
             gui \in { "conn_add", "pub_add" }, gui' = "idle"
      PROVE  First'
  <2>1. messages_map' = [ messages_map EXCEPT ![guiMsg.id] = guiMsg ]
    BY <1>9 DEF add_message_in_map
  <2>2. \A i \in Ids : messages_map[i] # NoMsg => messages_map'[i] # NoMsg
    BY <1>3, <1>9, <2>1
  <2> QED
    BY <1>5, <1>9, <2>2 DEF Awaiting, LogInSteps, Moved
<1>10. CASE send_connect_add
  <2>1. guiMsg # NoMsg
    BY <1>10, NoMsgFields, BuildFields DEF send_connect_add, OnceInv, IInv, GuiOK, Connecting
  <2> QED
    BY <1>9, <1>10, <2>1 DEF send_connect_add, linkVars
<1>11. CASE send_publish_add
  <2>1. guiMsg # NoMsg
    BY <1>11, NoMsgFields DEF send_publish_add, OnceInv, IInv, PubAddOK
  <2>2. CASE SavedAtOnce(guiMsg)
    <3>1. messages_map' = messages_map /\ UNCHANGED << ui, outbox >>
      BY <1>11, <2>2 DEF send_publish_add, timerVars, linkVars
    <3> QED
      BY <1>5, <1>11, <3>1 DEF send_publish_add, Awaiting, LogInSteps, Moved
  <2>3. CASE ~SavedAtOnce(guiMsg)
    BY <1>9, <1>11, <2>1, <2>3 DEF send_publish_add, linkVars
  <2> QED
    BY <2>2, <2>3
<1>12. CASE send_stored_fire
  <2>1. /\ gui = "sub_fire" /\ gui' = "idle" /\ encode_and_fire(guiMsg)
        /\ UNCHANGED << ui, messages_map >>
    BY <1>12 DEF send_stored_fire, timerVars
  <2>2. \A k \in 1 .. Len(outbox') :
          outbox'[k] = guiMsg \/ (k \in 1 .. Len(outbox) /\ outbox'[k] = outbox[k])
    BY <2>1, Channels, AppendFacts DEF OnceInv, encode_and_fire
  <2>3. Awaiting' = Awaiting
    BY <2>1 DEF Awaiting
  <2>4. Awaited'
    BY <1>1, <2>1, <2>2, <2>3 DEF First, Awaited, Asking, SubAcks
  <2> QED
    BY <1>4, <2>1, <2>3, <2>4 DEF LogInSteps
<1>13. CASE send_disconnect_ping
  BY <1>5, <1>13 DEF send_disconnect_ping, Awaiting, LogInSteps, Moved
<1>14. CASE send_disconnect_fire
  <2>1. /\ gui = "disc_fire" /\ gui' = "disc_close" /\ ui' = ui
        /\ encode_and_fire(Disconnect) \/ outbox' = outbox
    BY <1>14 DEF send_disconnect_fire
  <2>2. Moved(outbox, outbox', Asking)
    BY <1>6, <2>1 DEF Moved
  <2> QED
    BY <1>5, <2>1, <2>2 DEF Awaiting, LogInSteps
<1>15. CASE send_disconnect_close
  <2>1. gui = "disc_close" /\ ui' = "accounts"
    BY <1>15 DEF send_disconnect_close
  <2>2. session # 0 /\ ui # "loading"
    BY <2>1 DEF First, FirstSession
  <2>3. ~Early
    BY <2>2 DEF Early
  <2>4. bConn # "none" /\ \A k \in 1 .. Len(inbox) : inbox[k].type # "CONNACK"
    BY <2>2, <2>3 DEF First, FirstSession
  <2> QED
    BY <1>1, <2>1, <2>2, <2>4, SessionLeft DEF First
<1> QED
  BY <1>7, <1>8, <1>10, <1>11, <1>12, <1>13, <1>14, <1>15 DEF GuiStep

\* The user.
LEMMA FirstUser ==
  ASSUME OnceInv, IssuedKept, session <= 1 => First, session' <= 1, UserStep
  PROVE  First'
<1>1. session \in Nat /\ messages_map \in [ Ids -> Packet ]
  BY ClientBounds DEF OnceInv, IInv, TypeOK, TimersTypeOK
<1>2. CASE LogIn
  <2>1. /\ session' = session + 1 /\ base' = current_packet_number /\ ui' = "loading"
        /\ gui' = "conn_fire" /\ inbox' = << >> /\ bSubs' = {}
        /\ UNCHANGED << current_packet_number, rows >>
    BY <1>2 DEF LogIn, open_lws_net_connection, NewConnection, storeVars
  <2>2. session = 0 /\ First
    BY <1>1, <2>1
  <2>3. current_packet_number = 0 /\ rows = NoRows
    BY <2>2 DEF First, FirstSession, Early
  <2>4. Early' /\ ~Awaiting'
    BY <2>1 DEF Early, Awaiting
  <2>5. session' # 0
    BY <2>1, <2>2
  <2> QED
    BY <2>1, <2>3, <2>4, <2>5 DEF First, FirstSession, Awaited, Agreeing
<1>3. ASSUME session' = session PROVE First
  BY <1>3
<1>4. ASSUME ui = "main", UNCHANGED << session, base, bSubs, ui, bConn, inbox, net >>,
             rows'.list = rows.list, Moved(outbox, outbox', Asking),
             Awaiting' => Awaiting,
             \A i \in Ids : messages_map[i] # NoMsg => messages_map'[i] # NoMsg,
             gui' = "sub_fire" => messages_map'[guiMsg'.id] # NoMsg
      PROVE  First'
  <2>1. InboxCalm /\ Moved(inbox, inbox', SubAcks) /\ First
    BY <1>3, <1>4 DEF InboxCalm, Moved
  <2>2. Awaited'
    BY <1>4, <2>1, AwaitedCalm DEF First
  <2> QED
    BY <1>4, <2>1, <2>2, SessionCalm, AgreeingCalm DEF First
<1>5. ASSUME NEW m \in Packet, m # NoMsg, MayIssue, send_stored(m) PROVE First'
  <2>1. /\ ui = "main" /\ gui = "idle" /\ gui' = "sub_fire" /\ guiMsg' = m
        /\ messages_map' = [ messages_map EXCEPT ![m.id] = m ]
        /\ UNCHANGED << session, base, bSubs, ui, bConn, inbox, net, rows, outbox >>
    BY <1>5 DEF MayIssue, send_stored, add_message_in_map, linkVars, brokerVars, storeVars
  <2>2. m.id \in Ids
    BY DEF Packet
  <2>3. messages_map'[m.id] = m /\ \A i \in Ids : messages_map[i] # NoMsg => messages_map'[i] # NoMsg
    BY <1>1, <1>5, <2>1, <2>2
  <2> QED
    BY <1>4, <1>5, <2>1, <2>3 DEF Awaiting, Moved
<1>6. ASSUME NEW t \in Topics, send_subscribe(t) \/ send_unsubscribe(t) PROVE First'
  <2>1. MayIssue /\ NextId \in Ids
    BY <1>6, FreshId DEF send_subscribe, send_unsubscribe, OnceInv
  <2>2. PICK m : m \in { Subscribe(NextId, t), Unsubscribe(NextId, t) } /\ send_stored(m)
    BY <1>6 DEF send_subscribe, send_unsubscribe
  <2>3. m \in Packet /\ m # NoMsg
    BY <2>1, <2>2, PacketTypes, BuildFields, NoMsgFields
  <2> QED
    BY <1>5, <2>1, <2>2, <2>3
<1>7. ASSUME NEW c \in Contents, NEW t \in Topics, NEW q \in UserQoS, send_publish(c, t, q)
      PROVE  First'
  <2> DEFINE id == IF q = 0 THEN 0 ELSE NextId
             m == Publish(id, t, q, c)
  <2>1. /\ MayIssue /\ ui = "main" /\ gui = "idle" /\ gui' = "pub_add" /\ encode_and_fire(m)
        /\ UNCHANGED << session, base, bSubs, ui, bConn, inbox, net, rows, messages_map >>
    BY <1>7 DEF send_publish, MayIssue, brokerVars, timerVars, storeVars
  <2>2. id \in Ids /\ q \in QoS
    BY <2>1, FreshId, IdFacts, ClientBounds DEF OnceInv
  <2>3. m \in Packet /\ m \notin Asking
    BY <2>2, PacketTypes, BuildFields DEF Asking, SubTypes
  <2> HIDE DEF m
  <2>4. Moved(outbox, outbox', Asking)
    BY <2>1, <2>3, FireMoved
  <2> QED
    BY <1>4, <2>1, <2>4 DEF Awaiting
<1>8. CASE log_out_handle
  <2>1. /\ ui = "main" /\ gui = "idle" /\ gui' = "disc_ping" /\ rows'.list = rows.list
        /\ UNCHANGED << session, base, bSubs, ui, bConn, inbox, net, outbox, messages_map >>
    BY <1>8 DEF log_out_handle, linkVars, brokerVars, timerVars
  <2> QED
    BY <1>4, <2>1 DEF Awaiting, Moved
<1> QED
  BY <1>2, <1>6, <1>7, <1>8 DEF UserStep

-----------------------------------------------------------------------------
(* The topic list of a first session: the worker.                          *)

\* The SUBACK or UNSUBACK of x is read: the list becomes what it says.
LEMMA FirstAnswered ==
  ASSUME OnceInv, ListInv, First, inbox # << >>, inbox' = Tail(inbox),
         Head(inbox) \in SubAcks,
         UNCHANGED << session, base, bSubs, bConn, ui, gui, guiMsg, net, outbox, issued,
                      current_packet_number >>,
         IF Matched = NoMsg
         THEN UNCHANGED << rows, messages_map >>
         ELSE /\ messages_map' = removed(Head(inbox).id)
              /\ rows' = IF Head(inbox).type = "UNSUBACK" THEN unsubscribed(rows, Matched.topic)
                         ELSE IF Granted(Head(inbox)) THEN subscribed(rows, Matched.topic)
                         ELSE rows
  PROVE  First'
<1> DEFINE a == Head(inbox)
           i == a.id
<1>1. /\ Len(inbox) \in Nat /\ 1 \in 1 .. Len(inbox) /\ inbox[1] = a
      /\ \A k \in 1 .. Len(inbox') : k + 1 \in 1 .. Len(inbox) /\ inbox'[k] = inbox[k + 1]
  BY Channels, TailFacts DEF OnceInv
<1>2. a \in Arriving /\ a \in Packet
  BY <1>1, Channels, TailFacts DEF OnceInv, IInv
<1>3. i \in Ids /\ issued[i].type \in SubTypes /\ a.type \in { "SUBACK", "UNSUBACK" }
  BY <1>2, ArrivingFacts DEF SubAcks, SubTypes
<1>4. ~Early
  BY <1>3, NothingAsked DEF First, FirstSession
<1>5. messages_map \in [ Ids -> Packet ] /\ rows \in Rows
  BY DEF OnceInv, IInv, TypeOK, TimersTypeOK
<1>6. FirstSession'
  <2>1. ~Early'
    BY <1>4 DEF Early
  <2>2. \A k \in 1 .. Len(inbox') : inbox'[k].type # "CONNACK"
    BY <1>1, <1>4 DEF First, FirstSession, Early
  <2> QED
    BY <2>1, <2>2 DEF First, FirstSession, Early
<1>7. ASSUME Awaiting'
      PROVE  /\ messages_map' = removed(i) /\ Matched = issued[i]
             /\ Awaiting
             /\ rows' = IF a.type = "UNSUBACK" THEN unsubscribed(rows, issued[i].topic)
                        ELSE IF Granted(a) THEN subscribed(rows, issued[i].topic) ELSE rows
  <2>1. Awaiting
    BY <1>7 DEF Awaiting
  <2>2. messages_map[i] # NoMsg
    BY <1>1, <2>1 DEF First, Awaited
  <2>3. Matched = issued[i] /\ Matched # NoMsg
    BY <1>3, <2>2 DEF Matched, get_message_from_map, OnceInv, IInv, MapOK
  <2> QED
    BY <2>1, <2>3
<1> HIDE DEF i
<1>8. Awaited'
  <2> SUFFICES ASSUME Awaiting' PROVE Awaited'
    BY DEF Awaited
  <2>1. Awaiting /\ \A j \in Ids : j # i => messages_map'[j] = messages_map[j]
    BY <1>5, <1>7 DEF removed
  <2>2. ASSUME NEW k \in 1 .. Len(outbox), outbox[k] \in Asking
        PROVE  messages_map'[outbox[k].id] # NoMsg
    <3>1. outbox[k] \in Numbered /\ outbox[k].id \in Ids
      BY <2>2 DEF Asking, Numbered, Packet
    <3>2. outbox[k].id # i
      BY <1>1, <3>1 DEF OnceInv, AskedOnce, Absent, i
    <3> QED
      BY <2>1, <2>2, <3>1, <3>2 DEF First, Awaited
  <2>3. ASSUME NEW k \in 1 .. Len(inbox'), inbox'[k] \in SubAcks
        PROVE  messages_map'[inbox'[k].id] # NoMsg
    <3>1. inbox'[k].id # i
      BY <2>3, Channels, TakenAbsent DEF OnceInv, AskedOnce, Absent, i
    <3>2. inbox'[k].id \in Ids
      BY <2>3 DEF SubAcks, Packet
    <3>3. messages_map[inbox'[k].id] # NoMsg
      BY <1>1, <2>1, <2>3 DEF First, Awaited
    <3> QED
      BY <2>1, <3>1, <3>2, <3>3
  <2>4. ASSUME gui = "sub_fire" PROVE messages_map'[guiMsg.id] # NoMsg
    <3>1. guiMsg.id # i
      BY <1>1, <2>4 DEF OnceInv, AskedOnce, Absent, i
    <3>2. guiMsg.id \in Ids
      BY DEF OnceInv, IInv, TypeOK, Packet
    <3> QED
      BY <2>1, <2>4, <3>1, <3>2 DEF First, Awaited
  <2> QED
    BY <2>2, <2>3, <2>4 DEF Awaited, SubAcks, Asking
<1>9. Agreeing'
  <2> SUFFICES ASSUME Awaiting', net' = "open", NEW t \in Topics
               PROVE  Foretold(inbox', Deciders(t)', t, bSubs', Listed')
    BY DEF Agreeing
  <2> DEFINE x == issued[i].topic
             D == Deciders(t)
             L == Listed
             M == Listed'
  <2>1. Foretold(inbox, D, t, bSubs, L)
    BY <1>7 DEF First, Agreeing
  <2>2. Deciders(t)' = D
    BY DEF Deciders, Granted, SubAcks
  <2>3. t \in L <=> rows.list[t] > 0
    BY DEF Listed
  <2>4. t \in M <=> rows'.list[t] > 0
    BY DEF Listed
  <2>5. a \in D <=> (t = x /\ (a.type = "SUBACK" => Granted(a)))
    BY DEF Deciders, i
  <2>6. rows.list[t] <= 1
    BY DEF ListInv, OneRow
  <2>7. /\ IF t = x THEN subscribed(rows, x).list[t] = 1
           ELSE subscribed(rows, x).list[t] = rows.list[t]
        /\ IF t = x THEN unsubscribed(rows, x).list[t] = 0
           ELSE unsubscribed(rows, x).list[t] = rows.list[t]
    BY <1>5, <2>6, RowsAfterAnswer
  <2>8. a \in D => (t \in M <=> a.type = "SUBACK")
    BY <1>3, <1>7, <2>4, <2>5, <2>7
  <2>9. a \notin D => (t \in M <=> t \in L)
    BY <1>3, <1>7, <2>3, <2>4, <2>5, <2>7
  <2> HIDE DEF D, L, M
  <2>10. Foretold(Tail(inbox), D, t, bSubs, M)
    BY <2>1, <2>8, <2>9, Channels, ForetoldRead DEF OnceInv
  <2> QED
    BY <2>2, <2>10 DEF M
<1> QED
  BY <1>6, <1>8, <1>9 DEF First

\* The CONNACK shows the main window, on an empty list, or the account list.
LEMMA FirstConnack ==
  ASSUME OnceInv, ListInv, First, rx_connack
  PROVE  First'
<1>1. /\ UNCHANGED << session, base, bSubs, bConn, gui, guiMsg, net, outbox, issued,
                      current_packet_number >>
      /\ inbox # << >> /\ inbox' = Tail(inbox) /\ Head(inbox).type = "CONNACK"
  BY DEF rx_connack, brokerVars, Rx
<1>2. /\ Len(inbox) \in Nat /\ 1 \in 1 .. Len(inbox) /\ inbox[1] = Head(inbox)
      /\ \A k \in 1 .. Len(inbox') : k + 1 \in 1 .. Len(inbox) /\ inbox'[k] = inbox[k + 1]
  BY <1>1, Channels, TailFacts DEF OnceInv
<1>3. ui = "loading" /\ bConn # "none" /\ session # 0
  BY <1>1, <1>2 DEF First, FirstSession
<1>4. \A k \in 1 .. Len(inbox') : inbox'[k].type # "CONNACK"
  <2> SUFFICES ASSUME NEW k \in 1 .. Len(inbox'), inbox'[k].type = "CONNACK" PROVE FALSE
    OBVIOUS
  <2>1. k + 1 = 1
    BY <1>1, <1>2 DEF First, FirstSession
  <2> QED
    BY <2>1
<1>5. CASE Head(inbox).ok
  <2>1. ui' = "main" /\ rows' = topics_from_db(rows)
    BY <1>5 DEF rx_connack
  <2>2. current_packet_number = 0 /\ rows = NoRows /\ bSubs = {}
    BY <1>3 DEF First, FirstSession, Early
  <2>3. Listed' = {}
    BY <2>1, <2>2 DEF Listed, topics_from_db, NoRows
  <2>4. ~Early'
    BY <1>1, <1>3, <2>1 DEF Early
  <2>5. FirstSession'
    BY <1>1, <1>3, <1>4, <2>1, <2>4 DEF First, FirstSession
  <2>6. \A k \in 1 .. Len(inbox') : inbox'[k] \notin SubAcks
    BY <1>2, <2>2, NothingAsked
  <2>7. Awaited'
    BY <1>1, <2>2, <2>6, NothingAsked DEF Awaited, Asking, SubAcks
  <2>8. Agreeing'
    BY <1>1, <2>2, <2>3, <2>6 DEF Agreeing, Foretold, Deciders, SubAcks
  <2> QED
    BY <2>5, <2>7, <2>8 DEF First
<1>6. CASE ~Head(inbox).ok
  <2>1. ui' = "accounts"
    BY <1>6 DEF rx_connack, connection_unsuccessful
  <2> QED
    BY <1>1, <1>3, <1>4, <2>1, SessionLeft DEF First
<1> QED
  BY <1>5, <1>6

LEMMA FirstWorker ==
  ASSUME OnceInv, ListInv, First, WorkerStep
  PROVE  First'
<1>1. UNCHANGED << session, base, bSubs, bConn, gui, guiMsg, issued, current_packet_number >>
  BY DEF WorkerStep, rx_connack, rx_connack_timers, rx_publish, rx_publish_done, rx_pubrec,
      rx_pubrel, rx_suback, rx_unsuback, rx_pingresp, rx_unacceptable, raw_close,
      service_task_ends, guiVars, brokerVars
<1>2. messages_map \in [ Ids -> Packet ] /\ inbox \in Seq(Packet)
  BY Channels DEF OnceInv, IInv, TypeOK, TimersTypeOK
<1>3. ASSUME UNCHANGED << ui, rows >>, InboxCalm, net' = net \/ (net = "open" /\ net' # "open"),
             Moved(outbox, outbox', Asking), Moved(inbox, inbox', SubAcks),
             \A i \in Ids : (messages_map[i] # NoMsg /\ issued[i].type \in SubTypes)
                               => messages_map'[i] # NoMsg
      PROVE  First'
  <2>1. Awaiting' = Awaiting /\ IssuedKept
    BY <1>1, <1>3 DEF Awaiting, IssuedKept
  <2>2. gui' = "sub_fire" /\ Awaiting => messages_map'[guiMsg'.id] # NoMsg
    <3> SUFFICES ASSUME gui = "sub_fire", Awaiting PROVE messages_map'[guiMsg.id] # NoMsg
      BY <1>1
    <3>1. guiMsg.id \in Ids /\ guiMsg = issued[guiMsg.id] /\ guiMsg.type \in SubTypes
      BY DEF OnceInv, IInv, GuiOK, SubTypes, TypeOK, Packet
    <3> QED
      BY <1>3, <3>1 DEF First, Awaited
  <2>3. Awaited'
    BY <1>3, <2>1, <2>2, AwaitedCalm DEF First
  <2>4. FirstSession'
    BY <1>1, <1>3, SessionCalm DEF First
  <2>5. Agreeing'
    BY <1>1, <1>3, <2>1, AgreeingCalm DEF First
  <2> QED
    BY <2>3, <2>4, <2>5 DEF First
<1>4. ASSUME NEW T, Rx(T), "CONNACK" \notin T, "SUBACK" \notin T, "UNSUBACK" \notin T
      PROVE  /\ InboxCalm /\ Moved(inbox, inbox', SubAcks)
             /\ inbox # << >> /\ Head(inbox) \in Packet /\ Head(inbox) \in Arriving
  <2>1. inbox # << >> /\ inbox' = Tail(inbox) /\ Head(inbox).type \in T
    BY <1>4 DEF Rx
  <2>2. Head(inbox) \in Packet /\ Head(inbox) \in Arriving
    BY <1>2, <2>1, SeqTake DEF OnceInv, IInv
  <2>3. Head(inbox) \notin Listing
    BY <1>4, <2>1 DEF Listing
  <2> QED
    BY <2>1, <2>2, <2>3 DEF InboxCalm, Moved
<1>5. ASSUME Head(inbox) \in Packet,
             NEW type \in { "PUBACK", "PUBREC", "PUBREL", "PUBCOMP" },
             encode_and_fire(Answer(type, Head(inbox).id, TRUE))
      PROVE  Moved(outbox, outbox', Asking)
  <2>1. Head(inbox).id \in Ids /\ type \in MessageType
    BY <1>5 DEF Packet, MessageType
  <2>2. PICK a \in Packet : a = Answer(type, Head(inbox).id, TRUE) /\ a.type = type
    BY <2>1, AnswerFields
  <2>3. a \notin Asking
    BY <2>2 DEF Asking, SubTypes
  <2> QED
    BY <1>5, <2>2, <2>3, FireMoved
<1>6. CASE rx_connack
  BY <1>6, FirstConnack
<1>7. CASE rx_connack_timers
  BY <1>3, <1>7 DEF rx_connack_timers, linkVars, guiVars, storeVars, InboxCalm, Moved,
      start_ping_and_message_timer
<1>8. CASE rx_publish
  <2>1. Rx({"PUBLISH"}) /\ UNCHANGED << ui, rows, net, messages_map >>
    BY <1>8 DEF rx_publish, guiVars, timerVars
  <2>2. InboxCalm /\ Moved(inbox, inbox', SubAcks) /\ Head(inbox) \in Packet
    BY <1>4, <2>1
  <2>3. \/ outbox' = outbox
        \/ encode_and_fire(Answer("PUBACK", Head(inbox).id, TRUE))
        \/ encode_and_fire(Answer("PUBREC", Head(inbox).id, TRUE))
    BY <1>8 DEF rx_publish
  <2>4. Moved(outbox, outbox', Asking)
    BY <1>5, <2>2, <2>3 DEF Moved
  <2> QED
    BY <1>3, <2>1, <2>2, <2>4
<1>9. CASE rx_publish_done
  <2>1. Rx({"PUBACK", "PUBCOMP"}) /\ UNCHANGED << ui, rows, net, outbox >>
        /\ (messages_map' = messages_map \/ messages_map' = removed(Head(inbox).id))
    BY <1>9 DEF rx_publish_done, guiVars
  <2>2. InboxCalm /\ Moved(inbox, inbox', SubAcks) /\ Head(inbox) \in Arriving
    BY <1>4, <2>1
  <2>3. issued[Head(inbox).id].type \notin SubTypes
    BY <2>1, <2>2, ArrivingFacts DEF Rx, SubTypes
  <2>4. \A i \in Ids : (messages_map[i] # NoMsg /\ issued[i].type \in SubTypes)
                          => messages_map'[i] # NoMsg
    BY <1>2, <2>1, <2>3 DEF removed
  <2> QED
    BY <1>3, <2>1, <2>2, <2>4 DEF Moved
<1>10. CASE rx_pubrec
  <2>1. Rx({"PUBREC"}) /\ UNCHANGED << ui, rows, net, messages_map >>
        /\ encode_and_fire(Answer("PUBREL", Head(inbox).id, TRUE))
    BY <1>10 DEF rx_pubrec, guiVars, timerVars, storeVars
  <2>2. InboxCalm /\ Moved(inbox, inbox', SubAcks) /\ Head(inbox) \in Packet
    BY <1>4, <2>1
  <2> QED
    BY <1>3, <1>5, <2>1, <2>2
<1>11. CASE rx_pubrel
  <2>1. Rx({"PUBREL"}) /\ UNCHANGED << ui, rows, net, messages_map >>
        /\ encode_and_fire(Answer("PUBCOMP", Head(inbox).id, TRUE))
    BY <1>11 DEF rx_pubrel, guiVars, timerVars, storeVars
  <2>2. InboxCalm /\ Moved(inbox, inbox', SubAcks) /\ Head(inbox) \in Packet
    BY <1>4, <2>1
  <2> QED
    BY <1>3, <1>5, <2>1, <2>2
<1>12. CASE rx_suback
  <2>1. /\ inbox # << >> /\ inbox' = Tail(inbox) /\ Head(inbox).type = "SUBACK"
        /\ UNCHANGED << net, outbox, ui >>
    BY <1>12 DEF rx_suback, Rx, guiVars
  <2>2. Head(inbox) \in SubAcks
    BY <1>2, <2>1, SeqTake DEF SubAcks
  <2>3. IF Matched = NoMsg THEN UNCHANGED << rows, messages_map >>
        ELSE /\ messages_map' = removed(Head(inbox).id)
             /\ rows' = IF Granted(Head(inbox)) THEN subscribed(rows, Matched.topic) ELSE rows
    BY <1>12 DEF rx_suback
  <2> QED
    BY <1>1, <2>1, <2>2, <2>3, FirstAnswered
<1>13. CASE rx_unsuback
  <2>1. /\ inbox # << >> /\ inbox' = Tail(inbox) /\ Head(inbox).type = "UNSUBACK"
        /\ UNCHANGED << net, outbox, ui >>
    BY <1>13 DEF rx_unsuback, Rx, guiVars
  <2>2. Head(inbox) \in SubAcks
    BY <1>2, <2>1, SeqTake DEF SubAcks
  <2>3. IF Matched = NoMsg THEN UNCHANGED << rows, messages_map >>
        ELSE /\ messages_map' = removed(Head(inbox).id)
             /\ rows' = unsubscribed(rows, Matched.topic)
    BY <1>13 DEF rx_unsuback
  <2> QED
    BY <1>1, <2>1, <2>2, <2>3, FirstAnswered
<1>14. CASE rx_pingresp
  <2>1. Rx({"PINGRESP"}) /\ UNCHANGED << ui, rows, net, messages_map, outbox >>
    BY <1>14 DEF rx_pingresp, guiVars, timerVars, storeVars
  <2> QED
    BY <1>3, <1>4, <2>1 DEF Moved
<1>15. CASE rx_unacceptable
  <2>1. /\ Rx({"CONNECT", "SUBSCRIBE", "UNSUBSCRIBE", "PINGREQ", "DISCONNECT"})
        /\ UNCHANGED << ui, rows, net, messages_map, outbox >>
    BY <1>15 DEF rx_unacceptable, guiVars, timerVars, storeVars
  <2> QED
    BY <1>3, <1>4, <2>1 DEF Moved
<1>16. CASE raw_close
  <2>1. inbox = << >> /\ UNCHANGED << inbox, outbox, net, rows >> /\ bConn = "closed"
        /\ net = "open"
    BY <1>16 DEF raw_close, storeVars
  <2>2. CASE connection_established
    BY <1>3, <1>16, <2>1, <2>2 DEF raw_close, timerVars, InboxCalm, Moved
  <2>3. CASE ~connection_established
    <3>1. ui' = "accounts"
      BY <1>16, <2>3 DEF raw_close, connection_unsuccessful
    <3>2. session # 0
      BY <2>1 DEF First, FirstSession
    <3>3. \A k \in 1 .. Len(inbox') : inbox'[k].type # "CONNACK"
      BY <2>1
    <3> QED
      BY <1>1, <2>1, <3>1, <3>2, <3>3, SessionLeft DEF First
  <2> QED
    BY <2>2, <2>3
<1>17. CASE service_task_ends
  BY <1>3, <1>17 DEF service_task_ends, ServiceTaskEnds, guiVars, timerVars, storeVars,
      InboxCalm, Moved
<1> QED
  BY <1>6, <1>7, <1>8, <1>9, <1>10, <1>11, <1>12, <1>13, <1>14, <1>15, <1>16, <1>17
  DEF WorkerStep

-----------------------------------------------------------------------------
(* The topic list of a first session: the broker.                          *)

\* The broker answers a SUBSCRIBE or UNSUBSCRIBE: the answer says what it now has.
LEMMA FirstAsked ==
  ASSUME OnceInv, First, outbox # << >>, outbox' = Tail(outbox), net = "open",
         UNCHANGED << session, base, bConn, ui, gui, guiMsg, rows, messages_map, net, issued,
                      current_packet_number >>,
         NEW m \in Outgoing, m = Head(outbox), m.type \in SubTypes,
         NEW ok \in BOOLEAN,
         \/ /\ m.type = "SUBSCRIBE" /\ inbox' = Append(inbox, Answer("SUBACK", m.id, ok))
            /\ bSubs' = IF ok THEN bSubs \cup {m.topic} ELSE bSubs
         \/ /\ m.type = "UNSUBSCRIBE" /\ inbox' = Append(inbox, Answer("UNSUBACK", m.id, ok))
            /\ bSubs' = bSubs \ {m.topic}
  PROVE  First'
<1> DEFINE a == IF m.type = "SUBSCRIBE" THEN Answer("SUBACK", m.id, ok)
                                        ELSE Answer("UNSUBACK", m.id, ok)
<1>1. /\ 1 \in 1 .. Len(outbox) /\ outbox[1] = m /\ m \in Packet
      /\ \A k \in 1 .. Len(outbox') : k + 1 \in 1 .. Len(outbox) /\ outbox'[k] = outbox[k + 1]
  BY Channels, TailFacts DEF OnceInv
<1>2. m \in Asking /\ m.id \in Ids /\ m = issued[m.id]
  BY <1>1 DEF Asking, Packet, Outgoing, Own, SubTypes
<1>3. ~Early
  BY <1>1, <1>2, NothingAsked DEF First, FirstSession
<1>4. /\ inbox' = Append(inbox, a) /\ a \in Packet /\ a.id = m.id /\ a \in SubAcks
      /\ a.type = IF m.type = "SUBSCRIBE" THEN "SUBACK" ELSE "UNSUBACK"
      /\ a.ok = ok
  <2>1. "SUBACK" \in MessageType /\ "UNSUBACK" \in MessageType
    BY DEF MessageType
  <2>2. /\ a \in Packet /\ a.id = m.id /\ a.ok = ok
        /\ a.type = IF m.type = "SUBSCRIBE" THEN "SUBACK" ELSE "UNSUBACK"
    BY <1>2, <2>1, AnswerFields DEF Answer, Build
  <2> QED
    BY <2>2 DEF SubAcks
<1> HIDE DEF a
<1>5. /\ Len(inbox) \in Nat
      /\ \A k \in 1 .. Len(inbox') :
           inbox'[k] = a \/ (k \in 1 .. Len(inbox) /\ inbox'[k] = inbox[k])
  BY <1>4, Channels, AppendFacts DEF OnceInv
<1>6. FirstSession'
  <2>1. \A k \in 1 .. Len(inbox') : inbox'[k].type # "CONNACK"
    BY <1>3, <1>4, <1>5 DEF First, FirstSession, Early
  <2> QED
    BY <1>3, <2>1 DEF First, FirstSession, Early
<1>7. Awaited'
  <2> SUFFICES ASSUME Awaiting'
               PROVE  /\ \A k \in 1 .. Len(outbox') : outbox'[k] \in Asking =>
                            messages_map[outbox'[k].id] # NoMsg
                      /\ \A k \in 1 .. Len(inbox') : inbox'[k] \in SubAcks =>
                            messages_map[inbox'[k].id] # NoMsg
                      /\ gui = "sub_fire" => messages_map[guiMsg.id] # NoMsg
    BY DEF Awaited, Asking, SubAcks
  <2>1. Awaiting
    BY DEF Awaiting
  <2> QED
    BY <1>1, <1>2, <1>4, <1>5, <2>1 DEF First, Awaited
<1>8. Agreeing'
  <2> SUFFICES ASSUME Awaiting', net' = "open", NEW t \in Topics
               PROVE  Foretold(inbox', Deciders(t)', t, bSubs', Listed')
    BY DEF Agreeing
  <2> DEFINE D == Deciders(t)
             B == bSubs
             C == bSubs'
             L == Listed
  <2>1. Awaiting
    BY DEF Awaiting
  <2>2. Foretold(inbox, D, t, B, L)
    BY <2>1 DEF First, Agreeing
  <2>3. Deciders(t)' = D /\ Listed' = L
    BY DEF Deciders, Granted, SubAcks, Listed
  <2>4. a \in D <=> (t = m.topic /\ (a.type = "SUBACK" => ok))
    BY <1>2, <1>4 DEF Deciders, Granted
  <2>5. a \in D => (t \in C <=> a.type = "SUBACK")
    BY <1>4, <2>4
  <2>6. a \notin D => (t \in C <=> t \in B)
    BY <1>4, <2>4
  <2> HIDE DEF D, B, C, L
  <2>7. Foretold(Append(inbox, a), D, t, C, L)
    BY <2>2, <2>5, <2>6, Channels, ForetoldArrives DEF OnceInv
  <2> QED
    BY <1>4, <2>3, <2>7 DEF C
<1> QED
  BY <1>6, <1>7, <1>8 DEF First

LEMMA FirstBroker ==
  ASSUME OnceInv, First, BrokerStep
  PROVE  First'
<1>1. /\ UNCHANGED << session, base, ui, gui, guiMsg, rows, messages_map, issued,
                      current_packet_number >>
      /\ net = "open" /\ net' = net
  BY DEF BrokerStep, Broker, timerVars, restOfClient, guiVars, storeVars, BrokerReads,
      BrokerPublishes, BrokerCloses, BrokerSendsUnacceptable, linkVars
<1>2. session # 0
  BY <1>1 DEF First, FirstSession
<1>3. ASSUME InboxCalm, Moved(inbox, inbox', SubAcks), Moved(outbox, outbox', Asking),
             bSubs' = bSubs, bConn' = bConn \/ bConn' # "none"
      PROVE  First'
  <2>1. Awaiting' = Awaiting /\ IssuedKept
    BY <1>1 DEF Awaiting, IssuedKept
  <2>2. Awaited'
    BY <1>1, <1>3, <2>1, AwaitedCalm DEF First, Awaited
  <2>3. FirstSession'
    BY <1>1, <1>3, SessionCalm DEF First
  <2>4. Agreeing'
    BY <1>1, <1>3, <2>1, AgreeingCalm DEF First
  <2> QED
    BY <2>2, <2>3, <2>4 DEF First
<1>4. ASSUME \/ inbox' = inbox
             \/ \E a \in Packet : /\ a.type \notin { "CONNACK", "SUBACK", "UNSUBACK" }
                                  /\ inbox' = Append(inbox, a),
             outbox' = outbox \/ (outbox # << >> /\ outbox' = Tail(outbox)),
             bSubs' = bSubs, bConn' = bConn \/ bConn' # "none"
      PROVE  First'
  <2>1. InboxCalm /\ Moved(inbox, inbox', SubAcks)
    BY <1>4 DEF InboxCalm, Moved, Listing, SubAcks
  <2> QED
    BY <1>3, <1>4, <2>1 DEF Moved
<1>5. CASE Broker(BrokerReads)
  <2>1. outbox # << >> /\ outbox' = Tail(outbox)
    BY <1>5 DEF Broker, BrokerReads
  <2>m. PICK m \in Outgoing : m = Head(outbox)
    BY <2>1, SeqTake DEF OnceInv, IInv
  <2>2. m.id \in Ids
    BY DEF Outgoing, Packet
  <2>3. ASSUME \/ inbox' = inbox
               \/ \E type \in { "PUBACK", "PUBREC", "PUBREL", "PUBCOMP", "PINGRESP" }, i \in Ids :
                    inbox' = Append(inbox, Answer(type, i, TRUE)),
               bSubs' = bSubs, bConn' = bConn \/ bConn' # "none"
        PROVE  First'
    <3>1. ASSUME NEW type \in { "PUBACK", "PUBREC", "PUBREL", "PUBCOMP", "PINGRESP" },
                 NEW i \in Ids
          PROVE  Answer(type, i, TRUE) \in Packet /\ Answer(type, i, TRUE).type = type
      <4>1. type \in MessageType
        BY DEF MessageType
      <4> QED
        BY <4>1, AnswerFields
    <3>2. \/ inbox' = inbox
          \/ \E a \in Packet : /\ a.type \notin { "CONNACK", "SUBACK", "UNSUBACK" }
                               /\ inbox' = Append(inbox, a)
      BY <2>3, <3>1
    <3> QED
      BY <1>4, <2>1, <2>3, <3>2
  <2>4. CASE ReadConnect(m)
    <3>1. CASE bConn # "none"
      BY <2>3, <2>4, <3>1 DEF ReadConnect
    <3>2. CASE bConn = "none"
      <4>1. PICK ok \in BOOLEAN : /\ inbox' = Append(inbox, Answer("CONNACK", 0, ok))
                                  /\ bConn' = IF ok THEN "accepted" ELSE "closed"
        BY <2>4, <3>2 DEF ReadConnect, Reply
      <4>2. ui = "loading"
        BY <1>2, <3>2 DEF First, FirstSession, Early
      <4>3. ~Awaiting'
        BY <1>1, <4>2 DEF Awaiting
      <4>4. \A k \in 1 .. Len(inbox) : inbox[k].type # "CONNACK"
        BY <3>2 DEF First, FirstSession
      <4>5. /\ Len(inbox) \in Nat
            /\ \A k \in 1 .. Len(inbox') :
                 k = Len(inbox) + 1 \/ (k \in 1 .. Len(inbox) /\ inbox'[k] = inbox[k])
        BY <4>1, Channels, AppendFacts DEF OnceInv
      <4>6. \A k \in 1 .. Len(inbox') : inbox'[k].type = "CONNACK" => k = Len(inbox) + 1
        BY <4>4, <4>5
      <4>7. bSubs' = bSubs
        BY <2>4 DEF ReadConnect
      <4>8. Early' = Early
        BY <1>1 DEF Early
      <4>9. FirstSession'
        BY <1>1, <3>2, <4>1, <4>2, <4>6, <4>7, <4>8 DEF First, FirstSession
      <4> QED
        BY <4>3, <4>9 DEF First, Awaited, Agreeing
    <3> QED
      BY <3>1, <3>2
  <2>5. CASE ReadBeforeConnect(m)
    BY <2>3, <2>5 DEF ReadBeforeConnect
  <2>6. CASE ReadSubscribe(m)
    <3>1. PICK ok \in BOOLEAN : /\ inbox' = Append(inbox, Answer("SUBACK", m.id, ok))
                                /\ bSubs' = IF ok THEN bSubs \cup {m.topic} ELSE bSubs
      BY <2>6 DEF ReadSubscribe, Reply
    <3> QED
      BY <1>1, <2>1, <2>m, <2>6, <3>1, FirstAsked DEF ReadSubscribe, SubTypes
  <2>7. CASE ReadUnsubscribe(m)
    <3>1. /\ inbox' = Append(inbox, Answer("UNSUBACK", m.id, TRUE))
          /\ bSubs' = bSubs \ {m.topic}
      BY <2>7 DEF ReadUnsubscribe, Reply
    <3> QED
      BY <1>1, <2>1, <2>m, <2>7, <3>1, FirstAsked DEF ReadUnsubscribe, SubTypes
  <2>8. CASE ReadPublish(m)
    <3>1. \/ inbox' = inbox
          \/ inbox' = Append(inbox, Answer("PUBACK", m.id, TRUE))
          \/ inbox' = Append(inbox, Answer("PUBREC", m.id, TRUE))
      BY <2>8, Zenon DEF ReadPublish, Reply
    <3> QED
      BY <2>2, <2>3, <2>8, <3>1 DEF ReadPublish
  <2>9. CASE ReadPubrel(m)
    BY <2>2, <2>3, <2>9 DEF ReadPubrel, Reply
  <2>10. CASE ReadAck(m)
    BY <2>2, <2>3, <2>10 DEF ReadAck, Reply
  <2>11. CASE ReadPingreq(m)
    <3>1. inbox' = Append(inbox, Answer("PINGRESP", 0, TRUE)) /\ bSubs' = bSubs
          /\ bConn' = bConn
      BY <2>11 DEF ReadPingreq, Reply, brokerVars
    <3> QED
      BY <2>3, <3>1, IdFacts
  <2>12. CASE ReadDisconnect(m)
    BY <2>3, <2>12 DEF ReadDisconnect
  <2> QED
    BY <1>5, <2>m, <2>4, <2>5, <2>6, <2>7, <2>8, <2>9, <2>10, <2>11, <2>12
    DEF Broker, BrokerReads
<1>6. ASSUME NEW i \in Incoming, Broker(BrokerPublishes(i)) PROVE First'
  <2>1. PICK q \in QoS, t \in Topics : inbox' = Append(inbox, Publish(i, t, q, None))
    BY <1>6 DEF Broker, BrokerPublishes, Reply
  <2>2. Publish(i, t, q, None) \in Packet /\ Publish(i, t, q, None).type = "PUBLISH"
    BY PacketTypes, BrokerBounds, BuildFields
  <2> QED
    BY <1>4, <1>6, <2>1, <2>2 DEF Broker, BrokerPublishes
<1>7. CASE Broker(BrokerCloses)
  BY <1>4, <1>7 DEF Broker, BrokerCloses, linkVars
<1>8. CASE Broker(BrokerSendsUnacceptable)
  <2>1. Disconnect \in Packet /\ Disconnect.type = "DISCONNECT"
    BY PacketTypes, BuildFields
  <2> QED
    BY <1>4, <1>8, <2>1 DEF Broker, BrokerSendsUnacceptable, Reply
<1> QED
  BY <1>5, <1>6, <1>7, <1>8 DEF BrokerStep

-----------------------------------------------------------------------------
(* The topic list of a first session: the theorem.                         *)

FirstInv == OnceInv /\ ListInv /\ (session <= 1 => First)

LEMMA FirstInit == Init => FirstInv
<1> SUFFICES ASSUME Init PROVE FirstInv
  OBVIOUS
<1>1. OnceInv /\ ListInv
  BY OnceInit, InitType DEF Init, ListInv, OneRow, ListMirrorsDb, NoRows
<1>2. /\ session = 0 /\ base = 0 /\ current_packet_number = 0 /\ rows = NoRows
      /\ ui = "accounts" /\ gui = "idle" /\ net = "closed" /\ inbox = << >> /\ bSubs = {}
  BY DEF Init, LinkInit, TimersInit, BrokerInit
<1>3. Early /\ ~Awaiting
  BY <1>2 DEF Early, Awaiting
<1> QED
  BY <1>1, <1>2, <1>3 DEF FirstInv, First, FirstSession, Awaited, Agreeing

LEMMA FirstNext ==
  ASSUME ~LongSessions, FirstInv, [Next]_vars PROVE FirstInv'
<1>1. OnceInv' /\ TypeOK'
  BY OnceNext, NextType DEF FirstInv, OnceInv, IInv
<1>2. ListInv'
  <2>1. CASE Next
    BY <1>1, <2>1, ListUser, ListGui, ListWorker, ListElsewhere DEF Next, FirstInv
  <2>2. CASE UNCHANGED vars
    BY <1>1, <2>2, RowsUntouched DEF vars, guiVars, storeVars, LoggingOut, FirstInv
  <2> QED
    BY <2>1, <2>2
<1>3. IssuedKept
  BY IssuedStays DEF IssuedKept, FirstInv, OnceInv
<1>4. ASSUME session' <= 1 PROVE First'
  <2>1. CASE UserStep
    BY <1>3, <1>4, <2>1, FirstUser DEF FirstInv
  <2>2. CASE GuiStep \/ WorkerStep \/ TimerStep \/ BrokerStep
    <3>1. session' = session
      BY <2>2
      DEF GuiStep, send_connect_fire, send_connect_timer, send_connect_add, send_stored_fire,
          send_publish_add, send_disconnect_ping, send_disconnect_fire, send_disconnect_close,
          WorkerStep, rx_connack, rx_connack_timers, rx_publish, rx_publish_done, rx_pubrec,
          rx_pubrel, rx_suback, rx_unsuback, rx_pingresp, rx_unacceptable, raw_close,
          service_task_ends, TimerStep, Timer, BrokerStep, Broker, restOfClient, guiVars
    <3>2. OnceInv /\ ListInv /\ First
      BY <1>4, <3>1 DEF FirstInv
    <3> QED
      BY <2>2, <3>2, FirstGui, FirstWorker, FirstTimer, FirstBroker
  <2>3. CASE UNCHANGED vars
    <3>1. First
      BY <1>4, <2>3 DEF FirstInv, vars, guiVars
    <3> QED
      BY <2>3, <3>1
      DEF vars, linkVars, timerVars, brokerVars, guiVars, storeVars, First, FirstSession,
          Early, Awaited, Awaiting, Agreeing, Foretold, Deciders, Listed, Granted, Asking, SubAcks
  <2> QED
    BY <2>1, <2>2, <2>3 DEF Next
<1> QED
  BY <1>1, <1>2, <1>4 DEF FirstInv

\* In the first session after the program starts the topic list shows, whenever
\* nothing is in flight, what the broker has subscribed the session to, if no
\* packet is sent again: every SUBACK and UNSUBACK finds its packet in
\* messages_map, and process_rx handles them in the order of the broker's changes.
THEOREM SubscriptionsAgreeHolds ==
  ASSUME ~LongSessions PROVE Spec => [](session <= 1 => SubscriptionsAgree)
<1>1. ASSUME FirstInv PROVE session <= 1 => SubscriptionsAgree
  <2> SUFFICES ASSUME First, Settled PROVE bSubs = { t \in Topics : rows.list[t] > 0 }
    BY <1>1 DEF FirstInv, SubscriptionsAgree
  <2>1. Awaiting /\ net = "open" /\ inbox = << >>
    BY DEF Settled, Awaiting
  <2>2. ASSUME NEW t \in Topics PROVE t \in bSubs <=> t \in Listed
    <3>1. Foretold(inbox, Deciders(t), t, bSubs, Listed)
      BY <2>1 DEF First, Agreeing
    <3>2. 1 .. Len(inbox) = {}
      BY <2>1
    <3> QED
      BY <3>1, <3>2 DEF Foretold
  <2>3. bSubs \subseteq Topics
    BY <1>1 DEF FirstInv, OnceInv, TopicsKnown
  <2> QED
    BY <2>2, <2>3 DEF Listed
<1>2. FirstInv /\ [Next]_vars => FirstInv'
  BY FirstNext
<1> QED
  BY <1>1, <1>2, FirstInit, PTL DEF Spec
-----------------------------------------------------------------------------
(* The promise of Publishing.  What is kept survives the end of no session: *)
(* outside the main window, and while the next session is set up, the map  *)
(* holds no PUBLISH, so that start_connect_timer can drop none.            *)

NothingToSend == \A i \in Ids : messages_map[i].type # "PUBLISH"

\* a call of the user is made in the main window, which stays until it returns
CalledFromMain == (gui # "idle" /\ ~Connecting) => ui = "main"

StoredConnect == connection_established \/ Connecting \/ (gui = "idle" /\ ui = "accounts")

Connacks == { m \in Packet : m.type = "CONNACK" }

ConnackAwaited ==
  /\ (net = "open" /\ bConn = "none") => ui = "loading"
  /\ \A k \in 1 .. Len(inbox) : inbox[k] \in Connacks =>
       /\ ui = "loading" /\ bConn # "none"
       /\ \A l \in 1 .. Len(inbox) : inbox[l] \in Connacks => l = k

KeptInSession ==
  (ui # "main" \/ Connecting \/ gui \in { "disc_fire", "disc_close" }) => NothingToSend

SessionInv == CalledFromMain /\ StoredConnect /\ ConnackAwaited /\ KeptInSession

\* Packets come and go, but no CONNACK comes and nobody leaves the loading window.
LEMMA ConnackMoved ==
  ASSUME TypeOK, ConnackAwaited, Moved(inbox, inbox', Connacks),
         ui = "loading" => ui' = "loading", bConn # "none" => bConn' # "none",
         net' = "open" => net = "open"
  PROVE  ConnackAwaited'
<1>1. inbox \in Seq(Packet)
  BY DEF TypeOK, LinkTypeOK
<1>2. PICK d \in { 0, 1 } : \A k \in 1 .. Len(inbox') :
        inbox'[k] \in Connacks => k + d \in 1 .. Len(inbox) /\ inbox[k + d] = inbox'[k]
  BY <1>1, MovedFrom
<1>3. Connacks' = Connacks
  BY DEF Connacks
<1>4. ASSUME NEW k \in 1 .. Len(inbox'), inbox'[k] \in Connacks
      PROVE  /\ ui' = "loading" /\ bConn' # "none"
             /\ \A l \in 1 .. Len(inbox') : inbox'[l] \in Connacks => l = k
  <2>1. k + d \in 1 .. Len(inbox) /\ inbox[k + d] \in Connacks
    BY <1>2, <1>4
  <2>2. ui = "loading" /\ bConn # "none"
    BY <2>1 DEF ConnackAwaited
  <2>3. ASSUME NEW l \in 1 .. Len(inbox'), inbox'[l] \in Connacks PROVE l = k
    <3>1. l + d \in 1 .. Len(inbox) /\ inbox[l + d] \in Connacks
      BY <1>2, <2>3
    <3>2. l + d = k + d
      BY <2>1, <3>1 DEF ConnackAwaited
    <3> QED
      BY <3>2
  <2> QED
    BY <2>2, <2>3
<1> QED
  BY <1>3, <1>4 DEF ConnackAwaited

\* No packet is stored.
LEMMA NothingAdded ==
  ASSUME KeptInSession, gui' = gui, ui = "main" => ui' = "main",
         \A i \in Ids : messages_map'[i] = messages_map[i] \/ messages_map'[i] = NoMsg
  PROVE  KeptInSession'
BY NoMsgFields DEF KeptInSession, NothingToSend, Connecting

LEMMA SessionTimer == ASSUME IInv, SessionInv, TimerStep PROVE SessionInv'
<1>1. /\ UNCHANGED << gui, ui, connection_established, inbox, bConn, net, messages_map >>
  BY DEF TimerStep, Timer, brokerVars, restOfClient, guiVars, storeVars, connect_task,
      ping_task, message_resend_task, TimerFires, TimerReadsFreedMap, linkVars, timerVars
<1> QED
  BY <1>1 DEF SessionInv, CalledFromMain, StoredConnect, ConnackAwaited, Connacks,
      KeptInSession, NothingToSend, Connecting

\* The broker answers one CONNECT of a connection.
LEMMA SessionBroker == ASSUME IInv, SessionInv, BrokerStep PROVE SessionInv'
<1>1. UNCHANGED << gui, ui, connection_established, messages_map >>
  BY DEF BrokerStep, Broker, restOfClient, guiVars, timerVars
<1>2. CalledFromMain' /\ StoredConnect' /\ KeptInSession'
  BY <1>1 DEF SessionInv, CalledFromMain, StoredConnect, KeptInSession, NothingToSend, Connecting
<1>3. inbox \in Seq(Packet) /\ outbox \in Seq(Packet) /\ TypeOK /\ net' = net
  BY DEF IInv, TypeOK, LinkTypeOK, BrokerStep, Broker, BrokerReads, BrokerPublishes,
      BrokerCloses, BrokerSendsUnacceptable, linkVars
<1>4. ASSUME Moved(inbox, inbox', Connacks), bConn # "none" => bConn' # "none"
      PROVE  ConnackAwaited'
  BY <1>1, <1>3, <1>4, ConnackMoved DEF SessionInv
<1>5. ASSUME NEW type \in MessageType, NEW i \in Ids, NEW ok \in BOOLEAN, type # "CONNACK",
             inbox' = Append(inbox, Answer(type, i, ok)), bConn # "none" => bConn' # "none"
      PROVE  ConnackAwaited'
  <2>1. Answer(type, i, ok) \in Packet /\ Answer(type, i, ok) \notin Connacks
    BY <1>5, PacketTypes, BuildFields DEF Connacks
  <2> QED
    BY <1>4, <1>5, <2>1 DEF Moved
<1>6. ASSUME inbox' = inbox, bConn # "none" => bConn' # "none" PROVE ConnackAwaited'
  BY <1>4, <1>6 DEF Moved
<1>7. ASSUME Broker(BrokerReads) PROVE ConnackAwaited'
  <2>1. PICK m \in Packet : m = Head(outbox)
    BY <1>3, <1>7, SeqTake DEF Broker, BrokerReads
  <2>2. net = "open" /\ m.id \in Ids
    BY <1>7 DEF Broker, BrokerReads, Packet
  <2>3. CASE ReadConnect(m)
    <3>1. CASE bConn = "none"
      <4>1. PICK ok \in BOOLEAN : inbox' = Append(inbox, Answer("CONNACK", 0, ok))
                                  /\ bConn' # "none"
        BY <2>3, <3>1 DEF ReadConnect, Reply
      <4> DEFINE a == Answer("CONNACK", 0, ok)
      <4>2. /\ Len(inbox) \in Nat /\ Len(inbox') = Len(inbox) + 1
            /\ \A k \in 1 .. Len(inbox) : inbox'[k] = inbox[k]
        BY <1>3, <4>1, AppendFacts
      <4>3. ui = "loading" /\ \A k \in 1 .. Len(inbox) : inbox[k] \notin Connacks
        BY <2>2, <3>1 DEF SessionInv, ConnackAwaited
      <4>4. \A k \in 1 .. Len(inbox') : inbox'[k] \in Connacks => k = Len(inbox')
        BY <4>2, <4>3
      <4> QED
        BY <1>1, <4>1, <4>3, <4>4 DEF ConnackAwaited, Connacks
    <3>2. CASE bConn # "none"
      BY <1>6, <2>3, <3>2 DEF ReadConnect
    <3> QED
      BY <3>1, <3>2
  <2>4. CASE ReadBeforeConnect(m)
    BY <1>6, <2>4 DEF ReadBeforeConnect
  <2>5. CASE ReadSubscribe(m)
    BY <1>5, <2>2, <2>5 DEF ReadSubscribe, Reply, MessageType
  <2>6. CASE ReadUnsubscribe(m)
    BY <1>5, <2>2, <2>6 DEF ReadUnsubscribe, Reply, MessageType
  <2>7. CASE ReadPublish(m)
    BY <1>5, <1>6, <2>2, <2>7 DEF ReadPublish, Reply, MessageType
  <2>8. CASE ReadPubrel(m)
    BY <1>5, <2>2, <2>8 DEF ReadPubrel, Reply, MessageType
  <2>9. CASE ReadAck(m)
    BY <1>5, <1>6, <2>2, <2>9 DEF ReadAck, Reply, MessageType
  <2>10. CASE ReadPingreq(m)
    BY <1>5, <2>2, <2>10, IdFacts DEF ReadPingreq, Reply, MessageType, brokerVars
  <2>11. CASE ReadDisconnect(m)
    BY <1>6, <2>11 DEF ReadDisconnect
  <2> QED
    BY <1>7, <2>1, <2>3, <2>4, <2>5, <2>6, <2>7, <2>8, <2>9, <2>10, <2>11
    DEF Broker, BrokerReads
<1>8. ASSUME NEW i \in Incoming, Broker(BrokerPublishes(i)) PROVE ConnackAwaited'
  <2>1. PICK q \in QoS, t \in Topics : inbox' = Append(inbox, Publish(i, t, q, None))
    BY <1>8 DEF Broker, BrokerPublishes, Reply
  <2>2. Publish(i, t, q, None) \in Packet /\ Publish(i, t, q, None) \notin Connacks
    BY PacketTypes, BuildFields, BrokerBounds DEF Connacks
  <2> QED
    BY <1>4, <1>8, <2>1, <2>2 DEF Broker, BrokerPublishes, Moved
<1>9. ASSUME Broker(BrokerCloses) PROVE ConnackAwaited'
  BY <1>6, <1>9 DEF Broker, BrokerCloses, linkVars
<1>10. ASSUME Broker(BrokerSendsUnacceptable) PROVE ConnackAwaited'
  <2>1. Disconnect \in Packet /\ Disconnect \notin Connacks
    BY PacketTypes, BuildFields DEF Connacks
  <2> QED
    BY <1>4, <1>10, <2>1 DEF Broker, BrokerSendsUnacceptable, Reply, Moved
<1> QED
  BY <1>2, <1>7, <1>8, <1>9, <1>10 DEF BrokerStep, SessionInv

LEMMA SessionUser == ASSUME IInv, SessionInv, UserStep PROVE SessionInv'
<1>1. CASE LogIn
  <2>1. /\ gui = "idle" /\ ui = "accounts" /\ gui' = "conn_fire" /\ ui' = "loading"
        /\ inbox' = << >> /\ messages_map' = messages_map
    BY <1>1 DEF LogIn, open_lws_net_connection, timerVars
  <2>2. NothingToSend
    BY <2>1 DEF SessionInv, KeptInSession
  <2>3. 1 .. Len(inbox') = {}
    BY <2>1
  <2> QED
    BY <2>1, <2>2, <2>3 DEF SessionInv, CalledFromMain, StoredConnect, ConnackAwaited,
        KeptInSession, NothingToSend, Connecting
<1>2. ASSUME gui = "idle", ui = "main", gui' \in { "sub_fire", "pub_add", "disc_ping" },
             UNCHANGED << ui, connection_established, inbox, net, bConn >>
      PROVE  SessionInv'
  BY <1>2 DEF SessionInv, CalledFromMain, StoredConnect, ConnackAwaited, Connacks,
      KeptInSession, Connecting
<1>3. ASSUME NEW m \in Packet, MayIssue, send_stored(m) PROVE SessionInv'
  BY <1>2, <1>3 DEF MayIssue, send_stored, linkVars, brokerVars
<1>4. ASSUME MayIssue PROVE NextId \in Ids
  BY <1>4, FreshId
<1>5. ASSUME NEW t \in Topics, send_subscribe(t) \/ send_unsubscribe(t) PROVE SessionInv'
  BY <1>3, <1>4, <1>5, PacketTypes DEF send_subscribe, send_unsubscribe
<1>6. ASSUME NEW c \in Contents, NEW t \in Topics, NEW q \in UserQoS, send_publish(c, t, q)
      PROVE  SessionInv'
  BY <1>2, <1>6 DEF send_publish, MayIssue, brokerVars
<1>7. CASE log_out_handle
  BY <1>2, <1>7 DEF log_out_handle, linkVars, brokerVars
<1> QED
  BY <1>1, <1>5, <1>6, <1>7 DEF UserStep

LEMMA SessionGui == ASSUME IInv, SessionInv, GuiStep PROVE SessionInv'
<1>1. /\ UNCHANGED << inbox, net, bConn >>
      /\ connection_established => connection_established'
  BY DEF GuiStep, send_connect_fire, send_connect_timer, send_connect_add, send_stored_fire,
      send_publish_add, send_disconnect_ping, send_disconnect_fire, send_disconnect_close,
      brokerVars, linkVars
<1>2. messages_map \in [ Ids -> Packet ]
  BY DEF IInv, TypeOK, TimersTypeOK
<1>3. ASSUME ui' = ui, Connecting \/ ui = "main",
             \/ Connecting'
             \/ gui' = "idle" /\ connection_established'
             \/ ~Connecting /\ gui' \in { "idle", "disc_fire", "disc_close" },
             \/ NothingToSend'
             \/ ui = "main" /\ gui' = "idle"
      PROVE  SessionInv'
  <2>1. ConnackAwaited'
    BY <1>1, <1>3 DEF SessionInv, ConnackAwaited, Connacks
  <2>2. CalledFromMain'
    BY <1>3 DEF CalledFromMain, Connecting
  <2>3. ~Connecting /\ ui = "main" => connection_established
    BY DEF SessionInv, StoredConnect
  <2> QED
    BY <1>1, <1>3, <2>1, <2>2, <2>3 DEF SessionInv, StoredConnect, KeptInSession, Connecting
<1>4. CASE send_connect_fire
  <2>1. gui = "conn_fire" /\ gui' = "conn_timer" /\ UNCHANGED << ui, messages_map >>
    BY <1>4 DEF send_connect_fire, timerVars
  <2> QED
    BY <1>3, <2>1 DEF SessionInv, KeptInSession, NothingToSend, Connecting
<1>5. CASE send_connect_timer
  <2>1. gui = "conn_timer" /\ gui' = "conn_add" /\ ui' = ui /\ messages_map' = EmptyMap
    BY <1>5 DEF send_connect_timer, start_connect_timer
  <2>2. NothingToSend'
    BY <2>1, NoMsgFields DEF NothingToSend, EmptyMap
  <2> QED
    BY <1>3, <2>1, <2>2 DEF Connecting
<1>6. CASE send_connect_add
  <2>1. /\ gui = "conn_add" /\ gui' = "idle" /\ ui' = ui /\ connection_established'
        /\ messages_map' = [ messages_map EXCEPT ![guiMsg.id] = guiMsg ]
    BY <1>6 DEF send_connect_add, add_message_in_map
  <2>2. guiMsg = Connect /\ NothingToSend
    BY <2>1 DEF IInv, GuiOK, Connecting, SessionInv, KeptInSession
  <2>3. NothingToSend'
    BY <1>2, <2>1, <2>2, BuildFields DEF NothingToSend
  <2> QED
    BY <1>3, <2>1, <2>3 DEF Connecting
<1>7. CASE send_stored_fire \/ send_publish_add
  <2>1. gui \in { "sub_fire", "pub_add" } /\ gui' = "idle" /\ ui' = ui
    BY <1>7 DEF send_stored_fire, send_publish_add
  <2>2. ui = "main" /\ ~Connecting
    BY <2>1 DEF SessionInv, CalledFromMain, Connecting
  <2> QED
    BY <1>3, <2>1, <2>2
<1>8. CASE send_disconnect_ping
  <2>1. gui = "disc_ping" /\ gui' = "disc_fire" /\ ui' = ui /\ messages_map' = EmptyMap
    BY <1>8 DEF send_disconnect_ping, stop_ping_timer
  <2>2. ui = "main" /\ ~Connecting
    BY <2>1 DEF SessionInv, CalledFromMain, Connecting
  <2>3. NothingToSend'
    BY <2>1, NoMsgFields DEF NothingToSend, EmptyMap
  <2> QED
    BY <1>3, <2>1, <2>2, <2>3
<1>9. CASE send_disconnect_fire
  <2>1. /\ gui = "disc_fire" /\ gui' = "disc_close" /\ UNCHANGED << ui, messages_map >>
    BY <1>9 DEF send_disconnect_fire, stop_message_timer
  <2>2. ui = "main" /\ ~Connecting
    BY <2>1 DEF SessionInv, CalledFromMain, Connecting
  <2>3. NothingToSend'
    BY <2>1 DEF SessionInv, KeptInSession, NothingToSend
  <2> QED
    BY <1>3, <2>1, <2>2, <2>3
<1>10. CASE send_disconnect_close
  <2>1. gui = "disc_close" /\ gui' = "idle" /\ ui' = "accounts" /\ messages_map' = messages_map
    BY <1>10 DEF send_disconnect_close, timerVars
  <2>2. ui = "main"
    BY <2>1 DEF SessionInv, CalledFromMain, Connecting
  <2>3. NothingToSend
    BY <2>1 DEF SessionInv, KeptInSession
  <2>4. /\ net = "open" => bConn # "none"
        /\ \A k \in 1 .. Len(inbox) : inbox[k] \notin Connacks
    BY <2>2 DEF SessionInv, ConnackAwaited
  <2> QED
    BY <1>1, <2>1, <2>3, <2>4 DEF SessionInv, CalledFromMain, StoredConnect, ConnackAwaited,
        Connacks, KeptInSession, NothingToSend
<1> QED
  BY <1>4, <1>5, <1>6, <1>7, <1>8, <1>9, <1>10 DEF GuiStep

\* The worker: the CONNACK is the last of its connection, and an end of the
\* connection is seen when it was read.
LEMMA SessionWorker == ASSUME IInv, SessionInv, WorkerStep PROVE SessionInv'
<1>1. /\ messages_map \in [ Ids -> Packet ] /\ inbox \in Seq(Packet) /\ TypeOK
  BY DEF IInv, TypeOK, TimersTypeOK, LinkTypeOK
<1>2. UNCHANGED << gui, bConn >> /\ (connection_established => connection_established')
  <2>1. CASE rx_connack_timers
    <3>1. UNCHANGED << gui, bConn >>
      BY <2>1 DEF rx_connack_timers, guiVars, brokerVars
    <3>2. connection_established' = TRUE
      BY <2>1 DEF rx_connack_timers
    <3> QED
      BY <3>1, <3>2
  <2>2. CASE rx_connack \/ raw_close \/ service_task_ends
    BY <2>2 DEF rx_connack, raw_close, service_task_ends, guiVars, brokerVars
  <2>3. CASE \/ rx_publish \/ rx_publish_done \/ rx_pubrec \/ rx_pubrel \/ rx_suback
             \/ rx_unsuback \/ rx_pingresp \/ rx_unacceptable
    <3>1. UNCHANGED << guiVars, brokerVars, connection_established >>
      BY <2>3 DEF rx_publish, rx_publish_done, rx_pubrec, rx_pubrel, rx_suback, rx_unsuback,
          rx_pingresp, rx_unacceptable
    <3> QED
      BY <3>1 DEF guiVars, brokerVars
  <2> QED
    BY <2>1, <2>2, <2>3 DEF WorkerStep
<1>3. \A i \in Ids : removed(i) \in [ Ids -> Packet ]
          /\ \A j \in Ids : removed(i)[j] = messages_map[j] \/ removed(i)[j] = NoMsg
  BY <1>1, PacketTypes DEF removed
<1>4. ASSUME ui' = ui, Moved(inbox, inbox', Connacks), net' = "open" => net = "open",
             \A i \in Ids : messages_map'[i] = messages_map[i] \/ messages_map'[i] = NoMsg
      PROVE  SessionInv'
  <2>1. ConnackAwaited' /\ KeptInSession'
    BY <1>1, <1>2, <1>4, ConnackMoved, NothingAdded DEF SessionInv
  <2> QED
    BY <1>2, <1>4, <2>1 DEF SessionInv, CalledFromMain, StoredConnect, Connecting
<1>5. ASSUME NEW types, Rx(types)
      PROVE  Moved(inbox, inbox', Connacks) /\ Head(inbox).id \in Ids
  <2>1. inbox # << >> /\ inbox' = Tail(inbox) /\ Head(inbox) \in Packet
    BY <1>1, <1>5, SeqTake DEF Rx
  <2> QED
    BY <2>1 DEF Moved, Packet
<1>6. CASE rx_connack
  <2> DEFINE a == Head(inbox)
  <2>1. /\ inbox # << >> /\ inbox' = Tail(inbox) /\ a \in Packet /\ a.type = "CONNACK"
        /\ messages_map' = removed(0) /\ net' = net
        /\ ui' \in { "main", "accounts" } /\ (a.ok => ui' = "main")
        /\ connection_established' = connection_established
    BY <1>1, <1>6, SeqTake DEF rx_connack, Rx, connection_unsuccessful
  <2>2. /\ 1 \in 1 .. Len(inbox) /\ inbox[1] = a
        /\ \A k \in 1 .. Len(inbox') : k + 1 \in 1 .. Len(inbox) /\ inbox'[k] = inbox[k + 1]
    BY <1>1, <2>1, TailFacts
  <2>3. a \in Connacks
    BY <2>1 DEF Connacks
  <2> HIDE DEF a
  <2>4. /\ ui = "loading" /\ bConn # "none"
        /\ \A k \in 1 .. Len(inbox) : inbox[k] \in Connacks => k = 1
    BY <2>2, <2>3 DEF SessionInv, ConnackAwaited
  <2>5. ASSUME NEW k \in 1 .. Len(inbox'), inbox'[k] \in Connacks PROVE FALSE
    <3>1. k + 1 = 1
      BY <2>2, <2>4, <2>5
    <3> QED
      BY <3>1
  <2>6. ConnackAwaited'
    BY <1>2, <2>4, <2>5 DEF ConnackAwaited, Connacks
  <2>7. Connecting \/ gui = "idle"
    BY <2>4 DEF SessionInv, CalledFromMain
  <2>8. NothingToSend /\ (Connecting \/ connection_established)
    BY <2>4, <2>7 DEF SessionInv, KeptInSession, StoredConnect
  <2>9. NothingToSend'
    BY <1>3, <2>1, <2>8, IdFacts, NoMsgFields DEF NothingToSend
  <2> QED
    BY <1>2, <2>1, <2>6, <2>7, <2>8, <2>9
    DEF SessionInv, CalledFromMain, StoredConnect, KeptInSession, Connecting
<1>7. CASE rx_connack_timers
  BY <1>4, <1>7 DEF rx_connack_timers, start_ping_and_message_timer, linkVars, guiVars, Moved
<1>8. CASE rx_publish
  BY <1>4, <1>5, <1>8 DEF rx_publish, timerVars, guiVars
<1>9. CASE rx_publish_done
  BY <1>3, <1>4, <1>5, <1>9 DEF rx_publish_done, guiVars
<1>10. CASE rx_pubrec
  BY <1>4, <1>5, <1>10 DEF rx_pubrec, timerVars, guiVars
<1>11. CASE rx_pubrel
  BY <1>4, <1>5, <1>11 DEF rx_pubrel, timerVars, guiVars
<1>12. CASE rx_suback
  BY <1>3, <1>4, <1>5, <1>12 DEF rx_suback, guiVars
<1>13. CASE rx_unsuback
  BY <1>3, <1>4, <1>5, <1>13 DEF rx_unsuback, guiVars
<1>14. CASE rx_pingresp
  BY <1>4, <1>5, <1>14 DEF rx_pingresp, timerVars, guiVars
<1>15. CASE rx_unacceptable
  BY <1>4, <1>5, <1>15 DEF rx_unacceptable, timerVars, guiVars
<1>16. CASE raw_close
  <2>1. bConn = "closed" /\ inbox = << >> /\ UNCHANGED << net, inbox, connection_established >>
    BY <1>16 DEF raw_close
  <2>2. CASE connection_established
    BY <1>4, <1>16, <2>1, <2>2 DEF raw_close, timerVars, Moved
  <2>3. CASE ~connection_established
    <3>1. ui' = "accounts" /\ messages_map' = EmptyMap
      BY <1>16, <2>3 DEF raw_close, connection_unsuccessful
    <3>2. NothingToSend' /\ (Connecting \/ gui = "idle")
      BY <2>3, <3>1, NoMsgFields DEF NothingToSend, EmptyMap, SessionInv, StoredConnect
    <3>3. 1 .. Len(inbox') = {} /\ bConn' # "none"
      BY <1>2, <2>1
    <3> QED
      BY <1>2, <2>1, <3>1, <3>2, <3>3 DEF SessionInv, CalledFromMain, StoredConnect,
          ConnackAwaited, KeptInSession, Connecting
  <2> QED
    BY <2>2, <2>3
<1>17. CASE service_task_ends
  BY <1>4, <1>17 DEF service_task_ends, ServiceTaskEnds, timerVars, guiVars, Moved
<1> QED
  BY <1>6, <1>7, <1>8, <1>9, <1>10, <1>11, <1>12, <1>13, <1>14, <1>15, <1>16, <1>17 DEF WorkerStep

LEMMA SessionInit == Init => SessionInv
BY NoMsgFields DEF Init, LinkInit, TimersInit, BrokerInit, SessionInv, CalledFromMain,
   StoredConnect, ConnackAwaited, KeptInSession, NothingToSend, EmptyMap

LEMMA SessionNext == IInv /\ SessionInv /\ [Next]_vars => SessionInv'
<1> SUFFICES ASSUME IInv, SessionInv, [Next]_vars PROVE SessionInv'
  OBVIOUS
<1>1. CASE UNCHANGED vars
  BY <1>1 DEF vars, linkVars, timerVars, brokerVars, guiVars, SessionInv, CalledFromMain,
      StoredConnect, ConnackAwaited, Connacks, KeptInSession, NothingToSend, Connecting
<1> QED
  BY <1>1, SessionUser, SessionGui, SessionWorker, SessionTimer, SessionBroker DEF Next

-----------------------------------------------------------------------------
(* The client implements Publishing.                                       *)

Assured == { issued[i].content : i \in PublishIds }

Delivered == { c \in Contents : delivered[c] > 0 }

\* A step that Publishing does not see.
LEMMA PromiseStutters ==
  ASSUME UNCHANGED << used, saved, Assured, KeptContents, Delivered >>,
         mapState' = "live" <=> mapState = "live"
  PROVE  UNCHANGED Promise!publishingVars
BY DEF Promise!publishingVars, Assured, Delivered

\* The end of the retransmission map.
LEMMA PromiseEnds ==
  ASSUME UNCHANGED << used, saved, Assured, Delivered >>, mapState' # "live",
         KeptContents' \subseteq KeptContents
  PROVE  Promise!PublishingNext
<1>1. Promise!End
  BY DEF Promise!End, Assured, Delivered
<1> QED
  BY <1>1 DEF Promise!PublishingNext

\* What does not change the map and the hands of the GTK thread.
LEMMA KeptSame ==
  ASSUME UNCHANGED << guiMsg, messages_map >> PROVE KeptContents' = KeptContents
BY DEF KeptContents

\* What does not touch a PUBLISH of the map.
LEMMA KeptRemoved ==
  ASSUME TypeOK, UNCHANGED guiMsg, NEW i \in Ids, messages_map' = removed(i),
         messages_map[i].type # "PUBLISH"
  PROVE  KeptContents' = KeptContents
<1>1. messages_map \in [ Ids -> Packet ]
  BY DEF TypeOK, TimersTypeOK
<1>2. \A j \in Ids : messages_map'[j] = IF j = i THEN NoMsg ELSE messages_map[j]
  BY <1>1 DEF removed
<1>3. \A c : (\E j \in Ids : messages_map'[j].type = "PUBLISH" /\ messages_map'[j].content = c)
         <=> (\E j \in Ids : messages_map[j].type = "PUBLISH" /\ messages_map[j].content = c)
  BY <1>2, NoMsgFields
<1> QED
  BY <1>3 DEF KeptContents

\* The threads of MqttTimers only take copies.
LEMMA PromiseTimer == ASSUME TimerStep PROVE UNCHANGED Promise!publishingVars
<1>1. UNCHANGED << brokerVars, restOfClient, messages_map, mapState >>
  BY DEF TimerStep, Timer, connect_task, ping_task, message_resend_task, TimerFires,
     TimerReadsFreedMap, timerVars
<1>2. UNCHANGED << used, saved, guiMsg, issued, delivered, messages_map, mapState >>
  BY <1>1 DEF brokerVars, restOfClient, guiVars, storeVars
<1> QED
  BY <1>2, KeptSame, PromiseStutters DEF Assured, PublishIds, Delivered

\* The broker passes on what the user has published, and nothing else.
LEMMA PromiseBroker ==
  ASSUME IInv, BrokerStep
  PROVE  Promise!PublishingNext \/ UNCHANGED Promise!publishingVars
<1>1. /\ UNCHANGED << used, saved, guiMsg, issued, messages_map, mapState >>
      /\ UNCHANGED << Assured, KeptContents >>
  <2>1. UNCHANGED << timerVars, restOfClient >>
    BY DEF BrokerStep, Broker
  <2>2. UNCHANGED << used, saved, guiMsg, issued, messages_map, mapState >>
    BY <2>1 DEF timerVars, restOfClient, guiVars, storeVars
  <2> QED
    BY <2>2, KeptSame DEF Assured, PublishIds
<1>2. BrokerTypeOK
  BY DEF IInv, TypeOK
<1>3. ASSUME NEW c \in used, deliver(c) PROVE Promise!PublishingNext
  <2>1. c \in Contents
    BY DEF IInv, TypeOK
  <2>2. \A d \in Contents : d # c => delivered'[d] = delivered[d]
    BY <1>2, <1>3 DEF BrokerTypeOK, deliver
  <2>3. Delivered' = Delivered \cup {c}
    BY <1>2, <1>3, <2>1, <2>2, DeliverFacts DEF Delivered
  <2>4. Promise!PassOn(c)
    BY <1>1, <2>3 DEF Promise!PassOn, Assured, Delivered
  <2> QED
    BY <2>1, <2>4 DEF Promise!PublishingNext
<1>4. CASE UNCHANGED delivered
  BY <1>1, <1>4, PromiseStutters DEF Delivered
<1>5. CASE Broker(BrokerReads)
  <2>1. PICK m \in Outgoing : m = Head(outbox)
    BY <1>5, SeqTake DEF IInv, Broker, BrokerReads
  <2>2. \/ UNCHANGED delivered
        \/ m.type = "PUBLISH" /\ deliver(m.content)
        \/ m.type = "PUBREL" /\ bHeld[m.id] # NoMsg /\ deliver(bHeld[m.id].content)
    BY <1>5, <2>1
    DEF Broker, BrokerReads, ReadConnect, ReadBeforeConnect, ReadSubscribe, ReadUnsubscribe,
        ReadPublish, ReadPubrel, ReadAck, ReadPingreq, ReadDisconnect, brokerVars
  <2>3. m.type = "PUBLISH" => m.content \in used
    BY DEF Outgoing
  <2>4. m.type = "PUBREL" /\ bHeld[m.id] # NoMsg => bHeld[m.id].content \in used
    <3>1. m.id \in Ids
      BY DEF Outgoing, Packet
    <3> QED
      BY <3>1, PublishFacts DEF IInv, HeldOK
  <2> QED
    BY <1>3, <1>4, <2>2, <2>3, <2>4
<1> QED
  BY <1>4, <1>5 DEF BrokerStep, Broker, BrokerPublishes, BrokerCloses, BrokerSendsUnacceptable

\* A message gets into the history.
LEMMA PromiseSaves ==
  ASSUME UNCHANGED << used, mapState, Assured, Delivered >>,
         NEW c \in KeptContents, c \in Assured => c \in Delivered,
         saved \in [ Contents -> Nat ], saved[c] = 0, save_message(c),
         KeptContents' = KeptContents \ {c}
  PROVE  Promise!PublishingNext
<1>1. c \in Contents
  BY DEF KeptContents
<1>2. saved' = [ saved EXCEPT ![c] = 1 ]
  BY <1>1 DEF save_message
<1>3. Promise!Save(c)
  BY <1>2 DEF Promise!Save, Assured, Delivered
<1> QED
  BY <1>1, <1>3 DEF Promise!PublishingNext

\* The worker: the PUBACK or PUBCOMP of a message, and the end of the connection.
LEMMA PromiseWorker ==
  ASSUME IInv, WorkerStep
  PROVE  Promise!PublishingNext \/ UNCHANGED Promise!publishingVars
<1>1. /\ messages_map \in [ Ids -> Packet ] /\ saved \in [ Contents -> Nat ]
      /\ inbox \in Seq(Arriving) /\ TypeOK
  BY DEF IInv, TypeOK, TimersTypeOK
<1>2. UNCHANGED << used, issued, guiMsg, delivered >> /\ UNCHANGED << Assured, Delivered >>
  <2>1. UNCHANGED << used, issued, guiMsg, delivered >>
    BY DEF WorkerStep, rx_connack, rx_connack_timers, rx_publish, rx_publish_done, rx_pubrec,
       rx_pubrel, rx_suback, rx_unsuback, rx_pingresp, rx_unacceptable, raw_close,
       service_task_ends, guiVars, brokerVars
  <2> QED
    BY <2>1 DEF Assured, PublishIds, Delivered
<1>3. ASSUME UNCHANGED << saved, messages_map, mapState >>
      PROVE  UNCHANGED Promise!publishingVars
  BY <1>2, <1>3, KeptSame, PromiseStutters
<1>4. ASSUME NEW types, Rx(types)
      PROVE  Head(inbox) \in Arriving /\ Head(inbox).type \in types
  BY <1>1, <1>4, SeqTake DEF Rx
<1>5. ASSUME NEW i \in Ids, messages_map' = removed(i), messages_map[i].type # "PUBLISH",
             UNCHANGED << saved, mapState >>
      PROVE  UNCHANGED Promise!publishingVars
  BY <1>1, <1>2, <1>5, KeptRemoved, PromiseStutters
<1>6. CASE rx_connack
  <2>1. 0 \in Ids /\ messages_map' = removed(0) /\ UNCHANGED << saved, mapState >>
    BY <1>6, IdFacts DEF rx_connack
  <2>2. messages_map[0].type # "PUBLISH"
    BY <2>1, NoMsgFields, BuildFields DEF IInv, MapOK, IssuedOK
  <2> QED
    BY <1>5, <2>1, <2>2
<1>7. CASE rx_suback \/ rx_unsuback
  <2>1. Head(inbox) \in Arriving /\ Head(inbox).type \in { "SUBACK", "UNSUBACK" }
    BY <1>4, <1>7 DEF rx_suback, rx_unsuback
  <2>2. PICK i \in Ids : i = Head(inbox).id
    BY <2>1, ArrivingFacts
  <2>3. messages_map[i].type # "PUBLISH"
    BY <2>1, <2>2, ArrivingFacts, NoMsgFields DEF IInv, MapOK
  <2>4. UNCHANGED << saved, mapState >> /\ messages_map' \in { messages_map, removed(i) }
    BY <1>7, <2>2 DEF rx_suback, rx_unsuback
  <2> QED
    BY <1>3, <1>5, <2>3, <2>4
<1>8. CASE rx_publish_done
  <2>1. Head(inbox) \in Arriving /\ Head(inbox).type \in { "PUBACK", "PUBCOMP" }
    BY <1>4, <1>8 DEF rx_publish_done
  <2>2. PICK i \in Ids : i = Head(inbox).id
    BY <2>1, ArrivingFacts
  <2>3. i \in PublishIds /\ Passed(i)
    BY <2>1, <2>2, ArrivingFacts DEF PublishIds
  <2>4. CASE Matched = NoMsg
    BY <1>3, <1>8, <2>4 DEF rx_publish_done
  <2>5. CASE Matched # NoMsg
    <3> DEFINE c == issued[i].content
    <3>1. messages_map[i] # NoMsg /\ messages_map' = removed(i) /\ UNCHANGED mapState
          /\ save_message(messages_map[i].content)
      BY <1>8, <2>2, <2>5 DEF rx_publish_done, Matched, get_message_from_map
    <3>2. messages_map[i] = issued[i] /\ issued[i].type = "PUBLISH" /\ c \in Contents
      BY <2>3, <3>1, PublishFacts DEF IInv, MapOK, PublishIds
    <3>3. c \in KeptContents /\ saved[c] = 0 /\ save_message(c) /\ c \in Delivered
      BY <2>3, <3>1, <3>2 DEF KeptContents, IInv, SavedOK, Delivered, Passed
    <3>4. \A j \in Ids : messages_map'[j] = IF j = i THEN NoMsg ELSE messages_map[j]
      BY <1>1, <3>1 DEF removed
    <3>5. \A j \in Ids : messages_map[j].type = "PUBLISH" /\ j # i => messages_map[j].content # c
      <4> SUFFICES ASSUME NEW j \in Ids, messages_map[j].type = "PUBLISH", j # i
                   PROVE  messages_map[j].content # c
        OBVIOUS
      <4>1. messages_map[j] = issued[j] /\ j \in PublishIds
        BY NoMsgFields DEF IInv, MapOK, PublishIds
      <4> QED
        BY <2>3, <4>1 DEF IInv, ContentsDistinct
    <3>6. guiMsg.type = "PUBLISH" => guiMsg.content # c
      <4> SUFFICES ASSUME guiMsg.type = "PUBLISH" PROVE guiMsg.content # c
        OBVIOUS
      <4>1. gui = "pub_add"
        BY NoMsgFields, BuildFields DEF IInv, GuiOK, TypeOK, GuiSteps, Connecting
      <4>2. CASE guiMsg.qos = 0
        BY <2>3, <4>1, <4>2 DEF IInv, PubAddOK
      <4>3. CASE guiMsg.qos # 0
        <5>1. guiMsg = issued[guiMsg.id] /\ messages_map[guiMsg.id] = NoMsg /\ guiMsg.id \in Ids
          BY <1>1, <4>1, <4>3 DEF IInv, PubAddOK, TypeOK, Packet
        <5>2. guiMsg.id # i /\ guiMsg.id \in PublishIds
          BY <3>1, <5>1 DEF PublishIds
        <5> QED
          BY <2>3, <5>1, <5>2 DEF IInv, ContentsDistinct
      <4> QED
        BY <4>2, <4>3
    <3> HIDE DEF c
    <3>7. KeptContents' = KeptContents \ {c}
      <4>1. ASSUME NEW d \in Contents
            PROVE  (\E j \in Ids : messages_map'[j].type = "PUBLISH"
                                   /\ messages_map'[j].content = d)
                   <=> d # c /\ (\E j \in Ids : messages_map[j].type = "PUBLISH"
                                                /\ messages_map[j].content = d)
        <5>1. CASE d = c
          BY <3>4, <3>5, <5>1, NoMsgFields
        <5>2. CASE d # c
          BY <3>2, <3>4, <5>2, NoMsgFields DEF c
        <5> QED
          BY <5>1, <5>2
      <4>2. \A d \in Contents : (guiMsg.type = "PUBLISH" /\ guiMsg.content = d) => d # c
        BY <3>6
      <4> QED
        BY <1>2, <4>1, <4>2 DEF KeptContents
    <3> QED
      BY <1>1, <1>2, <3>1, <3>3, <3>7, PromiseSaves
  <2> QED
    BY <2>4, <2>5
<1>9. CASE raw_close
  <2>1. CASE connection_established
    BY <1>3, <1>9, <2>1 DEF raw_close, timerVars, storeVars
  <2>2. CASE ~connection_established
    <3>1. /\ mapState' = (IF mapState = "null" THEN "null" ELSE "destroyed")
          /\ messages_map' = EmptyMap /\ saved' = saved
      BY <1>9, <2>2 DEF raw_close, storeVars
    <3>2. KeptContents' \subseteq KeptContents /\ mapState' # "live"
      BY <1>2, <3>1, NoMsgFields DEF KeptContents, EmptyMap
    <3> QED
      BY <1>2, <3>1, <3>2, PromiseEnds
  <2> QED
    BY <2>1, <2>2
<1>10. CASE \/ rx_connack_timers \/ rx_publish \/ rx_pubrec \/ rx_pubrel \/ rx_pingresp
            \/ rx_unacceptable \/ service_task_ends
  <2>1. UNCHANGED << saved, messages_map, mapState >>
    BY <1>10 DEF rx_connack_timers, start_ping_and_message_timer, rx_publish, rx_pubrec,
       rx_pubrel, rx_pingresp, rx_unacceptable, service_task_ends, timerVars, storeVars
  <2> QED
    BY <1>3, <2>1
<1> QED
  BY <1>6, <1>7, <1>8, <1>9, <1>10 DEF WorkerStep

\* The handlers of the GTK thread, after their first step.
LEMMA PromiseGui ==
  ASSUME IInv, SessionInv, GuiStep
  PROVE  Promise!PublishingNext \/ UNCHANGED Promise!publishingVars
<1>1. /\ messages_map \in [ Ids -> Packet ] /\ saved \in [ Contents -> Nat ]
      /\ guiMsg \in Packet /\ guiMsg.id \in Ids
  BY DEF IInv, TypeOK, TimersTypeOK, Packet
<1>2. UNCHANGED << used, issued, delivered >> /\ UNCHANGED << Assured, Delivered >>
  <2>1. UNCHANGED << used, issued, delivered >>
    BY DEF GuiStep, send_connect_fire, send_connect_timer, send_connect_add,
       send_stored_fire, send_publish_add, send_disconnect_ping, send_disconnect_fire,
       send_disconnect_close, brokerVars
  <2> QED
    BY <2>1 DEF Assured, PublishIds, Delivered
<1>3. CASE send_connect_fire \/ send_disconnect_fire \/ send_disconnect_close
  <2>1. UNCHANGED << saved, guiMsg, messages_map, mapState >>
    BY <1>3 DEF send_connect_fire, send_disconnect_fire, send_disconnect_close,
       stop_message_timer, timerVars, storeVars
  <2> QED
    BY <1>2, <2>1, KeptSame, PromiseStutters
<1>4. CASE send_connect_timer
  <2>1. /\ gui = "conn_timer" /\ messages_map' = EmptyMap /\ mapState' = "live"
        /\ UNCHANGED << saved, guiMsg >>
    BY <1>4 DEF send_connect_timer, start_connect_timer, storeVars
  <2>2. NothingToSend
    BY <2>1 DEF SessionInv, KeptInSession, Connecting
  <2>3. KeptContents' = KeptContents
    BY <2>1, <2>2, NoMsgFields DEF KeptContents, NothingToSend, EmptyMap
  <2>4. CASE mapState = "live"
    BY <1>2, <2>1, <2>3, <2>4, PromiseStutters
  <2>5. CASE mapState # "live"
    <3>1. Promise!Begin
      BY <1>2, <2>1, <2>3, <2>5 DEF Promise!Begin, Assured, Delivered
    <3> QED
      BY <3>1 DEF Promise!PublishingNext
  <2> QED
    BY <2>4, <2>5
<1>5. CASE send_connect_add
  <2>1. /\ gui = "conn_add" /\ guiMsg' = NoMsg /\ UNCHANGED << saved, mapState >>
        /\ messages_map' = [ messages_map EXCEPT ![guiMsg.id] = guiMsg ]
    BY <1>5 DEF send_connect_add, add_message_in_map, storeVars
  <2>2. guiMsg.type # "PUBLISH" /\ guiMsg.id = 0
    BY <2>1, BuildFields DEF IInv, GuiOK, Connecting
  <2>3. messages_map[0].type # "PUBLISH"
    BY <1>1, <2>2, NoMsgFields, BuildFields DEF IInv, MapOK, IssuedOK
  <2>4. \A j \in Ids : messages_map'[j] = IF j = 0 THEN guiMsg ELSE messages_map[j]
    BY <1>1, <2>1, <2>2
  <2>5. KeptContents' = KeptContents
    BY <2>1, <2>2, <2>3, <2>4, NoMsgFields DEF KeptContents
  <2> QED
    BY <1>2, <2>1, <2>5, PromiseStutters
<1>6. CASE send_stored_fire
  <2>1. /\ gui = "sub_fire" /\ guiMsg' = NoMsg /\ UNCHANGED << saved, mapState, messages_map >>
    BY <1>6 DEF send_stored_fire, timerVars, storeVars
  <2>2. guiMsg.type # "PUBLISH"
    BY <2>1 DEF IInv, GuiOK
  <2>3. KeptContents' = KeptContents
    BY <2>1, <2>2, NoMsgFields DEF KeptContents
  <2> QED
    BY <1>2, <2>1, <2>3, PromiseStutters
<1>7. CASE send_publish_add
  <2> DEFINE c == guiMsg.content
  <2>1. gui = "pub_add" /\ guiMsg' = NoMsg /\ mapState' = mapState
    BY <1>7 DEF send_publish_add, add_message_in_map, timerVars
  <2>2. guiMsg.type = "PUBLISH" /\ c \in Contents /\ c \in used /\ saved[c] = 0
    BY <2>1 DEF IInv, PubAddOK, TypeOK
  <2>3. CASE SavedAtOnce(guiMsg)
    <3>1. save_message(c) /\ messages_map' = messages_map
      BY <1>7, <2>3 DEF send_publish_add, timerVars
    <3>2. \A j \in PublishIds : issued[j].content # c
      BY <2>1, <2>3 DEF IInv, PubAddOK, SavedAtOnce
    <3>3. \A j \in Ids : messages_map[j].type = "PUBLISH" => messages_map[j].content # c
      <4> SUFFICES ASSUME NEW j \in Ids, messages_map[j].type = "PUBLISH"
                   PROVE  messages_map[j].content # c
        OBVIOUS
      <4>1. messages_map[j] = issued[j] /\ j \in PublishIds
        BY NoMsgFields DEF IInv, MapOK, PublishIds
      <4> QED
        BY <3>2, <4>1
    <3>4. c \in KeptContents /\ c \notin Assured
      BY <2>2, <3>2 DEF KeptContents, Assured
    <3>5. KeptContents' = KeptContents \ {c}
      BY <2>1, <2>2, <3>1, <3>3, NoMsgFields DEF KeptContents
    <3> HIDE DEF c
    <3> QED
      BY <1>1, <1>2, <2>1, <2>2, <3>1, <3>4, <3>5, PromiseSaves
  <2>4. CASE ~SavedAtOnce(guiMsg)
    <3>1. messages_map' = [ messages_map EXCEPT ![guiMsg.id] = guiMsg ] /\ saved' = saved
      BY <1>7, <2>4 DEF send_publish_add, add_message_in_map, storeVars
    <3>2. messages_map[guiMsg.id] = NoMsg
      BY <2>1, <2>4 DEF IInv, PubAddOK, SavedAtOnce
    <3>3. \A j \in Ids : messages_map'[j] = IF j = guiMsg.id THEN guiMsg ELSE messages_map[j]
      BY <1>1, <3>1
    <3>4. KeptContents' = KeptContents
      BY <1>1, <2>1, <2>2, <3>2, <3>3, NoMsgFields DEF KeptContents
    <3> QED
      BY <1>2, <2>1, <3>1, <3>4, PromiseStutters
  <2> QED
    BY <2>3, <2>4
<1>8. CASE send_disconnect_ping
  <2>1. /\ mapState' = (IF mapState = "null" THEN "null" ELSE "destroyed")
        /\ messages_map' = EmptyMap /\ UNCHANGED << saved, guiMsg >>
    BY <1>8 DEF send_disconnect_ping, stop_ping_timer, storeVars
  <2>2. KeptContents' \subseteq KeptContents /\ mapState' # "live"
    BY <2>1, NoMsgFields DEF KeptContents, EmptyMap
  <2> QED
    BY <1>2, <2>1, <2>2, PromiseEnds
<1> QED
  BY <1>3, <1>4, <1>5, <1>6, <1>7, <1>8 DEF GuiStep

\* The user: send_publish takes a message, nothing else of the user's does.
LEMMA PromiseUser ==
  ASSUME IInv, UserStep
  PROVE  Promise!PublishingNext \/ UNCHANGED Promise!publishingVars
<1>1. /\ messages_map \in [ Ids -> Packet ] /\ issued \in [ Ids -> Packet ]
      /\ gui = "idle" => guiMsg = NoMsg
  BY DEF IInv, TypeOK, TimersTypeOK, GuiOK
<1>2. CASE LogIn
  <2>1. /\ gui = "idle" /\ guiMsg' = Connect /\ issued' = [ issued EXCEPT ![0] = Connect ]
        /\ UNCHANGED << used, saved, messages_map, mapState, delivered >>
    BY <1>2 DEF LogIn, NewConnection, timerVars, storeVars
  <2>2. \A i \in Ids : issued'[i] = IF i = 0 THEN Connect ELSE issued[i]
    BY <1>1, <2>1
  <2>3. PublishIds' = PublishIds /\ \A i \in PublishIds : issued'[i] = issued[i]
    <3>1. \A i \in PublishIds : i # 0
      BY PublishFacts DEF IInv
    <3> QED
      BY <2>2, <3>1, BuildFields DEF PublishIds
  <2>4. UNCHANGED << Assured, Delivered >>
    BY <2>1, <2>3 DEF Assured, Delivered
  <2>5. KeptContents' = KeptContents
    BY <1>1, <2>1, NoMsgFields, BuildFields DEF KeptContents
  <2> QED
    BY <2>1, <2>4, <2>5, PromiseStutters
<1>3. ASSUME NEW m, MayIssue, send_stored(m), m.id = NextId,
             m.type \in { "SUBSCRIBE", "UNSUBSCRIBE" }
      PROVE  UNCHANGED Promise!publishingVars
  <2>1. /\ NextId \in Ids /\ messages_map[NextId] = NoMsg /\ NextId \notin PublishIds
    BY <1>3, FreshId
  <2>2. /\ gui = "idle" /\ guiMsg' = m /\ issued' = [ issued EXCEPT ![NextId] = m ]
        /\ messages_map' = [ messages_map EXCEPT ![NextId] = m ]
        /\ UNCHANGED << used, saved, mapState, delivered >>
    BY <1>3 DEF MayIssue, send_stored, add_message_in_map, brokerVars, storeVars
  <2> HIDE DEF NextId
  <2>3. /\ \A i \in Ids : issued'[i] = IF i = NextId THEN m ELSE issued[i]
        /\ \A i \in Ids : messages_map'[i] = IF i = NextId THEN m ELSE messages_map[i]
    BY <1>1, <2>1, <2>2
  <2>4. PublishIds' = PublishIds /\ \A i \in PublishIds : issued'[i] = issued[i]
    BY <1>3, <2>1, <2>3 DEF PublishIds
  <2>5. UNCHANGED << Assured, Delivered >>
    BY <2>2, <2>4 DEF Assured, Delivered
  <2>6. KeptContents' = KeptContents
    BY <1>1, <1>3, <2>1, <2>2, <2>3, NoMsgFields DEF KeptContents
  <2> QED
    BY <2>2, <2>5, <2>6, PromiseStutters
<1>4. ASSUME NEW t \in Topics, send_subscribe(t) \/ send_unsubscribe(t)
      PROVE  UNCHANGED Promise!publishingVars
  <2>1. CASE send_subscribe(t)
    BY <1>3, <2>1, BuildFields DEF send_subscribe
  <2>2. CASE send_unsubscribe(t)
    BY <1>3, <2>2, BuildFields DEF send_unsubscribe
  <2> QED
    BY <1>4, <2>1, <2>2
<1>5. ASSUME NEW c \in Contents, NEW t \in Topics, NEW q \in UserQoS, send_publish(c, t, q)
      PROVE  Promise!PublishingNext
  <2>1. PICK m : m = Publish(IF q = 0 THEN 0 ELSE NextId, t, q, c)
    OBVIOUS
  <2>2. m.type = "PUBLISH" /\ m.content = c
    BY <2>1, BuildFields
  <2>3. /\ gui = "idle" /\ c \notin used /\ used' = used \cup {c} /\ guiMsg' = m
        /\ issued' \in { issued, [ issued EXCEPT ![NextId] = m ] } /\ MayIssue
        /\ UNCHANGED << saved, messages_map, mapState, delivered >>
    BY <1>5, <2>1 DEF send_publish, MayIssue, timerVars, brokerVars, storeVars
  <2>4. NextId \in Ids /\ NextId \notin PublishIds
    BY <2>3, FreshId
  <2> HIDE DEF NextId
  <2>5. Assured' \in { Assured, Assured \cup {c} }
    <3>1. CASE issued' = issued
      BY <3>1 DEF Assured, PublishIds
    <3>2. CASE issued' = [ issued EXCEPT ![NextId] = m ]
      <4>1. \A i \in Ids : issued'[i] = IF i = NextId THEN m ELSE issued[i]
        BY <1>1, <2>4, <3>2
      <4>2. PublishIds' = PublishIds \cup {NextId}
        BY <2>2, <2>4, <4>1 DEF PublishIds
      <4>3. \A i \in PublishIds : issued'[i] = issued[i]
        BY <2>4, <4>1 DEF PublishIds
      <4> QED
        BY <2>2, <2>4, <4>1, <4>2, <4>3 DEF Assured
    <3> QED
      BY <2>3, <3>1, <3>2
  <2>6. KeptContents' = KeptContents \cup {c}
    BY <1>1, <2>2, <2>3, NoMsgFields DEF KeptContents
  <2>7. Promise!Publish(c)
    BY <2>3, <2>5, <2>6 DEF Promise!Publish, Assured, Delivered
  <2> QED
    BY <2>7 DEF Promise!PublishingNext
<1>6. CASE log_out_handle
  <2>1. UNCHANGED << used, saved, issued, guiMsg, messages_map, mapState, delivered >>
    BY <1>6 DEF log_out_handle, timerVars, brokerVars
  <2> QED
    BY <2>1, KeptSame, PromiseStutters DEF Assured, PublishIds, Delivered
<1> QED
  BY <1>2, <1>4, <1>5, <1>6 DEF UserStep

\* The client keeps the promise of Publishing: until its session ends it drops
\* no message, and each gets into the history once, a QoS 1 or 2 message only
\* after the broker has passed it on.
THEOREM MqttKeepsPromiseHolds == Spec => MqttKeepsPromise
<1>1. Init => Promise!PublishingInit
  <2> SUFFICES ASSUME Init PROVE Promise!PublishingInit
    OBVIOUS
  <2>1. /\ used = {} /\ mapState # "live" /\ saved = [ c \in Contents |-> 0 ]
        /\ PublishIds = {} /\ KeptContents = {} /\ Delivered = {}
    BY NoMsgFields DEF Init, TimersInit, BrokerInit, PublishIds, KeptContents, Delivered,
       EmptyMap
  <2> QED
    BY <2>1 DEF Promise!PublishingInit, Delivered
<1>2. IInv /\ SessionInv /\ [Next]_vars => [Promise!PublishingNext]_(Promise!publishingVars)
  <2> SUFFICES ASSUME IInv, SessionInv, [Next]_vars
               PROVE  Promise!PublishingNext \/ UNCHANGED Promise!publishingVars
    OBVIOUS
  <2>1. CASE UNCHANGED vars
    <3>1. UNCHANGED << used, saved, issued, guiMsg, messages_map, mapState, delivered >>
      BY <2>1 DEF vars, guiVars, storeVars, timerVars, brokerVars
    <3> QED
      BY <3>1, KeptSame, PromiseStutters DEF Assured, PublishIds, Delivered
  <2> QED
    BY <2>1, PromiseUser, PromiseGui, PromiseWorker, PromiseTimer, PromiseBroker DEF Next
<1> QED
  BY <1>1, <1>2, InitInv, NextInv, SessionInit, SessionNext, PTL
  DEF Spec, MqttKeepsPromise, Promise!PublishingSpec
=============================================================================
