----------------------------- MODULE SnPackets -----------------------------
(***************************************************************************)
(* The MQTT-SN messages of src/mqttsn/packets/*.h, as far as the client    *)
(* tells them apart.  `topic' is a topic name and `tid' a topic id: a      *)
(* SUBSCRIBE or UNSUBSCRIBE has one of the two (NAMED or ID), a REGISTER   *)
(* and a PUBLISH in the client's memory have both.                         *)
(***************************************************************************)
EXTENDS TopicList

CONSTANTS
  Contents,    \* payloads the user can publish, each at most once
  TopicIdOf,   \* the topic id under which the gateway knows each topic
  MaxNumber    \* bound on current_packet_number

ASSUME SnPacketBounds ==
  /\ MaxNumber \in Nat
  /\ MaxNumber < 65536       \* message_id is an unsigned short and must not wrap
  /\ TopicIdOf \in [ Topics -> Nat \ {0} ]
  /\ \A s, t \in Topics : TopicIdOf[s] = TopicIdOf[t] => s = t

None == "none"
ASSUME SnNoneIsNoData == None \notin Contents /\ None \notin Topics

SnIds == 0 .. MaxNumber
TopicIds == { TopicIdOf[t] : t \in Topics }
TopicOf(tid) == CHOOSE t \in Topics : TopicIdOf[t] = tid

SnQoS == 0 .. 2

SnMessageType ==
  { "CONNECT", "CONNACK", "WILL_TOPIC_REQ", "WILL_TOPIC", "WILL_MSG_REQ", "WILL_MSG",
    "REGISTER", "REGACK", "PUBLISH", "PUBACK", "PUBCOMP", "PUBREC", "PUBREL",
    "SUBSCRIBE", "SUBACK", "UNSUBSCRIBE", "UNSUBACK", "PINGREQ", "PINGRESP",
    "DISCONNECT", "ADVERTISE" }

SnPacket == [ type : SnMessageType, id : SnIds, topic : Topics \cup {None},
              tid : TopicIds \cup {0}, qos : SnQoS, content : Contents \cup {None},
              ok : BOOLEAN ]

SnBuild(type, i, t, tid, q, c, ok) ==
  [ type |-> type, id |-> i, topic |-> t, tid |-> tid, qos |-> q, content |-> c, ok |-> ok ]

SnAnswer(type, i, tid, ok) == SnBuild(type, i, None, tid, 0, None, ok)
SnPlain(type) == SnAnswer(type, 0, 0, TRUE)

\* NAMED when the topic has no id yet, ID otherwise
SnSubscribe(i, t, tid) == SnBuild("SUBSCRIBE", i, IF tid = 0 THEN t ELSE None, tid, 0, None, TRUE)
SnUnsubscribe(i, t, tid) == SnBuild("UNSUBSCRIBE", i, IF tid = 0 THEN t ELSE None, tid, 0, None, TRUE)
SnRegister(i, t, tid) == SnBuild("REGISTER", i, t, tid, 0, None, TRUE)
SnPublish(i, t, tid, q, c) == SnBuild("PUBLISH", i, t, tid, q, c, TRUE)

\* NULL, an absent key
SnNoMsg == SnAnswer("ADVERTISE", 0, 0, FALSE)
=============================================================================
