---------------------------- MODULE MqttPackets ----------------------------
(***************************************************************************)
(* The MQTT control packets of src/mqtt/packets/*.h, as far as the client  *)
(* tells them apart: the type, the packet identifier, the topic, the QoS,  *)
(* the payload and the return code.  A field that a packet type does not   *)
(* have holds None, 0 or TRUE.  Wording, flags and lengths are left to     *)
(* MqttFraming.                                                            *)
(***************************************************************************)
EXTENDS TopicList

CONSTANTS
  Contents,     \* payloads the user can publish, each at most once
  MaxPackets,   \* bound on ++current_packet_number over the whole run
  IdMod         \* 2^16 in the code: struct packets hold an unsigned short

ASSUME PacketBounds == /\ MaxPackets \in Nat
                       /\ IdMod \in Nat \ {0}

(***************************************************************************)
(* The results of this development are about runs that issue fewer packets *)
(* than there are identifiers: at the wrap an identifier is reused, and 0, *)
(* the key of the CONNECT in the retransmission map, is given to a packet. *)
(***************************************************************************)
ASSUME NoIdWrap == MaxPackets < IdMod

Ids == 0 .. (IdMod - 1)

None == "none"
ASSUME NoneIsNoData == None \notin Contents /\ None \notin Topics

QoS == 0 .. 2

MessageType == { "CONNECT", "CONNACK", "PUBLISH", "PUBACK", "PUBREC",
                 "PUBREL", "PUBCOMP", "SUBSCRIBE", "SUBACK", "UNSUBSCRIBE",
                 "UNSUBACK", "PINGREQ", "PINGRESP", "DISCONNECT" }

\* `ok' is return_code = ACCEPTED of a CONNACK, codes[0] # FAILURE of a SUBACK
Packet == [ type : MessageType, id : Ids, topic : Topics \cup {None},
            qos : QoS, content : Contents \cup {None}, ok : BOOLEAN ]

Build(type, i, t, q, c, ok) ==
  [ type |-> type, id |-> i, topic |-> t, qos |-> q, content |-> c, ok |-> ok ]

Answer(type, i, ok) == Build(type, i, None, 0, None, ok)

Connect == Build("CONNECT", 0, None, 0, None, TRUE)
Pingreq == Build("PINGREQ", 0, None, 0, None, TRUE)
Disconnect == Build("DISCONNECT", 0, None, 0, None, TRUE)

\* the QoS asked for only reaches a label, and is left out
Subscribe(i, t) == Build("SUBSCRIBE", i, t, 0, None, TRUE)
Unsubscribe(i, t) == Build("UNSUBSCRIBE", i, t, 0, None, TRUE)
Publish(i, t, q, c) == Build("PUBLISH", i, t, q, c, TRUE)

\* no packet: NULL, an absent key, an empty hand
NoMsg == Build("PINGRESP", 0, None, 0, None, FALSE)

\* bug variant: every packet is numbered alike
PacketId_constant(n) == 1 % IdMod

\* packet_id = ++current_packet_number, stored in an unsigned short
PacketId(n) == n % IdMod
=============================================================================
