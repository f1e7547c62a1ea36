------------------------------- MODULE Codecs -------------------------------
(***************************************************************************)
(* The four binary codecs between the client and its peer.  The client     *)
(* hands one message at a time to the network layer; the peer's messages   *)
(* come in the layout of the standard, over TCP (MQTT, AMQP) several of    *)
(* them in one read, over UDP (MQTT-SN, CoAP) one in a datagram.           *)
(*                                                                         *)
(* What the client sends is laid out as the standard says but for three    *)
(* things: MQTT's PINGREQ and DISCONNECT have 2 in their reserved flags,   *)
(* CoAP's marker stands before an empty payload, too, and the size of an   *)
(* AMQP list does not count the bytes of its count (but END's and CLOSE's).*)
(***************************************************************************)
EXTENDS Wire

Mqtt == INSTANCE MqttCodec
Sn == INSTANCE SnCodec
Coap == INSTANCE CoapCodec
Amqp == INSTANCE AmqpCodec

CONSTANTS
  MqttOut, SnOut, CoapOut, AmqpOut,  \* what the client sends
  MqttIn, SnIn, CoapIn, AmqpIn,      \* what the peer sends
  ReadBound                          \* bound on the messages of one read
ASSUME ReadBound \in Nat \ {0}

VARIABLES
  sent, out,    \* what the client sent last, and the bytes and length it fired
  coming, wire, \* the peer's messages that are not read, and their bytes
  read, got     \* the messages of the last read, and what became of them

vars == << sent, out, coming, wire, read, got >>

Nothing == [ proto |-> "none" ]
NoBytes == [ buf |-> << >>, fired |-> 0 ]
Packet(proto, m) == [ proto |-> proto, m |-> m ]

Packets(mqtt, sn, coap, amqp) ==
  { Packet("mqtt", m) : m \in mqtt } \cup { Packet("sn", m) : m \in sn }
    \cup { Packet("coap", m) : m \in coap } \cup { Packet("amqp", m) : m \in amqp }

ToSend == Packets(MqttOut, SnOut, CoapOut, AmqpOut)
ToReceive == Packets(MqttIn, SnIn, CoapIn, AmqpIn)

Init ==
  /\ sent = Nothing /\ out = NoBytes
  /\ coming = << >> /\ wire = << >>
  /\ read = << >> /\ got = << >>

\* the encode_and_fire of the protocol
ClientSends(p) ==
  /\ sent = Nothing /\ coming = << >> /\ read = << >>
  /\ sent' = p
  /\ out' = CASE p.proto = "mqtt" -> Mqtt!encode_and_fire(p.m)
              [] p.proto = "sn" -> Sn!sn_encode_and_fire(p.m)
              [] p.proto = "coap" -> Coap!coap_encode_and_fire(p.m)
              [] p.proto = "amqp" -> Amqp!amqp_encode_and_fire(p.m)
  /\ UNCHANGED << coming, wire, read, got >>

\* What may stand behind other messages in a read: MQTT's short packets, for
\* mqtt_data_received takes one byte for their length (the bound: longer ones
\* come first); behind AMQP's protocol header its mechanisms.
MayFollow(p) ==
  /\ \A k \in DOMAIN coming : coming[k].proto = p.proto
  /\ CASE p.proto = "mqtt" -> Size(Mqtt!Body(p.m)) < 128
       [] p.proto = "amqp" -> IF coming[1].m.type = "PROTO"
                              THEN p.m.type = "MECHANISMS" /\ Len(coming) = 1
                              ELSE p.m.type # "PROTO"
       [] OTHER -> FALSE

\* A message of the peer arrives behind those that are not read.
PeerSends(p) ==
  /\ sent = Nothing /\ read = << >>
  /\ Len(coming) < ReadBound
  /\ coming # << >> => MayFollow(p)
  /\ coming' = Append(coming, p)
  /\ wire' = wire \o CASE p.proto = "mqtt" -> Mqtt!Layout(p.m)
                       [] p.proto = "sn" -> Sn!Layout(p.m)
                       [] p.proto = "coap" -> Coap!Layout(p.m, FALSE)
                       [] p.proto = "amqp" -> Amqp!Layout(p.m, 0)
  /\ UNCHANGED << sent, out, read, got >>

\* what the network layer read, taken apart, and each part decoded
Parts(proto, buf) == CASE proto = "mqtt" -> Mqtt!mqtt_data_received(buf)
                       [] proto = "amqp" -> Amqp!amqp_data_received(buf)
                       [] OTHER -> << buf >>

Decoded(proto, buf) == CASE proto = "mqtt" -> Mqtt!decode(buf)
                         [] proto = "sn" -> Sn!sn_decode(buf)
                         [] proto = "coap" -> Coap!coap_decode(buf)
                         [] proto = "amqp" -> Amqp!amqp_decode(buf)

DataReceived ==
  /\ coming # << >>
  /\ read' = coming
  /\ LET proto == Head(coming).proto
     IN  got' = With(Parts(proto, Loaded(wire)), LAMBDA parts :
                     [ k \in DOMAIN parts |-> Decoded(proto, parts[k]) ])
  /\ coming' = << >> /\ wire' = << >>
  /\ UNCHANGED << sent, out >>

\* the bytes are fired, the messages handled
Done ==
  /\ sent # Nothing \/ read # << >>
  /\ sent' = Nothing /\ out' = NoBytes
  /\ read' = << >> /\ got' = << >>
  /\ UNCHANGED << coming, wire >>

Next ==
  \/ \E p \in ToSend : ClientSends(p)
  \/ \E p \in ToReceive : PeerSends(p)
  \/ DataReceived
  \/ Done

Spec == Init /\ [][Next]_vars

-----------------------------------------------------------------------------
(* Properties.                                                             *)

\* the standard's layout of p, with the three deviations of the encoders
Expected(p) ==
  CASE p.proto = "mqtt" ->
         IF p.m.type \in Mqtt!Bare THEN << Byte(16 * Mqtt!Code[p.m.type] + 2), Byte(0) >>
         ELSE Mqtt!Layout(p.m)
    [] p.proto = "sn" -> Sn!Layout(p.m)
    [] p.proto = "coap" -> Coap!Layout(p.m, TRUE)
    [] p.proto = "amqp" -> Amqp!Layout(p.m, IF p.m.type \in { "END", "CLOSE" } THEN 0 ELSE 1)

\* What the client hands to the network layer is the message in the layout of
\* its standard, byte for byte but for the three deviations named above, with
\* its exact length: computed beforehand by get_length and sn_get_length, read
\* back from the header by encode_and_fire, and no more than coap_encode has
\* allocated (parser.c:45, sn_parser.c:90, coap_parser.c:26, amqp_parser.c:119).
SentIsStandard ==
  sent # Nothing =>
    /\ out.buf = Expected(sent)
    /\ out.fired = Size(out.buf)
    /\ sent.proto = "coap" => Size(out.buf) <= Coap!buf_size(sent.m)

\* What the decoders leave unset: the packet id of a QoS 0 PUBLISH, the
\* payload of a CoAP message without one, the target of an ATTACH, the code of
\* a PING.
Readable(p) ==
  CASE p.proto = "mqtt" /\ p.m.type = "PUBLISH" /\ p.m.qos = 0 -> [ p.m EXCEPT !.packet_id = Junk ]
    [] p.proto = "coap" /\ p.m.payload = Empty -> [ p.m EXCEPT !.payload = JunkText ]
    [] p.proto = "amqp" /\ p.m.type = "ATTACH" ->
         [ p.m EXCEPT !.args = [ k \in DOMAIN @ |-> IF k = 7 THEN Amqp!Null ELSE @[k] ] ]
    [] p.proto = "amqp" /\ p.m.type = "PING" -> [ p.m EXCEPT !.type = "unset" ]
    [] OTHER -> p.m

\* Every read is taken apart into the peer's messages, none lost, none split
\* and each with the values it was sent with, however many of them the network
\* delivered at once (mqtt_client.c:263, amqp_client.c:486, sn_parser.c:785,
\* coap_parser.c:119).
ReceivedIsRead == got = [ k \in DOMAIN read |-> Readable(read[k]) ]
=============================================================================
