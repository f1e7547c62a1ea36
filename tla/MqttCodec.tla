----------------------------- MODULE MqttCodec -----------------------------
(***************************************************************************)
(* mqtt/parser.c with the length helpers of helpers.c, encode_and_fire and *)
(* mqtt_data_received.  Layout is the reference: how MQTT 3.1.1 lays a     *)
(* packet out.  encode covers the packets the client sends, decode those   *)
(* it accepts; the decoders of CONNECT, SUBSCRIBE and UNSUBSCRIBE and the  *)
(* encoders of CONNACK, SUBACK, UNSUBACK and PINGRESP are dead code.       *)
(***************************************************************************)
EXTENDS Wire

Code == [ CONNECT |-> 1, CONNACK |-> 2, PUBLISH |-> 3, PUBACK |-> 4, PUBREC |-> 5,
          PUBREL |-> 6, PUBCOMP |-> 7, SUBSCRIBE |-> 8, SUBACK |-> 9, UNSUBSCRIBE |-> 10,
          UNSUBACK |-> 11, PINGREQ |-> 12, PINGRESP |-> 13, DISCONNECT |-> 14 ]

Acks == { "PUBACK", "PUBREC", "PUBREL", "PUBCOMP", "UNSUBACK" }
Bare == { "PINGREQ", "PINGRESP", "DISCONNECT" }

Flag(bool, v) == IF bool THEN v ELSE 0

-----------------------------------------------------------------------------
(* Reference: the layout of MQTT 3.1.1.                                    *)

Str(s) == << add_short(s.len) >> \o Chars(s)

VarLen(n) ==
  LET bytes == CHOOSE k \in 1 .. 4 : n < 128 ^ k /\ \A j \in 1 .. k - 1 : n >= 128 ^ j
  IN  [ k \in 1 .. bytes |-> Byte(((n \div 128 ^ (k - 1)) % 128) + Flag(k < bytes, 128)) ]

HeaderFlags(m) ==
  CASE m.type = "PUBLISH" -> Flag(m.dup, 8) + 2 * m.qos + Flag(m.retain, 1)
    [] m.type \in { "PUBREL", "SUBSCRIBE", "UNSUBSCRIBE" } -> 2
    [] OTHER -> 0

ConnectFlags(m) ==
  Flag(m.username.len > 0, 128) + Flag(m.password.len > 0, 64) + Flag(m.clean_session, 2)
    + (IF m.will THEN 4 + 8 * m.qos + Flag(m.retain, 32) ELSE 0)

Body(m) ==
  CASE m.type = "CONNECT" ->
         Str(Text("MQTT", 4)) \o << Byte(4), Byte(ConnectFlags(m)), add_short(m.keepalive) >>
           \o Str(m.client_id)
           \o (IF m.will THEN Str(m.topic) \o Str(m.content) ELSE << >>)
           \o Str(m.username) \o Str(m.password)
    [] m.type = "CONNACK" -> << Byte(m.session_present), Byte(m.return_code) >>
    [] m.type = "PUBLISH" -> Str(m.topic)
                               \o (IF m.qos > 0 THEN << add_short(m.packet_id) >> ELSE << >>)
                               \o Chars(m.content)
    [] m.type \in Acks -> << add_short(m.packet_id) >>
    [] m.type = "SUBSCRIBE" -> << add_short(m.packet_id) >> \o Str(m.topic) \o << Byte(m.qos) >>
    [] m.type = "SUBACK" -> << add_short(m.packet_id), Byte(m.code) >>
    [] m.type = "UNSUBSCRIBE" -> << add_short(m.packet_id) >> \o Str(m.topic)
    [] m.type \in Bare -> << >>

Layout(m) == << Byte(16 * Code[m.type] + HeaderFlags(m)) >> \o VarLen(Size(Body(m))) \o Body(m)

-----------------------------------------------------------------------------
(* Encoding.                                                               *)

\* add_packet_length
add_packet_length(length) ==
  LET rest[l \in Nat] == IF l \div 128 > 0
                         THEN << Byte((l % 128) + 128) >> \o rest[l \div 128]
                         ELSE << Byte(l % 128) >>
  IN  rest[length]

connect_length(c) ==
  10 + c.client_id.len + 2 + (IF c.will THEN c.content.len + c.topic.len + 4 ELSE 0)
     + (IF c.username.len # 0 THEN c.username.len + 2 ELSE 0)
     + (IF c.password.len # 0 THEN c.password.len + 2 ELSE 0)

publish_length(p) == (IF p.packet_id # 0 THEN 2 ELSE 0) + p.topic.len + 2 + p.content.len

get_length(m) ==
  CASE m.type = "CONNECT" -> connect_length(m)
    [] m.type = "PUBLISH" -> publish_length(m)
    [] m.type \in Acks -> 2
    [] m.type = "SUBSCRIBE" -> 2 + m.topic.len + 3
    [] m.type = "UNSUBSCRIBE" -> 2 + m.topic.len + 2
    [] m.type \in Bare -> 0

\* a string with its length, both left out when it is empty
NonEmpty(s) == IF s.len # 0 THEN << add_short(s.len) >> \o Chars(s) ELSE << >>

connect_flags(c) ==
  Flag(c.clean_session, 2)
    + (IF c.will THEN 4 + 8 * c.qos + Flag(c.retain, 32) ELSE 0)
    + Flag(c.username.len # 0, 64) + Flag(c.password.len # 0, 128)

encode_connect(c, length) ==
  << Byte(16) >> \o add_packet_length(length)
    \o << add_short(4) >> \o Chars(Text("MQTT", 4))
    \o << Byte(4), Byte(connect_flags(c)), add_short(c.keepalive), add_short(c.client_id.len) >>
    \o Chars(c.client_id)
    \o (IF c.will THEN NonEmpty(c.topic) \o NonEmpty(c.content) ELSE << >>)
    \o NonEmpty(c.username) \o NonEmpty(c.password)

encode_publish(p, length) ==
  << Byte(16 * Code["PUBLISH"] + Flag(p.dup, 8) + 2 * p.qos + Flag(p.retain, 1)) >>
    \o add_packet_length(length) \o NonEmpty(p.topic)
    \o (IF p.packet_id # 0 THEN << add_short(p.packet_id) >> ELSE << >>)
    \o Chars(p.content)

encode_ack(m, length) ==
  << Byte(16 * Code[m.type] + Flag(m.type = "PUBREL", 2)), Byte(length), add_short(m.packet_id) >>

\* subscribe->topics_number is 1
encode_subscribe(s, length) ==
  << Byte(16 * Code["SUBSCRIBE"] + 2) >> \o add_packet_length(length)
    \o << add_short(s.packet_id) >> \o NonEmpty(s.topic) \o << Byte(s.qos) >>

encode_unsubscribe(u, length) ==
  << Byte(16 * Code["UNSUBSCRIBE"] + 2) >> \o add_packet_length(length)
    \o << add_short(u.packet_id) >> \o NonEmpty(u.topic)

encode_bare(m) == << Byte(16 * Code[m.type] + 2), Byte(0) >>

encode(m, length) ==
  CASE m.type = "CONNECT" -> encode_connect(m, length)
    [] m.type = "PUBLISH" -> encode_publish(m, length)
    [] m.type \in Acks -> encode_ack(m, length)
    [] m.type = "SUBSCRIBE" -> encode_subscribe(m, length)
    [] m.type = "UNSUBSCRIBE" -> encode_unsubscribe(m, length)
    [] m.type \in Bare -> encode_bare(m)

-----------------------------------------------------------------------------
(* Decoding.                                                               *)

\* at most four bytes; the length counts the fixed header, too
decode_remaining_length(buf) ==
  LET read[i \in 1 .. 5] ==
        LET enc == Unsigned(buf, i, 1)
        IN  IF i = 5 THEN [ bytes_used |-> -1, length |-> -1 ]
            ELSE IF enc > 127
            THEN [ bytes_used |-> read[i + 1].bytes_used,
                   length |-> IF read[i + 1].bytes_used = -1 THEN -1
                              ELSE read[i + 1].length + (enc % 128) * 128 ^ (i - 1) ]
            ELSE [ bytes_used |-> i, length |-> enc * 128 ^ (i - 1) + 1 + i ]
  IN  read[1]

\* the packet_id of a QoS 0 message is not set, nor the content of an empty one
decode_publish(buf) ==
  LET ld == decode_remaining_length(buf)
      flags == Unsigned(buf, 0, 1) % 16
      qos == (flags % 8) \div 2
      topic_length == get_short(buf, 1 + ld.bytes_used)
      id_at == 1 + ld.bytes_used + 2 + topic_length
      data_at == IF qos # 0 THEN id_at + 2 ELSE id_at
  IN  IF qos > 2 \/ (flags \div 8 = 1 /\ qos = 0) THEN [ type |-> "PUBLISH" ]
      ELSE [ type |-> "PUBLISH", dup |-> flags \div 8 = 1, qos |-> qos, retain |-> flags % 2 = 1,
             topic |-> get_string(buf, id_at - topic_length, topic_length),
             packet_id |-> IF qos # 0 THEN get_unsigned_short(buf, id_at) ELSE Junk,
             content |-> IF ld.length > data_at
                         THEN get_string(buf, data_at, ld.length - data_at) ELSE JunkText ]

decode_connack(buf) ==
  LET present == get_byte(buf, 2)
      code == get_byte(buf, 3)
  IN  IF present \notin {0, 1} \/ code \notin 0 .. 5 THEN [ type |-> "CONNACK" ]
      ELSE [ type |-> "CONNACK", session_present |-> present, return_code |-> code ]

\* abs of a char: 0x80 is 128, FAILURE; the broker answers one topic with one code
decode_suback(buf) ==
  LET at == 1 + decode_remaining_length(buf).bytes_used
      c == get_byte(buf, at + 2)
      code == IF c < 0 THEN -c ELSE c
  IN  IF code \notin { 0, 1, 2, 128 } THEN [ type |-> "SUBACK" ]
      ELSE [ type |-> "SUBACK", packet_id |-> get_unsigned_short(buf, at), code |-> code ]

decode_ack(buf, type) == [ type |-> type, packet_id |-> get_unsigned_short(buf, 2) ]

TypeOf(buf) == LET code == Unsigned(buf, 0, 1) \div 16
               IN  CHOOSE type \in DOMAIN Code \cup {"junk"} :
                     IF \E t \in DOMAIN Code : Code[t] = code
                     THEN type # "junk" /\ Code[type] = code ELSE type = "junk"

decode(buf) ==
  LET type == TypeOf(buf)
  IN  CASE type = "PUBLISH" -> decode_publish(buf)
        [] type = "CONNACK" -> decode_connack(buf)
        [] type = "SUBACK" -> decode_suback(buf)
        [] type \in Acks -> decode_ack(buf, type)
        [] OTHER -> [ type |-> type ]

\* encode_and_fire: the length given to raw_fire is read back from the header
encode_and_fire(m) ==
  LET buf == encode(m, get_length(m))
  IN  [ buf |-> buf, fired |-> decode_remaining_length(Loaded(buf)).length ]

\* bug variant: the next length is taken from the byte after it
NextLength_off_by_one(buf, i) == get_byte(buf, i + 2) + 2

\* length = buf[i+1] + 2: one byte, signed
NextLength(buf, i) == get_byte(buf, i + 1) + 2

\* mqtt_data_received: what is given to process_rx.  A length below one would
\* never end (the bound: the rest of the read is lost).
mqtt_data_received(buf) ==
  LET bytes == buf.size
      split[i \in 0 .. bytes, length \in Int] ==
        << Cut(buf, i, length) >>
          \o (IF length < 1 \/ i + length >= bytes THEN << >>
              ELSE split[i + length, NextLength(buf, i + length)])
      first == decode_remaining_length(buf).length
  IN  IF first < bytes THEN split[0, first] ELSE << buf >>
=============================================================================
