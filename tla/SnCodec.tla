------------------------------ MODULE SnCodec ------------------------------
(***************************************************************************)
(* mqttsn/sn_parser.c and sn_encode_and_fire.  Layout is the reference:    *)
(* how MQTT-SN 1.2 lays a message out.  sn_encode covers the messages the  *)
(* client sends, sn_decode those it handles; ADVERTISE, SEARCHGW, GWINFO,  *)
(* the WILL_*_UPD and WILL_*_RESP pairs and ENCAPSULATED are never sent    *)
(* and not handled.                                                        *)
(***************************************************************************)
EXTENDS Wire

Code == [ CONNECT |-> 4, CONNACK |-> 5, WILL_TOPIC_REQ |-> 6, WILL_TOPIC |-> 7,
          WILL_MSG_REQ |-> 8, WILL_MSG |-> 9, REGISTER |-> 10, REGACK |-> 11, PUBLISH |-> 12,
          PUBACK |-> 13, PUBCOMP |-> 14, PUBREC |-> 15, PUBREL |-> 16, SUBSCRIBE |-> 18,
          SUBACK |-> 19, UNSUBSCRIBE |-> 20, UNSUBACK |-> 21, PINGREQ |-> 22, PINGRESP |-> 23,
          DISCONNECT |-> 24 ]

Requests == { "WILL_TOPIC_REQ", "WILL_MSG_REQ", "PINGRESP" }
Ids == { "PUBREC", "PUBREL", "PUBCOMP", "UNSUBACK" }
Filters == { "SUBSCRIBE", "UNSUBSCRIBE" }
TopicTypes == [ NAMED |-> 0, ID |-> 1, SHORT |-> 2 ]

Flag(bool, v) == IF bool THEN v ELSE 0

-----------------------------------------------------------------------------
(* Reference: the layout of MQTT-SN 1.2.                                   *)

FlagByte(m) ==
  CASE m.type = "CONNECT" -> Flag(m.will, 8) + Flag(m.clean_session, 4)
    [] m.type = "WILL_TOPIC" -> 32 * m.qos + Flag(m.retain, 16)
    [] m.type = "PUBLISH" -> Flag(m.dup, 128) + 32 * m.qos + Flag(m.retain, 16) + TopicTypes["ID"]
    [] m.type = "SUBSCRIBE" -> 32 * m.qos + TopicTypes[m.topic_type]
    [] m.type = "UNSUBSCRIBE" -> TopicTypes[m.topic_type]
    [] m.type = "SUBACK" -> 32 * m.qos

Body(m) ==
  CASE m.type = "CONNECT" -> << Byte(FlagByte(m)), Byte(1), add_short(m.duration) >> \o Chars(m.client_id)
    [] m.type = "CONNACK" -> << Byte(m.code) >>
    [] m.type = "WILL_TOPIC" -> << Byte(FlagByte(m)) >> \o Chars(m.topic)
    [] m.type = "WILL_MSG" -> Chars(m.content)
    [] m.type = "REGISTER" -> << add_short(m.topic_id), add_short(m.id) >> \o Chars(m.topic)
    [] m.type \in { "REGACK", "PUBACK" } -> << add_short(m.topic_id), add_short(m.id), Byte(m.code) >>
    [] m.type = "PUBLISH" -> << Byte(FlagByte(m)), add_short(m.topic_id), add_short(m.id) >>
                               \o Chars(m.content)
    [] m.type \in Ids -> << add_short(m.id) >>
    [] m.type \in Filters -> << Byte(FlagByte(m)), add_short(m.id) >>
                               \o (IF m.topic_type = "ID" THEN << add_short(m.topic_id) >>
                                   ELSE Chars(m.topic))
    [] m.type = "SUBACK" -> << Byte(FlagByte(m)), add_short(m.topic_id), add_short(m.id), Byte(m.code) >>
    [] m.type = "PINGREQ" -> Chars(m.client_id)
    [] m.type = "DISCONNECT" -> IF m.duration > 0 THEN << add_short(m.duration) >> ELSE << >>
    [] m.type \in Requests -> << >>

\* one length byte if the whole fits into 255 bytes, else 0x01 and two bytes
Layout(m) ==
  LET short == Size(Body(m)) + 2
  IN  (IF short < 256 THEN << Byte(short) >> ELSE << Byte(1), add_short(short + 2) >>)
        \o << Byte(Code[m.type]) >> \o Body(m)

-----------------------------------------------------------------------------
(* Encoding.                                                               *)

\* the two more bytes of a long length, for a text of more than `limit' bytes
Extended(text, limit) == text.len + Flag(text.len > limit, 2)

will_length(m) == IF m.type = "WILL_TOPIC" THEN 2 + 1 + Extended(m.topic, 252)
                  ELSE 2 + Extended(m.content, 253)

register_length(m) == 6 + Extended(m.topic, 249)

\* bug variant: the limit of WILL_MSG
sn_publish_length_253(m) == 7 + Extended(m.content, 253)

sn_publish_length(m) == 7 + Extended(m.content, 248)

filter_length(m) == 5 + (IF m.topic_type # "ID" THEN Extended(m.topic, 250) ELSE 2)

sn_get_length(m) ==
  CASE m.type = "CONNECT" -> 6 + m.client_id.len
    [] m.type \in { "WILL_TOPIC", "WILL_MSG" } -> will_length(m)
    [] m.type = "REGISTER" -> register_length(m)
    [] m.type \in { "REGACK", "PUBACK" } -> 7
    [] m.type = "PUBLISH" -> sn_publish_length(m)
    [] m.type \in Ids -> 4
    [] m.type \in Filters -> filter_length(m)
    [] m.type = "PINGREQ" -> 2 + m.client_id.len
    [] m.type = "DISCONNECT" -> 2 + Flag(m.duration > 0, 2)
    [] m.type \in Requests -> 2

\* encode_flags; a NULL qos or topic type adds nothing
encode_flags(dup, qos, retain, will, clean, topic_type) ==
  Byte(Flag(dup, 128) + 32 * qos + Flag(retain, 16) + Flag(will, 8) + Flag(clean, 4) + topic_type)

length_bytes(length) ==
  IF length <= 255 THEN << Byte(length) >> ELSE << Byte(1), add_short(length) >>

encode_sn_connect(m) ==
  << encode_flags(FALSE, 0, FALSE, m.will, m.clean_session, 0), Byte(1), add_short(m.duration) >>
    \o Chars(m.client_id)

encode_will(m) ==
  IF m.type = "WILL_TOPIC"
  THEN << encode_flags(FALSE, m.qos, m.retain, FALSE, FALSE, 0) >> \o Chars(m.topic)
  ELSE Chars(m.content)

encode_register(m) == << add_short(m.topic_id), add_short(m.id) >> \o Chars(m.topic)

encode_topic_ack(m) == << add_short(m.topic_id), add_short(m.id), Byte(m.code) >>

encode_sn_publish(m) ==
  << encode_flags(m.dup, m.qos, m.retain, FALSE, FALSE, TopicTypes["ID"]),
     add_short(m.topic_id), add_short(m.id) >> \o Chars(m.content)

encode_filter(m) ==
  << encode_flags(FALSE, IF m.type = "SUBSCRIBE" THEN m.qos ELSE 0, FALSE, FALSE, FALSE,
                  TopicTypes[m.topic_type]),
     add_short(m.id) >>
    \o (IF m.topic_type = "ID" THEN << add_short(m.topic_id) >> ELSE Chars(m.topic))

sn_encode(m, length) ==
  length_bytes(length) \o << Byte(Code[m.type]) >> \o
  CASE m.type = "CONNECT" -> encode_sn_connect(m)
    [] m.type \in { "WILL_TOPIC", "WILL_MSG" } -> encode_will(m)
    [] m.type = "REGISTER" -> encode_register(m)
    [] m.type \in { "REGACK", "PUBACK" } -> encode_topic_ack(m)
    [] m.type = "PUBLISH" -> encode_sn_publish(m)
    [] m.type \in Ids -> << add_short(m.id) >>
    [] m.type \in Filters -> encode_filter(m)
    [] m.type = "PINGREQ" -> IF length > 2 THEN Chars(m.client_id) ELSE << >>
    [] m.type = "DISCONNECT" -> IF length > 2 THEN << add_short(m.duration) >> ELSE << >>
    [] m.type \in Requests -> << >>

sn_encode_and_fire(m) == [ buf |-> sn_encode(m, sn_get_length(m)), fired |-> sn_get_length(m) ]

-----------------------------------------------------------------------------
(* Decoding.  `i' is the offset behind the type, `left' is bytes_left.     *)

HasBits(byte, v, width) == (byte \div v) % (2 ^ width) = 2 ^ width - 1

\* decode_flag, validate_create_flags: the warnings change nothing
decode_flag(byte) ==
  [ dup |-> HasBits(byte, 128, 1),
    qos |-> IF HasBits(byte, 32, 2) THEN 3 ELSE IF HasBits(byte, 64, 1) THEN 2
            ELSE IF HasBits(byte, 32, 1) THEN 1 ELSE 0,
    retain |-> HasBits(byte, 16, 1) ]

decode_register(buf, i, left) ==
  [ type |-> "REGISTER", topic_id |-> get_unsigned_short(buf, i),
    id |-> get_unsigned_short(buf, i + 2), topic |-> get_string(buf, i + 4, left - 4) ]

decode_topic_ack(buf, i, type) ==
  [ type |-> type, topic_id |-> get_unsigned_short(buf, i),
    id |-> get_unsigned_short(buf, i + 2), code |-> get_byte(buf, i + 4) ]

\* the data of an empty message is not set
decode_sn_publish(buf, i, left) ==
  LET flags == decode_flag(Unsigned(buf, i, 1))
  IN  [ type |-> "PUBLISH", dup |-> flags.dup, qos |-> flags.qos, retain |-> flags.retain,
        topic_id |-> get_unsigned_short(buf, i + 1), id |-> get_unsigned_short(buf, i + 3),
        content |-> IF left - 5 > 0 THEN get_string(buf, i + 5, left - 5) ELSE JunkText ]

decode_sn_suback(buf, i) ==
  [ type |-> "SUBACK", qos |-> decode_flag(Unsigned(buf, i, 1)).qos,
    topic_id |-> get_unsigned_short(buf, i + 1), id |-> get_unsigned_short(buf, i + 3),
    code |-> get_byte(buf, i + 5) ]

decode_ping(buf, i, left) ==
  [ type |-> "PINGREQ", client_id |-> IF left > 0 THEN get_string(buf, i, left) ELSE Empty ]

decode_disconnect(buf, i, left) ==
  [ type |-> "DISCONNECT", duration |-> IF left > 0 THEN get_unsigned_short(buf, i) ELSE 0 ]

TypeOf(code) == IF \E t \in DOMAIN Code : Code[t] = code
                THEN CHOOSE t \in DOMAIN Code : Code[t] = code ELSE "junk"

\* the first byte is a char: lengths of 128 to 255 are read as negative
Header(buf) == IF get_byte(buf, 0) = 1
               THEN [ length |-> get_short(buf, 1), i |-> 3 ]
               ELSE [ length |-> get_byte(buf, 0), i |-> 1 ]

sn_decode(buf) ==
  LET h == Header(buf)
      type == TypeOf(get_byte(buf, h.i))
      i == h.i + 1
      left == h.length - i
  IN  CASE type = "REGISTER" -> decode_register(buf, i, left)
        [] type \in { "REGACK", "PUBACK" } -> decode_topic_ack(buf, i, type)
        [] type = "PUBLISH" -> decode_sn_publish(buf, i, left)
        [] type = "SUBACK" -> decode_sn_suback(buf, i)
        [] type = "CONNACK" -> [ type |-> type, code |-> get_byte(buf, i) ]
        [] type \in Ids -> [ type |-> type, id |-> get_unsigned_short(buf, i) ]
        [] type = "PINGREQ" -> decode_ping(buf, i, left)
        [] type = "DISCONNECT" -> decode_disconnect(buf, i, left)
        [] OTHER -> [ type |-> type ]
=============================================================================
