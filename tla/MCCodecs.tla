------------------------------ MODULE MCCodecs ------------------------------
(* The messages of the client and of its peers for TLC: every type, with   *)
(* texts and numbers on both sides of every boundary of the encodings.     *)
EXTENDS Codecs

Topic(n) == Text("topic", n)
Content(n) == Text("content", n)
Client(n) == Text("client", n)
PacketIds == { 1, 32767, 32768, 65535 }

-----------------------------------------------------------------------------
Connect(will, qos, retain) ==
  { [ type |-> "CONNECT", clean_session |-> clean, keepalive |-> k, client_id |-> Client(n),
      username |-> Text("user", u), password |-> Text("password", 8), will |-> will, qos |-> qos,
      retain |-> retain, topic |-> IF will THEN Topic(5) ELSE Empty,
      content |-> IF will THEN Content(300) ELSE Empty ] :
    clean \in BOOLEAN, k \in { 1, 65535 }, n \in { 1, 23 }, u \in { 1, 100 } }

MqttConnects == Connect(FALSE, 0, FALSE)
                  \cup UNION { Connect(TRUE, q, r) : q \in 0 .. 2, r \in BOOLEAN }

MqttPublish(lengths, dups) ==
  { [ type |-> "PUBLISH", dup |-> d /\ q > 0, qos |-> q, retain |-> r, topic |-> Topic(3),
      packet_id |-> IF q > 0 THEN 32768 ELSE 0, content |-> Content(n) ] :
    q \in 0 .. 2, r \in BOOLEAN, d \in dups, n \in lengths }

Acks(types) == { [ type |-> t, packet_id |-> i ] : t \in types, i \in PacketIds }

MqttSent ==
  MqttConnects
    \cup MqttPublish({ 1, 120, 121, 122, 123, 16376, 16377, 16378, 16379, 2097144, 2097145 }, BOOLEAN)
    \cup Acks({ "PUBACK", "PUBREC", "PUBREL", "PUBCOMP" })
    \cup { [ type |-> "SUBSCRIBE", packet_id |-> i, topic |-> Topic(n), qos |-> q ] :
           i \in PacketIds, n \in { 1, 122, 123, 300 }, q \in 0 .. 2 }
    \cup { [ type |-> "UNSUBSCRIBE", packet_id |-> i, topic |-> Topic(n) ] :
           i \in PacketIds, n \in { 1, 123, 124 } }
    \cup { [ type |-> t ] : t \in { "PINGREQ", "DISCONNECT" } }

MqttReceived ==
  { [ type |-> "CONNACK", session_present |-> s, return_code |-> 5 * s ] : s \in { 0, 1 } }
    \cup { m \in MqttPublish({ 1, 120, 122 }, { TRUE }) : ~m.retain }
    \cup { m \in MqttPublish({ 123, 16377, 2097145 }, { FALSE }) : m.qos = 1 }
    \cup { [ type |-> "PUBACK", packet_id |-> i ] : i \in { 1, 65535 } }
    \cup { [ type |-> t, packet_id |-> 32768 ] : t \in { "PUBREC", "PUBREL", "PUBCOMP", "UNSUBACK" } }
    \cup { [ type |-> "SUBACK", packet_id |-> 32767, code |-> c ] : c \in { 0, 1, 2, 128 } }
    \cup { [ type |-> "PINGRESP" ] }

-----------------------------------------------------------------------------
SnPublish(lengths) ==
  { [ type |-> "PUBLISH", dup |-> d, qos |-> q, retain |-> r, topic_id |-> t, id |-> i,
      content |-> Content(n) ] :
    d \in BOOLEAN, q \in 0 .. 2, r \in BOOLEAN, t \in { 1, 65535 }, i \in { 0, 32768 }, n \in lengths }

SnRegister(lengths) ==
  { [ type |-> "REGISTER", topic_id |-> t, id |-> i, topic |-> Topic(n) ] :
    t \in { 0, 32768 }, i \in PacketIds, n \in lengths }

TopicAcks == { [ type |-> t, topic_id |-> 32768, id |-> i, code |-> c ] :
               t \in { "REGACK", "PUBACK" }, i \in PacketIds, c \in 0 .. 3 }

SnAcks(types) == { [ type |-> t, id |-> i ] : t \in types, i \in PacketIds }

SnFilter(type, qos) ==
  { [ type |-> type, qos |-> qos, id |-> i, topic_type |-> "NAMED", topic |-> Topic(n) ] :
    i \in PacketIds, n \in { 1, 250, 251 } }
  \cup { [ type |-> type, qos |-> qos, id |-> i, topic_type |-> "ID", topic_id |-> 65535 ] :
         i \in PacketIds }

SnSent ==
  { [ type |-> "CONNECT", will |-> w, clean_session |-> c, duration |-> d, client_id |-> Client(n) ] :
    w \in BOOLEAN, c \in BOOLEAN, d \in { 1, 65535 }, n \in { 1, 249 } }
  \cup { [ type |-> "WILL_TOPIC", qos |-> q, retain |-> r, topic |-> Topic(n) ] :
         q \in 0 .. 2, r \in BOOLEAN, n \in { 1, 252, 253 } }
  \cup { [ type |-> "WILL_MSG", content |-> Content(n) ] : n \in { 1, 253, 254, 1399 } }
  \cup SnRegister({ 1, 249, 250 }) \cup SnPublish({ 1, 248, 249, 1399 }) \cup TopicAcks
  \cup SnAcks({ "PUBREC", "PUBREL", "PUBCOMP" })
  \cup UNION { SnFilter("SUBSCRIBE", q) : q \in 0 .. 2 } \cup SnFilter("UNSUBSCRIBE", 0)
  \cup { [ type |-> "PINGREQ", client_id |-> Client(n) ] : n \in { 1, 249 } }
  \cup { [ type |-> "PINGRESP" ] }
  \cup { [ type |-> "DISCONNECT", duration |-> d ] : d \in { 0, 1, 65535 } }

SnReceived ==
  { [ type |-> "CONNACK", code |-> c ] : c \in 0 .. 3 }
  \cup SnRegister({ 1, 121, 250 }) \cup SnPublish({ 1, 120, 249, 1399 }) \cup TopicAcks
  \cup SnAcks({ "PUBREC", "PUBREL", "PUBCOMP", "UNSUBACK" })
  \cup { [ type |-> "SUBACK", qos |-> q, topic_id |-> 32768, id |-> i, code |-> c ] :
         q \in 0 .. 2, i \in PacketIds, c \in 0 .. 3 }
  \cup { [ type |-> t ] : t \in { "WILL_TOPIC_REQ", "WILL_MSG_REQ", "PINGRESP" } }
  \cup { [ type |-> "PINGREQ", client_id |-> c ] : c \in { Empty, Client(5) } }
  \cup { [ type |-> "DISCONNECT", duration |-> 0 ] }

-----------------------------------------------------------------------------
Coap4(number, n) == Coap!Option(Coap!Numbers[number], Text(number, n))

\* a number of at most four digits, for the client's buffer holds no more
Token(id) == Text("token", IF id < 10 THEN 1 ELSE IF id < 100 THEN 2 ELSE IF id < 1000 THEN 3 ELSE 4)

CoapMessage(type, code, id, token, options, payload) ==
  [ type |-> type, code |-> code, id |-> id, token |-> token, options |-> options,
    payload |-> payload ]

CoapSent ==
  { CoapMessage("CON", 3, 0, Token(0), << Coap4("NODE_ID", c) >>, Empty) : c \in { 1, 23 } }
  \cup { CoapMessage("CON", 1, i, Token(i),
           << Coap4("OBSERVE", 4), Coap4("URI_PATH", n), Coap4("ACCEPT", 2), Coap4("NODE_ID", c) >>,
           Empty) : i \in { 1, 10, 9999 }, n \in { 1, 12, 13, 200 }, c \in { 1, 12, 13, 23 } }
  \cup { CoapMessage("CON", 1, i, Token(i),
           << Coap4("OBSERVE", 4), Coap4("URI_PATH", n), Coap4("NODE_ID", 23) >>, Empty) :
         i \in { 1, 9999 }, n \in { 1, 200 } }
  \cup { CoapMessage("CON", 3, i, Token(i),
           << Coap4("URI_PATH", n), Coap4("ACCEPT", 2), Coap4("NODE_ID", 23) >>, Content(b)) :
         i \in { 1, 9999 }, n \in { 1, 12, 13, 200 }, b \in { 1, 1399 } }
  \cup { CoapMessage("ACK", c, i, Text("token", n), << Coap4("NODE_ID", 13) >>, Empty) :
         c \in { 1, 2, 3 }, i \in PacketIds, n \in { 1, 8 } }

CoapReceived ==
  { CoapMessage("CON", c, i, Text("token", k), << Coap4("URI_PATH", n), Coap4("ACCEPT", 2) >>, Content(b)) :
    c \in { 2, 3 }, i \in PacketIds, k \in { 1, 8 }, n \in { 1, 12, 13, 140 }, b \in { 1, 1399 } }
  \cup { CoapMessage("ACK", 1, i, Text("token", 1),
           << Coap4("OBSERVE", 4), Coap4("ACCEPT", 2), Coap4("NODE_ID", n) >>, Empty) :
         i \in PacketIds, n \in { 1, 13 } }
  \cup { CoapMessage("ACK", c, i, Text("token", 4), o, Empty) :
         c \in { 3, 204, 205 }, i \in PacketIds, o \in { << >>, << Coap4("NODE_ID", 23) >> } }

-----------------------------------------------------------------------------
Frame(type, args) == [ type |-> type, channel |-> 0, args |-> args, data |-> JunkText ]
Transfer(handle, id, settled, n) ==
  [ Frame("TRANSFER", << Amqp!Uint(handle), Amqp!Uint(id), Amqp!Null, Amqp!Uint(0), Amqp!Bool(settled),
                         Amqp!Bool(0) >>) EXCEPT !.data = Content(n) ]
Terminus(code, n) ==
  Amqp!List(code, << Amqp!Str(Topic(n)), Amqp!Uint(0), Amqp!Null, Amqp!Uint(0), Amqp!Bool(0) >>)
AsReceiver(handle, n, modes) ==
  Frame("ATTACH", << Amqp!Str(Topic(n)), Amqp!Uint(handle), Amqp!Bool(1), modes, Amqp!Null,
                     Amqp!Null, Terminus(41, n) >>)
AsSender(handle, n) ==
  Frame("ATTACH", << Amqp!Str(Topic(n)), Amqp!Uint(handle), Amqp!Bool(0), Amqp!Null, Amqp!Ubyte(0),
                     Terminus(40, n), Amqp!Null, Amqp!Null, Amqp!Null, Amqp!Uint(0) >>)
Disposition(role, first, last) ==
  Frame("DISPOSITION", << Amqp!Bool(role), Amqp!Uint(first), Amqp!Uint(last), Amqp!Bool(1),
                          Amqp!List(36, << >>) >>)

Handles == { 1, 255, 256 }

AmqpSent ==
  { Frame("PROTO", << Amqp!Ubyte(i) >>) : i \in { 0, 3 } }
  \cup { Frame("INIT", << Amqp!Sym(Text("PLAIN", 5)), Amqp!Bin(Text("response", n)) >>) :
         n \in { 5, 243, 244, 255 } }
  \cup { Frame("OPEN", << Amqp!Str(Client(n)), Amqp!Null, Amqp!Null, Amqp!Null, Amqp!Uint(k * 1000) >>) :
         n \in { 1, 23, 245, 246, 255 }, k \in { 0, 1, 65535 } }
  \cup { Frame("BEGIN", << Amqp!Null, Amqp!Uint(0), Amqp!Uint(2147483647), Amqp!Uint(0) >>) }
  \cup { AsReceiver(h, n, Amqp!Ubyte(2)) : h \in Handles, n \in { 1, 110, 113, 114, 115, 250, 255 } }
  \cup { AsSender(h, n) : h \in Handles, n \in { 1, 110, 113, 114, 115, 250, 255 } }
  \cup { Transfer(h, i, s, n) : h \in Handles, i \in { 1, 256, 65536 }, s \in { 0, 1 },
                                n \in { 1, 255, 256, 1399 } }
  \cup { Disposition(1, i, i) : i \in { 0, 255, 256 } }
  \cup { Frame("DETACH", << Amqp!Uint(h), Amqp!Bool(1) >>) : h \in Handles }
  \cup { Frame(t, << Amqp!Null >>) : t \in { "END", "CLOSE" } }
  \cup { Frame("PING", << >>) }

AmqpReceived ==
  { Frame("PROTO", << Amqp!Ubyte(i) >>) : i \in { 0, 3 } }
  \cup { Frame("MECHANISMS", << Amqp!OneSym(Text("PLAIN", 5)) >>) }
  \cup { Frame("OUTCOME", << Amqp!Ubyte(c) >>) : c \in { 0, 1 } }
  \cup { Frame("OPEN", << Amqp!Str(Client(127)), Amqp!Null, Amqp!Null, Amqp!Ushort(32767), Amqp!Uint(255) >>) }
  \cup { Frame("BEGIN", << Amqp!Ushort(0), Amqp!Uint(0), Amqp!Uint(255), Amqp!Uint(1) >>) }
  \cup { AsReceiver(255, 60, Amqp!Null), AsSender(1, 20) }
  \cup { Transfer(1, 128, 0, 1), Transfer(255, 1, 1, 127), Transfer(1, 255, 0, 256) }
  \cup { Disposition(0, 1, 255) }
  \cup { Frame("DETACH", << Amqp!Uint(200), Amqp!Bool(1) >>) }
  \cup { Frame(t, << >>) : t \in { "END", "CLOSE", "PING" } }
=============================================================================
