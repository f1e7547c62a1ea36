--------------------------- MODULE SnClientProofs ---------------------------
(***************************************************************************)
(* Proofs about SnClient, for every number of topics, contents, messages   *)
(* and sessions, whatever datagrams are lost, repeated or overtaken: the   *)
(* types, the topic list, and, provided that no REGACK is handled inside a *)
(* send_sn_message (the run sn_race shows what happens otherwise), the     *)
(* topic maps, the history, what every message id names and the promise of *)
(* Publishing.                                                             *)
(*                                                                         *)
(* Answers are matched by message id alone, and a REGACK finds its PUBLISH *)
(* one number below its own.  NumberInv says why that is right: an id that *)
(* was given names one message, in the map or just about to get there, and *)
(* every datagram in flight agrees with it.                                *)
(***************************************************************************)
EXTENDS SnClient, TopicListProofs

-----------------------------------------------------------------------------
(* The invariants.                                                         *)

SubTypes == { "SUBSCRIBE", "UNSUBSCRIBE" }

\* a stored message names its topic, but for the PUBLISH that waits for its
\* topic id; one that is sent has it, too
Storable(m) ==
  /\ m.type = "REGISTER" => m.topic \in Topics /\ m.id # 0
  /\ m.type \in SubTypes => m.topic # None \/ m.tid # 0

Sendable(m) == Storable(m) /\ (m.type \in { "PUBLISH", "REGACK" } => m.tid # 0)

\* what the gateway sends has the fields that process_sn_rx reads
Readable(a) ==
  /\ a.type = "REGISTER" => a.topic \in Topics
  /\ a.type \in { "REGISTER", "PUBLISH", "SUBACK", "REGACK" } => a.tid # 0
  /\ a.type = "REGACK" => a.id # 0

OutShape(s) == s \subseteq SnPacket /\ \A m \in s : Sendable(m)
InShape(s) == s \subseteq SnPacket /\ \A a \in s : Readable(a)
MapShape(f) == f \in [ SnIds -> SnPacket ] /\ (\A i \in SnIds : Storable(f[i])) /\ Sendable(f[0])

Unregistered == { "msg_num", "reg_read", "reg_num" }
Publishing == Unregistered \cup { "pub_read", "pub_num", "pub_add" }

HandShape ==
  /\ Storable(guiMsg)
  /\ gui \notin Unregistered => Sendable(guiMsg)
  /\ gui \in Publishing => guiMsg.type = "PUBLISH" /\ guiMsg.topic \in Topics

ShapeInv ==
  TypeOK /\ OutShape(toGw) /\ InShape(toClient) /\ MapShape(messages_map) /\ HandShape
\* the table has no more rows of a topic than the list, and that has one
RowsInv ==
  /\ \A t \in Topics : rows.db[t] <= rows.list[t] /\ rows.list[t] <= 1
  /\ (ui = "main" /\ gui \notin { "disc_stop", "disc_fire" }) =>
       \A t \in Topics : rows.list[t] = rows.db[t]

\* no REGACK is handled between the two numbers of a publish
Orderly == AtomicSends \/ Contents = {}

Given == 1 .. current_packet_number

\* what the map has under each id, or is about to get from send_sn_publish
waiting == [ i \in SnIds |-> IF gui = "pub_add" /\ guiMsg.id = i THEN guiMsg ELSE messages_map[i] ]

OwnPublish(m) ==
  /\ m.type = "PUBLISH"
  /\ m.content \in Contents /\ m.topic \in Topics
  /\ m.topic = chosen[m.content].topic /\ m.qos = chosen[m.content].qos
  /\ m.tid \in { 0, TopicIdOf[m.topic] }

StoredOK(i) ==
  waiting[i] # SnNoMsg =>
    /\ i \in Given /\ waiting[i].id = i
    /\ OwnPublish(waiting[i]) \/ (waiting[i].type \in SubTypes /\ waiting[i].content = None)

\* id names nothing but a PUBLISH that has its topic id
NamesPublish(i) ==
  /\ i \in Given
  /\ waiting[i] # SnNoMsg => waiting[i].type = "PUBLISH" /\ waiting[i].tid # 0

\* i is the number of a registration, and the one below that of its PUBLISH
NamesRegistration(i, tid) ==
  /\ i \in Given /\ i - 1 \in Given /\ waiting[i] = SnNoMsg
  /\ LET p == waiting[i - 1]
     IN  p # SnNoMsg => p.type = "PUBLISH" /\ p.tid = 0 /\ TopicIdOf[p.topic] = tid

OutOK(m) ==
  /\ m.type = "REGISTER" => NamesRegistration(m.id, TopicIdOf[m.topic])
  /\ m.type = "PUBLISH" => NamesPublish(m.id) /\ OwnPublish(m)
  /\ m.type = "PUBREL" => NamesPublish(m.id)
  /\ m.type \in SubTypes => m.id \in Given /\ waiting[m.id] \in { SnNoMsg, m }

InOK(a) ==
  /\ a.type \in { "PUBACK", "PUBREC", "PUBCOMP" } => NamesPublish(a.id)
  /\ a.type = "REGACK" => NamesRegistration(a.id, a.tid)
  /\ a.type \in { "SUBACK", "UNSUBACK" } =>
       /\ a.id \in Given
       /\ waiting[a.id] # SnNoMsg =>
            /\ waiting[a.id].type = CastTo(a)
            /\ (a.type = "SUBACK" /\ waiting[a.id].topic # None) =>
                 TopicIdOf[waiting[a.id].topic] = a.tid
  /\ a.type = "REGISTER" => a.tid = TopicIdOf[a.topic]
  /\ a.type = "PUBLISH" =>
       a.id \in Incoming /\ gIn[a.id] \in Topics /\ a.tid = TopicIdOf[gIn[a.id]]

GuiOK ==
  /\ gui \in { "idle", "disc_stop", "disc_fire" } => guiMsg = SnNoMsg
  /\ gui \in { "conn_fire", "conn_timer", "conn_add" } => guiMsg = SnPlain("CONNECT")
  /\ gui = "sub_num" => guiMsg.type \in SubTypes /\ guiMsg.content = None
  /\ gui \in Publishing => OwnPublish(guiMsg)
  /\ gui \in { "reg_read", "reg_num" } =>
       /\ guiMsg.tid = 0 /\ guiMsg.id = current_packet_number /\ guiMsg.id \in Given
       /\ messages_map[guiMsg.id] \in { SnNoMsg, guiMsg }
  /\ gui = "pub_add" => guiMsg.id \in Given /\ messages_map[guiMsg.id] = SnNoMsg
  /\ gui \in { "sub_num", "msg_num", "reg_num", "pub_num" } => seen = current_packet_number

NumberInv ==
  /\ \A i \in SnIds \ {0} : StoredOK(i)
  /\ messages_map[0].type \in { SnNoMsg.type, "CONNECT", "REGISTER" }
  /\ messages_map[0].content = None
  /\ \A m \in toGw \cup {messages_map[0]} : OutOK(m)
  /\ \A a \in toClient : InOK(a)
  /\ GuiOK

TopicsInv ==
  /\ TopicMapsRight
  /\ PublishedToItsTopic
  /\ IncomingNotMisfiled

\* a content is in one place at a time: in the hand of the GTK thread, in the
\* map, or in the history
OnceInv ==
  /\ \A i, j \in SnIds :
       (waiting[i].content = waiting[j].content /\ waiting[i].content # None) => i = j
  /\ gui \in { "msg_num", "pub_read", "pub_num" } =>
       \A i \in SnIds : waiting[i].content # guiMsg.content
  /\ gui \in { "reg_read", "reg_num" } =>
       \A i \in SnIds : waiting[i].content = guiMsg.content => i = guiMsg.id
  /\ \A c \in Contents :
       /\ saved[c] <= 1
       /\ chosen[c] = Unchosen => saved[c] = 0
       /\ saved[c] # 0 => guiMsg.content # c /\ \A i \in SnIds : waiting[i].content # c

\* the content c is saved, or it is where it is going to be saved from
Held(c) ==
  saved[c] = 1 \/ guiMsg.content = c \/ \E i \in SnIds : messages_map[i].content = c

\* nothing is published before the first session has its map, and no
\* registration is refused
FirstInv ==
  /\ session = 0 => net = "none" /\ gui = "idle" /\ ui = "accounts"
  /\ (session = 0 \/ (session = 1 /\ gui \in { "conn_fire", "conn_timer" })) =>
       \A c \in Contents : chosen[c] = Unchosen
  /\ \A a \in toClient : a.type = "REGACK" => a.ok

\* the map of the first session has the PUBLISH before its REGISTER is sent, and
\* what was published
MapKept ==
  (mapState = "live" /\ session = 1) =>
    /\ gui \in { "reg_read", "reg_num" } => messages_map[guiMsg.id] = guiMsg
    /\ \A c \in Contents : chosen[c].topic # None => Held(c)

KeptInv == FirstInv /\ MapKept

LogsIn == { "conn_fire", "conn_timer" }

\* No session begins while the map of another is in use.  When the account list
\* is back before the map is destroyed, which takes a DISCONNECT or the end of the
\* service thread between the two steps of a log in, the connecter still runs, and
\* destroys the map before the user can log in again.
SessionInv ==
  /\ gui \in LogsIn \cup { "disc_fire" } => mapState # "live"
  /\ (ui = "accounts" /\ (mapState = "live" \/ gui \in LogsIn)) =>
       is_stop /\ ~is_disconnect_sent
  /\ (ui = "accounts" /\ mapState = "live") => thread["connecter"] = "running"

\* as in MapKept, in every session
HandInv ==
  (mapState = "live" /\ gui \in { "reg_read", "reg_num" }) => messages_map[guiMsg.id] = guiMsg

\* the PUBLISH that waits under i, if any, was passed on by the gateway
Arrived(i) == waiting[i].content # None => deliveredTo[waiting[i].content] # {}

SentRight(m) ==
  /\ m.type = "PUBLISH" => waiting[m.id].content \in { m.content, None }
  /\ m.type = "PUBREL" => Arrived(m.id)

\* no answer to a PUBLISH comes before the gateway has passed it on
AckInv ==
  /\ \A m \in toGw : SentRight(m)
  /\ \A a \in toClient : a.type \in { "PUBACK", "PUBREC", "PUBCOMP" } => Arrived(a.id)

PromiseInv == SessionInv /\ HandInv /\ AckInv

SnInv == ShapeInv /\ RowsInv
SnOrderInv == NumberInv /\ TopicsInv /\ OnceInv
-----------------------------------------------------------------------------
(* Messages.                                                               *)

LEMMA IdTypes ==
  /\ SnIds \subseteq Nat /\ 0 \in SnIds /\ Incoming \subseteq SnIds
  /\ 0 \notin TopicIds /\ None \notin Topics
  /\ \A t \in Topics : TopicIdOf[t] \in TopicIds /\ TopicIdOf[t] # 0
  /\ \A s, t \in Topics : TopicIdOf[s] = TopicIdOf[t] => s = t
  /\ \A i \in TopicIds : TopicOf(i) \in Topics /\ TopicIdOf[TopicOf(i)] = i
<1>1. \A i \in TopicIds : TopicOf(i) \in Topics /\ TopicIdOf[TopicOf(i)] = i
  <2> SUFFICES ASSUME NEW i \in TopicIds
               PROVE  TopicOf(i) \in Topics /\ TopicIdOf[TopicOf(i)] = i
    OBVIOUS
  <2>1. \E t \in Topics : TopicIdOf[t] = i
    BY DEF TopicIds
  <2> QED BY <2>1 DEF TopicOf
<1>2. \A t \in Topics : TopicIdOf[t] \in TopicIds /\ TopicIdOf[t] \in Nat \ {0}
  BY SnPacketBounds DEF TopicIds
<1>3. 0 \notin TopicIds
  BY SnPacketBounds DEF TopicIds
<1> QED
  BY <1>1, <1>2, <1>3, SnPacketBounds, SnNoneIsNoData, GatewayBounds DEF SnIds

\* What the constructors build.
LEMMA MessageTypes ==
  /\ SnNoMsg \in SnPacket
  /\ \A type \in SnMessageType :
       /\ SnPlain(type) \in SnPacket
       /\ \A i \in SnIds, tid \in TopicIds \cup {0}, ok \in BOOLEAN :
            SnAnswer(type, i, tid, ok) \in SnPacket
  /\ \A i \in SnIds, t \in Topics \cup {None}, tid \in TopicIds \cup {0} :
       /\ SnSubscribe(i, t, tid) \in SnPacket /\ SnUnsubscribe(i, t, tid) \in SnPacket
       /\ SnRegister(i, t, tid) \in SnPacket
       /\ \A q \in SnQoS, c \in Contents \cup {None} : SnPublish(i, t, tid, q, c) \in SnPacket
BY IdTypes DEF SnNoMsg, SnAnswer, SnPlain, SnBuild, SnSubscribe, SnUnsubscribe, SnRegister,
               SnPublish, SnPacket, SnMessageType, SnQoS

LEMMA MessageFields ==
  /\ SnNoMsg.type = "ADVERTISE" /\ SnNoMsg.content = None /\ SnNoMsg.topic = None
  /\ \A type, i, tid, ok :
       LET a == SnAnswer(type, i, tid, ok)
       IN  a.type = type /\ a.id = i /\ a.tid = tid /\ a.ok = ok /\ a.content = None
  /\ \A type : /\ SnPlain(type).type = type /\ SnPlain(type).content = None
               /\ SnPlain(type).id = 0
  /\ \A i, t, tid :
       LET s == SnSubscribe(i, t, tid)  u == SnUnsubscribe(i, t, tid)  r == SnRegister(i, t, tid)
       IN  /\ s.type = "SUBSCRIBE" /\ s.id = i /\ s.tid = tid /\ s.content = None
           /\ s.topic = IF tid = 0 THEN t ELSE None
           /\ u.type = "UNSUBSCRIBE" /\ u.id = i /\ u.tid = tid /\ u.content = None
           /\ u.topic = IF tid = 0 THEN t ELSE None
           /\ r.type = "REGISTER" /\ r.id = i /\ r.tid = tid /\ r.topic = t /\ r.content = None
  /\ \A i, t, tid, q, c :
       LET p == SnPublish(i, t, tid, q, c)
       IN  /\ p.type = "PUBLISH" /\ p.id = i /\ p.tid = tid /\ p.topic = t /\ p.qos = q
           /\ p.content = c
BY DEF SnNoMsg, SnAnswer, SnPlain, SnBuild, SnSubscribe, SnUnsubscribe, SnRegister, SnPublish

\* An answer has its type, and all but a REGACK can be sent with any topic id.
LEMMA AnswerTyped ==
  ASSUME NEW type \in SnMessageType, NEW i \in SnIds, NEW tid \in TopicIds \cup {0},
         NEW ok \in BOOLEAN
  PROVE  SnAnswer(type, i, tid, ok) \in SnPacket
BY IdTypes DEF SnAnswer, SnBuild, SnPacket, SnMessageType, SnQoS

LEMMA AnswerSendable ==
  ASSUME NEW type \in SnMessageType \ (SubTypes \cup { "REGISTER" }), NEW i \in SnIds,
         NEW tid \in TopicIds \cup {0}, NEW ok \in BOOLEAN,
         type \in { "PUBLISH", "REGACK" } => tid # 0
  PROVE  SnAnswer(type, i, tid, ok) \in SnPacket /\ Sendable(SnAnswer(type, i, tid, ok))
BY AnswerTyped DEF SnAnswer, SnBuild, Sendable, Storable

\* A number given to a message in the hand of the GTK thread.
LEMMA NumberedFields ==
  ASSUME NEW m \in SnPacket, NEW k \in SnIds
  PROVE  LET n == [ m EXCEPT !.id = k ]
         IN  /\ n \in SnPacket /\ n.id = k /\ n.type = m.type /\ n.topic = m.topic
             /\ n.tid = m.tid /\ n.qos = m.qos /\ n.content = m.content
BY DEF SnPacket

-----------------------------------------------------------------------------
(* Types and shapes.                                                       *)

LEMMA EmptyMap == MapShape(NoMessages)
BY MessageTypes, MessageFields, IdTypes DEF MapShape, NoMessages, Storable, Sendable, SubTypes

LEMMA RemovedMap ==
  ASSUME MapShape(messages_map), NEW is
  PROVE  MapShape(removed(is))
BY MessageTypes, MessageFields, IdTypes DEF MapShape, removed, Storable, Sendable, SubTypes

\* An entry under a number that was given, or one that can be sent.
LEMMA AddedMap ==
  ASSUME NEW f, MapShape(f), NEW m \in SnPacket, Storable(m), NEW k \in SnIds,
         k = 0 => Sendable(m)
  PROVE  MapShape([ f EXCEPT ![k] = m ])
BY IdTypes DEF MapShape

LEMMA Fired ==
  ASSUME OutShape(toGw), NEW m \in SnPacket, Sendable(m)
  PROVE  OutShape(fired(m))
BY DEF OutShape, fired

LEMMA Answered ==
  ASSUME InShape(toClient), NEW m \in SnPacket, Readable(m), Reply(m)
  PROVE  InShape(toClient')
BY DEF InShape, Reply

LEMMA FaultTypes ==
  /\ \A rs : rs \subseteq Faults /\ MayFault(rs) => fault' \in Faults
  /\ FireFaults \subseteq Faults /\ TableFaults \subseteq Faults /\ StopFaults \subseteq Faults
  /\ \A th : CancelFaults(th) \subseteq Faults
BY DEF MayFault, Faults, FireFaults, TableFaults, StopFaults, CancelFaults

ThreadStates == { "none", "running", "cancelled", "done" }

LEMMA CancelledThreads ==
  ASSUME TypeOK, NEW ths
  PROVE  cancelled(ths) \in [ SnThreads -> ThreadStates ]
BY DEF TypeOK, SnTimersTypeOK, cancelled, ThreadStates

\* sn_stop_all_timers leaves empty tables.
LEMMA StoppedTypes ==
  ASSUME TypeOK, sn_stop_all_timers
  PROVE  /\ MapShape(messages_map') /\ mapState' \in TableStates
         /\ topic_name_map' \in [ Topics -> TopicIds \cup {0} ]
         /\ reverse_topic_name_map' \in [ TopicIds -> Topics \cup {None} ]
         /\ topicState' \in TableStates
         /\ thread' \in [ SnThreads -> ThreadStates ]
         /\ tries' = tries
BY EmptyMap, CancelledThreads
   DEF sn_stop_all_timers, NoTopicIds, NoTopicNames, Destroyed, TypeOK, SnTimersTypeOK, TableStates
-----------------------------------------------------------------------------
(* Types: the GTK thread.                                                  *)

\* A button of the main window leaves the network and the maps alone.
LEMMA BeginShape ==
  ASSUME ShapeInv, NEW step \in { "sub_num", "msg_num" }, NEW m \in SnPacket, Begin(step, m),
         Storable(m),
         step = "sub_num" => Sendable(m),
         step = "msg_num" => m.type = "PUBLISH" /\ m.topic \in Topics,
         chosen' \in [ Contents -> [ topic : Topics \cup {None}, qos : SnQoS ] ]
  PROVE  ShapeInv'
<1> USE DEF Begin, Gui
<1>1. fault' \in Faults
  BY FaultTypes DEF MayFault, Faults
<1>2. SnTimersTypeOK'
  BY <1>1 DEF ShapeInv, TypeOK, SnTimersTypeOK, snTimerVars, mapVars, topicVars
<1>3. GatewayTypeOK'
  BY DEF ShapeInv, TypeOK, GatewayTypeOK, gatewayVars
<1>4. ops' \in 0 .. MaxOps
  BY SnClientBounds DEF ShapeInv, TypeOK
<1>5. TypeOK'
  BY <1>2, <1>3, <1>4 DEF ShapeInv, TypeOK, GuiSteps, storeVars
<1>6. OutShape(toGw)' /\ InShape(toClient)' /\ MapShape(messages_map)'
  BY DEF ShapeInv, snTimerVars, mapVars, OutShape, InShape, MapShape
<1>7. HandShape'
  BY DEF HandShape, Publishing, Unregistered, Storable, Sendable, SubTypes
<1> QED BY <1>5, <1>6, <1>7 DEF ShapeInv

LEMMA UserShape ==
  ASSUME ShapeInv, UserStep
  PROVE  ShapeInv'
<1> USE DEF Gui, snTimerVars, mapVars, topicVars, gatewayVars, storeVars, netVars
<1>0. TypeOK /\ MapShape(messages_map)
  BY DEF ShapeInv
<1>1. CASE LogIn
  <2>1. session' \in 0 .. SnMaxSessions
    BY <1>0, <1>1, SnClientBounds DEF LogIn, TypeOK
  <2>2. TypeOK'
    BY <1>0, <1>1, <2>1, MessageTypes
       DEF LogIn, init_net_service, TypeOK, SnTimersTypeOK, GatewayTypeOK, GuiSteps, SnMessageType
  <2>3. HandShape'
    BY <1>1, MessageFields DEF LogIn, HandShape, Storable, Sendable, SubTypes, Publishing,
                               Unregistered
  <2> QED BY <1>0, <1>1, <2>2, <2>3 DEF LogIn, init_net_service, ShapeInv, OutShape, InShape, MapShape
<1>2. CASE LogInFails
  <2>1. session' \in 0 .. SnMaxSessions
    BY <1>0, <1>2, SnClientBounds DEF LogInFails, TypeOK
  <2>2. TypeOK'
    BY <1>0, <1>2, <2>1 DEF LogInFails, TypeOK, SnTimersTypeOK, GatewayTypeOK, GuiSteps
  <2> QED BY <1>2, <2>2 DEF LogInFails, ShapeInv, OutShape, InShape, MapShape, HandShape
<1>3. CASE log_out_handle
  <2>1. rows' \in Rows
    BY <1>0, <1>3 DEF log_out_handle, TypeOK, Rows
  <2>2. TypeOK'
    BY <1>0, <1>3, <2>1 DEF log_out_handle, TypeOK, SnTimersTypeOK, GatewayTypeOK, GuiSteps
  <2> QED
    BY <1>3, <2>2 DEF log_out_handle, ShapeInv, OutShape, InShape, MapShape, HandShape,
                      Publishing, Unregistered
<1>4. ASSUME NEW t \in Topics, send_sn_subscribe(t) \/ send_sn_unsubscribe(t)
      PROVE  ShapeInv'
  <2> DEFINE tid == sn_get_topic_id_from_map(t)
  <2>1. tid \in TopicIds \cup {0} /\ t # None
    BY <1>0, IdTypes DEF TypeOK, SnTimersTypeOK, sn_get_topic_id_from_map
  <2> HIDE DEF tid
  <2>2. PICK m \in SnPacket : /\ Begin("sub_num", m) /\ m.type \in SubTypes
                              /\ m.topic # None \/ m.tid # 0
    BY <1>4, <2>1, MessageTypes, MessageFields, IdTypes
       DEF send_sn_subscribe, send_sn_unsubscribe, SubTypes, tid
  <2>3. chosen' = chosen
    BY <1>4 DEF send_sn_subscribe, send_sn_unsubscribe
  <2> QED BY <1>0, <2>2, <2>3, BeginShape DEF Storable, Sendable, SubTypes, TypeOK
<1>5. ASSUME NEW c \in Contents, NEW t \in Topics, NEW q \in SnUserQoS, send_sn_message(c, t, q)
      PROVE  ShapeInv'
  <2> DEFINE tid == sn_get_topic_id_from_map(t)
  <2>1. tid \in TopicIds \cup {0} /\ q \in SnQoS
    BY <1>0, SnClientBounds DEF TypeOK, SnTimersTypeOK, sn_get_topic_id_from_map
  <2> HIDE DEF tid
  <2>2. PICK m \in SnPacket : Begin("msg_num", m) /\ m.type = "PUBLISH" /\ m.topic = t
    BY <1>5, <2>1, MessageTypes, MessageFields, IdTypes DEF send_sn_message, tid
  <2>3. chosen' \in [ Contents -> [ topic : Topics \cup {None}, qos : SnQoS ] ]
    BY <1>0, <1>5, <2>1 DEF send_sn_message, TypeOK
  <2> QED BY <2>2, <2>3, BeginShape DEF Storable, Sendable, SubTypes
<1> QED BY <1>1, <1>2, <1>3, <1>4, <1>5 DEF UserStep

LEMMA GivenNumber ==
  ASSUME TypeOK, Number
  PROVE  seen + 1 \in SnIds /\ seen + 1 # 0 /\ current_packet_number' = seen + 1
BY SnPacketBounds DEF Number, TypeOK, SnIds

\* Where a stored message goes: everything but a REGISTER under its number.
LEMMA StoredShape ==
  ASSUME ShapeInv, NEW m \in SnPacket, Storable(m), m.id = 0 => Sendable(m),
         m.type # "PUBLISH" => Sendable(m), sn_add_message_in_map(m)
  PROVE  MapShape(messages_map')
<1>1. key(m) \in SnIds /\ (key(m) = 0 => Sendable(m))
  BY IdTypes DEF key, SnPacket
<1> QED BY <1>1, AddedMap DEF ShapeInv, sn_add_message_in_map

\* What the steps of a call may change.
LEMMA CallShape ==
  ASSUME ShapeInv,
         UNCHANGED << net, toClient, topicVars, gatewayVars, worker, session, ops, rows,
                      received, chosen >>,
         gui' \in GuiSteps, guiMsg' \in SnPacket, HandShape', seen' \in SnIds,
         fault' \in Faults, is_stop' \in BOOLEAN, OutShape(toGw'), MapShape(messages_map'),
         mapState' \in TableStates, thread' \in [ SnThreads -> ThreadStates ],
         tries' \in 0 .. SnConnectTries, ui' \in { "accounts", "loading", "main" },
         current_packet_number' \in SnIds, is_disconnect_sent' \in BOOLEAN,
         saved' \in [ Contents -> Nat ]
  PROVE  ShapeInv'
<1>1. SnTimersTypeOK'
  BY DEF ShapeInv, TypeOK, SnTimersTypeOK, topicVars, OutShape, MapShape, ThreadStates
<1>2. GatewayTypeOK'
  BY DEF ShapeInv, TypeOK, GatewayTypeOK, gatewayVars
<1>3. TypeOK'
  BY <1>1, <1>2 DEF ShapeInv, TypeOK
<1> QED BY <1>3 DEF ShapeInv, InShape, OutShape, MapShape

LEMMA GuiShape ==
  ASSUME ShapeInv, GuiStep
  PROVE  ShapeInv'
<1> USE DEF Gui, snTimerVars, mapVars, topicVars, gatewayVars, storeVars, netVars
<1>0. /\ MapShape(messages_map) /\ OutShape(toGw) /\ InShape(toClient) /\ HandShape
      /\ gui \in GuiSteps /\ guiMsg \in SnPacket /\ seen \in SnIds /\ fault \in Faults
      /\ is_stop \in BOOLEAN /\ mapState \in TableStates
      /\ thread \in [ SnThreads -> ThreadStates ] /\ tries \in 0 .. SnConnectTries
      /\ ui \in { "accounts", "loading", "main" } /\ current_packet_number \in SnIds
      /\ is_disconnect_sent \in BOOLEAN /\ saved \in [ Contents -> Nat ]
  BY DEF ShapeInv, TypeOK, SnTimersTypeOK, ThreadStates
<1>a. SnConnectTries \in 0 .. SnConnectTries
  BY SnTimerBounds
<1>b. SnNoMsg \in SnPacket /\ Sendable(SnNoMsg) /\ Storable(SnNoMsg)
  BY MessageTypes, MessageFields DEF Sendable, Storable, SubTypes
<1> USE DEF HandShape, Publishing, Unregistered
<1>1. CASE send_sn_connect_fire
  <2>1. fault' \in Faults /\ OutShape(toGw')
    BY <1>0, <1>1, FaultTypes, Fired DEF send_sn_connect_fire, sn_encode_and_fire
  <2> QED BY <1>0, <1>1, <2>1, CallShape DEF send_sn_connect_fire, GuiSteps
<1>2. CASE send_sn_connect_timer
  <2>1. MapShape(messages_map') /\ mapState' \in TableStates
        /\ thread' \in [ SnThreads -> ThreadStates ] /\ tries' = SnConnectTries
    BY <1>0, <1>2, EmptyMap
       DEF send_sn_connect_timer, sn_start_connect_timer, TableStates, ThreadStates
  <2> QED BY <1>0, <1>a, <1>2, <2>1, CallShape
          DEF send_sn_connect_timer, sn_start_connect_timer, GuiSteps
<1>3. CASE send_sn_connect_add
  <2>1. fault' \in Faults /\ MapShape(messages_map')
    BY <1>0, <1>3, FaultTypes, StoredShape DEF send_sn_connect_add, Sendable
  <2> QED BY <1>0, <1>b, <1>3, <2>1, CallShape DEF send_sn_connect_add, GuiSteps
<1>4. CASE send_numbered
  <2> DEFINE m == Numbered(guiMsg)
  <2>1. seen + 1 \in SnIds /\ seen + 1 # 0 /\ current_packet_number' \in SnIds
    BY <1>4, GivenNumber DEF send_numbered, ShapeInv
  <2>2. m \in SnPacket /\ m.id # 0 /\ Sendable(m)
    BY <1>0, <1>4, <2>1, NumberedFields DEF send_numbered, Numbered, Sendable, Storable
  <2> HIDE DEF m
  <2>3. fault' \in Faults /\ MapShape(messages_map') /\ OutShape(toGw')
    BY <1>0, <1>4, <2>2, FaultTypes, StoredShape, Fired
       DEF send_numbered, Sendable, sn_encode_and_fire, m
  <2> QED BY <1>0, <1>b, <1>4, <2>1, <2>3, CallShape DEF send_numbered, GuiSteps
<1>5. CASE send_sn_message_number
  <2> DEFINE m == Numbered(guiMsg)
  <2>1. seen + 1 \in SnIds /\ seen + 1 # 0 /\ current_packet_number' \in SnIds
    BY <1>5, GivenNumber DEF send_sn_message_number, ShapeInv
  <2>2. /\ m \in SnPacket /\ m.id # 0 /\ Storable(m) /\ m.type = "PUBLISH"
        /\ m.topic \in Topics /\ m.tid = guiMsg.tid
    BY <1>0, <1>5, <2>1, NumberedFields DEF send_sn_message_number, Numbered, Storable
  <2>3. guiMsg' = m
    BY <1>5 DEF send_sn_message_number
  <2> HIDE DEF m
  <2>4. HandShape'
    BY <1>5, <2>2, <2>3 DEF send_sn_message_number, Sendable, Storable, SubTypes
  <2>5. fault' \in Faults /\ MapShape(messages_map')
    BY <1>0, <1>5, <2>2, FaultTypes, StoredShape DEF send_sn_message_number, m
  <2>6. gui' \in GuiSteps
    BY <1>5 DEF send_sn_message_number, GuiSteps
  <2> QED BY <1>0, <1>5, <2>1, <2>2, <2>3, <2>4, <2>5, <2>6, CallShape DEF send_sn_message_number
<1>6. ASSUME NEW from, NEW to, second_read(from, to),
             << from, to >> \in { << "reg_read", "reg_num" >>, << "pub_read", "pub_num" >> }
      PROVE  ShapeInv'
  <2>1. /\ gui' \in GuiSteps /\ gui' \in Publishing /\ gui \in Publishing
        /\ gui' \in Unregistered <=> gui \in Unregistered
    BY <1>6 DEF second_read, GuiSteps
  <2>2. HandShape'
    BY <1>0, <1>6, <2>1 DEF second_read
  <2> QED BY <1>0, <1>6, <2>1, <2>2, CallShape DEF second_read
<1>7. CASE send_sn_register
  <2> DEFINE m == SnRegister(seen + 1, guiMsg.topic, 0)
  <2>1. seen + 1 \in SnIds /\ seen + 1 # 0 /\ current_packet_number' \in SnIds
    BY <1>7, GivenNumber DEF send_sn_register, ShapeInv
  <2>2. m \in SnPacket /\ Sendable(m) /\ m.type = "REGISTER"
    BY <1>0, <1>7, <2>1, MessageTypes, MessageFields
       DEF send_sn_register, Sendable, Storable, SubTypes
  <2> HIDE DEF m
  <2>3. fault' \in Faults /\ MapShape(messages_map') /\ OutShape(toGw')
    BY <1>0, <1>7, <2>2, FaultTypes, StoredShape, Fired
       DEF send_sn_register, Sendable, sn_encode_and_fire, m
  <2> QED BY <1>0, <1>b, <1>7, <2>1, <2>3, CallShape DEF send_sn_register, GuiSteps
<1>8. CASE send_sn_publish_fire
  <2> DEFINE m == Numbered(guiMsg)
  <2>1. seen + 1 \in SnIds /\ seen + 1 # 0 /\ current_packet_number' \in SnIds
    BY <1>8, GivenNumber DEF send_sn_publish_fire, ShapeInv
  <2>2. /\ m \in SnPacket /\ Sendable(m) /\ m.type = "PUBLISH" /\ m.topic \in Topics
    BY <1>0, <1>8, <2>1, NumberedFields DEF send_sn_publish_fire, Numbered, Sendable, Storable
  <2>3. guiMsg' = m
    BY <1>8 DEF send_sn_publish_fire
  <2>4. fault' \in Faults /\ OutShape(toGw')
    BY <1>0, <1>8, <2>2, FaultTypes, Fired DEF send_sn_publish_fire, sn_encode_and_fire
  <2> HIDE DEF m
  <2>5. HandShape'
    BY <1>8, <2>2, <2>3 DEF send_sn_publish_fire, Sendable
  <2> QED BY <1>0, <1>8, <2>1, <2>2, <2>3, <2>4, <2>5, CallShape DEF send_sn_publish_fire, GuiSteps
<1>9. CASE send_sn_publish_add
  <2>1. fault' \in Faults /\ MapShape(messages_map')
    BY <1>0, <1>9, FaultTypes, StoredShape DEF send_sn_publish_add, Sendable
  <2>2. saved' \in [ Contents -> Nat ]
    BY <1>0, <1>9, CountUp DEF send_sn_publish_add, save_message
  <2> QED BY <1>0, <1>b, <1>9, <2>1, <2>2, CallShape DEF send_sn_publish_add, GuiSteps
<1>10. CASE send_sn_disconnect_stop
  <2>1. fault' \in Faults
    <3>1. StopFaults \cup CancelFaults("pinger") \cup CancelFaults("connecter") \subseteq Faults
      BY FaultTypes
    <3> QED BY <1>10, <3>1, FaultTypes DEF send_sn_disconnect_stop
  <2>2. SnTimersTypeOK'
    BY <1>10, <2>1, StoppedTypes DEF send_sn_disconnect_stop, ShapeInv, TypeOK, SnTimersTypeOK,
                                     MapShape, ThreadStates
  <2>3. TypeOK'
    BY <1>10, <2>2 DEF send_sn_disconnect_stop, ShapeInv, TypeOK, GatewayTypeOK, GuiSteps
  <2>4. MapShape(messages_map')
    BY <1>10, StoppedTypes DEF send_sn_disconnect_stop, ShapeInv
  <2> QED BY <1>0, <1>10, <2>3, <2>4 DEF send_sn_disconnect_stop, ShapeInv, OutShape, InShape,
                                         MapShape
<1>11. CASE send_sn_disconnect_fire
  <2>1. fault' \in Faults /\ OutShape(toGw')
    <3>1. SnPlain("DISCONNECT") \in SnPacket /\ Sendable(SnPlain("DISCONNECT"))
      BY MessageTypes, MessageFields, IdTypes DEF Sendable, Storable, SubTypes, SnMessageType
    <3> QED BY <1>0, <1>11, <3>1, FaultTypes, Fired DEF send_sn_disconnect_fire, sn_encode_and_fire
  <2> QED BY <1>0, <1>11, <2>1, CallShape DEF send_sn_disconnect_fire, GuiSteps
<1> QED BY <1>1, <1>2, <1>3, <1>4, <1>5, <1>6, <1>7, <1>8, <1>9, <1>10, <1>11 DEF GuiStep
-----------------------------------------------------------------------------
(* Types: the service thread and the connecter.                            *)

\* What process_sn_rx may change for most of the datagrams.
LEMMA RxShape ==
  ASSUME ShapeInv, NEW a \in toClient, NEW types, Rx(a, types),
         UNCHANGED << net, is_stop, mapState, thread, tries, gatewayVars, guiVars, worker, ui,
                      session, ops, is_disconnect_sent, chosen >>,
         fault' \in Faults, OutShape(toGw'), MapShape(messages_map'),
         topic_name_map' \in [ Topics -> TopicIds \cup {0} ],
         reverse_topic_name_map' \in [ TopicIds -> Topics \cup {None} ],
         topicState' \in TableStates, current_packet_number' \in SnIds,
         rows' \in Rows, saved' \in [ Contents -> Nat ],
         received' \in [ Incoming -> SUBSET (Topics \cup {None}) ]
  PROVE  ShapeInv'
<1>1. toClient' \subseteq toClient
  BY DEF Rx, Received
<1>2. SnTimersTypeOK'
  BY <1>1 DEF ShapeInv, TypeOK, SnTimersTypeOK, OutShape, MapShape
<1>3. GatewayTypeOK'
  BY DEF ShapeInv, TypeOK, GatewayTypeOK, gatewayVars
<1>4. TypeOK'
  BY <1>2, <1>3 DEF ShapeInv, TypeOK, guiVars
<1>5. InShape(toClient)' /\ HandShape'
  BY <1>1 DEF ShapeInv, InShape, HandShape, guiVars
<1> QED BY <1>4, <1>5 DEF ShapeInv, OutShape, MapShape

\* fin_mqtt_sn_client keeps the types.
LEMMA FinTypes ==
  ASSUME ShapeInv, NEW rs, rs \subseteq Faults, fin_mqtt_sn_client(rs)
  PROVE  /\ fault' \in Faults /\ is_stop' \in BOOLEAN
         /\ ui' \in { "accounts", "loading", "main" }
         /\ MapShape(messages_map') /\ mapState' \in TableStates
         /\ topic_name_map' \in [ Topics -> TopicIds \cup {0} ]
         /\ reverse_topic_name_map' \in [ TopicIds -> Topics \cup {None} ]
         /\ topicState' \in TableStates
         /\ thread' \in [ SnThreads -> ThreadStates ] /\ tries' \in 0 .. SnConnectTries
<1>1. TypeOK /\ MapShape(messages_map) /\ tries \in 0 .. SnConnectTries
  BY DEF ShapeInv, TypeOK, SnTimersTypeOK
<1>2. CASE is_disconnect_sent
  BY <1>1, <1>2, FaultTypes DEF fin_mqtt_sn_client, snTimerVars, mapVars, topicVars, TypeOK,
                                SnTimersTypeOK, ThreadStates
<1>3. CASE ~is_disconnect_sent
  <2>1. rs \cup StopFaults \cup CancelFaults("pinger") \cup CancelFaults("connecter") \subseteq Faults
    BY FaultTypes
  <2> QED BY <1>1, <1>3, <2>1, FaultTypes, StoppedTypes
          DEF fin_mqtt_sn_client, connection_unsuccessful
<1> QED BY <1>2, <1>3

\* A step that ends in fin_mqtt_sn_client and leaves the rest alone.
LEMMA FinShape ==
  ASSUME ShapeInv, fin_mqtt_sn_client({}), net' \in { "none", "open", "ended" }, toGw' = toGw,
         toClient' \subseteq toClient,
         UNCHANGED << gatewayVars, guiVars, worker, session, ops, current_packet_number,
                      is_disconnect_sent, storeVars, chosen >>
  PROVE  ShapeInv'
<1>1. SnTimersTypeOK'
  BY FinTypes DEF ShapeInv, TypeOK, SnTimersTypeOK, MapShape, ThreadStates
<1>2. GatewayTypeOK'
  BY DEF ShapeInv, TypeOK, GatewayTypeOK, gatewayVars
<1>3. TypeOK'
  BY <1>1, <1>2, FinTypes DEF ShapeInv, TypeOK, guiVars, storeVars
<1>4. OutShape(toGw)' /\ InShape(toClient)' /\ HandShape'
  BY DEF ShapeInv, OutShape, InShape, HandShape, guiVars
<1> QED BY <1>3, <1>4, FinTypes DEF ShapeInv, MapShape

\* The topic maps, after a registration.
LEMMA TopicStored ==
  ASSUME TypeOK, NEW t \in Topics \cup {None}, NEW tid \in TopicIds \cup {0}, store_topic(t, tid)
  PROVE  /\ topic_name_map' \in [ Topics -> TopicIds \cup {0} ]
         /\ reverse_topic_name_map' \in [ TopicIds -> Topics \cup {None} ]
         /\ topicState' \in TableStates
BY DEF store_topic, TypeOK, SnTimersTypeOK

LEMMA RegackShape ==
  ASSUME ShapeInv, NEW a \in toClient, rx_regack(a)
  PROVE  ShapeInv'
<1> DEFINE p == sn_get_message_from_map(Registering(a))
           m == [ p EXCEPT !.tid = a.tid, !.id = current_packet_number + 1 ]
           old == removed({ Registering(a), a.id })
<1>0. /\ TypeOK /\ MapShape(messages_map) /\ OutShape(toGw) /\ a \in SnPacket
      /\ topic_name_map \in [ Topics -> TopicIds \cup {0} ]
      /\ reverse_topic_name_map \in [ TopicIds -> Topics \cup {None} ]
      /\ topicState \in TableStates /\ current_packet_number \in SnIds
      /\ rows \in Rows /\ saved \in [ Contents -> Nat ]
      /\ received \in [ Incoming -> SUBSET (Topics \cup {None}) ]
  BY DEF ShapeInv, InShape, TypeOK, SnTimersTypeOK
<1>1. Rx(a, {"REGACK"}) /\ a.type = "REGACK" /\ a.id # 0 /\ a.tid # 0 /\ a.id \in SnIds
      /\ a.tid \in TopicIds
  BY <1>0 DEF rx_regack, Rx, ShapeInv, InShape, Readable, SnPacket
<1>2. Registering(a) \in SnIds
  BY <1>1, SnPacketBounds DEF Registering, SnIds
<1>3. p \in SnPacket /\ Storable(p)
  BY <1>0, <1>2 DEF MapShape, sn_get_message_from_map
<1>4. MapShape(old)
  BY <1>0, RemovedMap
<1>5. fault' \in Faults
  BY FaultTypes DEF rx_regack
<1>6. UNCHANGED << net, is_stop, mapState, thread, tries, gatewayVars, guiVars, worker, ui,
                   session, ops, is_disconnect_sent, rows, received, chosen >>
  BY DEF rx_regack
<1>7. CASE /\ UNCHANGED << toGw, topicVars, current_packet_number, saved >>
           /\ messages_map' = messages_map \/ messages_map' = old
  <2>1. UNCHANGED << topic_name_map, reverse_topic_name_map, topicState >>
    BY <1>7 DEF topicVars
  <2> HIDE DEF old
  <2> QED BY <1>0, <1>1, <1>4, <1>5, <1>6, <1>7, <2>1, RxShape
<1>8. CASE publish_registered(a, p)
  <2>1. current_packet_number + 1 \in SnIds /\ current_packet_number + 1 # 0
    BY <1>0, <1>8, SnPacketBounds DEF publish_registered, SnIds
  <2>2. /\ m \in SnPacket /\ m.id = current_packet_number + 1 /\ m.tid = a.tid
        /\ m.type = p.type /\ m.topic = p.topic
    BY <1>1, <1>3, <2>1 DEF SnPacket
  <2>3. Sendable(m)
    BY <1>1, <1>3, <2>1, <2>2 DEF Sendable, Storable
  <2>4. /\ store_topic(p.topic, a.tid) /\ sn_encode_and_fire(m)
        /\ current_packet_number' = current_packet_number + 1
        /\ \/ messages_map' = old /\ save_message(m.content)
           \/ messages_map' = [ old EXCEPT ![m.id] = m ] /\ saved' = saved
    BY <1>8 DEF publish_registered
  <2>5. p.topic \in Topics \cup {None} /\ a.tid \in TopicIds \cup {0}
    BY <1>1, <1>3 DEF SnPacket
  <2>6. /\ topic_name_map' \in [ Topics -> TopicIds \cup {0} ]
        /\ reverse_topic_name_map' \in [ TopicIds -> Topics \cup {None} ]
        /\ topicState' \in TableStates
    BY <1>0, <2>4, <2>5, TopicStored
  <2> HIDE DEF m, old
  <2>7. OutShape(toGw')
    BY <1>0, <2>2, <2>3, <2>4, Fired DEF sn_encode_and_fire
  <2>8. MapShape(messages_map')
    BY <1>4, <2>1, <2>2, <2>3, <2>4, AddedMap DEF Sendable
  <2>9. saved' \in [ Contents -> Nat ]
    BY <1>0, <2>4, CountUp DEF save_message
  <2> QED BY <1>0, <1>1, <1>5, <1>6, <2>1, <2>4, <2>6, <2>7, <2>8, <2>9, RxShape
<1> QED BY <1>7, <1>8 DEF rx_regack

LEMMA RxStepShape ==
  ASSUME ShapeInv, NEW a \in toClient, RxStep(a)
  PROVE  ShapeInv'
<1> USE DEF snTimerVars, mapVars, topicVars, gatewayVars, storeVars, netVars, restOfClient
<1>0. /\ TypeOK /\ MapShape(messages_map) /\ OutShape(toGw) /\ InShape(toClient) /\ fault \in Faults
      /\ a \in SnPacket /\ Readable(a) /\ a.id \in SnIds /\ a.tid \in TopicIds \cup {0}
      /\ topic_name_map \in [ Topics -> TopicIds \cup {0} ]
      /\ reverse_topic_name_map \in [ TopicIds -> Topics \cup {None} ]
      /\ topicState \in TableStates /\ current_packet_number \in SnIds
      /\ rows \in Rows /\ saved \in [ Contents -> Nat ]
      /\ received \in [ Incoming -> SUBSET (Topics \cup {None}) ]
  BY DEF ShapeInv, InShape, TypeOK, SnTimersTypeOK, SnPacket
<1>a. \A is : MapShape(removed(is))
  BY <1>0, RemovedMap
<1>b. ASSUME NEW type \in { "PUBACK", "PUBREC", "PUBREL", "PUBCOMP", "WILL_TOPIC", "WILL_MSG" },
             NEW i \in SnIds, NEW tid \in TopicIds \cup {0}
      PROVE  OutShape(fired(SnAnswer(type, i, tid, TRUE)))
  <2>1. type \in SnMessageType \ (SubTypes \cup { "REGISTER" }) /\ type \notin { "PUBLISH", "REGACK" }
    BY DEF SnMessageType, SubTypes
  <2>2. SnAnswer(type, i, tid, TRUE) \in SnPacket /\ Sendable(SnAnswer(type, i, tid, TRUE))
    BY <2>1, AnswerSendable
  <2> QED BY <1>0, <2>2, Fired
<1>c. \A i \in SnIds : messages_map[i] \in SnPacket /\ Storable(messages_map[i])
  BY <1>0 DEF MapShape
<1>1. CASE rx_connack(a)
  <2>1. fault' \in Faults
    <3>1. CancelFaults("connecter") \cup TableFaults \subseteq Faults
      BY FaultTypes
    <3> QED BY <1>1, <3>1, FaultTypes DEF rx_connack
  <2>2. rows' \in Rows /\ ui' \in { "accounts", "loading", "main" } /\ worker' \in { "service", "timers" }
    BY <1>0, <1>1, RowTypes DEF rx_connack, TypeOK
  <2>3. thread' \in [ SnThreads -> ThreadStates ] /\ MapShape(messages_map')
    BY <1>0, <1>a, <1>1, CancelledThreads DEF rx_connack
  <2>4. toClient' \subseteq toClient
    BY <1>1 DEF rx_connack, Rx, Received
  <2>5. SnTimersTypeOK'
    BY <1>0, <1>1, <2>1, <2>3, <2>4 DEF rx_connack, TypeOK, SnTimersTypeOK, MapShape, ThreadStates
  <2>6. TypeOK'
    BY <1>0, <1>1, <2>2, <2>5 DEF rx_connack, TypeOK, GatewayTypeOK, guiVars
  <2>7. OutShape(toGw)' /\ InShape(toClient)' /\ HandShape'
    BY <1>1, <2>4 DEF rx_connack, ShapeInv, OutShape, InShape, HandShape, guiVars
  <2> QED BY <2>3, <2>6, <2>7 DEF ShapeInv, MapShape
<1>2. CASE rx_will(a)
  <2>1. OutShape(toGw')
    <3>1. 0 \in SnIds /\ 0 \in TopicIds \cup {0}
      BY IdTypes
    <3>2. OutShape(fired(SnPlain("WILL_TOPIC"))) /\ OutShape(fired(SnPlain("WILL_MSG")))
      BY <1>b, <3>1 DEF SnPlain
    <3> QED BY <1>2, <3>2 DEF rx_will, sn_encode_and_fire
  <2> QED BY <1>0, <1>2, <2>1, RxShape DEF rx_will
<1>3. CASE rx_register(a)
  <2>1. /\ a.type = "REGISTER" /\ a.topic \in Topics /\ Rx(a, {"REGISTER"})
        /\ store_topic(a.topic, a.tid)
    BY <1>0, <1>3 DEF rx_register, Rx, Readable, Registration
  <2>2. /\ topic_name_map' \in [ Topics -> TopicIds \cup {0} ]
        /\ reverse_topic_name_map' \in [ TopicIds -> Topics \cup {None} ]
        /\ topicState' \in TableStates
    BY <1>0, <2>1, TopicStored
  <2>3. OutShape(toGw')
    <3>1. /\ SnAnswer("REGACK", a.id, a.tid, TRUE) \in SnPacket
          /\ Sendable(SnAnswer("REGACK", a.id, a.tid, TRUE))
      BY <1>0, <2>1, AnswerSendable DEF Readable, SubTypes, SnMessageType
    <3> QED BY <1>0, <1>3, <3>1, Fired DEF rx_register, sn_encode_and_fire
  <2>4. fault' \in Faults
    BY <1>3, FaultTypes DEF rx_register
  <2> QED BY <1>0, <1>3, <2>1, <2>2, <2>3, <2>4, RxShape DEF rx_register
<1>4. CASE rx_regack(a)
  BY <1>4, RegackShape
<1>5. CASE rx_publish(a)
  <2>1. a.type = "PUBLISH" /\ a.tid \in TopicIds
    BY <1>0, <1>5 DEF rx_publish, Rx, Readable
  <2>2. received' \in [ Incoming -> SUBSET (Topics \cup {None}) ]
    BY <1>0, <1>5, <2>1 DEF rx_publish, sn_get_topic_name_from_map
  <2>3. fault' \in Faults
    BY <1>5, FaultTypes DEF rx_publish, MayFault, Faults
  <2>4. OutShape(toGw')
    <3>1. 0 \in TopicIds \cup {0}
      OBVIOUS
    <3>2. /\ OutShape(fired(SnAnswer("PUBACK", a.id, a.tid, TRUE)))
          /\ OutShape(fired(SnAnswer("PUBREC", a.id, 0, TRUE)))
      BY <1>0, <1>b, <3>1
    <3> QED BY <1>0, <1>5, <3>2 DEF rx_publish, sn_encode_and_fire
  <2> QED BY <1>0, <1>5, <2>2, <2>3, <2>4, RxShape DEF rx_publish
<1>6. CASE rx_unmatched(a)
  <2>1. fault' \in Faults
    BY <1>6, FaultTypes DEF rx_unmatched, Faults
  <2> QED BY <1>0, <1>6, <2>1, RxShape DEF rx_unmatched
<1>7. CASE rx_wrong_cast(a)
  <2>1. fault' \in Faults
    BY <1>7 DEF rx_wrong_cast, Faults
  <2> QED BY <1>0, <1>7, <2>1, RxShape DEF rx_wrong_cast
<1>8. CASE rx_publish_done(a)
  <2>1. fault' \in Faults /\ saved' \in [ Contents -> Nat ]
    BY <1>0, <1>8, FaultTypes, CountUp DEF rx_publish_done, save_message
  <2> QED BY <1>0, <1>a, <1>8, <2>1, RxShape DEF rx_publish_done, Matched
<1>9. CASE rx_handshake(a)
  <2>1. OutShape(toGw')
    <3>1. 0 \in TopicIds \cup {0}
      OBVIOUS
    <3>2. /\ OutShape(fired(SnAnswer("PUBREL", a.id, 0, TRUE)))
          /\ OutShape(fired(SnAnswer("PUBCOMP", a.id, 0, TRUE)))
      BY <1>0, <1>b, <3>1
    <3> QED BY <1>9, <3>2 DEF rx_handshake, sn_encode_and_fire
  <2> QED BY <1>0, <1>9, <2>1, RxShape DEF rx_handshake
<1>10. CASE rx_suback(a)
  <2>1. a.type = "SUBACK" /\ a.tid \in TopicIds
    BY <1>0, <1>10 DEF rx_suback, Matched, Rx, Readable
  <2>2. sn_get_topic_name_from_map(a.tid) \in Topics \cup {None}
    BY <1>0, <2>1 DEF sn_get_topic_name_from_map
  <2>3. sn_get_message_from_map(a.id).topic \in Topics \cup {None}
    BY <1>0, <1>c DEF sn_get_message_from_map, SnPacket
  <2>4. \A t : subscribed(rows, t) \in Rows
    BY <1>0, RowTypes DEF subscribed
  <2>5. rows' \in Rows /\ fault' \in Faults
    BY <1>0, <1>10, <2>4, FaultTypes DEF rx_suback, Faults
  <2>6. /\ topic_name_map' \in [ Topics -> TopicIds \cup {0} ]
        /\ reverse_topic_name_map' \in [ TopicIds -> Topics \cup {None} ]
        /\ topicState' \in TableStates
    BY <1>0, <1>10, <2>3, TopicStored DEF rx_suback
  <2> QED BY <1>0, <1>a, <1>10, <2>5, <2>6, RxShape DEF rx_suback, Matched
<1>11. CASE rx_unsuback(a)
  <2>1. \A t : unsubscribed(rows, t) \in Rows
    BY <1>0, RowTypes DEF unsubscribed
  <2>2. rows' \in Rows /\ fault' \in Faults
    BY <1>0, <1>11, <2>1, FaultTypes DEF rx_unsuback, Faults
  <2> QED BY <1>0, <1>a, <1>11, <2>2, RxShape DEF rx_unsuback, Matched
<1>12. CASE rx_ignored(a)
  BY <1>0, <1>12, RxShape DEF rx_ignored
<1>13. CASE rx_disconnect(a)
  <2>1. toClient' \subseteq toClient
    BY <1>13 DEF rx_disconnect, Rx, Received
  <2>2. net \in { "none", "open", "ended" }
    BY <1>0 DEF TypeOK, SnTimersTypeOK
  <2> QED BY <1>13, <2>1, <2>2, FinShape DEF rx_disconnect
<1> QED BY <1>1, <1>2, <1>3, <1>4, <1>5, <1>6, <1>7, <1>8, <1>9, <1>10, <1>11, <1>12, <1>13 DEF RxStep

LEMMA ServiceShape ==
  ASSUME ShapeInv, ServiceStep
  PROVE  ShapeInv'
<1> USE DEF snTimerVars, mapVars, topicVars, gatewayVars, storeVars, netVars
<1>1. CASE rx_connack_timers
  <2>1. SnTimersTypeOK'
    BY <1>1 DEF rx_connack_timers, start_mqtt_sn_ping_timer, ShapeInv, TypeOK, SnTimersTypeOK,
                NoTopicIds, NoTopicNames, TableStates
  <2> QED BY <1>1, <2>1 DEF rx_connack_timers, start_mqtt_sn_ping_timer, ShapeInv, TypeOK,
                            GatewayTypeOK, OutShape, InShape, MapShape, HandShape, guiVars
<1>2. CASE service_ends
  <2>1. CASE Secure
    BY <1>2, <2>1 DEF service_ends, ShapeInv, TypeOK, SnTimersTypeOK, GatewayTypeOK, OutShape,
                      InShape, MapShape, HandShape, guiVars
  <2>2. CASE ~Secure
    BY <1>2, <2>2, FinShape DEF service_ends
  <2> QED BY <2>1, <2>2
<1> QED BY <1>1, <1>2, RxStepShape DEF ServiceStep, RxAny

LEMMA ConnecterShape ==
  ASSUME ShapeInv, connect_task
  PROVE  ShapeInv'
<1> USE DEF snTimerVars, mapVars, topicVars, gatewayVars, storeVars, netVars
<1>0. /\ TypeOK /\ MapShape(messages_map) /\ OutShape(toGw)
      /\ tries \in 0 .. SnConnectTries /\ net \in { "none", "open", "ended" }
  BY DEF ShapeInv, TypeOK, SnTimersTypeOK
<1>1. CASE RoundLeft
  <2>1. tries' \in 0 .. SnConnectTries
    BY <1>0, <1>1, SnTimerBounds DEF connect_task, RoundLeft
  <2>2. fault' \in Faults
    <3>1. TableFaults \cup FireFaults \subseteq Faults
      BY FaultTypes
    <3> QED BY <1>1, <3>1, FaultTypes DEF connect_task
  <2>3. OutShape(toGw')
    <3>1. messages_map[0] \in SnPacket /\ Sendable(messages_map[0])
      BY <1>0, IdTypes DEF MapShape
    <3> QED BY <1>0, <1>1, <3>1, Fired DEF connect_task, sn_get_message_from_map
  <2>4. SnTimersTypeOK'
    BY <1>0, <1>1, <2>1, <2>2, <2>3 DEF connect_task, TypeOK, SnTimersTypeOK, OutShape
  <2> QED BY <1>1, <2>3, <2>4 DEF connect_task, ShapeInv, TypeOK, GatewayTypeOK, OutShape, InShape,
                                  MapShape, HandShape, guiVars
<1>2. CASE ~RoundLeft /\ is_disconnect_sent
  <2>1. SnTimersTypeOK'
    BY <1>0, <1>2 DEF connect_task, TypeOK, SnTimersTypeOK
  <2> QED BY <1>2, <2>1 DEF connect_task, ShapeInv, TypeOK, GatewayTypeOK, OutShape, InShape,
                            MapShape, HandShape, guiVars
<1>3. CASE ~RoundLeft /\ ~is_disconnect_sent
  BY <1>0, <1>3, FinShape DEF connect_task
<1> QED BY <1>1, <1>2, <1>3
-----------------------------------------------------------------------------
(* Types: the pinger, the gateway and the network.                         *)

LEMMA PingShape ==
  ASSUME ShapeInv, PingStep
  PROVE  ShapeInv'
<1> USE DEF snTimerVars, mapVars, topicVars, gatewayVars, storeVars, netVars, clientVars, guiVars
<1>1. OutShape(toGw')
  <2>1. "PINGREQ" \in SnMessageType \ (SubTypes \cup { "REGISTER" })
    BY DEF SnMessageType, SubTypes
  <2>2. SnPlain("PINGREQ") \in SnPacket /\ Sendable(SnPlain("PINGREQ"))
    BY <2>1, AnswerSendable, IdTypes DEF SnPlain
  <2> QED BY <2>2, Fired DEF PingStep, sn_ping_task, sn_encode_and_fire, ShapeInv
<1>2. fault' \in Faults
  BY FaultTypes DEF PingStep, sn_ping_task
<1>3. TypeOK'
  BY <1>1, <1>2 DEF PingStep, sn_ping_task, ShapeInv, TypeOK, SnTimersTypeOK, GatewayTypeOK, OutShape
<1> QED BY <1>1, <1>3 DEF PingStep, sn_ping_task, ShapeInv, InShape, OutShape, MapShape, HandShape

\* What the gateway and the network may change.
LEMMA OutsideShape ==
  ASSUME ShapeInv, UNCHANGED << fault, net, snTimerVars, clientVars >>, is_stop' \in BOOLEAN,
         toGw' \subseteq toGw, InShape(toClient'), GatewayTypeOK'
  PROVE  ShapeInv'
<1> USE DEF snTimerVars, mapVars, topicVars, storeVars, clientVars, guiVars
<1>1. TypeOK'
  BY DEF ShapeInv, TypeOK, SnTimersTypeOK, OutShape, InShape
<1> QED BY <1>1 DEF ShapeInv, OutShape, InShape, MapShape, HandShape

\* What the gateway answers can be read.
LEMMA ReplyShape ==
  ASSUME InShape(toClient),
         NEW type \in SnMessageType \ { "REGISTER" }, NEW i \in SnIds,
         NEW tid \in TopicIds \cup {0}, NEW ok \in BOOLEAN,
         type \in { "PUBLISH", "SUBACK", "REGACK" } => tid # 0,
         type = "REGACK" => i # 0,
         Reply(SnAnswer(type, i, tid, ok))
  PROVE  InShape(toClient')
<1>1. SnAnswer(type, i, tid, ok) \in SnPacket
  BY AnswerTyped
<1>2. Readable(SnAnswer(type, i, tid, ok))
  BY DEF SnAnswer, SnBuild, Readable
<1> QED BY <1>1, <1>2, Answered

\* The topic ids on which the messages of the gateway end.
LEMMA NamedTopic ==
  ASSUME NEW m \in SnPacket, m.topic # None \/ m.tid # 0
  PROVE  Named(m) \in Topics
BY IdTypes DEF Named, SnPacket

LEMMA GatewayReadsShape ==
  ASSUME ShapeInv, NEW ping \in BOOLEAN, Gateway(GatewayReads(ping))
  PROVE  ShapeInv'
<1> USE DEF gatewayVars, GatewayTypeOK
<1>1. PICK m \in toGw :
        /\ toGw' \in Received(toGw, m)
        /\ UNCHANGED << fault, net, is_stop >>
        /\ \/ ReadConnecting(m) \/ ReadRegister(m) \/ ReadPublish(m) \/ ReadSubscribe(m)
           \/ ReadUnsubscribe(m) \/ ReadHandshake(m) \/ ReadRegack(m) \/ ReadDisconnect(m)
  BY DEF Gateway, GatewayReads
<1>2. /\ TypeOK /\ GatewayTypeOK /\ InShape(toClient) /\ is_stop \in BOOLEAN
      /\ m \in SnPacket /\ Sendable(m) /\ m.id \in SnIds /\ m.tid \in TopicIds \cup {0}
  BY DEF ShapeInv, OutShape, TypeOK, SnTimersTypeOK, SnPacket
<1>3. toGw' \subseteq toGw
  BY <1>1 DEF Received
<1>4. 0 \in SnIds /\ 0 \in TopicIds \cup {0} /\ TRUE \in BOOLEAN /\ Codes \subseteq BOOLEAN
  BY IdTypes DEF Codes
<1>5. \A type : SnPlain(type) = SnAnswer(type, 0, 0, TRUE)
  BY DEF SnPlain
<1>6. { "CONNACK", "WILL_TOPIC_REQ", "WILL_MSG_REQ", "REGACK", "PUBACK", "PUBREC", "PUBREL",
        "PUBCOMP", "SUBACK", "UNSUBACK", "PINGRESP", "DISCONNECT" } \subseteq SnMessageType
  BY DEF SnMessageType
<1> SUFFICES InShape(toClient') /\ GatewayTypeOK'
  BY <1>1, <1>2, <1>3, OutsideShape DEF Gateway
<1>7. CASE ReadConnecting(m)
  <2>1. GatewayTypeOK'
    BY <1>2, <1>7 DEF ReadConnecting, Connack
  <2>2. CASE Connack
    <3>1. PICK ok \in Codes : Reply(SnAnswer("CONNACK", 0, 0, ok))
      BY <2>2 DEF Connack
    <3> QED BY <1>2, <1>4, <1>6, <2>1, <3>1, ReplyShape
  <2>3. CASE Reply(SnPlain("WILL_TOPIC_REQ"))
    BY <1>2, <1>4, <1>5, <1>6, <2>1, <2>3, ReplyShape
  <2>4. CASE Reply(SnPlain("WILL_MSG_REQ"))
    BY <1>2, <1>4, <1>5, <1>6, <2>1, <2>4, ReplyShape
  <2> QED BY <1>7, <2>2, <2>3, <2>4 DEF ReadConnecting
<1>8. CASE ReadRegister(m)
  <2>1. m.type = "REGISTER" /\ m.topic \in Topics /\ m.id # 0
    BY <1>2, <1>8 DEF ReadRegister, Sendable, Storable
  <2>2. TopicIdOf[m.topic] \in TopicIds /\ TopicIdOf[m.topic] # 0
    BY <2>1, IdTypes
  <2>3. PICK ok \in Codes : Reply(SnAnswer("REGACK", m.id, TopicIdOf[m.topic], ok))
    BY <1>8 DEF ReadRegister
  <2>4. InShape(toClient')
    BY <1>2, <1>4, <1>6, <2>1, <2>2, <2>3, ReplyShape
  <2> QED BY <1>2, <1>8, <2>1, <2>4 DEF ReadRegister
<1>9. CASE ReadPublish(m)
  <2>1. m.type = "PUBLISH" /\ m.tid # 0
    BY <1>2, <1>9 DEF ReadPublish, Sendable
  <2>2. TopicOf(m.tid) \in Topics
    BY <1>2, <2>1, IdTypes
  <2>3. GatewayTypeOK'
    BY <1>2, <1>9, <2>2 DEF ReadPublish
  <2>4. CASE UNCHANGED toClient
    BY <1>2, <2>3, <2>4 DEF InShape
  <2>5. CASE Reply(SnAnswer("PUBACK", m.id, m.tid, TRUE))
    BY <1>2, <1>4, <1>6, <2>3, <2>5, ReplyShape
  <2>6. CASE Reply(SnAnswer("PUBREC", m.id, 0, TRUE))
    BY <1>2, <1>4, <1>6, <2>3, <2>6, ReplyShape
  <2> QED BY <1>9, <2>4, <2>5, <2>6 DEF ReadPublish
<1>10. CASE ReadSubscribe(m)
  <2>1. Named(m) \in Topics
    BY <1>2, <1>10, NamedTopic DEF ReadSubscribe, Sendable, Storable, SubTypes
  <2>2. TopicIdOf[Named(m)] \in TopicIds /\ TopicIdOf[Named(m)] # 0
    BY <2>1, IdTypes
  <2>3. PICK ok \in Codes : Reply(SnAnswer("SUBACK", m.id, TopicIdOf[Named(m)], ok))
    BY <1>10 DEF ReadSubscribe
  <2>4. InShape(toClient')
    BY <1>2, <1>4, <1>6, <2>2, <2>3, ReplyShape
  <2> QED BY <1>2, <1>10, <2>1, <2>4 DEF ReadSubscribe
<1>11. CASE ReadUnsubscribe(m)
  <2>1. InShape(toClient')
    BY <1>2, <1>4, <1>6, <1>11, ReplyShape DEF ReadUnsubscribe
  <2> QED BY <1>2, <1>11, <2>1 DEF ReadUnsubscribe
<1>12. CASE ReadHandshake(m)
  <2>1. GatewayTypeOK'
    BY <1>2, <1>12 DEF ReadHandshake
  <2>2. CASE UNCHANGED toClient
    BY <1>2, <2>1, <2>2 DEF InShape
  <2>3. CASE Reply(SnAnswer("PUBCOMP", m.id, 0, TRUE))
    BY <1>2, <1>4, <1>6, <2>1, <2>3, ReplyShape
  <2>4. CASE Reply(SnAnswer("PUBREL", m.id, 0, TRUE))
    BY <1>2, <1>4, <1>6, <2>1, <2>4, ReplyShape
  <2>5. CASE Reply(SnPlain("PINGRESP"))
    BY <1>2, <1>4, <1>5, <1>6, <2>1, <2>5, ReplyShape
  <2> QED BY <1>12, <2>2, <2>3, <2>4, <2>5 DEF ReadHandshake
<1>13. CASE ReadRegack(m)
  <2>1. TopicOf(m.tid) \in Topics
    BY <1>2, <1>13, IdTypes DEF ReadRegack, Sendable
  <2> QED BY <1>2, <1>13, <2>1 DEF ReadRegack, InShape
<1>14. CASE ReadDisconnect(m)
  <2>1. InShape(toClient')
    BY <1>2, <1>4, <1>5, <1>6, <1>14, ReplyShape DEF ReadDisconnect
  <2> QED BY <1>2, <1>14, <2>1 DEF ReadDisconnect
<1> QED BY <1>1, <1>7, <1>8, <1>9, <1>10, <1>11, <1>12, <1>13, <1>14

LEMMA GatewayShape ==
  ASSUME ShapeInv, GatewayStep \/ NetworkStep
  PROVE  ShapeInv'
<1> USE DEF gatewayVars, GatewayTypeOK
<1>0. /\ TypeOK /\ GatewayTypeOK /\ InShape(toClient) /\ is_stop \in BOOLEAN
  BY DEF ShapeInv, TypeOK, SnTimersTypeOK
<1>1. ASSUME NEW p \in BOOLEAN, Gateway(GatewayReads(p)) PROVE ShapeInv'
  BY <1>1, GatewayReadsShape
<1>2. ASSUME NEW i \in Incoming, Gateway(GatewayPublishes(i)) PROVE ShapeInv'
  <2>1. PICK t \in gSubs :
          IF t \in gKnown
          THEN /\ \E q \in SnQoS : Reply(SnPublish(i, None, TopicIdOf[t], q, None))
               /\ gIn' = [ gIn EXCEPT ![i] = t ]
          ELSE Reply(SnRegister(i, t, TopicIdOf[t])) /\ UNCHANGED gIn
    BY <1>2 DEF Gateway, GatewayPublishes
  <2>2. t \in Topics /\ TopicIdOf[t] \in TopicIds /\ TopicIdOf[t] # 0 /\ i \in SnIds
    BY <1>0, <2>1, IdTypes
  <2>3. GatewayTypeOK'
    BY <1>0, <1>2, <2>1, <2>2 DEF Gateway, GatewayPublishes
  <2>4. PICK b \in SnPacket : Reply(b) /\ Readable(b)
    <3>1. CASE t \in gKnown
      <4>1. PICK q \in SnQoS : Reply(SnPublish(i, None, TopicIdOf[t], q, None))
        BY <2>1, <3>1
      <4>2. SnPublish(i, None, TopicIdOf[t], q, None) \in SnPacket
        BY <2>2 DEF SnPublish, SnBuild, SnPacket, SnMessageType
      <4>3. Readable(SnPublish(i, None, TopicIdOf[t], q, None))
        BY <2>2 DEF SnPublish, SnBuild, Readable
      <4> QED BY <4>1, <4>2, <4>3
    <3>2. CASE t \notin gKnown
      <4>1. SnRegister(i, t, TopicIdOf[t]) \in SnPacket
        BY <2>2 DEF SnRegister, SnBuild, SnPacket, SnMessageType, SnQoS
      <4>2. Readable(SnRegister(i, t, TopicIdOf[t]))
        BY <2>2 DEF SnRegister, SnBuild, Readable
      <4> QED BY <2>1, <3>2, <4>1, <4>2
    <3> QED BY <3>1, <3>2
  <2>5. InShape(toClient')
    BY <1>0, <2>4, Answered
  <2> QED BY <1>0, <1>2, <2>3, <2>5, OutsideShape DEF Gateway, GatewayPublishes
<1>3. CASE Gateway(GatewayDisconnects)
  <2>1. InShape(toClient')
    <3>1. "DISCONNECT" \in SnMessageType \ { "REGISTER" }
      BY DEF SnMessageType
    <3> QED BY <1>0, <1>3, <3>1, IdTypes, ReplyShape DEF Gateway, GatewayDisconnects, SnPlain
  <2> QED BY <1>0, <1>3, <2>1, OutsideShape DEF Gateway, GatewayDisconnects
<1>4. CASE Gateway(LoseDatagram)
  <2>1. toGw' \subseteq toGw /\ toClient' \subseteq toClient
    BY <1>4 DEF Gateway, LoseDatagram
  <2> QED BY <1>0, <1>4, <2>1, OutsideShape DEF Gateway, LoseDatagram, InShape
<1>5. CASE Gateway(LoseSocket)
  BY <1>0, <1>5, OutsideShape DEF Gateway, LoseSocket, InShape
<1> QED BY <1>1, <1>2, <1>3, <1>4, <1>5 DEF GatewayStep, NetworkStep

LEMMA InitShape == Init => ShapeInv
<1> SUFFICES ASSUME Init PROVE ShapeInv
  OBVIOUS
<1>1. SnTimersTypeOK
  <2>1. 0 \in 0 .. SnConnectTries
    BY SnTimerBounds
  <2>2. /\ NoTopicIds \in [ Topics -> TopicIds \cup {0} ]
        /\ NoTopicNames \in [ TopicIds -> Topics \cup {None} ]
    BY DEF NoTopicIds, NoTopicNames
  <2>3. NoMessages \in [ SnIds -> SnPacket ]
    BY EmptyMap DEF MapShape
  <2> QED BY <2>1, <2>2, <2>3 DEF Init, SnTimersInit, SnTimersTypeOK, Faults, TableStates
<1>2. TypeOK
  <2>1. GatewayTypeOK
    BY DEF Init, GatewayInit, GatewayTypeOK
  <2>2. rows \in Rows
    BY DEF Init, Rows, NoRows
  <2>3. 0 \in 0 .. SnMaxSessions /\ 0 \in 0 .. MaxOps
    BY SnClientBounds
  <2>4. chosen \in [ Contents -> [ topic : Topics \cup {None}, qos : SnQoS ] ]
    BY DEF Init, Unchosen, SnQoS
  <2> QED BY <1>1, <2>1, <2>2, <2>3, <2>4, MessageTypes, IdTypes DEF Init, TypeOK, GuiSteps
<1>3. HandShape
  BY MessageFields DEF Init, HandShape, Storable, Sendable, SubTypes, Publishing, Unregistered
<1> QED BY <1>2, <1>3, EmptyMap DEF Init, SnTimersInit, ShapeInv, OutShape, InShape

LEMMA ShapeStep ==
  ASSUME ShapeInv, [Next]_vars
  PROVE  ShapeInv'
<1>1. CASE UNCHANGED vars
  BY <1>1 DEF vars, netVars, snTimerVars, mapVars, topicVars, gatewayVars, clientVars, guiVars,
              storeVars, ShapeInv, TypeOK, SnTimersTypeOK, GatewayTypeOK, OutShape, InShape,
              MapShape, HandShape
<1> QED BY <1>1, UserShape, GuiShape, ServiceShape, ConnecterShape, PingShape, GatewayShape DEF Next

-----------------------------------------------------------------------------
(* The topic list.                                                         *)

\* Nothing but CONNACK, SUBACK, UNSUBACK and a log out touches the rows.
LEMMA RowsKept ==
  ASSUME RowsInv, rows' = rows, ui' = ui \/ ui' # "main",
         gui' = gui \/ gui \notin { "disc_stop", "disc_fire" } \/ ui' # "main"
  PROVE  RowsInv'
BY DEF RowsInv

LEMMA RxRows ==
  ASSUME ShapeInv, RowsInv, NEW a \in toClient, RxStep(a)
  PROVE  RowsInv'
<1> USE DEF restOfClient, storeVars, guiVars
<1>0. rows \in Rows /\ \A t \in Topics : /\ rows.list[t] \in Nat /\ rows.db[t] \in Nat
                                         /\ rows.db[t] <= rows.list[t] /\ rows.list[t] <= 1
  BY DEF ShapeInv, TypeOK, RowsInv, Rows
<1>1. CASE rx_connack(a)
  <2>1. CASE rows' = rows /\ ui' = ui
    BY <1>1, <2>1, RowsKept DEF rx_connack
  <2>2. CASE rows' = topics_from_db(rows)
    <3>1. \A t \in Topics : rows'.list[t] = rows.db[t] /\ rows'.db[t] = rows.db[t]
      BY <1>0, <2>2, ShownFromDb
    <3> QED BY <1>0, <3>1 DEF RowsInv
  <2> QED BY <1>1, <2>1, <2>2 DEF rx_connack
<1>2. CASE rx_suback(a)
  <2>1. gui' = gui /\ ui' = ui
    BY <1>2 DEF rx_suback
  <2>2. CASE rows' = rows
    BY <2>1, <2>2, RowsKept
  <2>3. ASSUME NEW x, rows' = subscribed(rows, x) PROVE RowsInv'
    <3>1. \A t \in Topics :
            IF t = x THEN rows'.list[t] = 1 /\ rows'.db[t] = IF rows.list[t] # 0 THEN 1 ELSE rows.db[t] + 1
            ELSE rows'.list[t] = rows.list[t] /\ rows'.db[t] = rows.db[t]
      BY <1>0, <2>3, RowsSaved DEF subscribed
    <3>2. \A t \in Topics : t = x => rows'.list[t] = 1 /\ rows'.db[t] = 1
      BY <1>0, <3>1
    <3> QED BY <1>0, <2>1, <3>1, <3>2 DEF RowsInv
  <2> QED BY <1>2, <2>2, <2>3 DEF rx_suback
<1>3. CASE rx_unsuback(a)
  <2>1. gui' = gui /\ ui' = ui
    BY <1>3 DEF rx_unsuback
  <2>2. CASE rows' = rows
    BY <2>1, <2>2, RowsKept
  <2>3. ASSUME NEW x, rows' = unsubscribed(rows, x) PROVE RowsInv'
    <3>1. \A t \in Topics :
            IF t = x THEN rows'.list[t] = 0 /\ rows'.db[t] = 0
            ELSE rows'.list[t] = rows.list[t] /\ rows'.db[t] = rows.db[t]
      BY <1>0, <2>3, RowsUnsubscribed
    <3> QED BY <1>0, <2>1, <3>1 DEF RowsInv
  <2> QED BY <1>3, <2>2, <2>3 DEF rx_unsuback
<1>4. CASE rx_disconnect(a)
  BY <1>4, RowsKept DEF rx_disconnect, fin_mqtt_sn_client, connection_unsuccessful
<1>5. CASE rx_will(a) \/ rx_register(a) \/ rx_publish(a) \/ rx_unmatched(a) \/ rx_wrong_cast(a)
           \/ rx_publish_done(a) \/ rx_handshake(a) \/ rx_ignored(a)
  BY <1>5, RowsKept DEF rx_will, rx_register, rx_publish, rx_unmatched, rx_wrong_cast,
                        rx_publish_done, rx_handshake, rx_ignored
<1>6. CASE rx_regack(a)
  BY <1>6, RowsKept DEF rx_regack
<1> QED BY <1>1, <1>2, <1>3, <1>4, <1>5, <1>6 DEF RxStep

LEMMA RowsStep ==
  ASSUME ShapeInv, RowsInv, [Next]_vars
  PROVE  RowsInv'
<1> USE DEF Gui, netVars, snTimerVars, storeVars, guiVars, clientVars
<1>0. rows \in Rows /\ \A t \in Topics : /\ rows.list[t] \in Nat /\ rows.db[t] \in Nat
                                         /\ rows.db[t] <= rows.list[t] /\ rows.list[t] <= 1
  BY DEF ShapeInv, TypeOK, RowsInv, Rows
<1>1. CASE UserStep
  <2>1. CASE log_out_handle
    <3>1. gui' = "disc_stop" /\ rows'.list = rows.list
          /\ (rows'.db = rows.db \/ rows'.db = [ t \in Topics |-> 0 ])
      BY <2>1 DEF log_out_handle
    <3>2. \A t \in Topics : rows'.db[t] <= rows'.list[t] /\ rows'.list[t] <= 1
      BY <1>0, <3>1
    <3> QED BY <3>1, <3>2 DEF RowsInv
  <2>2. CASE LogIn \/ LogInFails
    BY <2>2, RowsKept DEF LogIn, LogInFails
  <2>3. ASSUME NEW step, NEW m, Begin(step, m) PROVE RowsInv'
    BY <2>3, RowsKept DEF Begin
  <2> QED BY <1>1, <2>1, <2>2, <2>3
          DEF UserStep, send_sn_subscribe, send_sn_unsubscribe, send_sn_message
<1>2. CASE GuiStep
  <2>1. rows' = rows
    BY <1>2 DEF GuiStep, send_sn_connect_fire, send_sn_connect_timer, send_sn_connect_add,
                send_numbered, send_sn_message_number, second_read, send_sn_register,
                send_sn_publish_fire, send_sn_publish_add, send_sn_disconnect_stop,
                send_sn_disconnect_fire
  <2>2. CASE send_sn_disconnect_stop
    BY <2>1, <2>2 DEF RowsInv, send_sn_disconnect_stop
  <2>3. CASE send_sn_disconnect_fire
    BY <2>1, <2>3 DEF RowsInv, send_sn_disconnect_fire
  <2>4. CASE ~send_sn_disconnect_stop /\ ~send_sn_disconnect_fire
    <3>1. ui' = ui /\ gui \notin { "disc_stop", "disc_fire" }
      BY <1>2, <2>4 DEF GuiStep, send_sn_connect_fire, send_sn_connect_timer, send_sn_connect_add,
                send_numbered, send_sn_message_number, second_read, send_sn_register,
                send_sn_publish_fire, send_sn_publish_add
    <3> QED BY <2>1, <3>1, RowsKept
  <2> QED BY <2>2, <2>3, <2>4
<1>3. ASSUME NEW a \in toClient, RxStep(a) PROVE RowsInv'
  BY <1>3, RxRows
<1>4. CASE rx_connack_timers \/ service_ends \/ connect_task
  BY <1>4, RowsKept DEF rx_connack_timers, service_ends, connect_task, fin_mqtt_sn_client,
                        connection_unsuccessful
<1>5. CASE PingStep \/ GatewayStep \/ NetworkStep \/ UNCHANGED vars
  BY <1>5, RowsKept DEF PingStep, GatewayStep, NetworkStep, Gateway, vars
<1> QED BY <1>1, <1>2, <1>3, <1>4, <1>5 DEF Next, ServiceStep, RxAny

LEMMA SnInductive == Spec => []SnInv
<1>1. Init => SnInv
  <2>1. Init => RowsInv
    BY DEF Init, RowsInv, NoRows
  <2> QED BY <2>1, InitShape DEF SnInv
<1>2. SnInv /\ [Next]_vars => SnInv'
  BY ShapeStep, RowsStep DEF SnInv
<1> QED BY <1>1, <1>2, PTL DEF Spec

\* Every variable has its type, whatever is lost, repeated or overtaken: among
\* others no counter leaves its width, and the datagrams and stored messages are
\* ones that the code knows.
THEOREM SnTypesHold == Spec => []TypeOK
<1>1. SnInv => TypeOK
  BY DEF SnInv, ShapeInv
<1> QED BY <1>1, SnInductive, PTL

\* While the main window is up, its list and the topic table show the same
\* topics, each once, in every session.
THEOREM SnListMirrorsDbHolds == Spec => []SnListMirrorsDb
<1>1. SnInv => SnListMirrorsDb
  BY DEF SnInv, ShapeInv, TypeOK, RowsInv, SnListMirrorsDb, Rows
<1> QED BY <1>1, SnInductive, PTL
-----------------------------------------------------------------------------
(* Numbers: what was said of a number that was given stays true.           *)

LEMMA WaitingAt ==
  /\ \A i \in SnIds : waiting[i] = IF gui = "pub_add" /\ guiMsg.id = i THEN guiMsg ELSE messages_map[i]
  /\ \A i \in SnIds : (waiting')[i] = IF gui' = "pub_add" /\ guiMsg'.id = i THEN guiMsg'
                                      ELSE messages_map'[i]
BY DEF waiting

LEMMA CastTypes ==
  ASSUME NEW a
  PROVE  /\ a.type \in { "PUBACK", "PUBCOMP" } => CastTo(a) = "PUBLISH"
         /\ a.type = "SUBACK" => CastTo(a) = "SUBSCRIBE"
         /\ a.type = "UNSUBACK" => CastTo(a) = "UNSUBSCRIBE"
BY DEF CastTo

\* No id is above the last number, and a stored message waits.
LEMMA StoredFacts ==
  ASSUME ShapeInv, NumberInv
  PROVE  /\ Given \subseteq SnIds \ {0}
         /\ \A i \in SnIds \ {0} : i \notin Given => waiting[i] = SnNoMsg /\ messages_map[i] = SnNoMsg
         /\ waiting[0] = messages_map[0]
         /\ \A i \in SnIds : messages_map[i] # SnNoMsg => waiting[i] = messages_map[i]
<1>1. current_packet_number \in SnIds
  BY DEF ShapeInv, TypeOK
<1>2. Given \subseteq SnIds \ {0}
  BY <1>1, SnPacketBounds DEF Given, SnIds
<1>3. gui = "pub_add" => guiMsg.id \in Given /\ messages_map[guiMsg.id] = SnNoMsg
  BY DEF NumberInv, GuiOK
<1>4. \A i \in SnIds \ {0} : i \notin Given => waiting[i] = SnNoMsg
  BY DEF NumberInv, StoredOK
<1> QED BY <1>2, <1>3, <1>4, WaitingAt, IdTypes

\* What a step may do to the numbers that were given and to what was chosen.
Keeps ==
  /\ current_packet_number <= current_packet_number'
  /\ \A i \in Given : (waiting')[i] \in { waiting[i], SnNoMsg }
  /\ \A c \in Contents : chosen[c].topic # None => chosen'[c] = chosen[c]
  /\ \A i \in Incoming : gIn[i] # None => gIn'[i] = gIn[i]

LEMMA ClaimsStay ==
  ASSUME ShapeInv, ShapeInv', Keeps
  PROVE  /\ Given \subseteq Given'
         /\ \A m : OwnPublish(m) => OwnPublish(m)'
         /\ \A i : NamesPublish(i) => NamesPublish(i)'
         /\ \A i, tid : NamesRegistration(i, tid) => NamesRegistration(i, tid)'
         /\ \A i \in Given : StoredOK(i) => StoredOK(i)'
<1>1. Given \subseteq Given'
  BY SnPacketBounds DEF Given, Keeps, ShapeInv, TypeOK, SnIds
<1>2. ASSUME NEW m, OwnPublish(m) PROVE OwnPublish(m)'
  BY <1>2, IdTypes DEF OwnPublish, Keeps
<1>3. ASSUME NEW i, NamesPublish(i) PROVE NamesPublish(i)'
  BY <1>1, <1>3 DEF NamesPublish, Keeps
<1>4. ASSUME NEW i, NEW tid, NamesRegistration(i, tid) PROVE NamesRegistration(i, tid)'
  BY <1>1, <1>4 DEF NamesRegistration, Keeps
<1>5. ASSUME NEW i \in Given, StoredOK(i) PROVE StoredOK(i)'
  BY <1>1, <1>2, <1>5 DEF StoredOK, Keeps
<1> QED BY <1>1, <1>2, <1>3, <1>4, <1>5

LEMMA DatagramsStay ==
  ASSUME ShapeInv, ShapeInv', Keeps
  PROVE  /\ \A m : OutOK(m) => OutOK(m)'
         /\ \A a : InOK(a) => InOK(a)'
<1>1. ASSUME NEW m, OutOK(m) PROVE OutOK(m)'
  <2>1. m.type = "REGISTER" => NamesRegistration(m.id, TopicIdOf[m.topic])'
    BY <1>1, ClaimsStay DEF OutOK
  <2>2. m.type = "PUBLISH" => NamesPublish(m.id)' /\ OwnPublish(m)'
    BY <1>1, ClaimsStay DEF OutOK
  <2>3. m.type = "PUBREL" => NamesPublish(m.id)'
    BY <1>1, ClaimsStay DEF OutOK
  <2>4. m.type \in SubTypes => m.id \in Given' /\ (waiting')[m.id] \in { SnNoMsg, m }
    BY <1>1, ClaimsStay DEF OutOK, Keeps
  <2> QED BY <2>1, <2>2, <2>3, <2>4 DEF OutOK
<1>2. ASSUME NEW a, InOK(a) PROVE InOK(a)'
  <2>1. a.type \in { "PUBACK", "PUBREC", "PUBCOMP" } => NamesPublish(a.id)'
    BY <1>2, ClaimsStay DEF InOK
  <2>2. a.type = "REGACK" => NamesRegistration(a.id, a.tid)'
    BY <1>2, ClaimsStay DEF InOK
  <2>3. a.type \in { "SUBACK", "UNSUBACK" } =>
          /\ a.id \in Given' /\ a.id \in Given
          /\ (waiting')[a.id] \in { waiting[a.id], SnNoMsg }
    BY <1>2, ClaimsStay DEF InOK, Keeps
  <2>4. a.type = "PUBLISH" => gIn'[a.id] = gIn[a.id]
    BY <1>2, IdTypes DEF InOK, Keeps
  <2> QED BY <1>2, <2>1, <2>2, <2>3, <2>4 DEF InOK, CastTo
<1> QED BY <1>1, <1>2

\* NumberInv, from what is new.
LEMMA NumberNext ==
  ASSUME ShapeInv, NumberInv, ShapeInv', Keeps, GuiOK',
         \A i \in SnIds \ {0} : i \notin Given => StoredOK(i)',
         \A m \in toGw' : m \in toGw \/ OutOK(m) \/ OutOK(m)',
         \A a \in toClient' : a \in toClient \/ InOK(a) \/ InOK(a)',
         \/ messages_map'[0] \in { messages_map[0], SnNoMsg }
         \/ /\ messages_map'[0].type \in { "CONNECT", "REGISTER" }
            /\ messages_map'[0].content = None
            /\ OutOK(messages_map'[0]) \/ (OutOK(messages_map[0]))'
  PROVE  NumberInv'
<1>1. \A i \in SnIds \ {0} : StoredOK(i)'
  BY ClaimsStay DEF NumberInv
<1>2. \A m \in toGw' : OutOK(m)'
  BY DatagramsStay DEF NumberInv
<1>3. \A a \in toClient' : InOK(a)'
  BY DatagramsStay DEF NumberInv
<1>4. OutOK(SnNoMsg)'
  BY MessageFields DEF OutOK, SubTypes
<1>5. /\ messages_map'[0].type \in { SnNoMsg.type, "CONNECT", "REGISTER" }
      /\ messages_map'[0].content = None
  BY MessageFields DEF NumberInv
<1>6. (OutOK(messages_map[0]))'
  BY <1>4, DatagramsStay DEF NumberInv, OutOK
<1> QED BY <1>1, <1>2, <1>3, <1>5, <1>6 DEF NumberInv

\* NumberInv, when the GTK thread and the counter stand still and the map loses
\* entries at most.
LEMMA NumberOthers ==
  ASSUME ShapeInv, NumberInv, ShapeInv',
         UNCHANGED << gui, guiMsg, seen, current_packet_number, chosen >>,
         \A i \in SnIds : messages_map'[i] \in { messages_map[i], SnNoMsg },
         \A i \in Incoming : gIn[i] # None => gIn'[i] = gIn[i],
         \A m \in toGw' : m \in toGw \/ OutOK(m),
         \A a \in toClient' : a \in toClient \/ InOK(a) \/ InOK(a)'
  PROVE  NumberInv' /\ Keeps
<1>1. \A i \in SnIds : (waiting')[i] \in { waiting[i], SnNoMsg }
  BY WaitingAt
<1>2. Keeps
  BY <1>1, StoredFacts DEF Keeps, ShapeInv, TypeOK, SnIds
<1>3. \A i \in SnIds \ {0} : i \notin Given => StoredOK(i)'
  BY <1>1, StoredFacts DEF StoredOK
<1>4. GuiOK
  BY DEF NumberInv
<1>5. gui \in { "reg_read", "reg_num", "pub_add" } => guiMsg.id \in SnIds
  BY <1>4, StoredFacts DEF GuiOK
<1>6. \A m : OwnPublish(m)' <=> OwnPublish(m)
  BY DEF OwnPublish
<1>7. Given' = Given
  BY DEF Given
<1>8. GuiOK'
  BY <1>4, <1>5, <1>6, <1>7 DEF GuiOK
<1>9. messages_map'[0] \in { messages_map[0], SnNoMsg }
  BY IdTypes
<1> QED BY <1>2, <1>3, <1>8, <1>9, NumberNext

\* ... in particular when the map and the datagrams are left alone, too
LEMMA NumberUntouched ==
  ASSUME ShapeInv, NumberInv, ShapeInv',
         UNCHANGED << gui, guiMsg, seen, current_packet_number, chosen, messages_map, toGw, gIn >>,
         toClient' \subseteq toClient
  PROVE  NumberInv' /\ Keeps
BY NumberOthers

\* The number that a message gets is a new one.
LEMMA FreshNumber ==
  ASSUME ShapeInv, ShapeInv', current_packet_number' = current_packet_number + 1
  PROVE  /\ current_packet_number + 1 \in SnIds \ {0}
         /\ current_packet_number + 1 \notin Given
         /\ Given' = Given \cup { current_packet_number + 1 }
         /\ current_packet_number <= current_packet_number'
<1>1. current_packet_number \in SnIds /\ current_packet_number' \in SnIds
  BY DEF ShapeInv, TypeOK
<1>2. current_packet_number \in Nat
  BY <1>1, IdTypes
<1>3. current_packet_number + 1 \in SnIds \ {0} /\ current_packet_number <= current_packet_number'
  BY <1>1, <1>2
<1>4. current_packet_number + 1 \notin Given /\ Given' = Given \cup { current_packet_number + 1 }
  BY <1>2 DEF Given
<1> QED BY <1>3, <1>4

\* The steps of the GTK thread outside of send_sn_publish: what waits is what
\* the map has.
LEMMA WaitingInMap ==
  ASSUME gui # "pub_add", gui' # "pub_add"
  PROVE  \A i \in SnIds : waiting[i] = messages_map[i] /\ (waiting')[i] = messages_map'[i]
BY WaitingAt

\* The GTK thread goes on without a new number.
LEMMA NumberCalls ==
  ASSUME ShapeInv, NumberInv, ShapeInv', gui # "pub_add", gui' # "pub_add",
         current_packet_number' = current_packet_number,
         \A c \in Contents : chosen[c].topic # None => chosen'[c] = chosen[c],
         gIn' = gIn, toClient' \subseteq toClient,
         \A m \in toGw' : m \in toGw \/ OutOK(m),
         \A i \in SnIds \ {0} : messages_map'[i] \in { messages_map[i], SnNoMsg },
         \/ messages_map'[0] \in { messages_map[0], SnNoMsg }
         \/ messages_map'[0].type = "CONNECT" /\ messages_map'[0].content = None,
         GuiOK'
  PROVE  NumberInv' /\ Keeps
<1>1. Keeps
  BY WaitingInMap, StoredFacts DEF Keeps, ShapeInv, TypeOK, SnIds
<1>2. \A i \in SnIds \ {0} : i \notin Given => StoredOK(i)'
  BY WaitingInMap, StoredFacts DEF StoredOK
<1>3. messages_map'[0].type = "CONNECT" => OutOK(messages_map'[0])
  BY DEF OutOK, SubTypes
<1> QED BY <1>1, <1>2, <1>3, NumberNext

LEMMA UserNumber ==
  ASSUME ShapeInv, NumberInv, TopicMapsRight, ShapeInv', UserStep
  PROVE  NumberInv' /\ Keeps
<1> USE DEF Gui, snTimerVars, mapVars, topicVars, gatewayVars, storeVars, netVars
<1>0. GuiOK
  BY DEF NumberInv
<1>1. CASE LogIn
  <2>1. GuiOK'
    BY <1>1 DEF LogIn, GuiOK, Publishing, Unregistered
  <2> QED BY <1>1, <2>1, NumberCalls DEF LogIn, init_net_service
<1>2. CASE LogInFails
  BY <1>2, NumberUntouched DEF LogInFails
<1>3. CASE log_out_handle
  <2>1. GuiOK'
    BY <1>0, <1>3 DEF log_out_handle, GuiOK, Publishing, Unregistered
  <2> QED BY <1>3, <2>1, NumberCalls DEF log_out_handle
<1>4. ASSUME NEW t \in Topics, send_sn_subscribe(t) \/ send_sn_unsubscribe(t)
      PROVE  NumberInv' /\ Keeps
  <2>1. PICK m : Begin("sub_num", m) /\ m.type \in SubTypes /\ m.content = None
    BY <1>4 DEF send_sn_subscribe, send_sn_unsubscribe, SnSubscribe, SnUnsubscribe, SnBuild, SubTypes
  <2>2. chosen' = chosen
    BY <1>4 DEF send_sn_subscribe, send_sn_unsubscribe
  <2>3. GuiOK'
    BY <2>1 DEF Begin, GuiOK, Publishing, Unregistered
  <2> QED BY <2>1, <2>2, <2>3, NumberCalls DEF Begin
<1>5. ASSUME NEW c \in Contents, NEW t \in Topics, NEW q \in SnUserQoS, send_sn_message(c, t, q)
      PROVE  NumberInv' /\ Keeps
  <2> DEFINE m == SnPublish(0, t, topic_name_map[t], q, c)
  <2>1. Begin("msg_num", m)
    BY <1>5 DEF send_sn_message, sn_get_topic_id_from_map
  <2>2. /\ m.type = "PUBLISH" /\ m.content = c /\ m.topic = t /\ m.qos = q
        /\ m.tid \in { 0, TopicIdOf[t] }
    BY DEF TopicMapsRight, SnPublish, SnBuild
  <2> HIDE DEF m
  <2>3. /\ chosen[c].topic = None /\ chosen'[c].topic = t /\ chosen'[c].qos = q
        /\ \A d \in Contents : d # c => chosen'[d] = chosen[d]
    BY <1>5 DEF send_sn_message, Unchosen, ShapeInv, TypeOK
  <2>4. GuiOK'
    BY <2>1, <2>2, <2>3 DEF Begin, GuiOK, OwnPublish
  <2> QED BY <2>1, <2>3, <2>4, NumberCalls DEF Begin
<1> QED BY <1>1, <1>2, <1>3, <1>4, <1>5 DEF UserStep

\* NumberInv, when the GTK thread gives the next number k: under k the map gets
\* a message or nothing.
LEMMA NumberGiven ==
  ASSUME ShapeInv, NumberInv, ShapeInv', gui # "pub_add", Number, seen = current_packet_number,
         NEW k, k = seen + 1,
         UNCHANGED << chosen, gIn, toClient >>,
         \A i \in Given : (waiting')[i] = messages_map[i],
         \A i \in SnIds \ {0} : i \notin Given /\ i # k => messages_map'[i] = messages_map[i],
         gui' = "pub_add" => guiMsg'.id = k,
         StoredOK(k)',
         \A m \in toGw' : m \in toGw \/ OutOK(m)',
         \/ messages_map'[0] = messages_map[0]
         \/ /\ messages_map'[0].type = "REGISTER" /\ messages_map'[0].content = None
            /\ (OutOK(messages_map[0]))',
         GuiOK'
  PROVE  NumberInv' /\ Keeps
<1>1. current_packet_number' = current_packet_number + 1
  BY DEF Number
<1>2. Keeps
  BY <1>1, FreshNumber, WaitingAt, StoredFacts DEF Keeps
<1>3. \A i \in SnIds \ {0} : i \notin Given => StoredOK(i)'
  <2> SUFFICES ASSUME NEW i \in SnIds \ {0}, i \notin Given, i # k
               PROVE  StoredOK(i)'
    OBVIOUS
  <2>1. (waiting')[i] = SnNoMsg
    BY WaitingAt, StoredFacts
  <2> QED BY <2>1 DEF StoredOK
<1> QED BY <1>2, <1>3, NumberNext

LEMMA GuiNumber ==
  ASSUME ShapeInv, NumberInv, ShapeInv', GuiStep
  PROVE  NumberInv' /\ Keeps
<1> USE DEF Gui, snTimerVars, mapVars, topicVars, gatewayVars, storeVars, netVars
<1>0. /\ GuiOK /\ HandShape /\ guiMsg \in SnPacket
      /\ messages_map \in [ SnIds -> SnPacket ] /\ gui \in GuiSteps
  BY DEF NumberInv, ShapeInv, TypeOK, SnTimersTypeOK
<1>a. SnPlain("CONNECT").type = "CONNECT" /\ SnPlain("CONNECT").content = None
  BY MessageFields
<1>b. \A m : m.type \in { "CONNECT", "DISCONNECT" } => OutOK(m)
  BY DEF OutOK, SubTypes
<1>1. CASE send_sn_connect_fire
  <2>1. GuiOK'
    BY <1>0, <1>1 DEF send_sn_connect_fire, GuiOK, Publishing, Unregistered
  <2>2. \A m \in toGw' : m \in toGw \/ OutOK(m)
    BY <1>0, <1>1, <1>a, <1>b DEF send_sn_connect_fire, sn_encode_and_fire, fired, GuiOK
  <2> QED BY <1>1, <2>1, <2>2, NumberCalls DEF send_sn_connect_fire
<1>2. CASE send_sn_connect_timer
  <2>1. GuiOK'
    BY <1>0, <1>2 DEF send_sn_connect_timer, GuiOK, Publishing, Unregistered
  <2>2. \A i \in SnIds : messages_map'[i] = SnNoMsg
    BY <1>2 DEF send_sn_connect_timer, sn_start_connect_timer, NoMessages
  <2> QED BY <1>2, <2>1, <2>2, IdTypes, NumberCalls DEF send_sn_connect_timer
<1>3. CASE send_sn_connect_add
  <2>1. GuiOK'
    BY <1>0, <1>3 DEF send_sn_connect_add, GuiOK, Publishing, Unregistered
  <2>2. messages_map' = [ messages_map EXCEPT ![0] = guiMsg ]
    BY <1>0, <1>3, <1>a DEF send_sn_connect_add, sn_add_message_in_map, key, GuiOK
  <2>3. guiMsg.type = "CONNECT" /\ guiMsg.content = None
    BY <1>0, <1>3, <1>a DEF send_sn_connect_add, GuiOK
  <2> QED BY <1>0, <1>3, <2>1, <2>2, <2>3, NumberCalls DEF send_sn_connect_add
<1>4. CASE send_numbered
  <2>0. PICK k, m : k = seen + 1 /\ m = Numbered(guiMsg)
    OBVIOUS
  <2>1. /\ seen = current_packet_number /\ guiMsg.type \in SubTypes /\ guiMsg.content = None
        /\ k \in SnIds \ {0} /\ k \notin Given /\ Given' = Given \cup { k }
    BY <2>0, <1>0, <1>4, FreshNumber DEF send_numbered, GuiOK, Number
  <2>2. m \in SnPacket /\ m.id = k /\ m.type \in SubTypes /\ m.content = None
    BY <2>0, <1>0, <2>1, NumberedFields DEF Numbered
  <2>3. messages_map' = [ messages_map EXCEPT ![k] = m ]
    BY <2>0, <1>4, <2>2 DEF send_numbered, sn_add_message_in_map, key, SubTypes
  <2>4. toGw' \subseteq toGw \cup {m} /\ gui' = "idle" /\ gui = "sub_num" /\ guiMsg' = SnNoMsg
    BY <2>0, <1>4 DEF send_numbered, sn_encode_and_fire, fired
  <2>5. (waiting')[k] = m
    BY <2>0, <1>0, <2>1, <2>3, <2>4, WaitingInMap
  <2>6. StoredOK(k)' /\ OutOK(m)'
    BY <2>0, <2>1, <2>2, <2>5 DEF StoredOK, OutOK, SubTypes
  <2>7. GuiOK'
    BY <2>0, <2>4 DEF GuiOK, Publishing, Unregistered
  <2>8. \A i \in Given : (waiting')[i] = messages_map[i]
    BY <2>0, <2>1, <2>3, <2>4, WaitingInMap, StoredFacts
  <2> QED BY <2>0, <1>4, <2>1, <2>3, <2>4, <2>6, <2>7, <2>8, NumberGiven DEF send_numbered
<1>5. CASE send_sn_message_number
  <2>0. PICK k, m : k = seen + 1 /\ m = Numbered(guiMsg)
    OBVIOUS
  <2>1. /\ seen = current_packet_number /\ OwnPublish(guiMsg)
        /\ k \in SnIds \ {0} /\ k \notin Given /\ Given' = Given \cup { k }
        /\ current_packet_number' = k
    BY <2>0, <1>0, <1>5, FreshNumber DEF send_sn_message_number, GuiOK, Number, Publishing, Unregistered
  <2>2. /\ m \in SnPacket /\ m.id = k /\ m.type = guiMsg.type /\ m.tid = guiMsg.tid
        /\ m.topic = guiMsg.topic /\ m.content = guiMsg.content /\ m.qos = guiMsg.qos
    BY <2>0, <1>0, <2>1, NumberedFields DEF Numbered
  <2>3. guiMsg' = m /\ chosen' = chosen /\ gui' = IF m.tid = 0 THEN "reg_read" ELSE "pub_read"
    BY <2>0, <1>5, <2>2 DEF send_sn_message_number
  <2>4. IF m.tid = 0 THEN messages_map' = [ messages_map EXCEPT ![k] = m ]
                     ELSE messages_map' = messages_map
    BY <2>0, <1>5, <2>1, <2>2 DEF send_sn_message_number, sn_add_message_in_map, key, OwnPublish
  <2>5. OwnPublish(m)' /\ OwnPublish(guiMsg)'
    BY <2>0, <2>1, <2>2, <2>3 DEF OwnPublish
  <2>6. gui = "msg_num"
    BY <2>0, <1>5 DEF send_sn_message_number
  <2>7. (waiting')[k] \in { m, SnNoMsg }
    BY <2>0, <1>0, <2>1, <2>3, <2>4, <2>6, WaitingInMap, StoredFacts
  <2>8. StoredOK(k)'
    BY <2>0, <2>1, <2>2, <2>5, <2>7 DEF StoredOK
  <2>9. GuiOK'
    BY <2>0, <1>0, <2>1, <2>2, <2>3, <2>4, <2>5 DEF GuiOK, Publishing, Unregistered
  <2>10. \A i \in Given : (waiting')[i] = messages_map[i]
    BY <1>0, <2>0, <2>1, <2>3, <2>4, <2>6, WaitingInMap, StoredFacts
  <2>11. /\ gui' # "pub_add" /\ messages_map'[0] = messages_map[0]
         /\ \A i \in SnIds \ {0} : i # k => messages_map'[i] = messages_map[i]
    BY <1>0, <2>1, <2>3, <2>4, IdTypes
  <2> QED BY <2>0, <1>5, <2>1, <2>6, <2>8, <2>9, <2>10, <2>11, NumberGiven
          DEF send_sn_message_number
<1>6. ASSUME NEW from, NEW to, second_read(from, to),
             << from, to >> \in { << "reg_read", "reg_num" >>, << "pub_read", "pub_num" >> }
      PROVE  NumberInv' /\ Keeps
  <2>1. GuiOK'
    BY <1>0, <1>6 DEF second_read, GuiOK, Publishing, Unregistered, Given, OwnPublish
  <2> QED BY <1>6, <2>1, NumberCalls DEF second_read
<1>7. CASE send_sn_register
  <2>0. PICK k, t, m : k = seen + 1 /\ t = guiMsg.topic /\ m = SnRegister(seen + 1, t, 0)
    OBVIOUS
  <2>1. /\ seen = current_packet_number /\ OwnPublish(guiMsg) /\ guiMsg.tid = 0
        /\ guiMsg.id = seen /\ seen \in Given /\ messages_map[seen] \in { SnNoMsg, guiMsg }
        /\ k \in SnIds \ {0} /\ k \notin Given /\ Given' = Given \cup { k }
    BY <2>0, <1>0, <1>7, FreshNumber DEF send_sn_register, GuiOK, Number, Publishing, Unregistered
  <2>2. m.type = "REGISTER" /\ m.id = k /\ m.topic = t /\ m.content = None
    BY <2>0, MessageFields
  <2>3. /\ messages_map' = [ messages_map EXCEPT ![0] = m ]
        /\ toGw' \subseteq toGw \cup {m} /\ gui' = "idle" /\ gui = "reg_num" /\ guiMsg' = SnNoMsg
    BY <2>0, <1>7, <2>2 DEF send_sn_register, sn_add_message_in_map, key, sn_encode_and_fire, fired
  <2>4. \A i \in SnIds \ {0} : (waiting')[i] = messages_map[i]
    BY <2>0, <2>3, <1>0, WaitingInMap
  <2>5. (waiting')[k] = SnNoMsg /\ (waiting')[seen] \in { SnNoMsg, guiMsg }
    BY <2>0, <2>1, <2>4, StoredFacts
  <2>6. k - 1 = seen
    <3>1. seen \in Nat
      BY <2>1, StoredFacts, IdTypes
    <3> QED BY <2>0, <3>1
  <2>7. NamesRegistration(k, TopicIdOf[t])'
    BY <2>0, <2>1, <2>5, <2>6 DEF NamesRegistration, OwnPublish
  <2>8. OutOK(m)' /\ StoredOK(k)' /\ messages_map'[0] = m
    BY <2>0, <1>0, <2>2, <2>3, <2>5, <2>7, IdTypes DEF OutOK, StoredOK, SubTypes
  <2>9. GuiOK'
    BY <2>0, <2>3 DEF GuiOK, Publishing, Unregistered
  <2>10. \A i \in Given : (waiting')[i] = messages_map[i]
    BY <2>0, <2>4, StoredFacts
  <2>11. (OutOK(messages_map[0]))'
    BY <2>0, <2>8 DEF OutOK
  <2> QED BY <2>0, <1>7, <2>1, <2>2, <2>3, <2>8, <2>9, <2>10, <2>11, NumberGiven DEF send_sn_register
<1>8. CASE send_sn_publish_fire
  <2>0. PICK k, m : k = seen + 1 /\ m = Numbered(guiMsg)
    OBVIOUS
  <2>1. /\ seen = current_packet_number /\ OwnPublish(guiMsg) /\ guiMsg.tid # 0
        /\ k \in SnIds \ {0} /\ k \notin Given /\ Given' = Given \cup { k }
    BY <2>0, <1>0, <1>8, FreshNumber
       DEF send_sn_publish_fire, GuiOK, Number, Publishing, Unregistered, HandShape, Sendable
  <2>2. /\ m \in SnPacket /\ m.id = k /\ m.type = guiMsg.type /\ m.tid = guiMsg.tid
        /\ m.topic = guiMsg.topic /\ m.content = guiMsg.content /\ m.qos = guiMsg.qos
    BY <2>0, <1>0, <2>1, NumberedFields DEF Numbered
  <2>3. /\ guiMsg' = m /\ chosen' = chosen /\ gui' = "pub_add" /\ gui = "pub_num"
        /\ toGw' \subseteq toGw \cup {m} /\ messages_map' = messages_map
    BY <2>0, <1>8 DEF send_sn_publish_fire, sn_encode_and_fire, fired
  <2>4. OwnPublish(m)' /\ OwnPublish(guiMsg)'
    BY <2>0, <2>1, <2>2, <2>3 DEF OwnPublish
  <2>5. (waiting')[k] = m
    BY <2>0, <2>1, <2>2, <2>3, WaitingAt
  <2>6. StoredOK(k)' /\ OutOK(m)'
    BY <2>0, <2>1, <2>2, <2>4, <2>5 DEF StoredOK, OutOK, OwnPublish, NamesPublish, SubTypes
  <2>7. messages_map[k] = SnNoMsg
    BY <2>0, <2>1, StoredFacts
  <2>8. GuiOK'
    BY <2>0, <2>1, <2>2, <2>3, <2>4, <2>7 DEF GuiOK, Publishing, Unregistered
  <2>9. \A i \in Given : (waiting')[i] = messages_map[i]
    BY <2>0, <2>1, <2>2, <2>3, WaitingAt, StoredFacts
  <2> QED BY <2>0, <1>8, <2>1, <2>2, <2>3, <2>6, <2>8, <2>9, NumberGiven DEF send_sn_publish_fire
<1>9. CASE send_sn_publish_add
  <2>1. /\ gui = "pub_add" /\ gui' = "idle" /\ guiMsg' = SnNoMsg /\ toGw' = toGw
        /\ current_packet_number' = current_packet_number /\ chosen' = chosen /\ gIn' = gIn
        /\ toClient' = toClient
    BY <1>9 DEF send_sn_publish_add
  <2>2. guiMsg.type = "PUBLISH" /\ guiMsg.id \in Given
    BY <1>0, <2>1 DEF GuiOK, OwnPublish, Publishing
  <2>3. messages_map' \in { messages_map, [ messages_map EXCEPT ![guiMsg.id] = guiMsg ] }
    BY <1>9, <2>2 DEF send_sn_publish_add, sn_add_message_in_map, key
  <2>4. \A i \in SnIds : (waiting')[i] \in { waiting[i], SnNoMsg }
    BY <1>0, <2>1, <2>2, <2>3, WaitingAt DEF GuiOK
  <2>5. GuiOK'
    BY <2>1 DEF GuiOK, Publishing, Unregistered
  <2>6. Keeps
    BY <2>1, <2>4, StoredFacts DEF Keeps, ShapeInv, TypeOK, SnIds
  <2>7. \A i \in SnIds \ {0} : i \notin Given => StoredOK(i)'
    BY <2>4, StoredFacts DEF StoredOK
  <2>8. messages_map'[0] = messages_map[0]
    BY <1>0, <2>2, <2>3, StoredFacts, IdTypes
  <2> QED BY <2>1, <2>5, <2>6, <2>7, <2>8, NumberNext
<1>10. CASE send_sn_disconnect_stop
  <2>1. GuiOK'
    BY <1>0, <1>10 DEF send_sn_disconnect_stop, GuiOK, Publishing, Unregistered
  <2>2. \A i \in SnIds : messages_map'[i] = SnNoMsg
    BY <1>10 DEF send_sn_disconnect_stop, sn_stop_all_timers, NoMessages
  <2> QED BY <1>10, <2>1, <2>2, IdTypes, NumberCalls DEF send_sn_disconnect_stop
<1>11. CASE send_sn_disconnect_fire
  <2>1. GuiOK'
    BY <1>0, <1>11 DEF send_sn_disconnect_fire, GuiOK, Publishing, Unregistered
  <2>2. \A m \in toGw' : m \in toGw \/ OutOK(m)
    BY <1>11, <1>b, MessageFields DEF send_sn_disconnect_fire, sn_encode_and_fire, fired
  <2> QED BY <1>11, <2>1, <2>2, NumberCalls DEF send_sn_disconnect_fire
<1> QED BY <1>1, <1>2, <1>3, <1>4, <1>5, <1>6, <1>7, <1>8, <1>9, <1>10, <1>11 DEF GuiStep

\* A REGACK that finds a message one number below its own finds the PUBLISH
\* that waits for this topic.
LEMMA RegackWaits ==
  ASSUME ShapeInv, NumberInv, NEW a \in toClient, a.type = "REGACK",
         NEW p, p = messages_map[a.id - 1], p # SnNoMsg
  PROVE  /\ a.id \in Given /\ a.id - 1 \in Given /\ a.id \in SnIds /\ a.id - 1 \in SnIds
         /\ a.id # a.id - 1
         /\ waiting[a.id - 1] = p /\ p \in SnPacket /\ p.id = a.id - 1
         /\ OwnPublish(p) /\ p.tid = 0 /\ TopicIdOf[p.topic] = a.tid /\ a.tid \in TopicIds
         /\ waiting[a.id] = SnNoMsg /\ messages_map[a.id] = SnNoMsg
<1>1. NamesRegistration(a.id, a.tid)
  BY DEF NumberInv, InOK
<1>2. a.id \in Given /\ a.id - 1 \in Given /\ a.id \in SnIds \ {0} /\ a.id - 1 \in SnIds \ {0}
  BY <1>1, StoredFacts DEF NamesRegistration
<1>3. waiting[a.id - 1] = p /\ waiting[a.id] = SnNoMsg
  BY <1>1, <1>2, StoredFacts DEF NamesRegistration
<1>4. messages_map[a.id] = SnNoMsg
  BY <1>2, <1>3, StoredFacts
<1>5. p.type = "PUBLISH" /\ p.tid = 0 /\ TopicIdOf[p.topic] = a.tid
  BY <1>1, <1>3 DEF NamesRegistration
<1>6. OwnPublish(p) /\ p.id = a.id - 1
  <2>1. StoredOK(a.id - 1)
    BY <1>2 DEF NumberInv
  <2> QED BY <1>3, <1>5, <2>1 DEF StoredOK, SubTypes
<1>7. p \in SnPacket
  BY <1>2 DEF ShapeInv, MapShape
<1>8. a.tid \in TopicIds
  BY <1>5, <1>6, IdTypes DEF OwnPublish
<1>9. a.id # a.id - 1
  <2>1. a.id \in Nat
    BY <1>2, IdTypes
  <2> QED BY <2>1
<1> QED BY <1>2, <1>3, <1>4, <1>5, <1>6, <1>7, <1>8, <1>9

\* What publish_registered does with the map: k gets the PUBLISH or nothing.
LEMMA RegisteredMap ==
  ASSUME ShapeInv, NumberInv, ShapeInv', NEW a \in toClient, a.type = "REGACK",
         NEW p, p = messages_map[a.id - 1], p # SnNoMsg, publish_registered(a, p)
  PROVE  \E k, m :
           /\ m \in SnPacket /\ m.id = k /\ m.tid = a.tid /\ m.type = "PUBLISH"
           /\ m.topic = p.topic /\ m.content = p.content /\ m.qos = p.qos
           /\ current_packet_number' = k /\ current_packet_number <= k
           /\ k \in SnIds \ {0} /\ k \notin Given /\ Given' = Given \cup {k}
           /\ \A i \in SnIds : i # k => messages_map'[i] = IF i \in { a.id, a.id - 1 } THEN SnNoMsg
                                                          ELSE messages_map[i]
           /\ messages_map'[k] = IF m.qos = 0 THEN SnNoMsg ELSE m
           /\ toGw' \subseteq toGw \cup {m}
           /\ saved' = IF m.qos = 0 THEN [ saved EXCEPT ![p.content] = @ + 1 ] ELSE saved
<1>0. PICK k, m : k = current_packet_number + 1 /\ m = [ p EXCEPT !.tid = a.tid, !.id = k ]
  OBVIOUS
<1>1. current_packet_number' = k
  BY <1>0 DEF publish_registered
<1>2. k \in SnIds \ {0} /\ k \notin Given /\ Given' = Given \cup {k}
      /\ current_packet_number <= k
  BY <1>0, <1>1, FreshNumber
<1>3. /\ m \in SnPacket /\ m.id = k /\ m.tid = a.tid /\ m.type = "PUBLISH"
      /\ m.topic = p.topic /\ m.content = p.content /\ m.qos = p.qos
  <2>1. p \in SnPacket /\ p.type = "PUBLISH" /\ a.tid \in TopicIds
    BY RegackWaits DEF OwnPublish
  <2> QED BY <1>0, <1>2, <2>1 DEF SnPacket
<1>4. \/ m.qos = 0 /\ messages_map' = removed({ a.id - 1, a.id }) /\ save_message(m.content)
      \/ /\ m.qos # 0 /\ saved' = saved
         /\ messages_map' = [ removed({ a.id - 1, a.id }) EXCEPT ![m.id] = m ]
  BY <1>0 DEF publish_registered, Registering, SavedAtOnce
<1>5. messages_map[k] = SnNoMsg
  BY <1>2, StoredFacts
<1>6. toGw' \subseteq toGw \cup {m}
  BY <1>0 DEF publish_registered, sn_encode_and_fire, fired
<1>7. saved' = IF m.qos = 0 THEN [ saved EXCEPT ![p.content] = @ + 1 ] ELSE saved
  BY <1>3, <1>4 DEF save_message
<1>8. /\ \A i \in SnIds : i # k => messages_map'[i] = IF i \in { a.id, a.id - 1 } THEN SnNoMsg
                                                     ELSE messages_map[i]
      /\ messages_map'[k] = IF m.qos = 0 THEN SnNoMsg ELSE m
  BY <1>2, <1>3, <1>4, <1>5 DEF removed
<1> QED BY <1>1, <1>2, <1>3, <1>6, <1>7, <1>8

LEMMA RegackNumber ==
  ASSUME Orderly, ShapeInv, NumberInv, ShapeInv', NEW a \in toClient, rx_regack(a)
  PROVE  NumberInv' /\ Keeps
<1> USE DEF guiVars, gatewayVars
<1>1. PICK p : p = messages_map[a.id - 1]
  OBVIOUS
<1>2. /\ a.type = "REGACK" /\ toClient' \subseteq toClient
      /\ UNCHANGED << gui, guiMsg, seen, chosen, gIn >>
      /\ sn_get_message_from_map(Registering(a)) = p
  BY <1>1 DEF rx_regack, Rx, Received, sn_get_message_from_map, Registering
<1>3. CASE UNCHANGED << toGw, messages_map, current_packet_number >>
  BY <1>2, <1>3, NumberUntouched
<1>4. CASE /\ messages_map' = removed({ Registering(a), a.id })
           /\ UNCHANGED << toGw, current_packet_number >>
  BY <1>2, <1>4, NumberOthers DEF removed
<1>5. CASE p # SnNoMsg /\ publish_registered(a, p)
  <2>1. PICK k, m :
          /\ m \in SnPacket /\ m.id = k /\ m.tid = a.tid /\ m.type = "PUBLISH"
          /\ m.topic = p.topic /\ m.content = p.content /\ m.qos = p.qos
          /\ current_packet_number' = k /\ current_packet_number <= k
          /\ k \in SnIds \ {0} /\ k \notin Given /\ Given' = Given \cup {k}
          /\ \A i \in SnIds : i # k => messages_map'[i] = IF i \in { a.id, a.id - 1 } THEN SnNoMsg
                                                         ELSE messages_map[i]
          /\ messages_map'[k] = IF m.qos = 0 THEN SnNoMsg ELSE m
          /\ toGw' \subseteq toGw \cup {m}
    BY <1>1, <1>2, <1>5, RegisteredMap
  <2>2. /\ m.id = k /\ m.tid = a.tid /\ m.type = "PUBLISH" /\ m.topic = p.topic
        /\ m.content = p.content /\ m.qos = p.qos /\ current_packet_number' = k
        /\ k \in SnIds \ {0} /\ k \notin Given /\ Given' = Given \cup {k}
        /\ \A i \in SnIds : i # k => messages_map'[i] \in { messages_map[i], SnNoMsg }
        /\ messages_map'[k] \in { m, SnNoMsg } /\ toGw' \subseteq toGw \cup {m}
    BY <2>1
  <2>3. OwnPublish(p) /\ TopicIdOf[p.topic] = a.tid /\ a.tid # 0
    BY <1>1, <1>2, <1>5, RegackWaits, IdTypes
  <2>4. OwnPublish(m)'
    BY <1>2, <2>2, <2>3 DEF OwnPublish
  <2>5. AtomicSends
    BY <2>3 DEF Orderly, OwnPublish
  <2>6. gui \in { "idle", "conn_fire", "conn_timer", "conn_add", "pub_add", "disc_stop", "disc_fire" }
    BY <2>5 DEF rx_regack, ShapeInv, TypeOK, GuiSteps
  <2>7. GuiOK /\ (gui = "pub_add" => guiMsg.id \in Given /\ guiMsg.id # k /\ guiMsg.id \in SnIds)
    BY <2>2, StoredFacts DEF NumberInv, GuiOK
  <2>8. /\ \A i \in SnIds : i # k => (waiting')[i] \in { waiting[i], SnNoMsg }
        /\ (waiting')[k] \in { m, SnNoMsg }
    BY <1>2, <2>2, <2>7, WaitingAt
  <2>9. Keeps
    BY <1>2, <2>2, <2>8, StoredFacts, IdTypes, FreshNumber, <2>1 DEF Keeps
  <2>10. StoredOK(k)' /\ OutOK(m)'
    BY <2>2, <2>3, <2>4, <2>8 DEF StoredOK, OutOK, NamesPublish, SubTypes
  <2>11. \A i \in SnIds \ {0} : i \notin Given => StoredOK(i)'
    BY <2>8, <2>10, StoredFacts DEF StoredOK
  <2>12. \A d : OwnPublish(d)' <=> OwnPublish(d)
    BY <1>2 DEF OwnPublish
  <2>13. GuiOK'
    BY <1>2, <2>2, <2>6, <2>7, <2>12 DEF GuiOK, Publishing, Unregistered
  <2>14. messages_map'[0] \in { messages_map[0], SnNoMsg }
    BY <2>2, IdTypes
  <2> QED BY <1>2, <2>2, <2>9, <2>10, <2>11, <2>13, <2>14, NumberNext
<1> QED BY <1>2, <1>3, <1>4, <1>5 DEF rx_regack

LEMMA RxNumber ==
  ASSUME Orderly, ShapeInv, NumberInv, ShapeInv', NEW a \in toClient, RxStep(a)
  PROVE  NumberInv' /\ Keeps
<1> USE DEF snTimerVars, mapVars, topicVars, gatewayVars, storeVars, netVars, restOfClient, guiVars
<1>1. /\ \A is : \A i \in SnIds : removed(is)[i] \in { messages_map[i], SnNoMsg }
      /\ \A i \in SnIds : NoMessages[i] = SnNoMsg
  BY DEF removed, NoMessages
<1>2. \A m : m.type \notin { "REGISTER", "PUBLISH", "PUBREL" } \cup SubTypes => OutOK(m)
  BY DEF OutOK
<1>3. InOK(a)
  BY DEF NumberInv
<1>4. CASE rx_connack(a)
  <2>1. toClient' \subseteq toClient
    BY <1>4 DEF rx_connack, Rx, Received
  <2> QED BY <1>1, <1>4, <2>1, NumberOthers DEF rx_connack
<1>5. CASE rx_will(a) \/ rx_register(a) \/ rx_publish(a)
  <2>1. toClient' \subseteq toClient
    BY <1>5 DEF rx_will, rx_register, rx_publish, Rx, Received
  <2>2. UNCHANGED << gui, guiMsg, seen, current_packet_number, chosen, messages_map, gIn >>
    BY <1>5 DEF rx_will, rx_register, rx_publish
  <2>3. \A m \in toGw' : m \in toGw \/ m.type \in { "WILL_TOPIC", "WILL_MSG", "REGACK", "PUBACK", "PUBREC" }
    BY <1>5 DEF rx_will, rx_register, rx_publish, sn_encode_and_fire, fired, SnPlain, SnAnswer, SnBuild
  <2>4. \A m \in toGw' : m \in toGw \/ OutOK(m)
    BY <1>2, <2>3 DEF SubTypes
  <2> QED BY <2>1, <2>2, <2>4, NumberOthers
<1>6. CASE rx_regack(a)
  BY <1>6, RegackNumber
<1>7. CASE rx_unmatched(a) \/ rx_wrong_cast(a) \/ rx_ignored(a)
  <2>1. toClient' \subseteq toClient
    BY <1>7 DEF rx_unmatched, rx_wrong_cast, rx_ignored, Rx, Received
  <2> QED BY <1>7, <2>1, NumberUntouched DEF rx_unmatched, rx_wrong_cast, rx_ignored
<1>8. CASE rx_publish_done(a) \/ rx_suback(a) \/ rx_unsuback(a)
  <2>1. toClient' \subseteq toClient /\ messages_map' = removed({a.id})
    BY <1>8 DEF rx_publish_done, rx_suback, rx_unsuback, Matched, Rx, Received
  <2> QED BY <1>1, <1>8, <2>1, NumberOthers DEF rx_publish_done, rx_suback, rx_unsuback
<1>9. CASE rx_handshake(a)
  <2>1. toClient' \subseteq toClient /\ a.type \in { "PUBREC", "PUBREL" }
    BY <1>9 DEF rx_handshake, Rx, Received
  <2>2. PICK m : /\ m = SnAnswer(IF a.type = "PUBREC" THEN "PUBREL" ELSE "PUBCOMP", a.id, 0, TRUE)
                 /\ toGw' \subseteq toGw \cup {m}
    BY <1>9 DEF rx_handshake, sn_encode_and_fire, fired
  <2>3. m.id = a.id /\ m.type = IF a.type = "PUBREC" THEN "PUBREL" ELSE "PUBCOMP"
    BY <2>2 DEF SnAnswer, SnBuild
  <2>4. OutOK(m)
    BY <1>3, <2>1, <2>3 DEF InOK, OutOK, SubTypes
  <2> QED BY <1>9, <2>1, <2>2, <2>4, NumberOthers DEF rx_handshake
<1>10. CASE rx_disconnect(a)
  <2>1. toClient' \subseteq toClient /\ messages_map' \in { messages_map, NoMessages }
    BY <1>10 DEF rx_disconnect, Rx, Received, fin_mqtt_sn_client, sn_stop_all_timers
  <2> QED BY <1>1, <1>10, <2>1, NumberOthers DEF rx_disconnect
<1> QED BY <1>4, <1>5, <1>6, <1>7, <1>8, <1>9, <1>10 DEF RxStep

\* What the gateway answers to a message that is right about its number is so, too.
LEMMA RepliesRight ==
  ASSUME ShapeInv, NumberInv, NEW m \in toGw,
         \/ ReadConnecting(m) \/ ReadRegister(m) \/ ReadPublish(m) \/ ReadSubscribe(m)
         \/ ReadUnsubscribe(m) \/ ReadHandshake(m) \/ ReadRegack(m) \/ ReadDisconnect(m)
  PROVE  \A a \in toClient' : a \in toClient \/ InOK(a)
<1> USE DEF SnPlain, SnAnswer, SnBuild, Reply
<1>1. OutOK(m) /\ m \in SnPacket /\ Sendable(m)
  BY DEF NumberInv, ShapeInv, OutShape
<1>2. \A a : a.type \notin { "PUBACK", "PUBREC", "PUBCOMP", "REGACK", "SUBACK", "UNSUBACK",
                             "REGISTER", "PUBLISH" } => InOK(a)
  BY DEF InOK
<1>3. CASE ReadConnecting(m) \/ ReadDisconnect(m) \/ ReadRegack(m)
  <2>1. \A a \in toClient' : a \in toClient
          \/ a.type \in { "CONNACK", "WILL_TOPIC_REQ", "WILL_MSG_REQ", "DISCONNECT" }
    BY <1>3 DEF ReadConnecting, ReadDisconnect, ReadRegack, Connack
  <2> QED BY <1>2, <2>1
<1>4. CASE ReadRegister(m)
  <2>1. m.type = "REGISTER"
    BY <1>4 DEF ReadRegister
  <2>2. \A a \in toClient' : a \in toClient
          \/ (a.type = "REGACK" /\ a.id = m.id /\ a.tid = TopicIdOf[m.topic])
    BY <1>4 DEF ReadRegister
  <2>3. NamesRegistration(m.id, TopicIdOf[m.topic])
    BY <1>1, <2>1 DEF OutOK
  <2> QED BY <2>2, <2>3 DEF InOK
<1>5. CASE ReadPublish(m) \/ ReadHandshake(m)
  <2>1. \A a \in toClient' : a \in toClient
          \/ /\ a.type \in { "PUBACK", "PUBREC", "PUBCOMP" } /\ a.id = m.id
             /\ m.type \in { "PUBLISH", "PUBREL" }
          \/ a.type \in { "PUBREL", "PINGRESP" }
    BY <1>5 DEF ReadPublish, ReadHandshake
  <2>2. m.type \in { "PUBLISH", "PUBREL" } => NamesPublish(m.id)
    BY <1>1 DEF OutOK
  <2> QED BY <1>2, <2>1, <2>2 DEF InOK
<1>6. CASE ReadSubscribe(m) \/ ReadUnsubscribe(m)
  <2>1. \A a \in toClient' : a \in toClient
          \/ /\ a.id = m.id
             /\ \/ a.type = "SUBACK" /\ m.type = "SUBSCRIBE" /\ a.tid = TopicIdOf[Named(m)]
                \/ a.type = "UNSUBACK" /\ m.type = "UNSUBSCRIBE"
    BY <1>6 DEF ReadSubscribe, ReadUnsubscribe
  <2>2. m.type \in SubTypes => m.id \in Given /\ waiting[m.id] \in { SnNoMsg, m }
    BY <1>1 DEF OutOK
  <2>3. m.topic # None => Named(m) = m.topic
    BY DEF Named
  <2> QED BY <2>1, <2>2, <2>3 DEF InOK, CastTo, SubTypes
<1> QED BY <1>3, <1>4, <1>5, <1>6

LEMMA OutsideNumber ==
  ASSUME ShapeInv, NumberInv, ShapeInv', GatewayStep \/ NetworkStep
  PROVE  NumberInv' /\ Keeps
<1> USE DEF snTimerVars, mapVars, clientVars, guiVars, gatewayVars
<1>1. UNCHANGED << gui, guiMsg, seen, current_packet_number, chosen, messages_map >>
  BY DEF GatewayStep, NetworkStep, Gateway
<1>2. ASSUME NEW ping \in BOOLEAN, GatewayReads(ping) PROVE NumberInv' /\ Keeps
  <2>1. PICK m \in toGw :
          /\ toGw' \in Received(toGw, m)
          /\ \/ ReadConnecting(m) \/ ReadRegister(m) \/ ReadPublish(m) \/ ReadSubscribe(m)
             \/ ReadUnsubscribe(m) \/ ReadHandshake(m) \/ ReadRegack(m) \/ ReadDisconnect(m)
    BY <1>2 DEF GatewayReads
  <2>2. \A a \in toClient' : a \in toClient \/ InOK(a)
    BY <2>1, RepliesRight
  <2>3. gIn' = gIn
    BY <2>1 DEF ReadConnecting, ReadRegister, ReadPublish, ReadSubscribe, ReadUnsubscribe,
                ReadHandshake, ReadRegack, ReadDisconnect
  <2>4. toGw' \subseteq toGw
    BY <2>1 DEF Received
  <2> QED BY <1>1, <2>2, <2>3, <2>4, NumberOthers
<1>3. ASSUME NEW i \in Incoming, GatewayPublishes(i) PROVE NumberInv' /\ Keeps
  <2>1. PICK t \in gSubs :
          IF t \in gKnown
          THEN /\ \E q \in SnQoS : Reply(SnPublish(i, None, TopicIdOf[t], q, None))
               /\ gIn' = [ gIn EXCEPT ![i] = t ]
          ELSE Reply(SnRegister(i, t, TopicIdOf[t])) /\ UNCHANGED gIn
    BY <1>3 DEF GatewayPublishes
  <2>2. t \in Topics /\ gIn \in [ Incoming -> Topics \cup {None} ] /\ gIn[i] = None /\ toGw' = toGw
    BY <1>3, <2>1 DEF GatewayPublishes, ShapeInv, TypeOK, GatewayTypeOK
  <2>3. CASE t \in gKnown
    <3>1. \A a \in toClient' : a \in toClient
            \/ (a.type = "PUBLISH" /\ a.id = i /\ a.tid = TopicIdOf[t])
      BY <2>1, <2>3 DEF Reply, SnPublish, SnBuild
    <3>2. gIn'[i] = t
      BY <2>1, <2>2, <2>3
    <3>3. \A a \in toClient' : a \in toClient \/ InOK(a)'
      BY <2>2, <3>1, <3>2 DEF InOK
    <3> QED BY <1>1, <2>1, <2>2, <2>3, <3>3, NumberOthers
  <2>4. CASE t \notin gKnown
    <3>1. \A a \in toClient' : a \in toClient
            \/ (a.type = "REGISTER" /\ a.topic = t /\ a.tid = TopicIdOf[t])
      BY <2>1, <2>4 DEF Reply, SnRegister, SnBuild
    <3>2. \A a \in toClient' : a \in toClient \/ InOK(a)
      BY <3>1 DEF InOK
    <3> QED BY <1>1, <2>1, <2>2, <2>4, <3>2, NumberOthers
  <2> QED BY <2>3, <2>4
<1>4. CASE GatewayDisconnects
  <2>1. \A a \in toClient' : a \in toClient \/ a.type = "DISCONNECT"
    BY <1>4 DEF GatewayDisconnects, Reply, SnPlain, SnAnswer, SnBuild
  <2>2. \A a \in toClient' : a \in toClient \/ InOK(a)
    BY <2>1 DEF InOK
  <2> QED BY <1>1, <1>4, <2>2, NumberOthers DEF GatewayDisconnects
<1>5. CASE LoseDatagram \/ LoseSocket
  <2>1. toGw' \subseteq toGw /\ toClient' \subseteq toClient /\ gIn' = gIn
    BY <1>5 DEF LoseDatagram, LoseSocket
  <2> QED BY <1>1, <2>1, NumberOthers
<1> QED BY <1>2, <1>3, <1>4, <1>5 DEF GatewayStep, NetworkStep, Gateway

LEMMA ThreadsNumber ==
  ASSUME ShapeInv, NumberInv, ShapeInv',
         rx_connack_timers \/ service_ends \/ connect_task \/ PingStep
  PROVE  NumberInv' /\ Keeps
<1> USE DEF snTimerVars, mapVars, clientVars, guiVars, gatewayVars, netVars
<1>1. UNCHANGED << gui, guiMsg, seen, current_packet_number, chosen, gIn, toClient >>
  BY DEF rx_connack_timers, service_ends, connect_task, PingStep, sn_ping_task
<1>2. messages_map' \in { messages_map, NoMessages }
  BY DEF rx_connack_timers, start_mqtt_sn_ping_timer, service_ends, connect_task, PingStep,
         sn_ping_task, fin_mqtt_sn_client, sn_stop_all_timers
<1>3. \A m \in toGw' : m \in toGw \/ m = messages_map[0] \/ m.type = "PINGREQ"
  BY DEF rx_connack_timers, service_ends, connect_task, PingStep, sn_ping_task, sn_encode_and_fire,
         fired, sn_get_message_from_map, SnPlain, SnAnswer, SnBuild
<1>4. \A m : m = messages_map[0] \/ m.type = "PINGREQ" => OutOK(m)
  BY DEF NumberInv, OutOK, SubTypes
<1>5. \A i \in SnIds : messages_map'[i] \in { messages_map[i], SnNoMsg }
  BY <1>2 DEF NoMessages
<1> QED BY <1>1, <1>3, <1>4, <1>5, NumberOthers

LEMMA NumberStep ==
  ASSUME Orderly, ShapeInv, NumberInv, TopicMapsRight, [Next]_vars
  PROVE  NumberInv' /\ Keeps
<1>1. ShapeInv'
  BY ShapeStep
<1>2. ASSUME NEW a \in toClient, RxStep(a) PROVE NumberInv' /\ Keeps
  BY <1>1, <1>2, RxNumber
<1>3. CASE UNCHANGED vars
  BY <1>1, <1>3, NumberUntouched
     DEF vars, netVars, snTimerVars, mapVars, gatewayVars, clientVars, guiVars
<1> QED BY <1>1, <1>2, <1>3, UserNumber, GuiNumber, OutsideNumber, ThreadsNumber
        DEF Next, ServiceStep, RxAny
-----------------------------------------------------------------------------
(* Topics.                                                                 *)

LEMMA StoreRight ==
  ASSUME TypeOK, TopicMapsRight, NEW t \in Topics, store_topic(t, TopicIdOf[t])
  PROVE  TopicMapsRight'
<1>1. /\ topic_name_map \in [ Topics -> TopicIds \cup {0} ]
      /\ reverse_topic_name_map \in [ TopicIds -> Topics \cup {None} ]
      /\ topic_name_map' = [ topic_name_map EXCEPT ![t] = TopicIdOf[t] ]
      /\ reverse_topic_name_map' = [ reverse_topic_name_map EXCEPT ![TopicIdOf[t]] = t ]
  BY DEF TypeOK, SnTimersTypeOK, store_topic
<1>2. ASSUME NEW s \in Topics, topic_name_map'[s] # 0
      PROVE  /\ topic_name_map'[s] = TopicIdOf[s]
             /\ reverse_topic_name_map'[topic_name_map'[s]] = s
  <2>1. CASE s = t
    BY <1>1, <2>1, IdTypes
  <2>2. CASE s # t
    <3>1. topic_name_map'[s] = topic_name_map[s] /\ topic_name_map[s] = TopicIdOf[s]
          /\ reverse_topic_name_map[TopicIdOf[s]] = s
      BY <1>1, <1>2, <2>2 DEF TopicMapsRight
    <3>2. TopicIdOf[s] # TopicIdOf[t] /\ TopicIdOf[s] \in TopicIds
      BY <2>2, IdTypes
    <3> QED BY <1>1, <3>1, <3>2
  <2> QED BY <2>1, <2>2
<1>3. ASSUME NEW i \in TopicIds, reverse_topic_name_map'[i] # None
      PROVE  topic_name_map'[reverse_topic_name_map'[i]] = i
  <2>1. CASE i = TopicIdOf[t]
    BY <1>1, <2>1
  <2>2. CASE i # TopicIdOf[t]
    <3>1. reverse_topic_name_map'[i] = reverse_topic_name_map[i]
      BY <1>1, <2>2
    <3>2. /\ reverse_topic_name_map[i] \in Topics
          /\ topic_name_map[reverse_topic_name_map[i]] = i
      BY <1>1, <1>3, <3>1 DEF TopicMapsRight
    <3>3. reverse_topic_name_map[i] # t
      BY <2>2, <3>2, IdTypes DEF TopicMapsRight
    <3> QED BY <1>1, <3>1, <3>2, <3>3
  <2> QED BY <2>1, <2>2
<1> QED BY <1>2, <1>3 DEF TopicMapsRight

\* The maps are left alone, begun anew, or get a topic with its own id.
MapsMoved ==
  \/ UNCHANGED << topic_name_map, reverse_topic_name_map >>
  \/ topic_name_map' = NoTopicIds /\ reverse_topic_name_map' = NoTopicNames
  \/ \E t \in Topics : store_topic(t, TopicIdOf[t])

LEMMA MapsStayRight ==
  ASSUME TypeOK, TopicMapsRight, MapsMoved
  PROVE  TopicMapsRight'
<1>1. CASE UNCHANGED << topic_name_map, reverse_topic_name_map >>
  BY <1>1 DEF TopicMapsRight
<1>2. CASE topic_name_map' = NoTopicIds /\ reverse_topic_name_map' = NoTopicNames
  BY <1>2 DEF TopicMapsRight, NoTopicIds, NoTopicNames
<1> QED BY <1>1, <1>2, StoreRight DEF MapsMoved

LEMMA RxTopics ==
  ASSUME ShapeInv, NumberInv, TopicsInv, NEW a \in toClient, RxStep(a)
  PROVE  MapsMoved /\ (received' = received \/ IncomingNotMisfiled') /\ gatewayVars' = gatewayVars
<1> USE DEF snTimerVars, mapVars, topicVars, storeVars, netVars
<1>0. /\ InOK(a) /\ a \in SnPacket /\ Readable(a)
      /\ reverse_topic_name_map \in [ TopicIds -> Topics \cup {None} ]
      /\ received \in [ Incoming -> SUBSET (Topics \cup {None}) ]
  BY DEF NumberInv, ShapeInv, InShape, TypeOK, SnTimersTypeOK
<1>1. CASE rx_register(a)
  <2>1. a.type = "REGISTER" /\ store_topic(a.topic, a.tid)
    BY <1>1 DEF rx_register, Rx, Registration
  <2>2. a.topic \in Topics /\ a.tid = TopicIdOf[a.topic]
    BY <1>0, <2>1 DEF InOK, Readable
  <2> QED BY <1>1, <2>1, <2>2 DEF rx_register, MapsMoved
<1>2. CASE rx_regack(a)
  <2>1. PICK p : p = messages_map[a.id - 1]
    OBVIOUS
  <2>2. a.type = "REGACK" /\ received' = received /\ gatewayVars' = gatewayVars
    BY <1>2 DEF rx_regack, Rx
  <2>3. \/ UNCHANGED << topic_name_map, reverse_topic_name_map >>
        \/ p # SnNoMsg /\ store_topic(p.topic, a.tid)
    BY <1>2, <2>1 DEF rx_regack, sn_get_message_from_map, Registering, publish_registered
  <2>4. p # SnNoMsg => p.topic \in Topics /\ a.tid = TopicIdOf[p.topic]
    BY <2>1, <2>2, RegackWaits DEF OwnPublish
  <2> QED BY <2>2, <2>3, <2>4 DEF MapsMoved
<1>3. CASE rx_suback(a)
  <2>1. PICK m : m = messages_map[a.id]
    OBVIOUS
  <2>2. a.type = "SUBACK" /\ received' = received /\ gatewayVars' = gatewayVars
    BY <1>3 DEF rx_suback, Matched, Rx
  <2>3. \/ UNCHANGED << topic_name_map, reverse_topic_name_map >>
        \/ m.topic # None /\ store_topic(m.topic, a.tid)
    BY <1>3, <2>1 DEF rx_suback, sn_get_message_from_map
  <2>4. m.topic # None => m.topic \in Topics /\ a.tid = TopicIdOf[m.topic]
    <3>1. a.id \in Given /\ a.id \in SnIds
      BY <1>0, <2>2, StoredFacts DEF InOK
    <3>2. m \in SnPacket
      BY <2>1, <3>1 DEF ShapeInv, MapShape
    <3>3. m.topic # None => m # SnNoMsg /\ waiting[a.id] = m
      BY <2>1, <3>1, StoredFacts, MessageFields
    <3> QED BY <1>0, <2>2, <3>2, <3>3 DEF InOK, SnPacket
  <2> QED BY <2>2, <2>3, <2>4 DEF MapsMoved
<1>4. CASE rx_publish(a)
  <2>1. /\ a.type = "PUBLISH"
        /\ received' = [ received EXCEPT ![a.id] = @ \cup { reverse_topic_name_map[a.tid] } ]
        /\ UNCHANGED << topic_name_map, reverse_topic_name_map, gIn >> /\ gatewayVars' = gatewayVars
    BY <1>4 DEF rx_publish, Rx, sn_get_topic_name_from_map, gatewayVars
  <2>2. a.id \in Incoming /\ gIn[a.id] \in Topics /\ a.tid = TopicIdOf[gIn[a.id]]
    BY <1>0, <2>1 DEF InOK
  <2>3. reverse_topic_name_map[a.tid] \in { gIn[a.id], None }
    <3>1. a.tid \in TopicIds
      BY <2>2, IdTypes
    <3>2. reverse_topic_name_map[a.tid] # None =>
            /\ reverse_topic_name_map[a.tid] \in Topics
            /\ topic_name_map[reverse_topic_name_map[a.tid]] = a.tid
      BY <1>0, <3>1 DEF TopicsInv, TopicMapsRight
    <3> QED BY <2>2, <3>1, <3>2, IdTypes DEF TopicsInv, TopicMapsRight
  <2>4. IncomingNotMisfiled'
    BY <1>0, <2>1, <2>2, <2>3 DEF TopicsInv, IncomingNotMisfiled
  <2> QED BY <2>1, <2>4 DEF MapsMoved
<1>5. CASE rx_disconnect(a)
  BY <1>5 DEF rx_disconnect, fin_mqtt_sn_client, sn_stop_all_timers, MapsMoved
<1>6. CASE rx_connack(a) \/ rx_will(a) \/ rx_unmatched(a) \/ rx_wrong_cast(a)
           \/ rx_publish_done(a) \/ rx_handshake(a) \/ rx_unsuback(a) \/ rx_ignored(a)
  BY <1>6 DEF rx_connack, rx_will, rx_unmatched, rx_wrong_cast, rx_publish_done, rx_handshake,
              rx_unsuback, rx_ignored, MapsMoved
<1> QED BY <1>1, <1>2, <1>3, <1>4, <1>5, <1>6 DEF RxStep

LEMMA TopicsStep ==
  ASSUME ShapeInv, NumberInv, TopicsInv, [Next]_vars, Keeps
  PROVE  TopicsInv'
<1> USE DEF snTimerVars, mapVars, topicVars, storeVars, netVars, gatewayVars, clientVars
<1>0. /\ deliveredTo \in [ Contents -> SUBSET Topics ] /\ TypeOK
      /\ chosen \in [ Contents -> [ topic : Topics \cup {None}, qos : SnQoS ] ]
      /\ gIn \in [ Incoming -> Topics \cup {None} ]
      /\ received \in [ Incoming -> SUBSET (Topics \cup {None}) ]
  BY DEF ShapeInv, TypeOK, GatewayTypeOK
<1>1. deliveredTo' = deliveredTo => PublishedToItsTopic'
  <2> SUFFICES ASSUME deliveredTo' = deliveredTo, NEW c \in Contents
               PROVE  deliveredTo[c] \subseteq {chosen'[c].topic}
    BY DEF PublishedToItsTopic
  <2>1. deliveredTo[c] \subseteq {chosen[c].topic} /\ deliveredTo[c] \subseteq Topics
    BY <1>0 DEF TopicsInv, PublishedToItsTopic
  <2>2. CASE chosen[c].topic = None
    BY <2>1, <2>2, IdTypes
  <2>3. CASE chosen[c].topic # None
    BY <2>1, <2>3 DEF Keeps
  <2> QED BY <2>2, <2>3
<1>2. received' = received => IncomingNotMisfiled'
  BY DEF TopicsInv, IncomingNotMisfiled, Keeps
<1>3. ASSUME NEW a \in toClient, RxStep(a) PROVE TopicsInv'
  <2>1. MapsMoved /\ (received' = received \/ IncomingNotMisfiled') /\ deliveredTo' = deliveredTo
    BY <1>3, RxTopics
  <2> QED BY <1>0, <1>1, <1>2, <2>1, MapsStayRight DEF TopicsInv
<1>4. CASE GatewayStep
  <2>1. received' = received /\ UNCHANGED << topic_name_map, reverse_topic_name_map >>
    BY <1>4 DEF GatewayStep, Gateway
  <2>2. ASSUME NEW ping \in BOOLEAN, GatewayReads(ping) PROVE PublishedToItsTopic'
    <3>1. PICK m \in toGw :
            \/ ReadConnecting(m) \/ ReadRegister(m) \/ ReadPublish(m) \/ ReadSubscribe(m)
            \/ ReadUnsubscribe(m) \/ ReadHandshake(m) \/ ReadRegack(m) \/ ReadDisconnect(m)
      BY <2>2 DEF GatewayReads
    <3>2. CASE ReadPublish(m)
      <4>1. OutOK(m) /\ Sendable(m)
        BY DEF NumberInv, ShapeInv, OutShape
      <4>2. /\ m.type = "PUBLISH"
            /\ deliveredTo' = [ deliveredTo EXCEPT ![m.content] = @ \cup {TopicOf(m.tid)} ]
        BY <3>2 DEF ReadPublish
      <4>3. m.content \in Contents /\ m.topic \in Topics /\ m.topic = chosen[m.content].topic
            /\ m.tid = TopicIdOf[m.topic]
        BY <4>1, <4>2 DEF OutOK, OwnPublish, Sendable
      <4>4. TopicOf(m.tid) = m.topic
        BY <4>3, IdTypes
      <4>5. chosen' = chosen
        BY <1>4 DEF GatewayStep, Gateway
      <4> QED BY <1>0, <4>2, <4>3, <4>4, <4>5 DEF TopicsInv, PublishedToItsTopic
    <3>3. CASE ~ReadPublish(m)
      BY <1>1, <3>1, <3>3 DEF ReadConnecting, ReadRegister, ReadSubscribe, ReadUnsubscribe,
                              ReadHandshake, ReadRegack, ReadDisconnect
    <3> QED BY <3>2, <3>3
  <2>3. PublishedToItsTopic'
    BY <1>1, <1>4, <2>2 DEF GatewayStep, Gateway, GatewayPublishes, GatewayDisconnects
  <2>4. TopicMapsRight'
    BY <1>0, <2>1, MapsStayRight DEF MapsMoved, TopicsInv
  <2> QED BY <1>2, <2>1, <2>3, <2>4 DEF TopicsInv
<1>5. CASE rx_connack_timers \/ service_ends \/ connect_task \/ PingStep \/ NetworkStep
  <2>1. MapsMoved
    BY <1>5 DEF rx_connack_timers, start_mqtt_sn_ping_timer, service_ends, connect_task, PingStep,
                NetworkStep, Gateway, fin_mqtt_sn_client, sn_stop_all_timers, sn_ping_task, MapsMoved
  <2>2. received' = received /\ deliveredTo' = deliveredTo
    BY <1>5 DEF rx_connack_timers, service_ends, connect_task, PingStep, NetworkStep, Gateway,
                LoseDatagram, LoseSocket
  <2> QED BY <1>0, <1>1, <1>2, <2>1, <2>2, MapsStayRight DEF TopicsInv
<1>6. CASE UserStep
  <2>1. UNCHANGED << topic_name_map, reverse_topic_name_map, received, deliveredTo >>
    BY <1>6 DEF UserStep, LogIn, LogInFails, log_out_handle, send_sn_subscribe, send_sn_unsubscribe,
                send_sn_message, Begin
  <2> QED BY <1>0, <1>1, <1>2, <2>1, MapsStayRight DEF TopicsInv, MapsMoved
<1>7. CASE GuiStep
  <2>1. received' = received /\ deliveredTo' = deliveredTo
    BY <1>7 DEF GuiStep, send_sn_connect_fire, send_sn_connect_timer, send_sn_connect_add,
                send_numbered, send_sn_message_number, second_read, send_sn_register,
                send_sn_publish_fire, send_sn_publish_add, send_sn_disconnect_stop,
                send_sn_disconnect_fire
  <2>2. MapsMoved
    BY <1>7 DEF GuiStep, send_sn_connect_fire, send_sn_connect_timer, send_sn_connect_add,
                send_numbered, send_sn_message_number, second_read, send_sn_register,
                send_sn_publish_fire, send_sn_publish_add, send_sn_disconnect_stop,
                send_sn_disconnect_fire, sn_start_connect_timer, sn_stop_all_timers, MapsMoved
  <2> QED BY <1>0, <1>1, <1>2, <2>1, <2>2, MapsStayRight DEF TopicsInv
<1>8. CASE UNCHANGED vars
  BY <1>8 DEF vars, TopicsInv, TopicMapsRight, PublishedToItsTopic, IncomingNotMisfiled
<1> QED BY <1>3, <1>4, <1>5, <1>6, <1>7, <1>8 DEF Next, ServiceStep, RxAny
-----------------------------------------------------------------------------
(* Every content is in one place.                                          *)

LEMMA ContentsWait ==
  ASSUME ShapeInv, NumberInv, NEW i \in SnIds, waiting[i].content # None
  PROVE  /\ i \in Given /\ OwnPublish(waiting[i])
         /\ waiting[i].content \in Contents /\ chosen[waiting[i].content] # Unchosen
<1>1. i # 0
  BY StoredFacts DEF NumberInv
<1>2. waiting[i] # SnNoMsg
  BY MessageFields
<1>3. StoredOK(i)
  BY <1>1 DEF NumberInv
<1>4. i \in Given /\ OwnPublish(waiting[i])
  BY <1>2, <1>3 DEF StoredOK
<1> QED BY <1>4, IdTypes DEF OwnPublish, Unchosen

\* Under the ids that were given before, no content appears.
LEMMA ContentsStay ==
  ASSUME ShapeInv, NumberInv, ShapeInv', NumberInv', Keeps
  PROVE  /\ \A i \in SnIds : i \notin Given' \ Given =>
              (waiting')[i].content \in { waiting[i].content, None }
         /\ \A i \in Given' \ Given : i \in SnIds /\ waiting[i].content = None
<1>0. current_packet_number \in SnIds /\ current_packet_number' \in SnIds
  BY DEF ShapeInv, TypeOK
<1>1. Given \subseteq SnIds \ {0} /\ Given' \subseteq SnIds \ {0}
  BY <1>0, SnPacketBounds DEF Given, SnIds
<1>2. (waiting')[0].content = None
  BY <1>1, WaitingAt, IdTypes DEF NumberInv, GuiOK
<1>3. \A i \in SnIds \ {0} : i \notin Given' => (waiting')[i] = SnNoMsg
  BY DEF NumberInv, StoredOK
<1>4. \A i \in Given : (waiting')[i] \in { waiting[i], SnNoMsg }
  BY DEF Keeps
<1> QED BY <1>1, <1>2, <1>3, <1>4, StoredFacts, MessageFields

\* The GTK thread gets no content into its hand.
HandKept ==
  /\ guiMsg'.content \in { guiMsg.content, None }
  /\ gui' \in { "msg_num", "pub_read", "pub_num" } =>
       gui \in { "msg_num", "pub_read", "pub_num" } /\ guiMsg'.content = guiMsg.content
  /\ gui' \in { "reg_read", "reg_num" } => gui \in { "reg_read", "reg_num" } /\ guiMsg' = guiMsg

LEMMA OnceQuiet ==
  ASSUME ShapeInv, NumberInv, OnceInv, ShapeInv', NumberInv', Keeps, HandKept,
         UNCHANGED << saved, chosen >>,
         \A i \in Given' \ Given : (waiting')[i].content = None
  PROVE  OnceInv'
<1>1. \A i \in SnIds : (waiting')[i].content \in { waiting[i].content, None }
  BY ContentsStay
<1>2. guiMsg.content \notin Contents => guiMsg'.content \notin Contents
  BY SnNoneIsNoData DEF HandKept
<1>3. /\ \A i, j \in SnIds :
           ((waiting')[i].content = (waiting')[j].content /\ (waiting')[i].content # None) => i = j
      /\ \A c \in Contents :
           /\ saved'[c] <= 1
           /\ chosen'[c] = Unchosen => saved'[c] = 0
           /\ saved'[c] # 0 => guiMsg'.content # c /\ \A i \in SnIds : (waiting')[i].content # c
  BY <1>1, SnNoneIsNoData DEF OnceInv, HandKept
<1>4. ASSUME gui' \in { "msg_num", "pub_read", "pub_num" }, NEW i \in SnIds
      PROVE  (waiting')[i].content # guiMsg'.content
  <2>1. guiMsg'.content # None
    BY <1>4, SnNoneIsNoData DEF NumberInv, GuiOK, OwnPublish, Publishing, Unregistered
  <2> QED BY <1>1, <1>4, <2>1 DEF OnceInv, HandKept
<1>5. ASSUME gui' \in { "reg_read", "reg_num" }, NEW i \in SnIds,
             (waiting')[i].content = guiMsg'.content
      PROVE  i = guiMsg'.id
  <2>1. guiMsg'.content # None
    BY <1>5, SnNoneIsNoData DEF NumberInv, GuiOK, OwnPublish, Publishing, Unregistered
  <2> QED BY <1>1, <1>5, <2>1 DEF OnceInv, HandKept
<1> QED BY <1>3, <1>4, <1>5 DEF OnceInv

\* A content goes from under j into the history.
LEMMA OnceSaved ==
  ASSUME ShapeInv, NumberInv, OnceInv, ShapeInv', NumberInv', Keeps, HandKept,
         NEW j \in SnIds, waiting[j].content \in Contents, (waiting')[j].content = None,
         guiMsg'.content # waiting[j].content,
         saved' = [ saved EXCEPT ![waiting[j].content] = @ + 1 ],
         chosen' = chosen,
         \A i \in Given' \ Given : (waiting')[i].content = None
  PROVE  OnceInv'
<1>0. PICK c : c = waiting[j].content
  OBVIOUS
<1>1. \A i \in SnIds : (waiting')[i].content \in { waiting[i].content, None }
  BY ContentsStay
<1>2. saved \in [ Contents -> Nat ] /\ c \in Contents /\ c # None
  BY <1>0, SnNoneIsNoData DEF ShapeInv, TypeOK
<1>3. saved[c] = 0 /\ chosen[c] # Unchosen
  BY <1>0, <1>2, ContentsWait DEF OnceInv
<1>4. saved'[c] = 1 /\ \A d \in Contents : d # c => saved'[d] = saved[d]
  BY <1>0, <1>2, <1>3
<1>5. \A i \in SnIds : (waiting')[i].content # c
  BY <1>0, <1>1, <1>2 DEF OnceInv
<1>6. /\ \A i, k \in SnIds :
           ((waiting')[i].content = (waiting')[k].content /\ (waiting')[i].content # None) => i = k
      /\ \A d \in Contents :
           /\ saved'[d] <= 1
           /\ chosen'[d] = Unchosen => saved'[d] = 0
           /\ saved'[d] # 0 => guiMsg'.content # d /\ \A i \in SnIds : (waiting')[i].content # d
  BY <1>0, <1>1, <1>3, <1>4, <1>5, SnNoneIsNoData DEF OnceInv, HandKept
<1>7. ASSUME gui' \in { "msg_num", "pub_read", "pub_num" }, NEW i \in SnIds
      PROVE  (waiting')[i].content # guiMsg'.content
  <2>1. guiMsg'.content # None
    BY <1>7, SnNoneIsNoData DEF NumberInv, GuiOK, OwnPublish, Publishing, Unregistered
  <2> QED BY <1>1, <1>7, <2>1 DEF OnceInv, HandKept
<1>8. ASSUME gui' \in { "reg_read", "reg_num" }, NEW i \in SnIds,
             (waiting')[i].content = guiMsg'.content
      PROVE  i = guiMsg'.id
  <2>1. guiMsg'.content # None
    BY <1>8, SnNoneIsNoData DEF NumberInv, GuiOK, OwnPublish, Publishing, Unregistered
  <2> QED BY <1>1, <1>8, <2>1 DEF OnceInv, HandKept
<1> QED BY <1>6, <1>7, <1>8 DEF OnceInv

\* A content goes from the hand of the GTK thread to the new number k.
LEMMA OnceHanded ==
  ASSUME ShapeInv, NumberInv, OnceInv, ShapeInv', NumberInv', Keeps,
         gui \in { "msg_num", "pub_num" }, gui' \in { "reg_read", "pub_add" },
         NEW k, Given' = Given \cup {k}, k \notin Given, guiMsg'.id = k,
         guiMsg'.content = guiMsg.content, (waiting')[k].content = guiMsg.content,
         UNCHANGED << saved, chosen >>
  PROVE  OnceInv'
<1>1. /\ k \in SnIds /\ waiting[k].content = None
      /\ \A i \in SnIds : i # k => (waiting')[i].content \in { waiting[i].content, None }
  BY ContentsStay
<1>2. guiMsg.content # None
  BY SnNoneIsNoData DEF NumberInv, GuiOK, OwnPublish, Publishing, Unregistered
<1>3. \A i \in SnIds : waiting[i].content # guiMsg.content
  BY DEF OnceInv
<1>4. \A i, j \in SnIds :
        ((waiting')[i].content = (waiting')[j].content /\ (waiting')[i].content # None) => i = j
  BY <1>1, <1>2, <1>3 DEF OnceInv
<1>5. \A c \in Contents :
        /\ saved'[c] <= 1
        /\ chosen'[c] = Unchosen => saved'[c] = 0
        /\ saved'[c] # 0 => guiMsg'.content # c /\ \A i \in SnIds : (waiting')[i].content # c
  BY <1>1, SnNoneIsNoData DEF OnceInv
<1>6. \A i \in SnIds : (waiting')[i].content = guiMsg'.content => i = guiMsg'.id
  BY <1>1, <1>2, <1>3
<1> QED BY <1>4, <1>5, <1>6 DEF OnceInv

\* A content goes from under j to the new number k.
LEMMA OnceRenumbered ==
  ASSUME ShapeInv, NumberInv, OnceInv, ShapeInv', NumberInv', Keeps,
         UNCHANGED << gui, guiMsg, saved, chosen >>,
         gui \notin { "msg_num", "reg_read", "reg_num", "pub_read", "pub_num" },
         NEW k, Given' = Given \cup {k}, k \notin Given,
         NEW j \in SnIds, j # k, waiting[j].content \in Contents, (waiting')[j].content = None,
         (waiting')[k].content = waiting[j].content
  PROVE  OnceInv'
<1>1. /\ k \in SnIds /\ waiting[k].content = None
      /\ \A i \in SnIds : i # k => (waiting')[i].content \in { waiting[i].content, None }
  BY ContentsStay
<1>2. \A i, l \in SnIds :
        ((waiting')[i].content = (waiting')[l].content /\ (waiting')[i].content # None) => i = l
  BY <1>1, SnNoneIsNoData DEF OnceInv
<1>3. \A c \in Contents :
        /\ saved'[c] <= 1
        /\ chosen'[c] = Unchosen => saved'[c] = 0
        /\ saved'[c] # 0 => guiMsg'.content # c /\ \A i \in SnIds : (waiting')[i].content # c
  BY <1>1, SnNoneIsNoData DEF OnceInv
<1> QED BY <1>2, <1>3 DEF OnceInv

LEMMA OnceUser ==
  ASSUME ShapeInv, NumberInv, OnceInv, ShapeInv', NumberInv', Keeps, UserStep
  PROVE  OnceInv'
<1>1. Given' = Given /\ saved' = saved
  BY DEF Given, UserStep, LogIn, LogInFails, log_out_handle, send_sn_subscribe, send_sn_unsubscribe,
         send_sn_message, Begin, storeVars
<1>2. CASE LogIn \/ LogInFails \/ log_out_handle
  <2>1. chosen' = chosen /\ gui' \in { "conn_fire", "idle", "disc_stop" }
        /\ guiMsg' \in { guiMsg, SnPlain("CONNECT") }
    BY <1>2 DEF LogIn, LogInFails, log_out_handle, Gui
  <2> QED BY <1>1, <2>1, MessageFields, OnceQuiet DEF HandKept
<1>3. ASSUME NEW t \in Topics, send_sn_subscribe(t) \/ send_sn_unsubscribe(t)
      PROVE  OnceInv'
  <2>1. chosen' = chosen /\ gui' = "sub_num" /\ guiMsg'.content = None
    BY <1>3 DEF send_sn_subscribe, send_sn_unsubscribe, Begin, Gui, SnSubscribe, SnUnsubscribe, SnBuild
  <2> QED BY <1>1, <2>1, OnceQuiet DEF HandKept
<1>4. ASSUME NEW c \in Contents, NEW t \in Topics, NEW q \in SnUserQoS, send_sn_message(c, t, q)
      PROVE  OnceInv'
  <2>1. /\ chosen[c] = Unchosen /\ gui' = "msg_num" /\ guiMsg'.content = c
        /\ chosen' = [ chosen EXCEPT ![c] = [ topic |-> t, qos |-> q ] ]
    BY <1>4 DEF send_sn_message, Begin, Gui, SnPublish, SnBuild
  <2>2. \A i \in SnIds : (waiting')[i].content \in { waiting[i].content, None }
    BY <1>1, ContentsStay
  <2>3. \A i \in SnIds : (waiting')[i].content # c
    BY <2>1, <2>2, ContentsWait, SnNoneIsNoData
  <2>4. saved[c] = 0
    BY <2>1 DEF OnceInv
  <2>5. \A d \in Contents : chosen'[d] = Unchosen => chosen[d] = Unchosen
    BY <2>1 DEF ShapeInv, TypeOK
  <2>6. /\ \A i, j \in SnIds :
             ((waiting')[i].content = (waiting')[j].content /\ (waiting')[i].content # None) => i = j
        /\ \A d \in Contents :
             /\ saved'[d] <= 1
             /\ chosen'[d] = Unchosen => saved'[d] = 0
             /\ saved'[d] # 0 => guiMsg'.content # d /\ \A i \in SnIds : (waiting')[i].content # d
    BY <1>1, <2>1, <2>2, <2>4, <2>5, SnNoneIsNoData DEF OnceInv
  <2> QED BY <2>1, <2>3, <2>6 DEF OnceInv
<1> QED BY <1>2, <1>3, <1>4 DEF UserStep

\* The steps of the GTK thread that number nothing and save nothing.
LEMMA OnceCalls ==
  ASSUME ShapeInv, NumberInv, OnceInv, ShapeInv', NumberInv', Keeps,
         \/ send_sn_connect_fire \/ send_sn_connect_timer \/ send_sn_connect_add
         \/ second_read("reg_read", "reg_num") \/ second_read("pub_read", "pub_num")
         \/ send_sn_disconnect_stop \/ send_sn_disconnect_fire
  PROVE  OnceInv'
<1>1. Given' = Given /\ UNCHANGED << saved, chosen >> /\ guiMsg' \in { guiMsg, SnNoMsg }
  BY DEF Given, send_sn_connect_fire, send_sn_connect_timer, send_sn_connect_add, second_read,
         send_sn_disconnect_stop, send_sn_disconnect_fire, storeVars
<1>2. \/ gui' \in { "conn_timer", "conn_add", "idle", "disc_fire" }
      \/ gui = "reg_read" /\ gui' = "reg_num" /\ guiMsg' = guiMsg
      \/ gui = "pub_read" /\ gui' = "pub_num" /\ guiMsg' = guiMsg
  BY DEF Gui, send_sn_connect_fire, send_sn_connect_timer, send_sn_connect_add, second_read,
         send_sn_disconnect_stop, send_sn_disconnect_fire
<1>3. HandKept
  BY <1>1, <1>2, MessageFields DEF HandKept
<1> QED BY <1>1, <1>3, OnceQuiet

LEMMA OnceGui ==
  ASSUME ShapeInv, NumberInv, OnceInv, ShapeInv', NumberInv', Keeps, GuiStep
  PROVE  OnceInv'
<1> USE DEF Gui, storeVars
<1>0. /\ GuiOK /\ guiMsg \in SnPacket /\ SnNoMsg.content = None
      /\ messages_map \in [ SnIds -> SnPacket ]
  BY MessageFields DEF NumberInv, ShapeInv, TypeOK, SnTimersTypeOK
<1>1. CASE send_numbered \/ send_sn_register
  <2>1. PICK k, m :
          /\ current_packet_number' = k /\ k = current_packet_number + 1
          /\ messages_map' = [ messages_map EXCEPT ![key(m)] = m ]
          /\ m.content = None
    <3>1. CASE send_numbered
      <4>1. guiMsg.content = None
        BY <1>0, <3>1 DEF send_numbered, GuiOK
      <4>2. Numbered(guiMsg).content = None
        BY <1>0, <4>1 DEF Numbered, SnPacket
      <4> QED BY <1>0, <3>1, <4>2 DEF send_numbered, Number, sn_add_message_in_map, GuiOK
    <3>2. CASE send_sn_register
      <4>1. SnRegister(seen + 1, guiMsg.topic, 0).content = None
        BY DEF SnRegister, SnBuild
      <4> QED BY <1>0, <3>2, <4>1 DEF send_sn_register, Number, sn_add_message_in_map, GuiOK
    <3> QED BY <1>1, <3>1, <3>2
  <2>2. gui # "pub_add" /\ gui' = "idle" /\ guiMsg' = SnNoMsg /\ UNCHANGED << saved, chosen >>
    BY <1>1 DEF send_numbered, send_sn_register
  <2>3. k \in SnIds /\ k \notin Given /\ Given' = Given \cup {k}
    BY <2>1, FreshNumber
  <2>4. messages_map[k] = SnNoMsg
    BY <2>1, <2>3, FreshNumber, StoredFacts
  <2>5. (waiting')[k].content = None
    BY <1>0, <2>1, <2>2, <2>3, <2>4, WaitingInMap
  <2>6. \A i \in Given' \ Given : (waiting')[i].content = None
    BY <2>3, <2>5
  <2> QED BY <1>0, <2>2, <2>6, OnceQuiet DEF HandKept
<1>2. CASE send_sn_message_number \/ send_sn_publish_fire
  <2>1. PICK k, m : /\ current_packet_number' = k /\ k = current_packet_number + 1
                    /\ m = Numbered(guiMsg) /\ m.id = k /\ guiMsg' = m
    BY <1>0, <1>2 DEF send_sn_message_number, send_sn_publish_fire, Number, Numbered, SnPacket, GuiOK
  <2>2. /\ m.type = guiMsg.type /\ m.tid = guiMsg.tid /\ m.content = guiMsg.content
    BY <1>0, <2>1 DEF Numbered, SnPacket
  <2>3. /\ gui \in { "msg_num", "pub_num" } /\ UNCHANGED << saved, chosen >>
        /\ guiMsg.type = "PUBLISH"
    BY <1>0, <1>2 DEF send_sn_message_number, send_sn_publish_fire, GuiOK, Publishing, Unregistered,
                      OwnPublish
  <2>4. k \in SnIds \ {0} /\ k \notin Given /\ Given' = Given \cup {k} /\ messages_map[k] = SnNoMsg
    BY <2>1, FreshNumber, StoredFacts
  <2>5. CASE gui' = "pub_read"
    <3>1. gui = "msg_num" /\ messages_map' = messages_map
      BY <1>2, <2>5 DEF send_sn_message_number, send_sn_publish_fire
    <3>2. (waiting')[k].content = None
      BY <1>0, <2>4, <2>5, <3>1, WaitingInMap
    <3>3. \A i \in Given' \ Given : (waiting')[i].content = None
      BY <2>4, <3>2
    <3> QED BY <2>1, <2>2, <2>3, <2>5, <3>1, <3>3, OnceQuiet DEF HandKept
  <2>6. CASE gui' # "pub_read"
    <3>1. \/ gui' = "reg_read" /\ messages_map' = [ messages_map EXCEPT ![k] = m ]
          \/ gui' = "pub_add" /\ messages_map' = messages_map
      BY <1>2, <2>1, <2>2, <2>3, <2>6
         DEF send_sn_message_number, send_sn_publish_fire, sn_add_message_in_map, key, snTimerVars, mapVars
    <3>2. (waiting')[k] = m
      BY <1>0, <2>1, <2>4, <3>1, WaitingAt
    <3> QED BY <2>1, <2>2, <2>3, <2>4, <3>1, <3>2, OnceHanded
  <2> QED BY <2>5, <2>6
<1>3. CASE send_sn_publish_add
  <2>1. PICK j, c : j = guiMsg.id /\ c = guiMsg.content
    OBVIOUS
  <2>2. /\ gui = "pub_add" /\ gui' = "idle" /\ guiMsg' = SnNoMsg /\ chosen' = chosen
        /\ Given' = Given
        /\ \/ messages_map' = messages_map /\ saved' = [ saved EXCEPT ![c] = @ + 1 ]
           \/ saved' = saved
    BY <1>3, <2>1 DEF send_sn_publish_add, save_message, Given
  <2>3. /\ c \in Contents /\ c # None /\ j \in SnIds /\ messages_map[j] = SnNoMsg
        /\ waiting[j].content = c
    BY <1>0, <2>1, <2>2, StoredFacts, WaitingAt, SnNoneIsNoData DEF GuiOK, OwnPublish, Publishing
  <2>4. CASE saved' = saved
    BY <1>0, <2>2, <2>4, OnceQuiet DEF HandKept
  <2>5. CASE messages_map' = messages_map /\ saved' = [ saved EXCEPT ![c] = @ + 1 ]
    <3>1. (waiting')[j].content = None
      BY <1>0, <2>2, <2>3, <2>5, WaitingAt
    <3> QED BY <1>0, <2>2, <2>3, <2>5, <3>1, OnceSaved DEF HandKept
  <2> QED BY <2>2, <2>4, <2>5
<1> QED BY <1>1, <1>2, <1>3, OnceCalls DEF GuiStep

\* A PUBACK or PUBCOMP that finds its PUBLISH finds the only copy of its content.
LEMMA DoneWaits ==
  ASSUME ShapeInv, NumberInv, OnceInv, NEW a \in toClient, a.type \in { "PUBACK", "PUBCOMP" },
         NEW p, p = messages_map[a.id], p.type = "PUBLISH"
  PROVE  /\ a.id \in Given /\ a.id \in SnIds /\ p # SnNoMsg /\ waiting[a.id] = p
         /\ OwnPublish(p) /\ p.content \in Contents /\ p.content # None
         /\ gui = "pub_add" => guiMsg.id # a.id
         /\ guiMsg.content # p.content
<1>0. GuiOK /\ InOK(a)
  BY DEF NumberInv
<1>1. NamesPublish(a.id) /\ p # SnNoMsg
  BY <1>0, MessageFields DEF InOK
<1>2. a.id \in Given /\ a.id \in SnIds /\ waiting[a.id] = p /\ p.tid # 0
  BY <1>1, StoredFacts DEF NamesPublish
<1>3. StoredOK(a.id)
  BY <1>1, StoredFacts DEF NumberInv, NamesPublish
<1>4. OwnPublish(p) /\ p.content \in Contents /\ p.content # None
  BY <1>1, <1>2, <1>3, SnNoneIsNoData DEF StoredOK, OwnPublish, SubTypes
<1>5. gui = "pub_add" => guiMsg.id # a.id
  BY <1>0, <1>1 DEF GuiOK
<1>6. guiMsg.content # p.content
  <2>1. CASE gui = "pub_add"
    <3>1. waiting[guiMsg.id] = guiMsg /\ guiMsg.id \in SnIds
      BY <1>0, <2>1, WaitingAt, StoredFacts DEF GuiOK
    <3> QED BY <1>2, <1>4, <1>5, <2>1, <3>1 DEF OnceInv
  <2>2. CASE gui \in { "msg_num", "pub_read", "pub_num" }
    BY <1>2, <2>2 DEF OnceInv
  <2>3. CASE gui \in { "reg_read", "reg_num" }
    <3>1. guiMsg.tid = 0 /\ messages_map[guiMsg.id] \in { SnNoMsg, guiMsg }
      BY <1>0, <2>3 DEF GuiOK
    <3> QED BY <1>1, <1>2, <2>3, <3>1 DEF OnceInv
  <2>4. CASE gui \in GuiSteps \ Publishing
    BY <1>0, <1>4, <2>4, MessageFields DEF GuiOK, GuiSteps, Publishing, Unregistered
  <2> QED BY <2>1, <2>2, <2>3, <2>4 DEF ShapeInv, TypeOK, Publishing, Unregistered
<1> QED BY <1>1, <1>2, <1>4, <1>5, <1>6

\* A REGACK that finds a PUBLISH finds the only copy of its content, too.
LEMMA RegackAlone ==
  ASSUME Orderly, ShapeInv, NumberInv, OnceInv, NEW a \in toClient, rx_regack(a),
         NEW p, p = messages_map[a.id - 1], p # SnNoMsg
  PROVE  /\ a.id \in Given /\ a.id - 1 \in Given /\ a.id - 1 \in SnIds
         /\ waiting[a.id - 1] = p /\ OwnPublish(p) /\ p.content \in Contents
         /\ gui \notin { "msg_num", "reg_read", "reg_num", "pub_read", "pub_num" }
         /\ gui = "pub_add" => guiMsg.id # a.id - 1
         /\ guiMsg.content # p.content
<1>0. GuiOK /\ a.type = "REGACK"
  BY DEF NumberInv, rx_regack, Rx
<1>1. /\ a.id \in Given /\ a.id - 1 \in Given /\ a.id - 1 \in SnIds
      /\ waiting[a.id - 1] = p /\ OwnPublish(p) /\ p.content \in Contents
  BY <1>0, RegackWaits DEF OwnPublish
<1>2. AtomicSends
  BY <1>1 DEF Orderly, OwnPublish
<1>3. gui \notin { "msg_num", "reg_read", "reg_num", "pub_read", "pub_num" }
  BY <1>2 DEF rx_regack
<1>4. gui = "pub_add" => guiMsg.id # a.id - 1 /\ guiMsg.content # p.content
  <2>1. gui = "pub_add" => guiMsg.id \in SnIds /\ messages_map[guiMsg.id] = SnNoMsg
    BY <1>0, StoredFacts DEF GuiOK
  <2>2. gui = "pub_add" => waiting[guiMsg.id] = guiMsg
    BY <2>1, WaitingAt
  <2>3. p.content # None
    BY <1>1, SnNoneIsNoData
  <2> QED BY <1>1, <2>1, <2>2, <2>3 DEF OnceInv
<1>5. guiMsg.content # p.content
  BY <1>0, <1>1, <1>3, <1>4, SnNoneIsNoData, MessageFields DEF GuiOK, ShapeInv, TypeOK, GuiSteps
<1> QED BY <1>1, <1>3, <1>4, <1>5

LEMMA OnceRx ==
  ASSUME Orderly, ShapeInv, NumberInv, OnceInv, ShapeInv', NumberInv', Keeps,
         NEW a \in toClient, RxStep(a)
  PROVE  OnceInv'
<1> USE DEF restOfClient, guiVars, storeVars
<1>0. GuiOK /\ InOK(a) /\ SnNoMsg.content = None
  BY MessageFields DEF NumberInv
<1>1. UNCHANGED << gui, guiMsg, chosen >> /\ HandKept
  BY DEF RxStep, HandKept, rx_connack, rx_will, rx_register, rx_regack, rx_publish, rx_unmatched,
         rx_wrong_cast, rx_publish_done, rx_handshake, rx_suback, rx_unsuback, rx_ignored, rx_disconnect
<1>2. CASE rx_regack(a)
  <2>1. PICK p : p = messages_map[a.id - 1]
    OBVIOUS
  <2>2. a.type = "REGACK"
    BY <1>2 DEF rx_regack, Rx
  <2>3. CASE UNCHANGED << current_packet_number, saved >>
    BY <1>1, <2>3, OnceQuiet DEF Given
  <2>4. CASE p # SnNoMsg /\ publish_registered(a, p)
    <3>1. /\ a.id - 1 \in Given /\ a.id - 1 \in SnIds /\ waiting[a.id - 1] = p
          /\ p.content \in Contents /\ guiMsg.content # p.content
          /\ gui \notin { "msg_num", "reg_read", "reg_num", "pub_read", "pub_num" }
          /\ gui = "pub_add" => guiMsg.id \in Given /\ guiMsg.id # a.id - 1
      BY <1>0, <1>2, <2>1, <2>4, RegackAlone DEF GuiOK
    <3>2. PICK k, m :
            /\ m.content = p.content /\ m.id = k
            /\ k \in SnIds \ {0} /\ k \notin Given /\ Given' = Given \cup {k}
            /\ \A i \in SnIds : i # k => messages_map'[i] = IF i \in { a.id, a.id - 1 } THEN SnNoMsg
                                                           ELSE messages_map[i]
            /\ messages_map'[k] = IF m.qos = 0 THEN SnNoMsg ELSE m
            /\ saved' = IF m.qos = 0 THEN [ saved EXCEPT ![p.content] = @ + 1 ] ELSE saved
      BY <2>1, <2>2, <2>4, RegisteredMap
    <3>3. /\ (waiting')[a.id - 1] = SnNoMsg /\ a.id - 1 # k
          /\ (waiting')[k] = IF m.qos = 0 THEN SnNoMsg ELSE m
      BY <1>1, <3>1, <3>2, WaitingAt
    <3>4. CASE m.qos = 0
      <4>1. \A i \in Given' \ Given : (waiting')[i].content = None
        BY <1>0, <3>2, <3>3, <3>4
      <4> QED BY <1>0, <1>1, <3>1, <3>2, <3>3, <3>4, <4>1, OnceSaved
    <3>5. CASE m.qos # 0
      BY <1>0, <1>1, <3>1, <3>2, <3>3, <3>5, OnceRenumbered
    <3> QED BY <3>4, <3>5
  <2> QED BY <1>2, <2>1, <2>3, <2>4 DEF rx_regack, sn_get_message_from_map, Registering
<1>3. CASE rx_publish_done(a)
  <2>1. PICK p : p = messages_map[a.id]
    OBVIOUS
  <2>2. /\ a.type \in { "PUBACK", "PUBCOMP" } /\ Given' = Given /\ p.type = "PUBLISH"
        /\ messages_map' = removed({a.id}) /\ saved' = [ saved EXCEPT ![p.content] = @ + 1 ]
    BY <1>3, <2>1, CastTypes
       DEF rx_publish_done, Matched, Rx, save_message, sn_get_message_from_map, Given
  <2>3. /\ a.id \in SnIds /\ waiting[a.id] = p /\ p.content \in Contents
        /\ gui = "pub_add" => guiMsg.id # a.id
        /\ guiMsg.content # p.content
    BY <2>1, <2>2, DoneWaits
  <2>4. (waiting')[a.id].content = None
    BY <1>0, <1>1, <2>2, <2>3, WaitingAt DEF removed
  <2> QED BY <1>1, <2>2, <2>3, <2>4, OnceSaved
<1>4. CASE ~rx_regack(a) /\ ~rx_publish_done(a)
  <2>1. UNCHANGED << current_packet_number, saved >>
    BY <1>4 DEF RxStep, rx_connack, rx_will, rx_register, rx_publish, rx_unmatched, rx_wrong_cast,
                rx_handshake, rx_suback, rx_unsuback, rx_ignored, rx_disconnect
  <2> QED BY <1>1, <2>1, OnceQuiet DEF Given
<1> QED BY <1>2, <1>3, <1>4

LEMMA OnceStep ==
  ASSUME Orderly, ShapeInv, NumberInv, OnceInv, [Next]_vars, ShapeInv', NumberInv', Keeps
  PROVE  OnceInv'
<1>1. ASSUME NEW a \in toClient, RxStep(a) PROVE OnceInv'
  BY <1>1, OnceRx
<1>2. CASE \/ rx_connack_timers \/ service_ends \/ connect_task \/ PingStep
           \/ GatewayStep \/ NetworkStep \/ UNCHANGED vars
  <2>1. UNCHANGED << gui, guiMsg, saved, chosen, current_packet_number >>
    BY <1>2 DEF rx_connack_timers, service_ends, connect_task, PingStep, GatewayStep, NetworkStep,
                Gateway, vars, clientVars, guiVars, storeVars
  <2> QED BY <2>1, OnceQuiet DEF HandKept, Given
<1> QED BY <1>1, <1>2, OnceUser, OnceGui DEF Next, ServiceStep, RxAny

-----------------------------------------------------------------------------
(* A content is saved, or kept to be saved.                                *)

LEMMA FirstLogIn ==
  ASSUME FirstInv, TypeOK, [Next]_vars
  PROVE  /\ session' = 0 => net' = "none" /\ gui' = "idle" /\ ui' = "accounts"
         /\ (session' = 0 \/ (session' = 1 /\ gui' \in { "conn_fire", "conn_timer" })) =>
              \A c \in Contents : chosen'[c] = Unchosen
<1> USE DEF Gui, clientVars, guiVars, netVars, FirstInv
<1>1. CASE LogIn \/ LogInFails
  <2>1. session' = session + 1 /\ session \in Nat /\ chosen' = chosen
    BY <1>1 DEF LogIn, LogInFails, TypeOK
  <2>2. session' # 0 /\ (session' = 1 => session = 0)
    BY <2>1
  <2> QED BY <2>1, <2>2
<1>2. CASE log_out_handle \/ \E step, m : Begin(step, m) /\ step \in { "sub_num", "msg_num" }
  BY <1>2 DEF log_out_handle, Begin
<1>3. CASE GuiStep
  BY <1>3 DEF GuiStep, send_sn_connect_fire, send_sn_connect_timer, send_sn_connect_add,
              send_numbered, send_sn_message_number, second_read, send_sn_register,
              send_sn_publish_fire, send_sn_publish_add, send_sn_disconnect_stop,
              send_sn_disconnect_fire
<1>4. ASSUME NEW a \in toClient, RxStep(a)
      PROVE  net = "open" /\ UNCHANGED << session, gui, net, chosen >>
  BY <1>4 DEF RxStep, Rx, Matched, restOfClient, rx_connack, rx_will, rx_register, rx_regack,
              rx_publish, rx_unmatched, rx_wrong_cast, rx_publish_done, rx_handshake, rx_suback,
              rx_unsuback, rx_ignored, rx_disconnect
<1>5. CASE rx_connack_timers \/ service_ends \/ connect_task
  BY <1>5 DEF rx_connack_timers, service_ends, connect_task, fin_mqtt_sn_client,
              connection_unsuccessful
<1>6. CASE PingStep \/ GatewayStep \/ NetworkStep \/ UNCHANGED vars
  BY <1>6 DEF PingStep, sn_ping_task, GatewayStep, GatewayReads, GatewayPublishes,
              GatewayDisconnects, NetworkStep, LoseDatagram, LoseSocket, Gateway, vars
<1> QED BY <1>1, <1>2, <1>3, <1>4, <1>5, <1>6
        DEF Next, UserStep, send_sn_subscribe, send_sn_unsubscribe, send_sn_message,
            ServiceStep, RxAny

LEMMA NothingRefused ==
  ASSUME ~GatewayMayRefuse, ShapeInv, FirstInv, [Next]_vars
  PROVE  \A a \in toClient' : a.type = "REGACK" => a.ok
<1> USE DEF clientVars, netVars
<1>1. toClient' \subseteq toClient => \A a \in toClient' : a.type = "REGACK" => a.ok
  BY DEF FirstInv
<1>2. CASE UserStep \/ GuiStep \/ connect_task \/ PingStep \/ UNCHANGED vars
  BY <1>1, <1>2
     DEF UserStep, LogIn, LogInFails, init_net_service, log_out_handle, send_sn_subscribe,
         send_sn_unsubscribe, send_sn_message, Begin, GuiStep, send_sn_connect_fire,
         send_sn_connect_timer, send_sn_connect_add, send_numbered, send_sn_message_number,
         second_read, send_sn_register, send_sn_publish_fire, send_sn_publish_add,
         send_sn_disconnect_stop, send_sn_disconnect_fire, connect_task, PingStep, sn_ping_task, vars
<1>3. CASE ServiceStep
  BY <1>1, <1>3 DEF ServiceStep, RxAny, RxStep, Rx, Matched, Received, rx_connack, rx_will,
         rx_register, rx_regack, rx_publish, rx_unmatched, rx_wrong_cast, rx_publish_done,
         rx_handshake, rx_suback, rx_unsuback, rx_ignored, rx_disconnect, rx_connack_timers,
         service_ends
<1>4. CASE GatewayStep \/ NetworkStep
  <2>1. CASE LoseDatagram \/ LoseSocket
    BY <1>1, <2>1 DEF LoseDatagram, LoseSocket
  <2>2. CASE GatewayDisconnects
    BY <2>2 DEF GatewayDisconnects, Reply, SnPlain, SnAnswer, SnBuild, FirstInv
  <2>3. ASSUME NEW i \in Incoming, GatewayPublishes(i)
        PROVE  \A a \in toClient' : a.type = "REGACK" => a.ok
    BY <2>3 DEF GatewayPublishes, Reply, SnPublish, SnRegister, SnBuild, FirstInv
  <2>4. ASSUME NEW ping \in BOOLEAN, GatewayReads(ping)
        PROVE  \A a \in toClient' : a.type = "REGACK" => a.ok
    <3>1. \A m, a : (Reply(m) /\ (m.type = "REGACK" => m.ok) /\ a \in toClient' /\ a.type = "REGACK") => a.ok
      BY DEF Reply, FirstInv
    <3>2. Codes = {TRUE}
      BY DEF Codes
    <3> QED BY <1>1, <2>4, <3>1, <3>2
            DEF GatewayReads, ReadConnecting, Connack, ReadRegister, ReadPublish, ReadSubscribe,
                ReadUnsubscribe, ReadHandshake, ReadRegack, ReadDisconnect, SnPlain, SnAnswer, SnBuild
  <2> QED BY <1>4, <2>1, <2>2, <2>3, <2>4 DEF GatewayStep, NetworkStep, Gateway
<1> QED BY <1>2, <1>3, <1>4 DEF Next

LEMMA HeldStays ==
  ASSUME NEW c \in Contents, Held(c), saved' = saved,
         guiMsg.content = c =>
           guiMsg'.content = c \/ \E i \in SnIds : messages_map'[i].content = c,
         \A i \in SnIds : messages_map[i].content = c => messages_map'[i] = messages_map[i]
  PROVE  Held(c)'
BY DEF Held

\* What process_sn_rx does to a map that it leaves in use.
LEMMA RxHeld ==
  ASSUME Orderly, ~GatewayMayRefuse, ShapeInv, NumberInv, OnceInv, FirstInv, ShapeInv', NumberInv',
         NEW a \in toClient, RxStep(a), mapState' = "live"
  PROVE  /\ mapState = "live" /\ UNCHANGED << gui, guiMsg, session, chosen >>
         /\ \A c \in Contents : Held(c) => Held(c)'
         /\ (gui \in { "reg_read", "reg_num" } /\ messages_map[guiMsg.id] = guiMsg) =>
              messages_map'[guiMsg.id] = guiMsg
<1> USE DEF snTimerVars, mapVars, restOfClient, guiVars, storeVars
<1>0. /\ GuiOK /\ InOK(a) /\ SnNoMsg.content = None /\ None \notin Contents
      /\ saved \in [ Contents -> Nat ] /\ messages_map \in [ SnIds -> SnPacket ]
  BY MessageFields, SnNoneIsNoData DEF NumberInv, ShapeInv, TypeOK, SnTimersTypeOK
<1>1. UNCHANGED << gui, guiMsg, session, chosen >>
  BY DEF RxStep, rx_connack, rx_will, rx_register, rx_regack, rx_publish, rx_unmatched,
         rx_wrong_cast, rx_publish_done, rx_handshake, rx_suback, rx_unsuback, rx_ignored, rx_disconnect
<1>2. mapState = "live" /\ (rx_disconnect(a) => messages_map' = messages_map /\ saved' = saved)
  BY DEF RxStep, rx_connack, rx_will, rx_register, rx_regack, rx_publish, rx_unmatched,
         rx_wrong_cast, rx_publish_done, rx_handshake, rx_suback, rx_unsuback, rx_ignored,
         rx_disconnect, fin_mqtt_sn_client, sn_stop_all_timers, Destroyed
<1>3. gui \in { "reg_read", "reg_num" } =>
        /\ guiMsg.id \in Given /\ guiMsg.id \in SnIds \ {0} /\ guiMsg.tid = 0
        /\ guiMsg.type = "PUBLISH" /\ guiMsg.content \in Contents
  BY <1>0, StoredFacts DEF GuiOK, OwnPublish, Publishing, Unregistered
<1>4. \A c \in Contents : Held(c) /\ messages_map' = messages_map /\ saved' = saved => Held(c)'
  BY <1>1, HeldStays
<1>5. ASSUME NEW is, messages_map' = removed(is), saved' = saved,
             \A i \in SnIds : i \in is => messages_map[i].content = None
      PROVE  /\ \A c \in Contents : Held(c) => Held(c)'
             /\ (gui \in { "reg_read", "reg_num" } /\ messages_map[guiMsg.id] = guiMsg) =>
                  messages_map'[guiMsg.id] = guiMsg
  <2>1. \A i \in SnIds : messages_map[i].content # None => messages_map'[i] = messages_map[i]
    BY <1>5 DEF removed
  <2> QED BY <1>0, <1>1, <1>3, <1>5, <2>1, HeldStays
<1>6. CASE rx_connack(a)
  <2>1. messages_map[0].content = None
    BY DEF NumberInv
  <2> QED BY <1>1, <1>2, <1>5, <1>6, <2>1 DEF rx_connack
<1>7. CASE rx_suback(a) \/ rx_unsuback(a)
  <2>1. /\ a.type \in { "SUBACK", "UNSUBACK" } /\ messages_map' = removed({a.id}) /\ saved' = saved
        /\ messages_map[a.id].type = CastTo(a)
    BY <1>7 DEF rx_suback, rx_unsuback, Matched, Rx, sn_get_message_from_map
  <2>2. a.id \in SnIds \ {0} /\ a.id \in Given
    BY <1>0, <2>1, StoredFacts DEF InOK
  <2>3. messages_map[a.id].content = None
    <3>1. messages_map[a.id].type \in SubTypes
      BY <2>1, CastTypes DEF SubTypes
    <3>2. messages_map[a.id] # SnNoMsg => waiting[a.id] = messages_map[a.id] /\ StoredOK(a.id)
      BY <2>2, StoredFacts DEF NumberInv
    <3> QED BY <1>0, <3>1, <3>2 DEF StoredOK, OwnPublish, SubTypes
  <2> QED BY <1>1, <1>2, <1>5, <2>1, <2>3
<1>8. CASE rx_publish_done(a)
  <2>1. PICK p : p = messages_map[a.id]
    OBVIOUS
  <2>2. /\ a.type \in { "PUBACK", "PUBCOMP" } /\ p.type = "PUBLISH"
        /\ messages_map' = removed({a.id}) /\ saved' = [ saved EXCEPT ![p.content] = @ + 1 ]
    BY <1>8, <2>1, CastTypes
       DEF rx_publish_done, Matched, Rx, save_message, sn_get_message_from_map
  <2>3. NamesPublish(a.id) /\ p # SnNoMsg
    BY <1>0, <2>2, MessageFields DEF InOK
  <2>4. a.id \in SnIds /\ waiting[a.id] = p /\ p.tid # 0
    BY <2>1, <2>3, StoredFacts DEF NamesPublish
  <2>5. p.content # None
    BY <1>0, <2>2, <2>3, <2>4, StoredFacts DEF NumberInv, NamesPublish, StoredOK, OwnPublish, SubTypes
  <2>6. saved[p.content] = 0 /\ p.content \in Contents
    BY <2>4, <2>5, ContentsWait DEF OnceInv
  <2>7. saved'[p.content] = 1 /\ \A c \in Contents : c # p.content => saved'[c] = saved[c]
    BY <1>0, <2>2, <2>6
  <2>8. \A i \in SnIds : i # a.id => messages_map'[i] = messages_map[i]
    BY <2>2 DEF removed
  <2>9. \A c \in Contents : Held(c) => Held(c)'
    BY <1>1, <2>1, <2>6, <2>7, <2>8 DEF Held
  <2>10. (gui \in { "reg_read", "reg_num" } /\ messages_map[guiMsg.id] = guiMsg) => guiMsg.id # a.id
    BY <1>3, <2>1, <2>4
  <2> QED BY <1>1, <1>2, <1>3, <2>8, <2>9, <2>10
<1>9. CASE rx_regack(a)
  <2>1. PICK p : p = messages_map[a.id - 1]
    OBVIOUS
  <2>2. a.type = "REGACK" /\ a.ok
    BY <1>9 DEF rx_regack, Rx, FirstInv
  <2>3. CASE UNCHANGED << messages_map, saved >>
    BY <1>1, <1>2, <1>4, <2>3
  <2>4. CASE p # SnNoMsg /\ publish_registered(a, p)
    <3>1. /\ a.id - 1 \in SnIds /\ a.id - 1 \in Given /\ a.id \in SnIds /\ a.id \in Given
          /\ waiting[a.id - 1] = p /\ p.content \in Contents /\ messages_map[a.id] = SnNoMsg
      BY <2>1, <2>2, <2>4, RegackWaits DEF OwnPublish
    <3>2. PICK k, m :
            /\ m.content = p.content /\ k \in SnIds \ {0} /\ k \notin Given
            /\ \A i \in SnIds : i # k => messages_map'[i] = IF i \in { a.id, a.id - 1 } THEN SnNoMsg
                                                           ELSE messages_map[i]
            /\ messages_map'[k] = IF m.qos = 0 THEN SnNoMsg ELSE m
            /\ saved' = IF m.qos = 0 THEN [ saved EXCEPT ![p.content] = @ + 1 ] ELSE saved
      BY <2>1, <2>2, <2>4, RegisteredMap
    <3>3. AtomicSends
      BY <3>1 DEF Orderly
    <3>4. gui \notin { "reg_read", "reg_num" }
      BY <1>9, <3>3 DEF rx_regack
    <3>5. saved[p.content] = 0 /\ messages_map[k] = SnNoMsg
      BY <1>0, <3>1, <3>2, ContentsWait, StoredFacts DEF OnceInv
    <3>6. /\ \A c \in Contents : c # p.content => saved'[c] = saved[c]
          /\ m.qos = 0 => saved'[p.content] = 1
      BY <1>0, <3>1, <3>2, <3>5
    <3>7. Held(p.content)'
      BY <3>2, <3>6 DEF Held
    <3>8. ASSUME NEW c \in Contents, c # p.content, Held(c) PROVE Held(c)'
      <4>1. \A i \in SnIds : messages_map[i].content = c => i # k /\ i # a.id /\ i # a.id - 1
        BY <1>0, <2>1, <3>1, <3>5, <3>8
      <4>2. \A i \in SnIds : messages_map[i].content = c => messages_map'[i].content = c
        BY <3>2, <4>1
      <4> QED BY <1>1, <3>6, <3>8, <4>2 DEF Held
    <3> QED BY <1>1, <1>2, <3>4, <3>7, <3>8
  <2> QED BY <1>9, <2>1, <2>2, <2>3, <2>4 DEF rx_regack, sn_get_message_from_map, Registering
<1>10. CASE \/ rx_will(a) \/ rx_register(a) \/ rx_publish(a) \/ rx_unmatched(a) \/ rx_wrong_cast(a)
            \/ rx_handshake(a) \/ rx_ignored(a) \/ rx_disconnect(a)
  <2>1. UNCHANGED << messages_map, saved >>
    BY <1>2, <1>10 DEF rx_will, rx_register, rx_publish, rx_unmatched, rx_wrong_cast, rx_handshake, rx_ignored
  <2> QED BY <1>1, <1>2, <1>4, <2>1
<1> QED BY <1>6, <1>7, <1>8, <1>9, <1>10 DEF RxStep

\* ... and the steps outside of the GTK thread and of process_sn_rx.
LEMMA ThreadsHeld ==
  ASSUME \/ rx_connack_timers \/ service_ends \/ connect_task \/ PingStep
         \/ GatewayStep \/ NetworkStep \/ UNCHANGED vars,
         mapState' = "live"
  PROVE  UNCHANGED << mapState, messages_map, saved, gui, guiMsg, session, chosen >>
BY DEF rx_connack_timers, start_mqtt_sn_ping_timer, service_ends, connect_task, PingStep,
       sn_ping_task, fin_mqtt_sn_client, sn_stop_all_timers, Destroyed, GatewayStep, NetworkStep,
       Gateway, vars, snTimerVars, mapVars, clientVars, guiVars, storeVars

\* What the calls of the GTK thread do to a map that they leave in use.
LEMMA GuiHeld ==
  ASSUME ShapeInv, NumberInv, OnceInv, MapKept, ShapeInv', NumberInv', GuiStep,
         ~send_sn_connect_timer, mapState' = "live", session = 1
  PROVE  /\ UNCHANGED << mapState, session, chosen >>
         /\ \A c \in Contents : Held(c) => Held(c)'
         /\ gui' \in { "reg_read", "reg_num" } => messages_map'[guiMsg'.id] = guiMsg'
<1> USE DEF Gui, snTimerVars, mapVars, storeVars
<1>0. /\ GuiOK /\ guiMsg \in SnPacket /\ SnNoMsg.content = None /\ None \notin Contents
      /\ messages_map \in [ SnIds -> SnPacket ] /\ saved \in [ Contents -> Nat ]
      /\ messages_map[0].content = None /\ 0 \in SnIds
  BY MessageFields, SnNoneIsNoData, IdTypes DEF NumberInv, ShapeInv, TypeOK, SnTimersTypeOK
<1>1. UNCHANGED << mapState, session, chosen >> /\ ~send_sn_disconnect_stop
  BY DEF GuiStep, send_sn_connect_fire, send_sn_connect_add, send_numbered, send_sn_message_number,
         second_read, send_sn_register, send_sn_publish_fire, send_sn_publish_add,
         send_sn_disconnect_stop, send_sn_disconnect_fire, sn_stop_all_timers, Destroyed
<1>2. ASSUME NEW c \in Contents, Held(c), guiMsg.content = c => guiMsg'.content = c,
             NEW k \in SnIds, messages_map[k].content = None, NEW m,
             messages_map' = [ messages_map EXCEPT ![k] = m ], saved' = saved
      PROVE  Held(c)'
  BY <1>0, <1>2, HeldStays
<1>3. CASE send_sn_connect_fire \/ send_sn_disconnect_fire
           \/ second_read("reg_read", "reg_num") \/ second_read("pub_read", "pub_num")
  <2>1. /\ messages_map' = messages_map /\ saved' = saved /\ guiMsg' = guiMsg
        /\ gui' \in { "reg_read", "reg_num" } => gui = "reg_read"
    BY <1>3 DEF send_sn_connect_fire, send_sn_disconnect_fire, second_read
  <2>2. \A c \in Contents : Held(c) => Held(c)'
    BY <2>1 DEF Held
  <2> QED BY <1>1, <2>1, <2>2 DEF MapKept
<1>4. CASE send_sn_connect_add \/ send_numbered
  <2>1. PICK k, m :
          /\ k \in SnIds /\ messages_map[k].content = None
          /\ messages_map' = [ messages_map EXCEPT ![k] = m ]
    <3>1. CASE send_sn_connect_add
      <4>1. key(guiMsg) = 0
        BY <1>0, <3>1, MessageFields DEF send_sn_connect_add, GuiOK, key
      <4> QED BY <1>0, <3>1, <4>1 DEF send_sn_connect_add, sn_add_message_in_map
    <3>2. CASE send_numbered
      <4>1. current_packet_number' = current_packet_number + 1
        BY <1>0, <3>2 DEF send_numbered, Number, GuiOK
      <4>2. key(Numbered(guiMsg)) = current_packet_number + 1
        BY <1>0, <3>2 DEF send_numbered, GuiOK, key, Numbered, SnPacket, SubTypes
      <4>3. messages_map[current_packet_number + 1] = SnNoMsg /\ current_packet_number + 1 \in SnIds
        BY <4>1, FreshNumber, StoredFacts
      <4> QED BY <1>0, <3>2, <4>2, <4>3 DEF send_numbered, sn_add_message_in_map
    <3> QED BY <1>4, <3>1, <3>2
  <2>2. guiMsg.content = None /\ gui' = "idle" /\ saved' = saved
    BY <1>0, <1>4, MessageFields DEF send_sn_connect_add, send_numbered, GuiOK
  <2> QED BY <1>0, <1>1, <1>2, <2>1, <2>2
<1>5. CASE send_sn_message_number
  <2>1. PICK m : m = Numbered(guiMsg)
    OBVIOUS
  <2>2. /\ guiMsg' = m /\ m.type = "PUBLISH" /\ m.tid = guiMsg.tid /\ m.content = guiMsg.content
        /\ saved' = saved /\ m.id = current_packet_number + 1
        /\ current_packet_number' = current_packet_number + 1
    BY <1>0, <1>5, <2>1 DEF send_sn_message_number, Number, GuiOK, Numbered, SnPacket, OwnPublish,
                            Publishing, Unregistered
  <2>3. m.id \in SnIds /\ messages_map[m.id] = SnNoMsg
    BY <2>2, FreshNumber, StoredFacts
  <2>4. \/ messages_map' = [ messages_map EXCEPT ![m.id] = m ]
        \/ messages_map' = messages_map /\ gui' = "pub_read"
    BY <1>5, <2>1, <2>2 DEF send_sn_message_number, sn_add_message_in_map, key
  <2>5. \A c \in Contents : Held(c) => Held(c)'
    BY <1>0, <1>2, <2>2, <2>3, <2>4, HeldStays
  <2> QED BY <1>0, <1>1, <2>2, <2>3, <2>4, <2>5
<1>6. CASE send_sn_register
  <2>1. messages_map[guiMsg.id] = guiMsg /\ guiMsg.id \in SnIds \ {0}
    BY <1>0, <1>1, <1>6, StoredFacts DEF send_sn_register, MapKept, GuiOK
  <2>2. PICK m : messages_map' = [ messages_map EXCEPT ![0] = m ]
    BY <1>6 DEF send_sn_register, sn_add_message_in_map, key, SnRegister, SnBuild
  <2>3. saved' = saved /\ gui' = "idle"
    BY <1>6 DEF send_sn_register
  <2>4. \A c \in Contents : Held(c) => Held(c)'
    BY <1>0, <2>1, <2>2, <2>3, HeldStays
  <2> QED BY <1>1, <2>3, <2>4
<1>7. CASE send_sn_publish_fire
  <2>1. guiMsg'.content = guiMsg.content /\ UNCHANGED << messages_map, saved >> /\ gui' = "pub_add"
    BY <1>0, <1>7 DEF send_sn_publish_fire, Numbered, SnPacket
  <2>2. \A c \in Contents : Held(c) => Held(c)'
    BY <2>1, HeldStays
  <2> QED BY <1>1, <2>1, <2>2
<1>8. CASE send_sn_publish_add
  <2>1. PICK p : p = guiMsg
    OBVIOUS
  <2>2. /\ p.type = "PUBLISH" /\ p.content \in Contents /\ p.id \in SnIds
        /\ messages_map[p.id] = SnNoMsg /\ gui' = "idle"
    BY <1>0, <1>8, <2>1, StoredFacts DEF send_sn_publish_add, GuiOK, OwnPublish, Publishing
  <2>3. saved[p.content] = 0
    BY <2>1, <2>2 DEF OnceInv
  <2>4. \/ messages_map' = messages_map /\ saved' = [ saved EXCEPT ![p.content] = @ + 1 ]
        \/ messages_map' = [ messages_map EXCEPT ![p.id] = p ] /\ saved' = saved
    BY <1>8, <2>1, <2>2 DEF send_sn_publish_add, sn_add_message_in_map, key, save_message
  <2>5. Held(p.content)' /\ \A c \in Contents : c # p.content => saved'[c] = saved[c]
    BY <1>0, <2>2, <2>3, <2>4 DEF Held
  <2>6. \A i \in SnIds : messages_map[i].content # None => messages_map'[i] = messages_map[i]
    BY <1>0, <2>2, <2>4
  <2>7. ASSUME NEW c \in Contents, c # p.content, Held(c) PROVE Held(c)'
    BY <1>0, <2>1, <2>5, <2>6, <2>7 DEF Held
  <2> QED BY <1>1, <2>2, <2>5, <2>7
<1> QED BY <1>1, <1>3, <1>4, <1>5, <1>6, <1>7, <1>8 DEF GuiStep

LEMMA KeptStep ==
  ASSUME Orderly, ~GatewayMayRefuse, ShapeInv, NumberInv, OnceInv, KeptInv, [Next]_vars,
         ShapeInv', NumberInv', OnceInv'
  PROVE  KeptInv'
<1> USE DEF Gui
<1>0. FirstInv /\ MapKept
  BY DEF KeptInv
<1>1. ASSUME UserStep PROVE MapKept'
  <2>1. CASE LogIn \/ LogInFails
    <3>1. gui' \in { "conn_fire", "idle" } /\ session' = session + 1 /\ session \in Nat
          /\ chosen' = chosen
      BY <2>1 DEF LogIn, LogInFails, ShapeInv, TypeOK
    <3>2. session' = 1 => \A c \in Contents : chosen'[c].topic = None
      BY <1>0, <3>1 DEF FirstInv, Unchosen
    <3> QED BY <3>1, <3>2 DEF MapKept
  <2>2. CASE ~LogIn /\ ~LogInFails
    <3>1. /\ UNCHANGED << mapState, messages_map, saved, session >>
          /\ gui = "idle" /\ gui' \in { "disc_stop", "sub_num", "msg_num" }
      BY <1>1, <2>2 DEF UserStep, log_out_handle, send_sn_subscribe, send_sn_unsubscribe,
                        send_sn_message, Begin, snTimerVars, mapVars, storeVars
    <3>2. guiMsg = SnNoMsg /\ SnNoMsg.content \notin Contents
      BY <3>1, MessageFields, SnNoneIsNoData DEF NumberInv, GuiOK
    <3>3. \A c \in Contents : Held(c) => Held(c)'
      BY <3>1, <3>2, HeldStays
    <3>4. \A c \in Contents : chosen'[c] = chosen[c] \/ guiMsg'.content = c
      BY <1>1, <2>2 DEF UserStep, log_out_handle, send_sn_subscribe, send_sn_unsubscribe,
                        send_sn_message, Begin, SnPublish, SnBuild, ShapeInv, TypeOK
    <3> QED BY <1>0, <3>1, <3>3, <3>4 DEF Held, MapKept
  <2> QED BY <2>1, <2>2
<1>2. ASSUME GuiStep PROVE MapKept'
  <2>1. session' = session /\ chosen' = chosen
    BY <1>2 DEF GuiStep, send_sn_connect_fire, send_sn_connect_timer, send_sn_connect_add,
         send_numbered, send_sn_message_number, second_read, send_sn_register,
         send_sn_publish_fire, send_sn_publish_add, send_sn_disconnect_stop, send_sn_disconnect_fire
  <2>2. CASE send_sn_connect_timer
    <3>1. gui = "conn_timer" /\ gui' = "conn_add"
      BY <2>2 DEF send_sn_connect_timer
    <3> QED BY <1>0, <2>1, <3>1 DEF FirstInv, Unchosen, MapKept
  <2>3. CASE ~send_sn_connect_timer
    <3> SUFFICES ASSUME mapState' = "live", session = 1
                 PROVE  MapKept'
      BY <2>1 DEF MapKept
    <3> QED BY <1>0, <1>2, <2>3, GuiHeld DEF MapKept
  <2> QED BY <2>2, <2>3
<1>3. ASSUME NEW a \in toClient, RxStep(a) PROVE MapKept'
  <2> SUFFICES ASSUME mapState' = "live" PROVE MapKept'
    BY DEF MapKept
  <2> QED BY <1>0, <1>3, RxHeld DEF MapKept
<1>4. ASSUME \/ rx_connack_timers \/ service_ends \/ connect_task \/ PingStep
             \/ GatewayStep \/ NetworkStep \/ UNCHANGED vars
      PROVE  MapKept'
  <2>1. CASE mapState' = "live"
    <3>1. UNCHANGED << mapState, messages_map, saved, gui, guiMsg, session, chosen >>
      BY <1>4, <2>1, ThreadsHeld
    <3> QED BY <1>0, <3>1 DEF MapKept, Held
  <2>2. CASE mapState' # "live"
    BY <2>2 DEF MapKept
  <2> QED BY <2>1, <2>2
<1>5. MapKept'
  BY <1>1, <1>2, <1>3, <1>4 DEF Next, ServiceStep, RxAny
<1>6. FirstInv'
  <2>1. TypeOK
    BY DEF ShapeInv
  <2> QED BY <1>0, <2>1, FirstLogIn, NothingRefused DEF FirstInv
<1> QED BY <1>5, <1>6 DEF KeptInv

-----------------------------------------------------------------------------
(* The theorems.                                                           *)

LEMMA SnOrderStart ==
  ASSUME Init
  PROVE  SnOrderInv /\ KeptInv
<1>1. /\ messages_map = [ i \in SnIds |-> SnNoMsg ] /\ toGw = {} /\ toClient = {}
      /\ gui = "idle" /\ guiMsg = SnNoMsg /\ mapState = "null"
      /\ \A c \in Contents : saved[c] = 0 /\ chosen[c] = Unchosen /\ deliveredTo[c] = {}
      /\ \A i \in Incoming : received[i] = {}
      /\ session = 0 /\ net = "none" /\ ui = "accounts"
      /\ \A t \in Topics : topic_name_map[t] = 0
      /\ \A i \in TopicIds : reverse_topic_name_map[i] = None
  BY DEF Init, SnTimersInit, GatewayInit, NoMessages, NoTopicIds, NoTopicNames
<1>2. \A i \in SnIds : messages_map[i] = SnNoMsg /\ waiting[i] = SnNoMsg
  BY <1>1 DEF waiting
<1>3. NumberInv
  BY <1>1, <1>2, IdTypes, MessageFields
     DEF NumberInv, StoredOK, OutOK, GuiOK, Publishing, Unregistered, SubTypes
<1>4. TopicsInv
  BY <1>1 DEF TopicsInv, TopicMapsRight, PublishedToItsTopic, IncomingNotMisfiled
<1>5. OnceInv
  BY <1>1, <1>2, MessageFields DEF OnceInv
<1>6. KeptInv
  BY <1>1 DEF KeptInv, FirstInv, MapKept
<1> QED BY <1>3, <1>4, <1>5, <1>6 DEF SnOrderInv

LEMMA SnOrderStep ==
  ASSUME Orderly, ShapeInv, SnOrderInv, [Next]_vars
  PROVE  SnOrderInv' /\ ShapeInv' /\ Keeps
<1>1. ShapeInv'
  BY ShapeStep
<1>2. NumberInv' /\ Keeps
  BY NumberStep DEF SnOrderInv, TopicsInv
<1>3. TopicsInv' /\ OnceInv'
  BY <1>1, <1>2, TopicsStep, OnceStep DEF SnOrderInv
<1> QED BY <1>1, <1>2, <1>3 DEF SnOrderInv

LEMMA SnOrderInductive ==
  ASSUME Orderly
  PROVE  Spec => [](ShapeInv /\ SnOrderInv)
<1>1. Init => ShapeInv /\ SnOrderInv
  BY SnOrderStart, InitShape
<1>2. ShapeInv /\ SnOrderInv /\ [Next]_vars => ShapeInv' /\ SnOrderInv'
  BY SnOrderStep
<1> QED BY <1>1, <1>2, PTL DEF Spec

\* The two topic maps are inverse to each other and give every topic the id that
\* the gateway has for it, whatever REGACK, REGISTER and SUBACK messages were
\* lost, repeated or overtaken, if no REGACK is handled inside a send_sn_message.
THEOREM TopicMapsRightHolds ==
  ASSUME Orderly
  PROVE  Spec => []TopicMapsRight
<1>1. SnOrderInv => TopicMapsRight
  BY DEF SnOrderInv, TopicsInv
<1> QED BY <1>1, SnOrderInductive, PTL

\* Under the same condition, what the user publishes on a topic reaches the
\* subscribers of that topic and of no other.
THEOREM PublishedToItsTopicHolds ==
  ASSUME Orderly
  PROVE  Spec => []PublishedToItsTopic
<1>1. SnOrderInv => PublishedToItsTopic
  BY DEF SnOrderInv, TopicsInv
<1> QED BY <1>1, SnOrderInductive, PTL

\* ... and an incoming message is never stored under the name of another topic.
THEOREM IncomingNotMisfiledHolds ==
  ASSUME Orderly
  PROVE  Spec => []IncomingNotMisfiled
<1>1. SnOrderInv => IncomingNotMisfiled
  BY DEF SnOrderInv, TopicsInv
<1> QED BY <1>1, SnOrderInductive, PTL

\* ... and what the map holds for an answer on its way is the kind of message
\* that the answer is for, so that the casts of process_sn_rx are right; and a
\* REGACK finds the PUBLISH that waits for this topic.
THEOREM SnAnswerMatchesRequestHolds ==
  ASSUME Orderly
  PROVE  Spec => []SnAnswerMatchesRequest
<1>1. ShapeInv /\ SnOrderInv => SnAnswerMatchesRequest
  <2> SUFFICES ASSUME ShapeInv, NumberInv PROVE SnAnswerMatchesRequest
    BY DEF SnOrderInv
  <2>1. ASSUME NEW a \in toClient, a.type \in AnswerTypes
        PROVE  messages_map[a.id].type \in { CastTo(a), SnNoMsg.type }
    <3> SUFFICES ASSUME messages_map[a.id] # SnNoMsg
                 PROVE  messages_map[a.id].type = CastTo(a)
      OBVIOUS
    <3>1. InOK(a)
      BY DEF NumberInv
    <3>2. a.id \in Given
      BY <2>1, <3>1 DEF InOK, AnswerTypes, NamesPublish
    <3>3. waiting[a.id] = messages_map[a.id]
      BY <3>2, StoredFacts
    <3> QED BY <2>1, <3>1, <3>3, CastTypes DEF InOK, AnswerTypes, NamesPublish
  <2>2. ASSUME NEW a \in toClient, a.type = "REGACK", NEW p, p = messages_map[a.id - 1], p # SnNoMsg
        PROVE  p.type = "PUBLISH" /\ p.tid = 0 /\ TopicIdOf[p.topic] = a.tid
    BY <2>2, RegackWaits DEF OwnPublish
  <2> QED BY <2>1, <2>2 DEF SnAnswerMatchesRequest, ShapeInv
<1> QED BY <1>1, SnOrderInductive, PTL

\* ... and an outgoing message is in the history at most once, however often its
\* PUBACK, PUBCOMP or REGACK arrives; and until then one of the first session is
\* in the map, if the gateway refuses no registration.
THEOREM SnSavedOnceOrStoredHolds ==
  ASSUME Orderly, ~GatewayMayRefuse
  PROVE  Spec => []SnSavedOnceOrStored
<1>1. Init => ShapeInv /\ SnOrderInv /\ KeptInv
  BY SnOrderStart, InitShape
<1>2. ShapeInv /\ SnOrderInv /\ KeptInv /\ [Next]_vars => ShapeInv' /\ SnOrderInv' /\ KeptInv'
  BY SnOrderStep, KeptStep DEF SnOrderInv
<1>3. SnOrderInv /\ KeptInv => SnSavedOnceOrStored
  BY DEF SnOrderInv, OnceInv, KeptInv, MapKept, Held, SnSavedOnceOrStored
<1> QED BY <1>1, <1>2, <1>3, PTL DEF Spec-----------------------------------------------------------------------------
(* The promise of Publishing: sessions follow one another.                 *)

LEMMA SessionFin ==
  ASSUME TypeOK, SessionInv, NEW rs, fin_mqtt_sn_client(rs), UNCHANGED << gui, is_disconnect_sent >>
  PROVE  SessionInv'
<1>1. CASE is_disconnect_sent
  BY <1>1 DEF fin_mqtt_sn_client, snTimerVars, mapVars, SessionInv
<1>2. CASE ~is_disconnect_sent
  BY <1>2 DEF fin_mqtt_sn_client, sn_stop_all_timers, Destroyed, SessionInv
<1> QED BY <1>1, <1>2

LEMMA SessionStep ==
  ASSUME TypeOK, SessionInv, [Next]_vars
  PROVE  SessionInv'
<1> USE DEF Gui, snTimerVars, mapVars, netVars, guiVars, LogsIn
<1>1. CASE LogIn \/ LogInFails
  BY <1>1 DEF LogIn, LogInFails, init_net_service, SessionInv
<1>2. CASE log_out_handle \/ \E step, m : Begin(step, m) /\ step \in { "sub_num", "msg_num" }
  BY <1>2 DEF log_out_handle, Begin, SessionInv
<1>3. CASE GuiStep
  <2>1. CASE send_sn_connect_timer
    <3>1. thread'["connecter"] = "running"
      BY <2>1 DEF send_sn_connect_timer, sn_start_connect_timer, TypeOK, SnTimersTypeOK, SnThreads
    <3> QED BY <2>1, <3>1 DEF send_sn_connect_timer, SessionInv
  <2>2. CASE send_sn_disconnect_stop \/ send_sn_disconnect_fire
    BY <2>2 DEF send_sn_disconnect_stop, sn_stop_all_timers, Destroyed, send_sn_disconnect_fire,
                SessionInv
  <2>3. CASE ~send_sn_connect_timer /\ ~send_sn_disconnect_stop /\ ~send_sn_disconnect_fire
    <3>1. /\ UNCHANGED << mapState, thread, ui, is_stop, is_disconnect_sent >>
          /\ gui' \notin LogsIn \cup { "disc_fire" } \/ (gui = "conn_fire" /\ gui' = "conn_timer")
      BY <1>3, <2>3 DEF GuiStep, send_sn_connect_fire, send_sn_connect_add, send_numbered,
              send_sn_message_number, second_read, send_sn_register, send_sn_publish_fire,
              send_sn_publish_add
    <3> QED BY <3>1 DEF SessionInv
  <2> QED BY <2>1, <2>2, <2>3
<1>4. ASSUME NEW a \in toClient, RxStep(a) PROVE SessionInv'
  <2>1. CASE rx_connack(a)
    BY <2>1 DEF rx_connack, Rx, SessionInv
  <2>2. CASE rx_disconnect(a)
    BY <2>2, SessionFin DEF rx_disconnect
  <2>3. CASE ~rx_connack(a) /\ ~rx_disconnect(a)
    <3>1. UNCHANGED << mapState, thread, ui, is_stop, is_disconnect_sent, gui >>
      BY <1>4, <2>3 DEF RxStep, restOfClient, rx_will, rx_register, rx_regack, rx_publish, rx_unmatched,
              rx_wrong_cast, rx_publish_done, rx_handshake, rx_suback, rx_unsuback, rx_ignored
    <3> QED BY <3>1 DEF SessionInv
  <2> QED BY <2>1, <2>2, <2>3
<1>5. CASE service_ends
  BY <1>5, SessionFin DEF service_ends, SessionInv
<1>6. CASE connect_task
  <2>1. CASE RoundLeft
    BY <1>6, <2>1 DEF connect_task, SessionInv
  <2>2. CASE ~RoundLeft /\ is_disconnect_sent
    BY <1>6, <2>2 DEF connect_task, SessionInv
  <2>3. CASE ~RoundLeft /\ ~is_disconnect_sent
    BY <1>6, <2>3, SessionFin DEF connect_task
  <2> QED BY <2>1, <2>2, <2>3
<1>7. CASE rx_connack_timers
  BY <1>7 DEF rx_connack_timers, start_mqtt_sn_ping_timer, SessionInv, TypeOK, SnTimersTypeOK
<1>8. CASE PingStep \/ GatewayStep \/ NetworkStep \/ UNCHANGED vars
  <2>1. /\ UNCHANGED << mapState, thread, ui, is_disconnect_sent, gui >>
        /\ is_stop' = is_stop \/ is_stop' = TRUE
    BY <1>8 DEF PingStep, sn_ping_task, GatewayStep, GatewayReads, GatewayPublishes,
                GatewayDisconnects, NetworkStep, LoseDatagram, LoseSocket, Gateway, vars, clientVars
  <2> QED BY <2>1 DEF SessionInv
<1> QED BY <1>1, <1>2, <1>3, <1>4, <1>5, <1>6, <1>7, <1>8
        DEF Next, UserStep, send_sn_subscribe, send_sn_unsubscribe, send_sn_message,
            ServiceStep, RxAny

LEMMA HandStep ==
  ASSUME Orderly, ~GatewayMayRefuse, ShapeInv, NumberInv, OnceInv, FirstInv, HandInv, [Next]_vars,
         ShapeInv', NumberInv'
  PROVE  HandInv'
<1> USE DEF Gui
<1>1. CASE UserStep
  BY <1>1 DEF UserStep, LogIn, LogInFails, log_out_handle, send_sn_subscribe, send_sn_unsubscribe,
              send_sn_message, Begin, HandInv
<1>2. CASE GuiStep
  <2>1. CASE second_read("reg_read", "reg_num")
    BY <2>1 DEF second_read, HandInv, snTimerVars, mapVars
  <2>2. CASE send_sn_message_number
    <3>1. PICK m : m = Numbered(guiMsg)
      OBVIOUS
    <3>2. /\ guiMsg' = m /\ m.type = "PUBLISH" /\ m.tid = guiMsg.tid
          /\ m.id = current_packet_number + 1 /\ current_packet_number' = current_packet_number + 1
      BY <2>2, <3>1 DEF send_sn_message_number, Number, NumberInv, GuiOK, ShapeInv, TypeOK, Numbered,
                        SnPacket, OwnPublish, Publishing, Unregistered
    <3>3. m.id \in SnIds
      BY <3>2, FreshNumber
    <3>4. \/ messages_map' = [ messages_map EXCEPT ![m.id] = m ]
          \/ gui' = "pub_read"
      BY <2>2, <3>1, <3>2 DEF send_sn_message_number, sn_add_message_in_map, key
    <3> QED BY <3>2, <3>3, <3>4 DEF HandInv, ShapeInv, TypeOK, SnTimersTypeOK
  <2>3. CASE gui' \notin { "reg_read", "reg_num" }
    BY <2>3 DEF HandInv
  <2> QED BY <1>2, <2>1, <2>2, <2>3
          DEF GuiStep, send_sn_connect_fire, send_sn_connect_timer, send_sn_connect_add, send_numbered,
              second_read, send_sn_register, send_sn_publish_fire, send_sn_publish_add,
              send_sn_disconnect_stop, send_sn_disconnect_fire
<1>3. ASSUME NEW a \in toClient, RxStep(a) PROVE HandInv'
  BY <1>3, RxHeld DEF HandInv
<1>4. CASE \/ rx_connack_timers \/ service_ends \/ connect_task \/ PingStep
           \/ GatewayStep \/ NetworkStep \/ UNCHANGED vars
  BY <1>4, ThreadsHeld DEF HandInv
<1> QED BY <1>1, <1>2, <1>3, <1>4 DEF Next, ServiceStep, RxAny
-----------------------------------------------------------------------------
(* ... and an answer follows what it is about.                             *)

LEMMA DeliveredGrows ==
  ASSUME ShapeInv, [Next]_vars
  PROVE  /\ \A c \in Contents : deliveredTo[c] \subseteq deliveredTo'[c]
         /\ (\A m \in toGw : ~ReadPublish(m)) => deliveredTo' = deliveredTo
<1> USE DEF gatewayVars
<1>1. CASE ~GatewayStep
  <2>1. deliveredTo' = deliveredTo
    BY <1>1 DEF Next, UserStep, LogIn, LogInFails, log_out_handle, send_sn_subscribe,
         send_sn_unsubscribe, send_sn_message, Begin, GuiStep, send_sn_connect_fire,
         send_sn_connect_timer, send_sn_connect_add, send_numbered, send_sn_message_number,
         second_read, send_sn_register, send_sn_publish_fire, send_sn_publish_add,
         send_sn_disconnect_stop, send_sn_disconnect_fire, connect_task, PingStep, sn_ping_task,
         ServiceStep, RxAny, RxStep, rx_connack, rx_will, rx_register, rx_regack, rx_publish,
         rx_unmatched, rx_wrong_cast, Matched, rx_publish_done, rx_handshake, rx_suback, rx_unsuback,
         rx_ignored, rx_disconnect, rx_connack_timers, service_ends, NetworkStep, LoseDatagram,
         LoseSocket, Gateway, vars
  <2> QED BY <2>1
<1>2. CASE GatewayStep
  <2>1. \/ \E m \in toGw : ReadPublish(m)
        \/ deliveredTo' = deliveredTo
    BY <1>2 DEF GatewayStep, Gateway, GatewayReads, GatewayPublishes, GatewayDisconnects,
                ReadConnecting, ReadRegister, ReadPublish, ReadSubscribe, ReadUnsubscribe,
                ReadHandshake, ReadRegack, ReadDisconnect
  <2>2. ASSUME NEW m \in toGw, ReadPublish(m)
        PROVE  \A c \in Contents : deliveredTo[c] \subseteq deliveredTo'[c]
    BY <2>2 DEF ReadPublish, ShapeInv, TypeOK, GatewayTypeOK
  <2> QED BY <2>1, <2>2
<1> QED BY <1>1, <1>2

\* What was said of a number that was given stays true.
LEMMA ArrivedStays ==
  ASSUME ShapeInv, NumberInv, Keeps, \A c \in Contents : deliveredTo[c] \subseteq deliveredTo'[c]
  PROVE  /\ \A i \in Given : Arrived(i) => Arrived(i)'
         /\ \A m : (m.type \in { "PUBLISH", "PUBREL" } => m.id \in Given) /\ SentRight(m)
                     => SentRight(m)'
<1>1. \A i \in Given : (waiting')[i].content \in { waiting[i].content, None } /\ i \in SnIds
  BY StoredFacts, MessageFields DEF Keeps
<1>2. ASSUME NEW i \in Given, Arrived(i) PROVE Arrived(i)'
  BY <1>1, <1>2, ContentsWait DEF Arrived
<1>3. ASSUME NEW m, m.type \in { "PUBLISH", "PUBREL" } => m.id \in Given, SentRight(m)
      PROVE  SentRight(m)'
  BY <1>1, <1>2, <1>3 DEF SentRight
<1> QED BY <1>2, <1>3

\* AckInv, from what is new.
LEMMA AckNext ==
  ASSUME ShapeInv, NumberInv, AckInv, Keeps,
         \A c \in Contents : deliveredTo[c] \subseteq deliveredTo'[c],
         \A m \in toGw' : m \in toGw \/ m.type \notin { "PUBLISH", "PUBREL" } \/ SentRight(m)',
         \A a \in toClient' : a \in toClient \/ a.type \notin { "PUBACK", "PUBREC", "PUBCOMP" }
                              \/ Arrived(a.id)'
  PROVE  AckInv'
<1>1. ASSUME NEW m \in toGw PROVE SentRight(m)'
  <2>1. m.type \in { "PUBLISH", "PUBREL" } => m.id \in Given
    BY DEF NumberInv, OutOK, NamesPublish
  <2> QED BY <2>1, ArrivedStays DEF AckInv
<1>2. ASSUME NEW a \in toClient, a.type \in { "PUBACK", "PUBREC", "PUBCOMP" } PROVE Arrived(a.id)'
  <2>1. a.id \in Given
    BY <1>2 DEF NumberInv, InOK, NamesPublish
  <2> QED BY <1>2, <2>1, ArrivedStays DEF AckInv
<1>3. \A m : m.type \notin { "PUBLISH", "PUBREL" } => SentRight(m)'
  BY DEF SentRight
<1> QED BY <1>1, <1>2, <1>3 DEF AckInv

LEMMA AckRx ==
  ASSUME Orderly, ShapeInv, NumberInv, AckInv, Keeps, ShapeInv', NumberInv',
         \A c \in Contents : deliveredTo[c] \subseteq deliveredTo'[c],
         NEW a \in toClient, RxStep(a)
  PROVE  AckInv'
<1> USE DEF restOfClient, guiVars, netVars
<1>1. toClient' \subseteq toClient
  BY DEF RxStep, Rx, Matched, Received, rx_connack, rx_will, rx_register, rx_regack, rx_publish,
         rx_unmatched, rx_wrong_cast, rx_publish_done, rx_handshake, rx_suback, rx_unsuback,
         rx_ignored, rx_disconnect
<1>2. CASE rx_regack(a)
  <2>1. PICK p : p = messages_map[a.id - 1]
    OBVIOUS
  <2>2. CASE toGw' = toGw
    BY <1>1, <2>2, AckNext
  <2>3. CASE p # SnNoMsg /\ publish_registered(a, p)
    <3>1. a.type = "REGACK" /\ UNCHANGED << gui, guiMsg >>
      BY <1>2 DEF rx_regack, Rx
    <3>2. PICK k, m :
            /\ m.id = k /\ m.type = "PUBLISH" /\ k \in SnIds \ {0} /\ k \notin Given
            /\ messages_map'[k] = IF m.qos = 0 THEN SnNoMsg ELSE m
            /\ toGw' \subseteq toGw \cup {m}
      BY <2>1, <2>3, <3>1, RegisteredMap
    <3>3. gui = "pub_add" => guiMsg.id # k
      BY <3>2 DEF NumberInv, GuiOK
    <3>4. (waiting')[k] \in { m, SnNoMsg }
      BY <3>1, <3>2, <3>3, WaitingAt
    <3>5. SentRight(m)'
      BY <3>2, <3>4, MessageFields DEF SentRight
    <3> QED BY <1>1, <3>2, <3>5, AckNext
  <2> QED BY <1>2, <2>1, <2>2, <2>3 DEF rx_regack, sn_get_message_from_map, Registering
<1>3. CASE rx_handshake(a)
  <2>1. PICK m : /\ m = SnAnswer(IF a.type = "PUBREC" THEN "PUBREL" ELSE "PUBCOMP", a.id, 0, TRUE)
                 /\ toGw' \subseteq toGw \cup {m}
    BY <1>3 DEF rx_handshake, sn_encode_and_fire, fired
  <2>2. m.id = a.id /\ m.type = IF a.type = "PUBREC" THEN "PUBREL" ELSE "PUBCOMP"
    BY <2>1 DEF SnAnswer, SnBuild
  <2>3. a.type = "PUBREC" => a.id \in Given /\ Arrived(a.id)
    BY DEF AckInv, NumberInv, InOK, NamesPublish
  <2>4. a.type = "PUBREC" => Arrived(a.id)'
    BY <2>3, ArrivedStays
  <2>5. m.type = "PUBCOMP" \/ SentRight(m)'
    BY <2>2, <2>4 DEF SentRight
  <2> QED BY <1>1, <2>1, <2>5, AckNext
<1>4. CASE ~rx_regack(a) /\ ~rx_handshake(a)
  <2>1. \A m \in toGw' : m \in toGw \/ m.type \in { "WILL_TOPIC", "WILL_MSG", "REGACK", "PUBACK", "PUBREC" }
    BY <1>4 DEF RxStep, rx_connack, rx_will, rx_register, rx_publish, rx_unmatched, rx_wrong_cast,
                rx_publish_done, rx_suback, rx_unsuback, rx_ignored, rx_disconnect,
                sn_encode_and_fire, fired, SnPlain, SnAnswer, SnBuild
  <2> QED BY <1>1, <2>1, AckNext
<1> QED BY <1>2, <1>3, <1>4

LEMMA AckGui ==
  ASSUME ShapeInv, NumberInv, AckInv, Keeps, ShapeInv', NumberInv', GuiStep,
         \A c \in Contents : deliveredTo[c] \subseteq deliveredTo'[c]
  PROVE  AckInv'
<1> USE DEF Gui
<1>0. GuiOK /\ guiMsg \in SnPacket
  BY DEF NumberInv, ShapeInv, TypeOK
<1>1. toClient' = toClient
  BY DEF GuiStep, send_sn_connect_fire, send_sn_connect_timer, send_sn_connect_add, send_numbered,
         send_sn_message_number, second_read, send_sn_register, send_sn_publish_fire,
         send_sn_publish_add, send_sn_disconnect_stop, send_sn_disconnect_fire, netVars
<1>2. CASE send_sn_publish_fire
  <2>1. PICK m : m = Numbered(guiMsg)
    OBVIOUS
  <2>2. /\ guiMsg' = m /\ gui' = "pub_add" /\ toGw' \subseteq toGw \cup {m} /\ m.type = "PUBLISH"
    BY <1>0, <1>2, <2>1 DEF send_sn_publish_fire, sn_encode_and_fire, fired, Numbered, SnPacket,
                            GuiOK, OwnPublish, Publishing
  <2>3. m.id \in SnIds
    BY <2>2 DEF ShapeInv, TypeOK, SnPacket
  <2>4. (waiting')[m.id] = m
    BY <2>2, <2>3, WaitingAt
  <2>5. SentRight(m)'
    BY <2>2, <2>4 DEF SentRight
  <2> QED BY <1>1, <2>2, <2>5, AckNext
<1>3. CASE ~send_sn_publish_fire
  <2>1. \A m \in toGw' : m \in toGw
          \/ m.type \in { "CONNECT", "SUBSCRIBE", "UNSUBSCRIBE", "REGISTER", "DISCONNECT" }
    <3>1. CASE send_sn_connect_fire
      BY <1>0, <3>1, MessageFields DEF send_sn_connect_fire, sn_encode_and_fire, fired, GuiOK
    <3>2. CASE send_numbered
      BY <1>0, <3>2 DEF send_numbered, sn_encode_and_fire, fired, GuiOK, Numbered, SnPacket, SubTypes
    <3>3. CASE send_sn_register
      BY <3>3, MessageFields DEF send_sn_register, sn_encode_and_fire, fired
    <3>4. CASE send_sn_disconnect_fire
      BY <3>4, MessageFields DEF send_sn_disconnect_fire, sn_encode_and_fire, fired
    <3>5. CASE toGw' = toGw
      BY <3>5
    <3> QED BY <1>3, <3>1, <3>2, <3>3, <3>4, <3>5
            DEF GuiStep, send_sn_connect_timer, send_sn_connect_add, send_sn_message_number,
                second_read, send_sn_publish_add, send_sn_disconnect_stop, netVars
  <2> QED BY <1>1, <2>1, AckNext
<1> QED BY <1>2, <1>3

LEMMA AckGateway ==
  ASSUME ShapeInv, NumberInv, AckInv, Keeps, ShapeInv', GatewayStep,
         \A c \in Contents : deliveredTo[c] \subseteq deliveredTo'[c]
  PROVE  AckInv'
<1> USE DEF clientVars, guiVars, snTimerVars, mapVars
<1>1. toGw' \subseteq toGw
  BY DEF GatewayStep, Gateway, GatewayReads, GatewayPublishes, GatewayDisconnects, Received
<1>2. ASSUME NEW m \in toGw, ReadPublish(m), UNCHANGED << messages_map, gui, guiMsg >>
      PROVE  AckInv'
  <2>1. /\ m.type = "PUBLISH" /\ deliveredTo' = [ deliveredTo EXCEPT ![m.content] = @ \cup {TopicOf(m.tid)} ]
        /\ \A a \in toClient' : a \in toClient \/ a.id = m.id
    BY <1>2 DEF ReadPublish, Reply, SnAnswer, SnBuild
  <2>2. m.content \in Contents /\ m.id \in Given
    BY <2>1 DEF NumberInv, OutOK, OwnPublish, NamesPublish
  <2>3. deliveredTo'[m.content] # {}
    BY <2>1, <2>2 DEF ShapeInv, TypeOK, GatewayTypeOK
  <2>4. waiting[m.id].content \in { m.content, None }
    BY <2>1 DEF AckInv, SentRight
  <2>5. waiting' = waiting
    BY <1>2 DEF waiting
  <2>6. Arrived(m.id)'
    BY <2>3, <2>4, <2>5 DEF Arrived
  <2> QED BY <1>1, <2>1, <2>6, AckNext
<1>3. ASSUME NEW m \in toGw, ReadHandshake(m) PROVE AckInv'
  <2>1. \A a \in toClient' : a \in toClient \/ a.type \in { "PUBREL", "PINGRESP" }
          \/ (a.type = "PUBCOMP" /\ a.id = m.id /\ m.type = "PUBREL")
    BY <1>3 DEF ReadHandshake, Reply, SnPlain, SnAnswer, SnBuild
  <2>2. m.type = "PUBREL" => m.id \in Given /\ Arrived(m.id)
    BY DEF AckInv, SentRight, NumberInv, OutOK, NamesPublish
  <2>3. m.type = "PUBREL" => Arrived(m.id)'
    BY <2>2, ArrivedStays
  <2> QED BY <1>1, <2>1, <2>3, AckNext
<1>4. CASE \A m \in toGw : ~ReadPublish(m) /\ ~ReadHandshake(m)
  <2>1. \A a \in toClient' : a \in toClient \/ a.type \notin { "PUBACK", "PUBREC", "PUBCOMP" }
    <3>1. ASSUME NEW m \in toGw,
                 \/ ReadConnecting(m) \/ ReadRegister(m) \/ ReadSubscribe(m)
                 \/ ReadUnsubscribe(m) \/ ReadRegack(m) \/ ReadDisconnect(m)
          PROVE  \A a \in toClient' : a \in toClient \/ a.type \notin { "PUBACK", "PUBREC", "PUBCOMP" }
      BY <3>1 DEF ReadConnecting, Connack, ReadRegister, ReadSubscribe, ReadUnsubscribe,
                  ReadRegack, ReadDisconnect, Reply, SnPlain, SnAnswer, SnBuild
    <3>2. ASSUME NEW i \in Incoming, GatewayPublishes(i)
          PROVE  \A a \in toClient' : a \in toClient \/ a.type \notin { "PUBACK", "PUBREC", "PUBCOMP" }
      BY <3>2, MessageFields DEF GatewayPublishes, Reply
    <3>3. CASE GatewayDisconnects
      BY <3>3, MessageFields DEF GatewayDisconnects, Reply
    <3> QED BY <1>4, <3>1, <3>2, <3>3 DEF GatewayStep, Gateway, GatewayReads
  <2> QED BY <1>1, <2>1, AckNext
<1>5. UNCHANGED << messages_map, gui, guiMsg >>
  BY DEF GatewayStep, Gateway
<1> QED BY <1>2, <1>3, <1>4, <1>5

LEMMA AckStep ==
  ASSUME Orderly, ShapeInv, NumberInv, AckInv, Keeps, ShapeInv', NumberInv', [Next]_vars
  PROVE  AckInv'
<1>0. \A c \in Contents : deliveredTo[c] \subseteq deliveredTo'[c]
  BY DeliveredGrows
<1>1. CASE UserStep \/ NetworkStep \/ UNCHANGED vars
  <2>1. toGw' \subseteq toGw /\ toClient' \subseteq toClient
    BY <1>1 DEF UserStep, LogIn, LogInFails, init_net_service, log_out_handle, send_sn_subscribe,
         send_sn_unsubscribe, send_sn_message, Begin, NetworkStep, LoseDatagram, LoseSocket, Gateway,
         vars, netVars
  <2> QED BY <1>0, <2>1, AckNext
<1>2. CASE rx_connack_timers \/ service_ends \/ connect_task \/ PingStep
  <2>1. toClient' = toClient
    BY <1>2 DEF rx_connack_timers, service_ends, connect_task, PingStep, sn_ping_task, netVars
  <2>2. \A m \in toGw' : m \in toGw \/ m = messages_map[0] \/ m.type = "PINGREQ"
    BY <1>2 DEF rx_connack_timers, service_ends, connect_task, PingStep, sn_ping_task,
                sn_encode_and_fire, fired, sn_get_message_from_map, SnPlain, SnAnswer, SnBuild, netVars
  <2>3. messages_map[0].type \notin { "PUBLISH", "PUBREL" }
    BY MessageFields DEF NumberInv
  <2> QED BY <1>0, <2>1, <2>2, <2>3, AckNext
<1>3. ASSUME NEW a \in toClient, RxStep(a) PROVE AckInv'
  BY <1>0, <1>3, AckRx
<1> QED BY <1>0, <1>1, <1>2, <1>3, AckGui, AckGateway DEF Next, ServiceStep, RxAny
-----------------------------------------------------------------------------
(* ... and every step is one of Publishing, or changes nothing it speaks of. *)

\* the client has the content c in its hand or in its map
Has(c) == guiMsg.content = c \/ \E i \in SnIds : messages_map[i].content = c

Passed == { c \in Contents : deliveredTo[c] # {} }

LEMMA KeptIs == ShapeInv /\ NumberInv => \A c \in Contents : c \in KeptContents <=> Has(c)
<1> SUFFICES ASSUME ShapeInv, NumberInv, NEW c \in Contents PROVE c \in KeptContents <=> Has(c)
  OBVIOUS
<1>1. c # None
  BY SnNoneIsNoData
<1>2. guiMsg.content = c => guiMsg.type = "PUBLISH"
  <2>1. GuiOK /\ gui \in GuiSteps
    BY DEF NumberInv, ShapeInv, TypeOK
  <2>2. gui \in Publishing => guiMsg.type = "PUBLISH"
    BY <2>1 DEF GuiOK, OwnPublish
  <2>3. gui \notin Publishing => guiMsg.content = None
    BY <2>1, MessageFields DEF GuiOK, GuiSteps, Publishing, Unregistered
  <2> QED BY <1>1, <2>2, <2>3
<1>3. ASSUME NEW i \in SnIds, messages_map[i].content = c PROVE messages_map[i].type = "PUBLISH"
  <2>1. messages_map[i] # SnNoMsg
    BY <1>1, <1>3, MessageFields
  <2>2. waiting[i] = messages_map[i]
    BY <2>1, StoredFacts
  <2>3. OwnPublish(waiting[i])
    BY <1>1, <1>3, <2>2, ContentsWait
  <2> QED BY <2>2, <2>3 DEF OwnPublish
<1> QED BY <1>2, <1>3 DEF KeptContents, Has

LEMMA KeptIsNext == (ShapeInv /\ NumberInv)' => (\A c \in Contents : c \in KeptContents <=> Has(c))'
BY KeptIs, PTL

LEMMA PromiseStutters ==
  ASSUME KeptContents' = KeptContents, UNCHANGED << chosen, saved, deliveredTo >>,
         mapState' = "live" <=> mapState = "live"
  PROVE  UNCHANGED Promise!publishingVars
<1>1. (mapState = "live")' = (mapState = "live")
  OBVIOUS
<1> QED BY <1>1 DEF Promise!publishingVars, Chosen

\* A step that leaves the messages and what became of them alone.
LEMMA PromiseSame ==
  ASSUME UNCHANGED << messages_map, guiMsg, mapState, chosen, saved, deliveredTo >>
  PROVE  UNCHANGED Promise!publishingVars
<1>1. KeptContents' = KeptContents
  BY DEF KeptContents
<1> QED BY <1>1, PromiseStutters

\* A step that moves messages.
LEMMA PromiseMoves ==
  ASSUME ShapeInv, NumberInv, ShapeInv', NumberInv',
         UNCHANGED << mapState, chosen, saved, deliveredTo >>,
         \A c \in Contents : Has(c)' <=> Has(c)
  PROVE  UNCHANGED Promise!publishingVars
<1>1. \A c \in Contents : c \in KeptContents' <=> c \in KeptContents
  BY KeptIs, KeptIsNext
<1>2. KeptContents' = KeptContents
  BY <1>1 DEF KeptContents
<1> QED BY <1>2, PromiseStutters

\* The map goes at the end of a session, or at the beginning of the next one.
LEMMA KeptLess ==
  ASSUME messages_map' = NoMessages \/ messages_map' = messages_map, guiMsg' = guiMsg
  PROVE  KeptContents' \subseteq KeptContents
<1>1. \A i \in SnIds : NoMessages[i].type # "PUBLISH"
  BY MessageFields DEF NoMessages
<1> QED BY <1>1 DEF KeptContents

LEMMA PromiseEnds ==
  ASSUME mapState' # "live", KeptContents' \subseteq KeptContents, UNCHANGED << chosen, saved, deliveredTo >>
  PROVE  Promise!PublishingNext
<1>1. Promise!End
  BY DEF Promise!End, Chosen
<1> QED BY <1>1 DEF Promise!PublishingNext

LEMMA PromiseFin ==
  ASSUME NEW rs, fin_mqtt_sn_client(rs), UNCHANGED << guiMsg, chosen, saved, deliveredTo >>
  PROVE  Promise!PublishingNext \/ UNCHANGED Promise!publishingVars
<1>1. CASE is_disconnect_sent
  BY <1>1, PromiseSame DEF fin_mqtt_sn_client, snTimerVars, mapVars
<1>2. CASE ~is_disconnect_sent
  <2>1. messages_map' = NoMessages /\ mapState' # "live"
    BY <1>2 DEF fin_mqtt_sn_client, sn_stop_all_timers, Destroyed
  <2> QED BY <2>1, KeptLess, PromiseEnds
<1> QED BY <1>1, <1>2

\* The only copy of c goes into the history.
LEMMA PromiseSaves ==
  ASSUME ShapeInv, NumberInv, ShapeInv', NumberInv', NEW c \in Contents,
         UNCHANGED << mapState, chosen, deliveredTo >>,
         saved[c] = 0, saved' = [ saved EXCEPT ![c] = @ + 1 ],
         chosen[c].qos # 0 => deliveredTo[c] # {},
         Has(c), \A d \in Contents : Has(d)' <=> Has(d) /\ d # c
  PROVE  Promise!PublishingNext
<1>1. saved' = [ saved EXCEPT ![c] = 1 ]
  BY DEF ShapeInv, TypeOK
<1>2. KeptContents' = KeptContents \ {c}
  <2>1. \A d \in Contents : d \in KeptContents' <=> d \in KeptContents /\ d # c
    BY KeptIs, KeptIsNext
  <2> QED BY <2>1 DEF KeptContents
<1>3. c \in KeptContents
  BY KeptIs
<1>4. c \in Chosen({ 1, 2 }) => c \in Passed
  BY DEF Chosen, Passed
<1>5. (mapState = "live")' = (mapState = "live")
  OBVIOUS
<1>6. Promise!Save(c)
  BY <1>1, <1>2, <1>3, <1>4, <1>5 DEF Promise!Save, Chosen, Passed
<1> QED BY <1>6 DEF Promise!PublishingNext

LEMMA PromiseUser ==
  ASSUME ShapeInv, NumberInv, ShapeInv', NumberInv', UserStep
  PROVE  Promise!PublishingNext \/ UNCHANGED Promise!publishingVars
<1> USE DEF Gui, snTimerVars, mapVars, gatewayVars, storeVars, guiVars
<1>0. /\ UNCHANGED << messages_map, mapState, saved, deliveredTo >>
      /\ gui = "idle" /\ guiMsg.content = None /\ None \notin Contents
  <2>1. UNCHANGED << messages_map, mapState, saved, deliveredTo >> /\ gui = "idle"
    BY DEF UserStep, LogIn, LogInFails, log_out_handle, send_sn_subscribe, send_sn_unsubscribe,
           send_sn_message, Begin
  <2> QED BY <2>1, SnNoneIsNoData, MessageFields DEF NumberInv, GuiOK
<1>1. CASE guiMsg'.content = None /\ chosen' = chosen
  <2>1. \A c \in Contents : Has(c)' <=> Has(c)
    BY <1>0, <1>1 DEF Has
  <2> QED BY <1>0, <1>1, <2>1, PromiseMoves
<1>2. ASSUME NEW c \in Contents, NEW t \in Topics, NEW q \in SnUserQoS, send_sn_message(c, t, q)
      PROVE  Promise!PublishingNext
  <2>1. /\ chosen[c] = Unchosen /\ chosen' = [ chosen EXCEPT ![c] = [ topic |-> t, qos |-> q ] ]
        /\ guiMsg'.content = c
    BY <1>2 DEF send_sn_message, Begin, SnPublish, SnBuild
  <2>2. \A d \in Contents : Has(d)' <=> Has(d) \/ d = c
    BY <1>0, <2>1 DEF Has
  <2>3. KeptContents' = KeptContents \cup {c}
    <3>1. \A d \in Contents : d \in KeptContents' <=> d \in KeptContents \/ d = c
      BY <2>2, KeptIs, KeptIsNext
    <3> QED BY <3>1 DEF KeptContents
  <2>4. /\ chosen[c].topic = None /\ chosen'[c].topic # None /\ chosen'[c].qos \in SnQoS
        /\ \A d \in Contents : d # c => chosen'[d] = chosen[d]
    BY <2>1, IdTypes, SnClientBounds DEF Unchosen, ShapeInv, TypeOK
  <2>5. /\ c \notin Chosen(SnQoS) /\ Chosen(SnQoS)' = Chosen(SnQoS) \cup {c}
        /\ Chosen({ 1, 2 })' \in { Chosen({ 1, 2 }), Chosen({ 1, 2 }) \cup {c} }
    BY <2>4 DEF Chosen
  <2>6. Promise!Publish(c)
    BY <1>0, <2>3, <2>5 DEF Promise!Publish
  <2> QED BY <2>6 DEF Promise!PublishingNext
<1>3. \/ guiMsg'.content = None /\ chosen' = chosen
      \/ \E c \in Contents, t \in Topics, q \in SnUserQoS : send_sn_message(c, t, q)
  BY <1>0, MessageFields DEF UserStep, LogIn, LogInFails, log_out_handle, send_sn_subscribe,
                             send_sn_unsubscribe, Begin
<1> QED BY <1>1, <1>2, <1>3

\* What is stored under a key that has no content takes nothing away.
LEMMA StoredHas ==
  ASSUME TypeOK, NEW k \in SnIds, messages_map[k].content = None, NEW m,
         messages_map' = [ messages_map EXCEPT ![k] = m ],
         guiMsg'.content = None \/ guiMsg'.content = guiMsg.content
  PROVE  /\ m.content = None /\ guiMsg'.content = guiMsg.content =>
              \A c \in Contents : Has(c)' <=> Has(c)
         /\ m.content = guiMsg.content => \A c \in Contents : Has(c)' <=> Has(c)
<1>1. messages_map'[k] = m /\ \A i \in SnIds : i # k => messages_map'[i] = messages_map[i]
  BY DEF TypeOK, SnTimersTypeOK
<1> QED BY <1>1, SnNoneIsNoData DEF Has

LEMMA PromiseGui ==
  ASSUME ShapeInv, NumberInv, OnceInv, SessionInv, HandInv, ShapeInv', NumberInv', GuiStep
  PROVE  Promise!PublishingNext \/ UNCHANGED Promise!publishingVars
<1> USE DEF Gui, snTimerVars, mapVars, gatewayVars, storeVars
<1>0. /\ GuiOK /\ guiMsg \in SnPacket /\ SnNoMsg.content = None /\ None \notin Contents
      /\ messages_map \in [ SnIds -> SnPacket ] /\ messages_map[0].content = None /\ 0 \in SnIds
      /\ TypeOK
  BY MessageFields, SnNoneIsNoData, IdTypes DEF NumberInv, ShapeInv, TypeOK, SnTimersTypeOK
<1>1. UNCHANGED << chosen, deliveredTo >>
  BY DEF GuiStep, send_sn_connect_fire, send_sn_connect_timer, send_sn_connect_add,
         send_numbered, send_sn_message_number, second_read, send_sn_register,
         send_sn_publish_fire, send_sn_publish_add, send_sn_disconnect_stop, send_sn_disconnect_fire
<1>2. CASE send_sn_connect_fire \/ send_sn_disconnect_fire
           \/ second_read("reg_read", "reg_num") \/ second_read("pub_read", "pub_num")
  <2>1. UNCHANGED << messages_map, guiMsg, mapState, saved >>
    BY <1>2 DEF send_sn_connect_fire, send_sn_disconnect_fire, second_read
  <2> QED BY <1>1, <2>1, PromiseSame
<1>3. CASE send_sn_connect_timer
  <2>1. /\ mapState # "live" /\ mapState' = "live" /\ messages_map' = NoMessages
        /\ UNCHANGED << guiMsg, saved >>
    BY <1>3 DEF send_sn_connect_timer, sn_start_connect_timer, SessionInv, LogsIn
  <2>2. KeptContents' \subseteq KeptContents
    BY <2>1, KeptLess
  <2>3. (mapState = "live")' = TRUE
    BY <2>1
  <2>4. Promise!Begin
    BY <1>1, <2>1, <2>2, <2>3 DEF Promise!Begin, Chosen
  <2> QED BY <2>4 DEF Promise!PublishingNext
<1>4. CASE send_sn_connect_add
  <2>1. /\ guiMsg.content = None /\ guiMsg' = SnNoMsg /\ UNCHANGED << mapState, saved >>
        /\ messages_map' = [ messages_map EXCEPT ![0] = guiMsg ]
    <3>1. guiMsg = SnPlain("CONNECT") /\ guiMsg' = SnNoMsg /\ UNCHANGED << mapState, saved >>
      BY <1>0, <1>4 DEF send_sn_connect_add, GuiOK
    <3>2. guiMsg.type = "CONNECT" /\ guiMsg.content = None
      BY <3>1, MessageFields
    <3>3. messages_map' = [ messages_map EXCEPT ![0] = guiMsg ]
      BY <1>4, <3>2 DEF send_sn_connect_add, sn_add_message_in_map, key
    <3> QED BY <3>1, <3>2, <3>3
  <2>2. \A c \in Contents : Has(c)' <=> Has(c)
    BY <1>0, <2>1, StoredHas
  <2> QED BY <1>1, <2>1, <2>2, PromiseMoves
<1>5. CASE send_numbered
  <2>1. PICK m : m = Numbered(guiMsg)
    OBVIOUS
  <2>2. /\ m.content = None /\ guiMsg.content = None /\ guiMsg' = SnNoMsg
        /\ m.id = current_packet_number + 1 /\ current_packet_number' = current_packet_number + 1
        /\ messages_map' = [ messages_map EXCEPT ![m.id] = m ] /\ UNCHANGED << mapState, saved >>
    BY <1>0, <1>5, <2>1 DEF send_numbered, Number, GuiOK, Numbered, SnPacket, SubTypes,
                            sn_add_message_in_map, key
  <2>3. m.id \in SnIds /\ messages_map[m.id] = SnNoMsg
    BY <2>2, FreshNumber, StoredFacts
  <2>4. \A c \in Contents : Has(c)' <=> Has(c)
    BY <1>0, <2>2, <2>3, StoredHas
  <2> QED BY <1>1, <2>2, <2>4, PromiseMoves
<1>6. CASE send_sn_message_number
  <2>1. PICK m : m = Numbered(guiMsg)
    OBVIOUS
  <2>2. /\ guiMsg' = m /\ m.content = guiMsg.content /\ UNCHANGED << mapState, saved >>
        /\ m.id = current_packet_number + 1 /\ current_packet_number' = current_packet_number + 1
        /\ messages_map' = [ messages_map EXCEPT ![m.id] = m ] \/ messages_map' = messages_map
    BY <1>0, <1>6, <2>1 DEF send_sn_message_number, Number, GuiOK, Numbered, SnPacket, OwnPublish,
                            Publishing, Unregistered, sn_add_message_in_map, key
  <2>3. m.id \in SnIds /\ messages_map[m.id] = SnNoMsg
    BY <2>2, FreshNumber, StoredFacts
  <2>4. \A c \in Contents : Has(c)' <=> Has(c)
    <3>1. CASE messages_map' = messages_map
      BY <2>2, <3>1 DEF Has
    <3>2. CASE messages_map' = [ messages_map EXCEPT ![m.id] = m ]
      BY <1>0, <2>2, <2>3, <3>2, StoredHas
    <3> QED BY <2>2, <3>1, <3>2
  <2> QED BY <1>1, <2>2, <2>4, PromiseMoves
<1>7. CASE send_sn_register
  <2>1. PICK m : messages_map' = [ messages_map EXCEPT ![0] = m ] /\ m.content = None
    <3>1. PICK r : r = SnRegister(seen + 1, guiMsg.topic, 0)
      OBVIOUS
    <3>2. r.type = "REGISTER" /\ r.content = None
      BY <3>1 DEF SnRegister, SnBuild
    <3> QED BY <1>7, <3>1, <3>2 DEF send_sn_register, sn_add_message_in_map, key
  <2>2. guiMsg' = SnNoMsg /\ UNCHANGED << mapState, saved >>
    BY <1>7 DEF send_sn_register
  <2>3. /\ messages_map'[0] = m /\ \A i \in SnIds : i # 0 => messages_map'[i] = messages_map[i]
    BY <1>0, <2>1
  \* in a session, the map has the PUBLISH
  <2>4. CASE mapState = "live"
    <3>1. messages_map[guiMsg.id] = guiMsg /\ guiMsg.id \in SnIds \ {0}
      BY <1>0, <1>7, <2>4, StoredFacts DEF send_sn_register, HandInv, GuiOK
    <3>2. \A c \in Contents : Has(c)' <=> Has(c)
      BY <1>0, <2>1, <2>2, <2>3, <3>1 DEF Has
    <3> QED BY <1>1, <2>2, <3>2, PromiseMoves
  <2>5. CASE mapState # "live"
    <3>1. \A c \in Contents : Has(c)' => Has(c)
      BY <1>0, <2>1, <2>2, <2>3 DEF Has
    <3>2. \A c \in Contents : c \in KeptContents' => c \in KeptContents
      BY <3>1, KeptIs, KeptIsNext
    <3>3. KeptContents' \subseteq KeptContents
      BY <3>2 DEF KeptContents
    <3> QED BY <1>1, <2>2, <2>5, <3>3, PromiseEnds
  <2> QED BY <2>4, <2>5
<1>8. CASE send_sn_publish_fire
  <2>1. guiMsg'.content = guiMsg.content /\ UNCHANGED << messages_map, saved, mapState >>
    BY <1>0, <1>8 DEF send_sn_publish_fire, Numbered, SnPacket
  <2>2. \A c \in Contents : Has(c)' <=> Has(c)
    BY <2>1 DEF Has
  <2> QED BY <1>1, <2>1, <2>2, PromiseMoves
<1>9. CASE send_sn_publish_add
  <2>1. PICK p : p = guiMsg
    OBVIOUS
  <2>2. /\ p.type = "PUBLISH" /\ p.content \in Contents /\ p.id \in SnIds
        /\ p.qos = chosen[p.content].qos /\ messages_map[p.id] = SnNoMsg /\ gui = "pub_add"
        /\ guiMsg' = SnNoMsg /\ mapState' = mapState
    BY <1>0, <1>9, <2>1, StoredFacts DEF send_sn_publish_add, GuiOK, OwnPublish, Publishing
  <2>3. CASE p.qos # 0
    <3>1. messages_map' = [ messages_map EXCEPT ![p.id] = p ] /\ saved' = saved
      BY <1>9, <2>1, <2>2, <2>3 DEF send_sn_publish_add, SavedAtOnce, sn_add_message_in_map, key
    <3>2. \A c \in Contents : Has(c)' <=> Has(c)
      BY <1>0, <2>1, <2>2, <3>1, StoredHas
    <3> QED BY <1>1, <2>2, <3>1, <3>2, PromiseMoves
  <2>4. CASE p.qos = 0
    <3>1. messages_map' = messages_map /\ saved' = [ saved EXCEPT ![p.content] = @ + 1 ]
      BY <1>9, <2>1, <2>4 DEF send_sn_publish_add, SavedAtOnce, save_message
    <3>2. saved[p.content] = 0
      BY <2>1, <2>2 DEF OnceInv, ShapeInv, TypeOK
    <3>3. waiting[p.id] = p
      BY <2>1, <2>2, WaitingAt
    <3>4. \A i \in SnIds : messages_map[i].content # p.content
      <4>1. ASSUME NEW i \in SnIds, messages_map[i].content = p.content PROVE FALSE
        <5>1. messages_map[i] # SnNoMsg
          BY <1>0, <2>2, <4>1
        <5>2. waiting[i].content = p.content
          BY <4>1, <5>1, StoredFacts
        <5>3. i = p.id
          BY <1>0, <2>2, <3>3, <5>2 DEF OnceInv
        <5> QED BY <2>2, <5>1, <5>3
      <4> QED BY <4>1
    <3>5. \A d \in Contents : Has(d)' <=> Has(d) /\ d # p.content
      BY <1>0, <2>1, <2>2, <3>1, <3>4 DEF Has
    <3>6. Has(p.content)
      BY <2>1 DEF Has
    <3> QED BY <1>1, <2>2, <2>4, <3>1, <3>2, <3>5, <3>6, PromiseSaves
  <2> QED BY <2>3, <2>4
<1>10. CASE send_sn_disconnect_stop
  <2>1. messages_map' = NoMessages /\ mapState' # "live" /\ UNCHANGED << guiMsg, saved >>
    BY <1>10 DEF send_sn_disconnect_stop, sn_stop_all_timers, Destroyed
  <2> QED BY <1>1, <2>1, KeptLess, PromiseEnds
<1> QED BY <1>2, <1>3, <1>4, <1>5, <1>6, <1>7, <1>8, <1>9, <1>10 DEF GuiStep

\* Under the id that an entry p has alone, and not in the hand, its content is alone.
LEMMA AloneInMap ==
  ASSUME ShapeInv, NumberInv, OnceInv, NEW j \in SnIds, NEW p, p = messages_map[j], p # SnNoMsg,
         p.content \in Contents
  PROVE  /\ \A i \in SnIds : messages_map[i].content = p.content => i = j
         /\ saved[p.content] = 0
<1>1. waiting[j] = p /\ p.content # None
  BY StoredFacts, SnNoneIsNoData
<1>2. \A i \in SnIds : messages_map[i].content = p.content => waiting[i].content = p.content
  BY <1>1, StoredFacts, MessageFields
<1> QED BY <1>1, <1>2 DEF OnceInv, ShapeInv, TypeOK

LEMMA PromiseRegack ==
  ASSUME Orderly, ~GatewayMayRefuse, ShapeInv, NumberInv, OnceInv, FirstInv, ShapeInv', NumberInv',
         NEW a \in toClient, rx_regack(a)
  PROVE  Promise!PublishingNext \/ UNCHANGED Promise!publishingVars
<1> USE DEF gatewayVars, guiVars
<1>1. PICK p : p = messages_map[a.id - 1]
  OBVIOUS
<1>2. a.type = "REGACK" /\ UNCHANGED << guiMsg, mapState, chosen, deliveredTo >>
  BY DEF rx_regack, Rx
<1>3. CASE UNCHANGED << messages_map, saved >>
  BY <1>2, <1>3, PromiseSame
<1>4. CASE p # SnNoMsg /\ publish_registered(a, p)
  <2>1. /\ a.id - 1 \in Given /\ a.id - 1 \in SnIds /\ OwnPublish(p) /\ p.content \in Contents
        /\ guiMsg.content # p.content
    BY <1>1, <1>4, RegackAlone
  <2>2. PICK k, m :
          /\ m.content = p.content /\ m.qos = p.qos /\ k \in SnIds \ {0} /\ k \notin Given
          /\ \A i \in SnIds : i # k => messages_map'[i] = IF i \in { a.id, a.id - 1 } THEN SnNoMsg
                                                         ELSE messages_map[i]
          /\ messages_map'[k] = IF m.qos = 0 THEN SnNoMsg ELSE m
          /\ saved' = IF m.qos = 0 THEN [ saved EXCEPT ![p.content] = @ + 1 ] ELSE saved
    BY <1>1, <1>2, <1>4, RegisteredMap
  <2>3. /\ \A i \in SnIds : messages_map[i].content = p.content => i = a.id - 1
        /\ saved[p.content] = 0
    BY <1>1, <1>4, <2>1, AloneInMap
  <2>4. messages_map[a.id] = SnNoMsg /\ messages_map[k] = SnNoMsg /\ k # a.id - 1
    BY <1>1, <1>2, <1>4, <2>1, <2>2, RegackWaits, StoredFacts
  <2>5. SnNoMsg.content \notin Contents
    BY MessageFields, SnNoneIsNoData
  <2>6. \A i \in SnIds \ { k, a.id - 1 } : messages_map'[i] = messages_map[i]
    BY <2>2, <2>4
  <2>7. messages_map'[a.id - 1] = SnNoMsg
    BY <2>1, <2>2, <2>4
  <2>8. ASSUME NEW d \in Contents, d # p.content PROVE Has(d)' <=> Has(d)
    BY <1>1, <1>2, <2>1, <2>2, <2>4, <2>5, <2>6, <2>7, <2>8 DEF Has
  <2>9. Has(p.content)
    BY <1>1, <2>1 DEF Has
  <2>10. CASE m.qos = 0
    <3>1. ~Has(p.content)'
      BY <1>2, <2>1, <2>2, <2>3, <2>5, <2>6, <2>7, <2>10 DEF Has
    <3>2. \A d \in Contents : Has(d)' <=> Has(d) /\ d # p.content
      BY <2>8, <3>1
    <3>3. chosen[p.content].qos = 0
      BY <2>1, <2>2, <2>10 DEF OwnPublish
    <3> QED BY <1>2, <2>1, <2>2, <2>3, <2>9, <2>10, <3>2, <3>3, PromiseSaves
  <2>11. CASE m.qos # 0
    <3>1. Has(p.content)'
      BY <2>2, <2>11 DEF Has
    <3>2. \A d \in Contents : Has(d)' <=> Has(d)
      BY <2>8, <2>9, <3>1
    <3> QED BY <1>2, <2>2, <2>11, <3>2, PromiseMoves
  <2> QED BY <2>10, <2>11
<1>5. a.ok
  BY <1>2 DEF FirstInv
<1> QED BY <1>1, <1>3, <1>4, <1>5 DEF rx_regack, sn_get_message_from_map, Registering

LEMMA PromiseRx ==
  ASSUME Orderly, ~GatewayMayRefuse, ShapeInv, NumberInv, OnceInv, FirstInv, AckInv,
         ShapeInv', NumberInv', NEW a \in toClient, RxStep(a)
  PROVE  Promise!PublishingNext \/ UNCHANGED Promise!publishingVars
<1> USE DEF snTimerVars, mapVars, gatewayVars, restOfClient, guiVars, storeVars
<1>0. /\ InOK(a) /\ SnNoMsg.content = None /\ None \notin Contents
      /\ UNCHANGED << guiMsg, chosen, deliveredTo >>
  <2>1. UNCHANGED << guiMsg, chosen, deliveredTo >>
    BY DEF RxStep, rx_connack, rx_will, rx_register, rx_regack, rx_publish, rx_unmatched,
           rx_wrong_cast, rx_publish_done, rx_handshake, rx_suback, rx_unsuback, rx_ignored,
           rx_disconnect
  <2> QED BY <2>1, MessageFields, SnNoneIsNoData DEF NumberInv
<1>1. CASE rx_regack(a)
  BY <1>1, PromiseRegack
<1>2. CASE rx_publish_done(a)
  <2>1. PICK p : p = messages_map[a.id]
    OBVIOUS
  <2>2. /\ a.type \in { "PUBACK", "PUBCOMP" } /\ p.type = "PUBLISH" /\ mapState' = mapState
        /\ messages_map' = removed({a.id}) /\ saved' = [ saved EXCEPT ![p.content] = @ + 1 ]
    BY <1>2, <2>1, CastTypes
       DEF rx_publish_done, Matched, Rx, save_message, sn_get_message_from_map
  <2>3. /\ a.id \in SnIds /\ waiting[a.id] = p /\ p # SnNoMsg /\ p.content \in Contents
        /\ guiMsg.content # p.content
    BY <2>1, <2>2, DoneWaits
  <2>4. /\ \A i \in SnIds : messages_map[i].content = p.content => i = a.id
        /\ saved[p.content] = 0
    BY <2>1, <2>3, AloneInMap
  <2>5. deliveredTo[p.content] # {}
    BY <1>0, <2>2, <2>3 DEF AckInv, Arrived
  <2>6. messages_map'[a.id] = SnNoMsg /\ \A i \in SnIds : i # a.id => messages_map'[i] = messages_map[i]
    BY <2>2, <2>3 DEF removed
  <2>7. \A d \in Contents : Has(d)' <=> Has(d) /\ d # p.content
    BY <1>0, <2>1, <2>3, <2>4, <2>6 DEF Has
  <2>8. Has(p.content)
    BY <2>1, <2>3 DEF Has
  <2> QED BY <1>0, <2>2, <2>3, <2>4, <2>5, <2>7, <2>8, PromiseSaves
<1>3. ASSUME NEW k \in SnIds, messages_map[k].content \notin Contents, messages_map' = removed({k}),
             saved' = saved, mapState' = mapState
      PROVE  UNCHANGED Promise!publishingVars
  <2>1. messages_map'[k] = SnNoMsg /\ \A i \in SnIds : i # k => messages_map'[i] = messages_map[i]
    BY <1>3 DEF removed
  <2>2. \A d \in Contents : Has(d)' <=> Has(d)
    BY <1>0, <1>3, <2>1 DEF Has
  <2> QED BY <1>0, <1>3, <2>2, PromiseMoves
<1>4. CASE rx_connack(a)
  <2>1. messages_map[0].content \notin Contents /\ 0 \in SnIds
    BY <1>0, IdTypes DEF NumberInv
  <2> QED BY <1>3, <1>4, <2>1 DEF rx_connack
<1>5. CASE rx_suback(a) \/ rx_unsuback(a)
  <2>1. /\ a.type \in { "SUBACK", "UNSUBACK" } /\ messages_map' = removed({a.id})
        /\ saved' = saved /\ mapState' = mapState /\ messages_map[a.id].type = CastTo(a)
    BY <1>5 DEF rx_suback, rx_unsuback, Matched, Rx, sn_get_message_from_map
  <2>2. a.id \in Given /\ a.id \in SnIds
    BY <1>0, <2>1, StoredFacts DEF InOK
  <2>3. messages_map[a.id].type # "PUBLISH"
    BY <2>1, CastTypes
  <2>4. messages_map[a.id].content \notin Contents
    <3>1. CASE messages_map[a.id] = SnNoMsg
      BY <1>0, <3>1
    <3>2. CASE messages_map[a.id] # SnNoMsg
      <4>1. waiting[a.id] = messages_map[a.id]
        BY <2>2, <3>2, StoredFacts
      <4> QED BY <1>0, <2>2, <2>3, <4>1, ContentsWait DEF OwnPublish
    <3> QED BY <3>1, <3>2
  <2> QED BY <1>3, <2>1, <2>2, <2>4
<1>6. CASE rx_disconnect(a)
  BY <1>0, <1>6, PromiseFin DEF rx_disconnect
<1>7. CASE \/ rx_will(a) \/ rx_register(a) \/ rx_publish(a) \/ rx_unmatched(a) \/ rx_wrong_cast(a)
           \/ rx_handshake(a) \/ rx_ignored(a)
  <2>1. UNCHANGED << messages_map, mapState, saved >>
    BY <1>7 DEF rx_will, rx_register, rx_publish, rx_unmatched, rx_wrong_cast, rx_handshake, rx_ignored
  <2> QED BY <1>0, <2>1, PromiseSame
<1> QED BY <1>1, <1>2, <1>4, <1>5, <1>6, <1>7 DEF RxStep

LEMMA PromiseOutside ==
  ASSUME ShapeInv, NumberInv, GatewayStep \/ NetworkStep, [Next]_vars
  PROVE  Promise!PublishingNext \/ UNCHANGED Promise!publishingVars
<1>1. UNCHANGED << messages_map, guiMsg, mapState, chosen, saved >>
  BY DEF GatewayStep, NetworkStep, Gateway, clientVars, guiVars, storeVars, snTimerVars, mapVars
<1>2. ASSUME NEW m \in toGw, ReadPublish(m) PROVE Promise!PublishingNext
  <2>a. PICK c : c = m.content
    OBVIOUS
  <2>1. /\ m.type = "PUBLISH" /\ m \in SnPacket
        /\ deliveredTo' = [ deliveredTo EXCEPT ![c] = @ \cup {TopicOf(m.tid)} ]
    BY <1>2, <2>a DEF ReadPublish, ShapeInv, OutShape
  <2>2. c \in Contents /\ chosen[c].topic # None /\ chosen[c].qos \in SnQoS
    BY <2>1, <2>a, IdTypes DEF NumberInv, OutOK, OwnPublish, SnPacket
  <2>3. Passed' = Passed \cup {c}
    BY <2>1, <2>2 DEF Passed, ShapeInv, TypeOK, GatewayTypeOK
  <2>4. KeptContents' = KeptContents /\ c \in Chosen(SnQoS)
    BY <1>1, <2>2 DEF KeptContents, Chosen
  <2>5. (mapState = "live")' = (mapState = "live")
    BY <1>1
  <2>6. Promise!PassOn(c)
    BY <1>1, <2>3, <2>4, <2>5 DEF Promise!PassOn, Passed, Chosen
  <2> QED BY <2>2, <2>6 DEF Promise!PublishingNext
<1>3. CASE \A m \in toGw : ~ReadPublish(m)
  BY <1>1, <1>3, DeliveredGrows, PromiseSame
<1> QED BY <1>2, <1>3

LEMMA PromiseThreads ==
  ASSUME \/ rx_connack_timers \/ service_ends \/ connect_task \/ PingStep \/ UNCHANGED vars
  PROVE  Promise!PublishingNext \/ UNCHANGED Promise!publishingVars
<1> USE DEF gatewayVars, clientVars, guiVars, storeVars, snTimerVars, mapVars
<1>1. UNCHANGED << guiMsg, chosen, saved, deliveredTo >>
  BY DEF rx_connack_timers, service_ends, connect_task, PingStep, vars
<1>2. CASE UNCHANGED << messages_map, mapState >>
  BY <1>1, <1>2, PromiseSame
<1>3. CASE fin_mqtt_sn_client({})
  BY <1>1, <1>3, PromiseFin
<1> QED BY <1>2, <1>3 DEF rx_connack_timers, start_mqtt_sn_ping_timer, service_ends, connect_task,
                          PingStep, sn_ping_task, vars

LEMMA PromiseStart ==
  ASSUME Init
  PROVE  Promise!PublishingInit /\ PromiseInv
<1>1. /\ messages_map = NoMessages /\ guiMsg = SnNoMsg /\ mapState = "null" /\ gui = "idle"
      /\ chosen = [ c \in Contents |-> Unchosen ] /\ saved = [ c \in Contents |-> 0 ]
      /\ deliveredTo = [ c \in Contents |-> {} ] /\ toGw = {} /\ toClient = {}
  BY DEF Init, SnTimersInit, GatewayInit
<1>2. KeptContents = {}
  BY <1>1, MessageFields DEF KeptContents, NoMessages
<1>3. Chosen(SnQoS) = {} /\ Chosen({ 1, 2 }) = {} /\ Passed = {}
  BY <1>1 DEF Chosen, Unchosen, Passed
<1>4. (mapState = "live") = FALSE
  BY <1>1
<1>5. PromiseInv
  BY <1>1 DEF PromiseInv, SessionInv, HandInv, AckInv, LogsIn
<1> QED BY <1>1, <1>2, <1>3, <1>4, <1>5 DEF Promise!PublishingInit, Passed

\* The client keeps the promise of Publishing in every session, whatever datagrams
\* are lost, repeated or overtaken, if no REGACK is handled inside a send_sn_message
\* and the gateway refuses no registration: a message leaves the map together with
\* its way into the history, once and after the gateway has passed a QoS 1 or 2
\* message on, or with the whole map when the session ends.
THEOREM SnKeepsPromiseHolds ==
  ASSUME Orderly, ~GatewayMayRefuse
  PROVE  Spec => SnKeepsPromise
<1>1. Init => ShapeInv /\ SnOrderInv /\ KeptInv /\ PromiseInv /\ Promise!PublishingInit
  BY SnOrderStart, InitShape, PromiseStart
<1>2. ShapeInv /\ SnOrderInv /\ KeptInv /\ PromiseInv /\ [Next]_vars
        => ShapeInv' /\ SnOrderInv' /\ KeptInv' /\ PromiseInv'
  <2> SUFFICES ASSUME ShapeInv, SnOrderInv, KeptInv, PromiseInv, [Next]_vars
               PROVE  ShapeInv' /\ SnOrderInv' /\ KeptInv' /\ PromiseInv'
    OBVIOUS
  <2>1. ShapeInv' /\ SnOrderInv' /\ Keeps
    BY SnOrderStep
  <2>2. KeptInv'
    BY <2>1, KeptStep DEF SnOrderInv
  <2>3. SessionInv'
    BY SessionStep DEF PromiseInv, ShapeInv
  <2>4. HandInv' /\ AckInv'
    BY <2>1, HandStep, AckStep DEF SnOrderInv, KeptInv, PromiseInv
  <2> QED BY <2>1, <2>2, <2>3, <2>4 DEF PromiseInv
<1>3. ShapeInv /\ SnOrderInv /\ KeptInv /\ PromiseInv /\ [Next]_vars
        => [Promise!PublishingNext]_(Promise!publishingVars)
  <2> SUFFICES ASSUME ShapeInv, SnOrderInv, KeptInv, PromiseInv, [Next]_vars
               PROVE  Promise!PublishingNext \/ UNCHANGED Promise!publishingVars
    OBVIOUS
  <2>1. ShapeInv' /\ NumberInv'
    BY SnOrderStep DEF SnOrderInv
  <2>2. NumberInv /\ OnceInv /\ FirstInv /\ SessionInv /\ HandInv /\ AckInv
    BY DEF SnOrderInv, KeptInv, PromiseInv
  <2>3. ASSUME NEW a \in toClient, RxStep(a)
        PROVE  Promise!PublishingNext \/ UNCHANGED Promise!publishingVars
    BY <2>1, <2>2, <2>3, PromiseRx
  <2> QED BY <2>1, <2>2, <2>3, PromiseUser, PromiseGui, PromiseOutside, PromiseThreads
          DEF Next, ServiceStep, RxAny
<1> QED BY <1>1, <1>2, <1>3, PTL DEF Spec, SnKeepsPromise, Promise!PublishingSpec
=============================================================================
