-------------------------- MODULE MqttClientProofs --------------------------
(***************************************************************************)
(* Proofs that MqttClient keeps its type invariant, and that what it keeps *)
(* in its tables is right, for every number of contents, topics, packets,  *)
(* sessions and incoming messages: the topic list shows what the topic     *)
(* table holds, and every message of the broker is stored before it is     *)
(* acknowledged, and once per session.                                     *)
(*                                                                         *)
(* The last invariant follows a message around the loop: its PUBLISH is on *)
(* the way once and only before it is stored; a PUBACK, PUBREC or PUBCOMP  *)
(* that the client has fired, and a PUBREL that the broker has sent for    *)
(* it, are about a stored message; and nothing that the timers resend is   *)
(* one.                                                                    *)
(***************************************************************************)
EXTENDS MqttInductive, TopicListProofs

-----------------------------------------------------------------------------
(* Sequences as FIFO channels.                                             *)

\* A channel of allowed packets stays one when more becomes allowed.
LEMMA SeqMono ==
  ASSUME NEW S, NEW T, S \subseteq T, NEW s \in Seq(S)
  PROVE  s \in Seq(T)
OBVIOUS

\* A new connection starts with empty channels.
LEMMA SeqEmpty == ASSUME NEW S PROVE << >> \in Seq(S)
OBVIOUS

\* encode_and_fire and the broker's Reply append an allowed packet.
LEMMA SeqAppend ==
  ASSUME NEW S, NEW s \in Seq(S), NEW e \in S
  PROVE  Append(s, e) \in Seq(S)
OBVIOUS

\* The reader takes an allowed packet and leaves allowed ones.
LEMMA SeqTake ==
  ASSUME NEW S, NEW s \in Seq(S), s # << >>
  PROVE  Head(s) \in S /\ Tail(s) \in Seq(S)
OBVIOUS

-----------------------------------------------------------------------------
(* Packets.                                                                *)

LEMMA ModSmall ==
  ASSUME NEW a \in Nat, NEW k \in Nat \ {0}, a < k
  PROVE  a % k = a
OBVIOUS

\* 0 is an identifier, so is ++current_packet_number below the bound.
LEMMA IdFacts ==
  /\ 0 \in Ids
  /\ \A n \in 0 .. (MaxPackets - 1) : PacketId(n + 1) = n + 1 /\ (n + 1) \in Ids
<1>1. 0 \in Ids
  BY PacketBounds DEF Ids
<1>2. ASSUME NEW n \in 0 .. (MaxPackets - 1)
      PROVE  PacketId(n + 1) = n + 1 /\ (n + 1) \in Ids
  <2>1. (n + 1) \in Nat /\ n + 1 < IdMod
    BY PacketBounds, NoIdWrap
  <2> QED
    BY <2>1, ModSmall, PacketBounds DEF PacketId, Ids
<1> QED
  BY <1>1, <1>2

\* The constructors build packets.
LEMMA PacketTypes ==
  /\ NoMsg \in Packet /\ Connect \in Packet /\ Pingreq \in Packet
  /\ Disconnect \in Packet
  /\ \A type \in MessageType, i \in Ids, ok \in BOOLEAN : Answer(type, i, ok) \in Packet
  /\ \A i \in Ids, t \in Topics : /\ Subscribe(i, t) \in Packet
                                  /\ Unsubscribe(i, t) \in Packet
  /\ \A i \in Ids, t \in Topics, q \in QoS, c \in Contents \cup {None} :
       Publish(i, t, q, c) \in Packet
BY IdFacts DEF NoMsg, Connect, Pingreq, Disconnect, Answer, Subscribe, Unsubscribe,
   Publish, Build, Packet, QoS, MessageType

-----------------------------------------------------------------------------
(* Row counts.                                                             *)

\* The SUBACK and UNSUBACK cases keep row counts.
LEMMA AnswerRows ==
  ASSUME NEW r \in Rows, NEW t
  PROVE  subscribed(r, t) \in Rows /\ unsubscribed(r, t) \in Rows
<1>1. unsubscribed(r, t) \in Rows
  BY RowTypes DEF unsubscribed
<1>2. subscribed(r, t) = save_topic_to_db(add_topics_to_list_box(unsubscribed(r, t), t), t)
  BY DEF subscribed, unsubscribed
<1> QED BY <1>1, <1>2, RowTypes

-----------------------------------------------------------------------------
(* Type correctness.                                                       *)

ProcStates == { "running", "exited", "crashed" }

\* raw_fire keeps the process state and the outbox well typed.
LEMMA FireType ==
  ASSUME LinkTypeOK, NEW m \in Packet, encode_and_fire(m)
  PROVE  proc' \in ProcStates /\ outbox' \in Seq(Packet)
BY SeqAppend DEF LinkTypeOK, encode_and_fire, ProcStates

LEMMA InitType == Init => TypeOK
<1> SUFFICES ASSUME Init PROVE TypeOK
  OBVIOUS
<1>1. LinkTypeOK
  BY SeqEmpty DEF Init, LinkInit, LinkTypeOK
<1>2. TimersTypeOK
  BY PacketTypes, TimerBounds DEF Init, TimersInit, TimersTypeOK, EmptyMap
<1>3. BrokerTypeOK
  BY PacketTypes DEF Init, BrokerInit, BrokerTypeOK, DeliveryCap
<1>4. rows \in Rows
  BY DEF Init, Rows, NoRows
<1>5. saved \in [ Contents -> Nat ] /\ received \in [ Incoming -> Nat ]
  BY DEF Init
<1>6. session \in 0 .. MaxSessions /\ current_packet_number \in 0 .. MaxPackets
      /\ base \in 0 .. MaxPackets
  BY ClientBounds, PacketBounds DEF Init
<1> QED
  BY <1>1, <1>2, <1>3, <1>4, <1>5, <1>6, PacketTypes DEF Init, TypeOK, GuiSteps

\* The user's actions.
LEMMA UserType == ASSUME TypeOK, UserStep PROVE TypeOK'
<1> USE DEF TypeOK
<1>1. CASE LogIn
  <2>1. LinkTypeOK'
    BY <1>1 DEF LogIn, open_lws_net_connection, LinkTypeOK
  <2>2. TimersTypeOK'
    BY <1>1 DEF LogIn, TimersTypeOK, timerVars
  <2>3. BrokerTypeOK'
    BY <1>1, PacketTypes DEF LogIn, NewConnection, BrokerTypeOK
  <2> QED
    BY <1>1, <2>1, <2>2, <2>3, PacketTypes, IdFacts, ClientBounds
    DEF LogIn, GuiSteps, storeVars
<1>2. ASSUME NEW m \in Packet, MayIssue, send_stored(m) PROVE TypeOK'
  <2>1. LinkTypeOK' /\ BrokerTypeOK'
    BY <1>2 DEF send_stored, LinkTypeOK, BrokerTypeOK, linkVars, brokerVars
  <2>2. TimersTypeOK'
    BY <1>2 DEF send_stored, add_message_in_map, TimersTypeOK
  <2>3. current_packet_number' \in 0 .. MaxPackets
    BY <1>2, PacketBounds DEF send_stored, MayIssue
  <2> QED
    BY <1>2, <2>1, <2>2, <2>3 DEF send_stored, GuiSteps, storeVars
<1>3. MayIssue => NextId \in Ids
  BY IdFacts, PacketBounds DEF MayIssue, NextId
<1>4. ASSUME NEW t \in Topics, send_subscribe(t) PROVE TypeOK'
  BY <1>2, <1>3, <1>4, PacketTypes DEF send_subscribe
<1>5. ASSUME NEW t \in Topics, send_unsubscribe(t) PROVE TypeOK'
  BY <1>2, <1>3, <1>5, PacketTypes DEF send_unsubscribe
<1>6. ASSUME NEW c \in Contents, NEW t \in Topics, NEW q \in UserQoS, send_publish(c, t, q)
      PROVE  TypeOK'
  <2> DEFINE m == Publish(IF q = 0 THEN 0 ELSE NextId, t, q, c)
  <2>0. m \in Packet
    <3>1. q \in QoS
      BY ClientBounds
    <3>2. (IF q = 0 THEN 0 ELSE NextId) \in Ids
      BY <1>3, <1>6, IdFacts DEF send_publish
    <3> QED
      BY <3>1, <3>2, PacketTypes
  <2>1. encode_and_fire(m) /\ guiMsg' = m
    BY <1>6 DEF send_publish
  <2>2. current_packet_number' \in 0 .. MaxPackets /\ issued' \in [ Ids -> Packet ]
    <3> HIDE DEF m
    <3>1. \/ UNCHANGED << current_packet_number, issued >>
          \/ /\ current_packet_number' = current_packet_number + 1
             /\ issued' = [ issued EXCEPT ![NextId] = m ]
      BY <1>6 DEF send_publish, m
    <3> QED
      BY <1>6, <2>0, <3>1, PacketBounds DEF send_publish, MayIssue
  <2> HIDE DEF m
  <2>3. LinkTypeOK'
    BY <1>6, <2>0, <2>1, FireType DEF send_publish, LinkTypeOK, ProcStates
  <2>4. TimersTypeOK' /\ BrokerTypeOK'
    BY <1>6 DEF send_publish, TimersTypeOK, BrokerTypeOK, timerVars, brokerVars
  <2> QED
    BY <1>6, <2>0, <2>1, <2>2, <2>3, <2>4 DEF send_publish, GuiSteps, storeVars
<1>7. CASE log_out_handle
  <2>1. LinkTypeOK' /\ TimersTypeOK' /\ BrokerTypeOK'
    BY <1>7 DEF log_out_handle, LinkTypeOK, TimersTypeOK, BrokerTypeOK,
       linkVars, timerVars, brokerVars
  <2>2. rows' \in Rows
    BY <1>7 DEF log_out_handle, Rows
  <2> QED
    BY <1>7, <2>1, <2>2 DEF log_out_handle, GuiSteps
<1> QED
  BY <1>1, <1>4, <1>5, <1>6, <1>7 DEF UserStep

\* The rest of each handler of the GTK thread.
LEMMA GuiType == ASSUME TypeOK, GuiStep PROVE TypeOK'
<1> USE DEF TypeOK
<1>1. CASE send_connect_fire
  <2>1. LinkTypeOK'
    BY <1>1, FireType DEF send_connect_fire, LinkTypeOK, ProcStates
  <2>2. TimersTypeOK' /\ BrokerTypeOK'
    BY <1>1 DEF send_connect_fire, TimersTypeOK, BrokerTypeOK, timerVars, brokerVars
  <2> QED
    BY <1>1, <2>1, <2>2 DEF send_connect_fire, GuiSteps, storeVars
<1>2. CASE send_connect_timer
  <2>1. LinkTypeOK' /\ BrokerTypeOK'
    BY <1>2 DEF send_connect_timer, LinkTypeOK, BrokerTypeOK, linkVars, brokerVars
  <2>2. TimersTypeOK'
    <3>1. tries' \in 0 .. ConnectTries
      BY <1>2, TimerBounds DEF send_connect_timer, start_connect_timer
    <3> QED
      BY <1>2, <3>1, PacketTypes
      DEF send_connect_timer, start_connect_timer, TimersTypeOK, EmptyMap
  <2> QED
    BY <1>2, <2>1, <2>2 DEF send_connect_timer, GuiSteps, storeVars
<1>3. CASE send_connect_add
  <2>1. LinkTypeOK' /\ BrokerTypeOK'
    BY <1>3 DEF send_connect_add, LinkTypeOK, BrokerTypeOK, linkVars, brokerVars
  <2>2. TimersTypeOK'
    BY <1>3 DEF send_connect_add, add_message_in_map, TimersTypeOK
  <2> QED
    BY <1>3, <2>1, <2>2, PacketTypes DEF send_connect_add, GuiSteps, storeVars
<1>4. CASE send_stored_fire
  <2>1. LinkTypeOK'
    BY <1>4, FireType DEF send_stored_fire, LinkTypeOK, ProcStates
  <2>2. TimersTypeOK' /\ BrokerTypeOK'
    BY <1>4 DEF send_stored_fire, TimersTypeOK, BrokerTypeOK, timerVars, brokerVars
  <2> QED
    BY <1>4, <2>1, <2>2, PacketTypes DEF send_stored_fire, GuiSteps, storeVars
<1>5. CASE send_publish_add
  <2>1. LinkTypeOK' /\ BrokerTypeOK'
    BY <1>5 DEF send_publish_add, LinkTypeOK, BrokerTypeOK, linkVars, brokerVars
  <2>2. TimersTypeOK'
    BY <1>5 DEF send_publish_add, add_message_in_map, TimersTypeOK, timerVars
  <2>3. saved' \in [ Contents -> Nat ] /\ rows' = rows /\ received' = received
    BY <1>5, CountUp DEF send_publish_add, save_message, storeVars
  <2> QED
    BY <1>5, <2>1, <2>2, <2>3, PacketTypes DEF send_publish_add, GuiSteps
<1>6. CASE send_disconnect_ping
  <2>1. LinkTypeOK' /\ BrokerTypeOK'
    BY <1>6 DEF send_disconnect_ping, LinkTypeOK, BrokerTypeOK, brokerVars, Running
  <2>2. TimersTypeOK'
    BY <1>6, PacketTypes
    DEF send_disconnect_ping, stop_ping_timer, cancelled, TimersTypeOK, EmptyMap
  <2> QED
    BY <1>6, <2>1, <2>2 DEF send_disconnect_ping, GuiSteps, storeVars
<1>7. CASE send_disconnect_fire
  <2>1. LinkTypeOK'
    BY <1>7, FireType, PacketTypes DEF send_disconnect_fire, LinkTypeOK, ProcStates
  <2>2. BrokerTypeOK'
    BY <1>7 DEF send_disconnect_fire, BrokerTypeOK, brokerVars
  <2>3. TimersTypeOK'
    BY <1>7 DEF send_disconnect_fire, stop_message_timer, cancelled, TimersTypeOK
  <2> QED
    BY <1>7, <2>1, <2>2, <2>3 DEF send_disconnect_fire, GuiSteps, storeVars
<1>8. CASE send_disconnect_close
  <2>1. LinkTypeOK'
    BY <1>8 DEF send_disconnect_close, lws_close_tcp_connection, LinkTypeOK
  <2>2. TimersTypeOK' /\ BrokerTypeOK'
    BY <1>8 DEF send_disconnect_close, TimersTypeOK, BrokerTypeOK, timerVars, brokerVars
  <2> QED
    BY <1>8, <2>1, <2>2 DEF send_disconnect_close, GuiSteps, storeVars
<1> QED
  BY <1>1, <1>2, <1>3, <1>4, <1>5, <1>6, <1>7, <1>8 DEF GuiStep

\* The worker thread.
LEMMA RxType ==
  ASSUME TypeOK, NEW types, Rx(types)
  PROVE  Head(inbox) \in Packet /\ inbox' \in Seq(Packet)
BY SeqTake DEF TypeOK, LinkTypeOK, Rx

LEMMA FaultType ==
  ASSUME LinkTypeOK, NEW fault, MayFault(fault)
  PROVE  proc' \in ProcStates
BY DEF LinkTypeOK, MayFault, ProcStates

LEMMA WorkerType == ASSUME TypeOK, WorkerStep PROVE TypeOK'
<1> USE DEF TypeOK
<1> DEFINE h == Head(inbox)
<1>1. CASE rx_connack
  <2>1. h \in Packet /\ inbox' \in Seq(Packet) /\ proc' \in ProcStates
    BY <1>1, RxType, FaultType DEF rx_connack
  <2>2. LinkTypeOK'
    BY <1>1, <2>1 DEF rx_connack, lws_close_tcp_connection, LinkTypeOK, ProcStates
  <2>3. TimersTypeOK'
    BY <1>1, PacketTypes DEF rx_connack, removed, cancelled, TimersTypeOK
  <2>4. BrokerTypeOK'
    BY <1>1 DEF rx_connack, BrokerTypeOK, brokerVars
  <2>5. rows' \in Rows
    BY <1>1, RowTypes DEF rx_connack
  <2> QED
    BY <1>1, <2>2, <2>3, <2>4, <2>5 DEF rx_connack, connection_unsuccessful
<1>2. CASE rx_connack_timers
  <2>1. LinkTypeOK' /\ BrokerTypeOK'
    BY <1>2 DEF rx_connack_timers, LinkTypeOK, BrokerTypeOK, linkVars, brokerVars
  <2>2. TimersTypeOK'
    BY <1>2 DEF rx_connack_timers, start_ping_and_message_timer, TimersTypeOK
  <2> QED
    BY <1>2, <2>1, <2>2 DEF rx_connack_timers, guiVars, storeVars
<1>3. CASE rx_publish
  <2>1. h \in Packet /\ inbox' \in Seq(Packet)
    BY <1>3, RxType DEF rx_publish
  <2>2. h.id \in Ids
    BY <2>1 DEF Packet
  <2>3. proc' \in ProcStates /\ outbox' \in Seq(Packet)
    <3>1. Answer("PUBACK", h.id, TRUE) \in Packet /\ Answer("PUBREC", h.id, TRUE) \in Packet
      BY <2>2, PacketTypes DEF MessageType
    <3> QED
      BY <1>3, <3>1, FireType DEF rx_publish, LinkTypeOK, ProcStates
  <2>4. LinkTypeOK'
    BY <1>3, <2>1, <2>3 DEF rx_publish, LinkTypeOK, ProcStates
  <2>5. TimersTypeOK' /\ BrokerTypeOK'
    BY <1>3 DEF rx_publish, TimersTypeOK, BrokerTypeOK, timerVars, brokerVars
  <2>6. received' \in [ Incoming -> Nat ]
    BY <1>3, CountUp DEF rx_publish, get_message
  <2> QED
    BY <1>3, <2>4, <2>5, <2>6 DEF rx_publish, guiVars
<1>4. CASE rx_publish_done
  <2>1. LinkTypeOK'
    BY <1>4, RxType, FaultType DEF rx_publish_done, LinkTypeOK, ProcStates
  <2>2. TimersTypeOK' /\ BrokerTypeOK'
    BY <1>4, PacketTypes DEF rx_publish_done, removed, TimersTypeOK, BrokerTypeOK, brokerVars
  <2>3. saved' \in [ Contents -> Nat ]
    BY <1>4, CountUp DEF rx_publish_done, save_message
  <2> QED
    BY <1>4, <2>1, <2>2, <2>3 DEF rx_publish_done, guiVars
<1>5. ASSUME NEW A \in { "PUBREL", "PUBCOMP" }, NEW types, Rx(types),
             encode_and_fire(Answer(A, h.id, TRUE)),
             UNCHANGED << net, interrupted, timerVars, brokerVars, guiVars, worker,
                          storeVars, connection_established >>
      PROVE  TypeOK'
  <2>1. h \in Packet /\ inbox' \in Seq(Packet)
    BY <1>5, RxType
  <2>2. Answer(A, h.id, TRUE) \in Packet
    BY <2>1, PacketTypes DEF Packet, MessageType
  <2>3. LinkTypeOK'
    BY <1>5, <2>1, <2>2, FireType DEF LinkTypeOK, ProcStates
  <2>4. TimersTypeOK' /\ BrokerTypeOK'
    BY <1>5 DEF TimersTypeOK, BrokerTypeOK, timerVars, brokerVars
  <2> QED
    BY <1>5, <2>3, <2>4 DEF guiVars, storeVars
<1>6. CASE rx_pubrec
  BY <1>6, <1>5 DEF rx_pubrec
<1>7. CASE rx_pubrel
  BY <1>7, <1>5 DEF rx_pubrel
<1>8. CASE rx_suback
  <2>1. LinkTypeOK'
    BY <1>8, RxType, FaultType DEF rx_suback, LinkTypeOK, ProcStates
  <2>2. TimersTypeOK' /\ BrokerTypeOK'
    BY <1>8, PacketTypes DEF rx_suback, removed, TimersTypeOK, BrokerTypeOK, brokerVars
  <2>3. rows' \in Rows
    BY <1>8, AnswerRows DEF rx_suback
  <2> QED
    BY <1>8, <2>1, <2>2, <2>3 DEF rx_suback, guiVars
<1>9. CASE rx_unsuback
  <2>1. LinkTypeOK'
    BY <1>9, RxType, FaultType DEF rx_unsuback, LinkTypeOK, ProcStates
  <2>2. TimersTypeOK' /\ BrokerTypeOK'
    BY <1>9, PacketTypes DEF rx_unsuback, removed, TimersTypeOK, BrokerTypeOK, brokerVars
  <2>3. rows' \in Rows
    BY <1>9, AnswerRows DEF rx_unsuback
  <2> QED
    BY <1>9, <2>1, <2>2, <2>3 DEF rx_unsuback, guiVars
<1>10. CASE rx_pingresp
  <2>1. LinkTypeOK'
    BY <1>10, RxType DEF rx_pingresp, LinkTypeOK
  <2>2. TimersTypeOK' /\ BrokerTypeOK'
    BY <1>10 DEF rx_pingresp, TimersTypeOK, BrokerTypeOK, timerVars, brokerVars
  <2> QED
    BY <1>10, <2>1, <2>2 DEF rx_pingresp, guiVars, storeVars
<1>11. CASE rx_unacceptable
  <2>1. LinkTypeOK'
    BY <1>11, RxType DEF rx_unacceptable, LinkTypeOK
  <2>2. TimersTypeOK' /\ BrokerTypeOK'
    BY <1>11 DEF rx_unacceptable, TimersTypeOK, BrokerTypeOK, timerVars, brokerVars
  <2> QED
    BY <1>11, <2>1, <2>2 DEF rx_unacceptable, guiVars, storeVars
<1>12. CASE raw_close
  <2>1. LinkTypeOK'
    BY <1>12, FaultType DEF raw_close, LinkTypeOK, ProcStates
  <2>2. TimersTypeOK'
    BY <1>12, PacketTypes DEF raw_close, cancelled, TimersTypeOK, EmptyMap, timerVars
  <2>3. BrokerTypeOK'
    BY <1>12 DEF raw_close, BrokerTypeOK, brokerVars
  <2> QED
    BY <1>12, <2>1, <2>2, <2>3 DEF raw_close, connection_unsuccessful, storeVars
<1>13. CASE service_task_ends
  <2>1. LinkTypeOK'
    BY <1>13, SeqEmpty DEF service_task_ends, ServiceTaskEnds, LinkTypeOK
  <2>2. TimersTypeOK' /\ BrokerTypeOK'
    BY <1>13 DEF service_task_ends, TimersTypeOK, BrokerTypeOK, timerVars, brokerVars
  <2> QED
    BY <1>13, <2>1, <2>2 DEF service_task_ends, guiVars, storeVars
<1> QED
  BY <1>1, <1>2, <1>3, <1>4, <1>6, <1>7, <1>8, <1>9, <1>10, <1>11, <1>12, <1>13
  DEF WorkerStep

\* The timer threads.
LEMMA TimerType == ASSUME TypeOK, TimerStep PROVE TypeOK'
<1> USE DEF TypeOK
<1>1. ASSUME UNCHANGED << brokerVars, restOfClient >>
      PROVE  /\ BrokerTypeOK'
             /\ (LinkTypeOK' /\ TimersTypeOK') => TypeOK'
  <2>1. BrokerTypeOK'
    BY <1>1 DEF BrokerTypeOK, brokerVars
  <2> QED
    BY <1>1, <2>1 DEF restOfClient, guiVars, storeVars
<1>2. CASE Timer(connect_task)
  <2>1. LinkTypeOK'
    BY <1>2 DEF Timer, connect_task, LinkTypeOK, linkVars
  <2>2. get_message_from_map(0) \in Packet
    BY IdFacts DEF get_message_from_map, TimersTypeOK
  <2>3. tries' \in 0 .. ConnectTries
    BY <1>2, TimerBounds DEF Timer, connect_task, RoundLeft, TimersTypeOK
  <2>4. TimersTypeOK'
    BY <1>2, <2>2, <2>3 DEF Timer, connect_task, RoundLeft, Take, TimersTypeOK
  <2> QED
    BY <1>1, <1>2, <2>1, <2>4 DEF Timer
<1>3. CASE Timer(ping_task)
  <2>1. LinkTypeOK'
    BY <1>3 DEF Timer, ping_task, LinkTypeOK, linkVars
  <2>2. TimersTypeOK'
    BY <1>3, PacketTypes DEF Timer, ping_task, Take, TimersTypeOK
  <2> QED
    BY <1>1, <1>3, <2>1, <2>2 DEF Timer
<1>4. ASSUME NEW i \in Ids, Timer(message_resend_task(i)) PROVE TypeOK'
  <2>1. LinkTypeOK'
    BY <1>4 DEF Timer, message_resend_task, LinkTypeOK, linkVars
  <2>2. TimersTypeOK'
    BY <1>4 DEF Timer, message_resend_task, Take, get_message_from_map, TimersTypeOK
  <2> QED
    BY <1>1, <1>4, <2>1, <2>2 DEF Timer
<1>5. ASSUME NEW th \in Threads, Timer(TimerFires(th)) PROVE TypeOK'
  <2>1. hold[th] \in Packet
    BY DEF TimersTypeOK
  <2>2. LinkTypeOK'
    BY <1>5, <2>1, FireType DEF Timer, TimerFires, LinkTypeOK, ProcStates
  <2>3. TimersTypeOK'
    BY <1>5, PacketTypes DEF Timer, TimerFires, Take, TimersTypeOK
  <2> QED
    BY <1>1, <1>5, <2>2, <2>3 DEF Timer
<1>6. ASSUME NEW th \in Threads, Timer(TimerReadsFreedMap(th)) PROVE TypeOK'
  <2>1. LinkTypeOK'
    BY <1>6 DEF Timer, TimerReadsFreedMap, LinkTypeOK
  <2>2. TimersTypeOK'
    BY <1>6 DEF Timer, TimerReadsFreedMap, TimersTypeOK, timerVars
  <2> QED
    BY <1>1, <1>6, <2>1, <2>2 DEF Timer
<1> QED
  BY <1>2, <1>3, <1>4, <1>5, <1>6 DEF TimerStep

\* The broker.
LEMMA ReplyType ==
  ASSUME LinkTypeOK, NEW m \in Packet, Reply(m)
  PROVE  inbox' \in Seq(Packet)
BY SeqAppend DEF LinkTypeOK, Reply

LEMMA DeliverType ==
  ASSUME BrokerTypeOK, NEW c, deliver(c)
  PROVE  delivered' \in [ Contents -> 0 .. DeliveryCap ]
<1>1. CASE c \in Contents
  BY <1>1 DEF BrokerTypeOK, deliver, DeliveryCap
<1>2. CASE c \notin Contents
  BY <1>2 DEF BrokerTypeOK, deliver, DeliveryCap
<1> QED
  BY <1>1, <1>2

LEMMA BrokerReadType ==
  ASSUME TypeOK, BrokerReads
  PROVE  LinkTypeOK' /\ BrokerTypeOK'
<1> USE DEF TypeOK
<1> DEFINE m == Head(outbox)
<1>1. m \in Packet /\ outbox' \in Seq(Packet)
  BY SeqTake DEF BrokerReads, LinkTypeOK
<1>2. m.id \in Ids /\ m.topic \in Topics \cup {None}
  BY <1>1 DEF Packet
<1>3. \A type \in MessageType, ok \in BOOLEAN : Answer(type, m.id, ok) \in Packet
  BY <1>2, PacketTypes
<1>4. inbox' \in Seq(Packet) => LinkTypeOK'
  BY <1>1 DEF BrokerReads, LinkTypeOK
<1> HIDE DEF m
<1>5. CASE ReadConnect(m)
  <2>1. \A ok \in BOOLEAN : Answer("CONNACK", 0, ok) \in Packet
    BY PacketTypes, IdFacts DEF MessageType
  <2>2. inbox' \in Seq(Packet)
    BY <1>5, <2>1, ReplyType DEF ReadConnect, LinkTypeOK
  <2>3. BrokerTypeOK'
    BY <1>5 DEF ReadConnect, BrokerTypeOK
  <2> QED
    BY <1>4, <2>2, <2>3
<1>6. CASE ReadBeforeConnect(m)
  <2>1. inbox' \in Seq(Packet) /\ BrokerTypeOK'
    BY <1>6 DEF ReadBeforeConnect, LinkTypeOK, BrokerTypeOK
  <2> QED
    BY <1>4, <2>1
<1>7. CASE ReadSubscribe(m) /\ bConn = "accepted"
  <2>1. PICK ok \in BOOLEAN : Reply(Answer("SUBACK", m.id, ok))
    BY <1>7 DEF ReadSubscribe
  <2>2. inbox' \in Seq(Packet)
    BY <2>1, <1>3, ReplyType DEF MessageType
  <2>3. bSubs' \subseteq Topics \cup {None}
    BY <1>2, <1>7 DEF ReadSubscribe, BrokerTypeOK
  <2> QED
    BY <1>4, <1>7, <2>2, <2>3 DEF ReadSubscribe, BrokerTypeOK
<1>8. CASE ReadUnsubscribe(m)
  <2>1. inbox' \in Seq(Packet)
    BY <1>3, <1>8, ReplyType DEF ReadUnsubscribe, MessageType
  <2>2. BrokerTypeOK'
    BY <1>8 DEF ReadUnsubscribe, BrokerTypeOK
  <2> QED
    BY <1>4, <2>1, <2>2
<1>9. CASE ReadPublish(m)
  <2>1. inbox' \in Seq(Packet)
    BY <1>3, <1>9, ReplyType DEF ReadPublish, MessageType, LinkTypeOK
  <2>2. delivered' \in [ Contents -> 0 .. DeliveryCap ]
    BY <1>9, DeliverType DEF ReadPublish, BrokerTypeOK
  <2>3. bHeld' \in [ Ids -> Packet ]
    BY <1>1, <1>9 DEF ReadPublish, BrokerTypeOK
  <2> QED
    BY <1>4, <1>9, <2>1, <2>2, <2>3 DEF ReadPublish, BrokerTypeOK
<1>10. CASE ReadPubrel(m)
  <2>1. inbox' \in Seq(Packet)
    BY <1>3, <1>10, ReplyType DEF ReadPubrel, MessageType
  <2>2. delivered' \in [ Contents -> 0 .. DeliveryCap ]
    BY <1>10, DeliverType DEF ReadPubrel, BrokerTypeOK
  <2>3. bHeld' \in [ Ids -> Packet ]
    BY <1>10, PacketTypes DEF ReadPubrel, BrokerTypeOK
  <2> QED
    BY <1>4, <1>10, <2>1, <2>2, <2>3 DEF ReadPubrel, BrokerTypeOK
<1>11. CASE ReadAck(m)
  <2>1. inbox' \in Seq(Packet)
    BY <1>3, <1>11, ReplyType DEF ReadAck, MessageType, LinkTypeOK
  <2>2. BrokerTypeOK'
    BY <1>11 DEF ReadAck, BrokerTypeOK
  <2> QED
    BY <1>4, <2>1, <2>2
<1>12. CASE ReadPingreq(m)
  <2>1. inbox' \in Seq(Packet)
    BY <1>12, ReplyType, PacketTypes, IdFacts DEF ReadPingreq, MessageType
  <2>2. BrokerTypeOK'
    BY <1>12 DEF ReadPingreq, BrokerTypeOK, brokerVars
  <2> QED
    BY <1>4, <2>1, <2>2
<1>13. CASE ReadDisconnect(m)
  <2>1. inbox' \in Seq(Packet) /\ BrokerTypeOK'
    BY <1>13 DEF ReadDisconnect, LinkTypeOK, BrokerTypeOK
  <2> QED
    BY <1>4, <2>1
<1> QED
  BY <1>5, <1>6, <1>7, <1>8, <1>9, <1>10, <1>11, <1>12, <1>13 DEF BrokerReads, m

LEMMA BrokerType == ASSUME TypeOK, BrokerStep PROVE TypeOK'
<1> USE DEF TypeOK
<1>1. ASSUME UNCHANGED << timerVars, restOfClient >>, LinkTypeOK', BrokerTypeOK'
      PROVE  TypeOK'
  <2>1. TimersTypeOK'
    BY <1>1 DEF TimersTypeOK, timerVars
  <2> QED
    BY <1>1, <2>1 DEF restOfClient, guiVars, storeVars
<1>2. CASE Broker(BrokerReads)
  BY <1>1, <1>2, BrokerReadType DEF Broker
<1>3. ASSUME NEW i \in Incoming, Broker(BrokerPublishes(i)) PROVE TypeOK'
  <2>1. PICK q \in QoS, t \in Topics : Reply(Publish(i, t, q, None))
    BY <1>3 DEF Broker, BrokerPublishes
  <2>2. inbox' \in Seq(Packet)
    BY <2>1, PacketTypes, ReplyType, BrokerBounds
  <2>3. LinkTypeOK'
    BY <1>3, <2>2 DEF Broker, BrokerPublishes, LinkTypeOK
  <2>4. BrokerTypeOK'
    BY <1>3 DEF Broker, BrokerPublishes, BrokerTypeOK
  <2> QED
    BY <1>1, <1>3, <2>3, <2>4 DEF Broker
<1>4. CASE Broker(BrokerCloses)
  BY <1>1, <1>4 DEF Broker, BrokerCloses, LinkTypeOK, BrokerTypeOK, linkVars
<1>5. CASE Broker(BrokerSendsUnacceptable)
  <2>1. LinkTypeOK'
    BY <1>5, ReplyType, PacketTypes DEF Broker, BrokerSendsUnacceptable, LinkTypeOK
  <2>2. BrokerTypeOK'
    BY <1>5 DEF Broker, BrokerSendsUnacceptable, BrokerTypeOK
  <2> QED
    BY <1>1, <1>5, <2>1, <2>2 DEF Broker
<1> QED
  BY <1>2, <1>3, <1>4, <1>5 DEF BrokerStep

\* Every step of every thread and of the broker keeps the type invariant.
LEMMA NextType == TypeOK /\ [Next]_vars => TypeOK'
<1> SUFFICES ASSUME TypeOK, [Next]_vars PROVE TypeOK'
  OBVIOUS
<1>1. CASE UNCHANGED vars
  BY <1>1 DEF TypeOK, LinkTypeOK, TimersTypeOK, BrokerTypeOK, vars, linkVars,
     timerVars, brokerVars, guiVars, storeVars
<1>2. CASE Next
  BY <1>2, UserType, GuiType, WorkerType, TimerType, BrokerType DEF Next
<1> QED
  BY <1>1, <1>2

\* The client's variables, the map, the channels and the broker keep their
\* types, whatever the interleaving of the five threads.
THEOREM TypeCorrect == Spec => []TypeOK
<1>1. Init => TypeOK
  BY InitType
<1>2. TypeOK /\ [Next]_vars => TypeOK'
  BY NextType
<1> QED
  BY <1>1, <1>2, PTL DEF Spec

-----------------------------------------------------------------------------
(* The topic list.                                                         *)

\* At most one row of a topic, in each place and in every window.
OneRow == \A t \in Topics : rows.list[t] <= 1 /\ rows.db[t] <= 1

ListInv == TypeOK /\ OneRow /\ ListMirrorsDb

\* The SUBACK and UNSUBACK cases set the rows of their topic, in both places.
LEMMA RowsAfterAnswer ==
  ASSUME NEW r \in Rows, NEW x, NEW t \in Topics, r.list[t] <= 1
  PROVE  /\ IF t = x THEN subscribed(r, x).list[t] = 1 /\ subscribed(r, x).db[t] = 1
            ELSE subscribed(r, x).list[t] = r.list[t] /\ subscribed(r, x).db[t] = r.db[t]
         /\ IF t = x THEN unsubscribed(r, x).list[t] = 0 /\ unsubscribed(r, x).db[t] = 0
            ELSE unsubscribed(r, x).list[t] = r.list[t] /\ unsubscribed(r, x).db[t] = r.db[t]
<1> DEFINE s == unsubscribed(r, x)
<1>1. /\ s \in Rows
      /\ IF t = x THEN s.list[t] = 0 /\ s.db[t] = 0
         ELSE s.list[t] = r.list[t] /\ s.db[t] = r.db[t]
  BY RowsUnsubscribed
<1>2. subscribed(r, x) = save_topic_to_db(add_topics_to_list_box(s, x), x)
  BY DEF subscribed, unsubscribed
<1> HIDE DEF s
<1>3. IF t = x THEN subscribed(r, x).list[t] = 1 /\ subscribed(r, x).db[t] = 1
      ELSE subscribed(r, x).list[t] = s.list[t] /\ subscribed(r, x).db[t] = s.db[t]
  BY <1>1, <1>2, RowsSaved
<1> QED BY <1>1, <1>3 DEF s

\* A step that leaves the rows alone, does not open the main window and does
\* not end a log out in it.
LEMMA RowsUntouched ==
  ASSUME ListInv, TypeOK', rows' = rows,
         ui' = ui \/ ui' # "main",
         (LoggingOut /\ ui' = "main") => LoggingOut'
  PROVE  ListInv'
<1>1. OneRow'
  BY DEF ListInv, OneRow
<1>2. ListMirrorsDb'
  BY DEF ListInv, ListMirrorsDb
<1> QED BY <1>1, <1>2 DEF ListInv

\* A log out clears the table of a clean session while the window still shows
\* the list, and goes on to close it.
LEMMA ListLogOut ==
  ASSUME ListInv, TypeOK', log_out_handle
  PROVE  ListInv'
<1>1. LoggingOut'
  BY DEF log_out_handle, LoggingOut
<1>2. ListMirrorsDb'
  BY <1>1 DEF ListMirrorsDb
<1>3. OneRow'
  <2> SUFFICES ASSUME NEW t \in Topics
               PROVE  rows'.list[t] <= 1 /\ rows'.db[t] <= 1
    BY DEF OneRow
  <2>1. CASE CleanSession
    <3>1. rows'.list = rows.list /\ rows'.db[t] = 0
      BY <2>1 DEF log_out_handle
    <3> QED BY <3>1 DEF ListInv, OneRow
  <2>2. CASE ~CleanSession
    BY <2>2 DEF log_out_handle, ListInv, OneRow
  <2> QED BY <2>1, <2>2
<1> QED BY <1>2, <1>3 DEF ListInv

\* The CONNACK opens the main window over the stored topics.
LEMMA ListConnack ==
  ASSUME ListInv, TypeOK', rx_connack
  PROVE  ListInv'
<1>1. gui' = gui
  BY DEF rx_connack
<1>2. CASE Head(inbox).ok
  <2>1. rows' = topics_from_db(rows) /\ rows \in Rows
    BY <1>2 DEF rx_connack, ListInv, TypeOK
  <2>2. ASSUME NEW t \in Topics
        PROVE  /\ rows'.list[t] = rows'.db[t] /\ rows'.db[t] <= 1
               /\ rows'.list[t] <= 1
    BY <2>1, ShownFromDb DEF ListInv, OneRow
  <2> QED BY <2>2 DEF ListInv, OneRow, ListMirrorsDb
<1>3. CASE ~Head(inbox).ok
  <2>1. rows' = rows /\ ui' = "accounts"
    BY <1>3 DEF rx_connack, connection_unsuccessful
  <2> QED BY <2>1, RowsUntouched
<1> QED BY <1>2, <1>3

\* SUBACK and UNSUBACK change the rows of one topic alike in both places.
LEMMA ListAnswered ==
  ASSUME ListInv, TypeOK', UNCHANGED << ui, gui >>,
         NEW x, rows' \in { rows, subscribed(rows, x), unsubscribed(rows, x) }
  PROVE  ListInv'
<1>1. rows \in Rows
  BY DEF ListInv, TypeOK
<1>2. ASSUME NEW t \in Topics
      PROVE  /\ rows'.list[t] <= 1 /\ rows'.db[t] <= 1
             /\ rows.list[t] = rows.db[t] => rows'.list[t] = rows'.db[t]
  <2>1. rows.list[t] <= 1 /\ rows.db[t] <= 1
    BY DEF ListInv, OneRow
  <2> QED BY <1>1, <2>1, RowsAfterAnswer
<1>3. OneRow' /\ ListMirrorsDb'
  BY <1>2 DEF OneRow, ListMirrorsDb, LoggingOut, ListInv
<1> QED BY <1>3 DEF ListInv

LEMMA ListUser == ASSUME ListInv, TypeOK', UserStep PROVE ListInv'
<1>1. CASE LogIn
  BY <1>1, RowsUntouched DEF LogIn, storeVars
<1>2. ASSUME NEW m, gui = "idle", send_stored(m)
      PROVE  ListInv'
  BY <1>2, RowsUntouched DEF send_stored, storeVars, LoggingOut
<1>3. ASSUME NEW t \in Topics, send_subscribe(t) \/ send_unsubscribe(t)
      PROVE  ListInv'
  BY <1>2, <1>3 DEF send_subscribe, send_unsubscribe, MayIssue
<1>4. ASSUME NEW c \in Contents, NEW t \in Topics, NEW q \in UserQoS, send_publish(c, t, q)
      PROVE  ListInv'
  BY <1>4, RowsUntouched DEF send_publish, MayIssue, storeVars, LoggingOut
<1>5. CASE log_out_handle
  BY <1>5, ListLogOut
<1> QED BY <1>1, <1>3, <1>4, <1>5 DEF UserStep

LEMMA ListGui == ASSUME ListInv, TypeOK', GuiStep PROVE ListInv'
<1>1. CASE send_connect_fire
  BY <1>1, RowsUntouched DEF send_connect_fire, storeVars, LoggingOut
<1>2. CASE send_connect_timer
  BY <1>2, RowsUntouched DEF send_connect_timer, storeVars, LoggingOut
<1>3. CASE send_connect_add
  BY <1>3, RowsUntouched DEF send_connect_add, storeVars, LoggingOut
<1>4. CASE send_stored_fire
  BY <1>4, RowsUntouched DEF send_stored_fire, storeVars, LoggingOut
<1>5. CASE send_publish_add
  BY <1>5, RowsUntouched DEF send_publish_add, storeVars, LoggingOut
<1>6. CASE send_disconnect_ping
  BY <1>6, RowsUntouched DEF send_disconnect_ping, storeVars, LoggingOut
<1>7. CASE send_disconnect_fire
  BY <1>7, RowsUntouched DEF send_disconnect_fire, storeVars, LoggingOut
<1>8. CASE send_disconnect_close
  BY <1>8, RowsUntouched DEF send_disconnect_close, storeVars
<1> QED BY <1>1, <1>2, <1>3, <1>4, <1>5, <1>6, <1>7, <1>8 DEF GuiStep

LEMMA ListWorker == ASSUME ListInv, TypeOK', WorkerStep PROVE ListInv'
<1>1. ASSUME UNCHANGED << rows, gui >>, ui' = ui \/ ui' = "accounts"
      PROVE  ListInv'
  BY <1>1, RowsUntouched DEF LoggingOut
<1>2. CASE rx_connack
  BY <1>2, ListConnack
<1>3. CASE rx_connack_timers
  BY <1>1, <1>3 DEF rx_connack_timers, guiVars, storeVars
<1>4. CASE rx_publish
  BY <1>1, <1>4 DEF rx_publish, guiVars
<1>5. CASE rx_publish_done
  BY <1>1, <1>5 DEF rx_publish_done, guiVars
<1>6. CASE rx_pubrec
  BY <1>1, <1>6 DEF rx_pubrec, guiVars, storeVars
<1>7. CASE rx_pubrel
  BY <1>1, <1>7 DEF rx_pubrel, guiVars, storeVars
<1>8. CASE rx_suback
  <2>1. rows' = rows \/ rows' = subscribed(rows, Matched.topic)
    BY <1>8 DEF rx_suback
  <2> QED BY <1>8, <2>1, ListAnswered DEF rx_suback, guiVars
<1>9. CASE rx_unsuback
  <2>1. rows' = rows \/ rows' = unsubscribed(rows, Matched.topic)
    BY <1>9 DEF rx_unsuback
  <2> QED BY <1>9, <2>1, ListAnswered DEF rx_unsuback, guiVars
<1>10. CASE rx_pingresp
  BY <1>1, <1>10 DEF rx_pingresp, guiVars, storeVars
<1>11. CASE rx_unacceptable
  BY <1>1, <1>11 DEF rx_unacceptable, guiVars, storeVars
<1>12. CASE raw_close
  BY <1>1, <1>12 DEF raw_close, storeVars, connection_unsuccessful
<1>13. CASE service_task_ends
  BY <1>1, <1>13 DEF service_task_ends, guiVars, storeVars
<1> QED
  BY <1>2, <1>3, <1>4, <1>5, <1>6, <1>7, <1>8, <1>9, <1>10, <1>11, <1>12, <1>13
     DEF WorkerStep

\* Timers and broker change neither rows nor windows.
LEMMA ListElsewhere ==
  ASSUME ListInv, TypeOK', TimerStep \/ BrokerStep
  PROVE  ListInv'
<1>1. UNCHANGED restOfClient
  BY DEF TimerStep, Timer, BrokerStep, Broker
<1> QED BY <1>1, RowsUntouched DEF restOfClient, guiVars, storeVars, LoggingOut

\* The topic list of the main window and the topic table agree, each topic once,
\* whatever SUBACKs, UNSUBACKs and repeats the worker handles and wherever the
\* user is in a log in or log out meanwhile.
THEOREM ListMirrorsDbHolds == Spec => []ListMirrorsDb
<1>1. Init => ListInv
  BY InitType DEF Init, ListInv, OneRow, ListMirrorsDb, NoRows
<1>2. ListInv /\ [Next]_vars => ListInv'
  <2> SUFFICES ASSUME ListInv, [Next]_vars PROVE ListInv'
    OBVIOUS
  <2>1. TypeOK'
    BY NextType DEF ListInv
  <2>2. CASE Next
    BY <2>1, <2>2, ListUser, ListGui, ListWorker, ListElsewhere DEF Next
  <2>3. CASE UNCHANGED vars
    BY <2>1, <2>3, RowsUntouched DEF vars, guiVars, storeVars, LoggingOut
  <2> QED BY <2>2, <2>3
<1>3. ListInv => ListMirrorsDb
  BY DEF ListInv
<1> QED BY <1>1, <1>2, <1>3, PTL DEF Spec

-----------------------------------------------------------------------------
(* Incoming messages: the invariant.                                      *)

AckTypes == { "PUBACK", "PUBREC", "PUBCOMP" }

\* what the user's calls and the timers have in hand
Requests == { m \in Packet : m.type \notin AckTypes }

InHand ==
  /\ guiMsg \in Requests
  /\ messages_map \in [ Ids -> Requests ]
  /\ hold \in [ Threads -> Requests ]

StoredIncoming(i) == i \in Incoming /\ received[i] >= 1

\* what may be in the outbox
Acking == { m \in Packet : m.type \in AckTypes => StoredIncoming(m.id) }

\* what may be in the inbox
Coming ==
  { m \in Packet :
      /\ m.type = "PUBREL" => StoredIncoming(m.id)
      /\ m.type = "PUBLISH" => /\ m.id \in Incoming
                               /\ bIn[m.id] # "none"
                               /\ received[m.id] < session }

OnceInFlight ==
  \A j, k \in 1 .. Len(inbox) :
    (inbox[j].type = "PUBLISH" /\ inbox[k].type = "PUBLISH" /\ inbox[j].id = inbox[k].id)
      => j = k

Unsent == net = "open" => \A i \in Incoming : bIn[i] = "none" => received[i] < session

IncomingInv ==
  /\ TypeOK
  /\ InHand
  /\ outbox \in Seq(Acking)
  /\ inbox \in Seq(Coming)
  /\ OnceInFlight
  /\ Unsent
  /\ IncomingStored

-----------------------------------------------------------------------------
(* Lemmas.                                                                 *)

\* A channel holds what each of its packets is.
LEMMA SeqEach ==
  ASSUME NEW S, NEW T, NEW s \in Seq(S), \A k \in 1 .. Len(s) : s[k] \in T
  PROVE  s \in Seq(T)
OBVIOUS

\* Packets that answer nothing of the broker.
LEMMA RequestPackets ==
  /\ Requests \subseteq Acking
  /\ NoMsg \in Requests /\ Connect \in Requests /\ Pingreq \in Requests
  /\ Disconnect \in Requests
  /\ \A i \in Ids, t \in Topics : Subscribe(i, t) \in Requests /\ Unsubscribe(i, t) \in Requests
  /\ \A i \in Ids, t \in Topics, q \in QoS, c \in Contents \cup {None} :
       Publish(i, t, q, c) \in Requests
<1>1. Requests \subseteq Acking
  BY DEF Requests, Acking
<1>2. /\ NoMsg.type = "PINGRESP" /\ Connect.type = "CONNECT" /\ Pingreq.type = "PINGREQ"
      /\ Disconnect.type = "DISCONNECT"
  BY DEF NoMsg, Connect, Pingreq, Disconnect, Build
<1>3. \A i, t, q, c : /\ Subscribe(i, t).type = "SUBSCRIBE"
                      /\ Unsubscribe(i, t).type = "UNSUBSCRIBE"
                      /\ Publish(i, t, q, c).type = "PUBLISH"
  BY DEF Subscribe, Unsubscribe, Publish, Build
<1> QED BY <1>1, <1>2, <1>3, PacketTypes DEF Requests, AckTypes

LEMMA AnswerFields ==
  ASSUME NEW type \in MessageType, NEW i \in Ids, NEW ok \in BOOLEAN
  PROVE  /\ Answer(type, i, ok) \in Packet
         /\ Answer(type, i, ok).type = type /\ Answer(type, i, ok).id = i
  BY PacketTypes DEF Answer, Build

\* encode_and_fire keeps the outbox one of allowed packets.
LEMMA FireAcking ==
  ASSUME outbox \in Seq(Acking), NEW m \in Acking, encode_and_fire(m)
  PROVE  outbox' \in Seq(Acking)
  BY SeqAppend DEF encode_and_fire

\* The worker takes a packet: what is left was there before.
LEMMA TakeOnce ==
  ASSUME NEW S, inbox \in Seq(S), inbox # << >>, OnceInFlight, inbox' = Tail(inbox)
  PROVE  /\ OnceInFlight'
         /\ inbox' \in Seq(S)
         /\ \A k \in 1 .. Len(inbox') : k + 1 \in 1 .. Len(inbox) /\ inbox'[k] = inbox[k + 1]
<1>1. Len(inbox) \in Nat /\ Len(inbox) >= 1 /\ Len(Tail(inbox)) = Len(inbox) - 1
  OBVIOUS
<1>2. \A k \in 1 .. Len(inbox') : k + 1 \in 1 .. Len(inbox) /\ inbox'[k] = inbox[k + 1]
  BY <1>1
<1>3. OnceInFlight'
  <2> SUFFICES ASSUME NEW j \in 1 .. Len(inbox'), NEW k \in 1 .. Len(inbox'),
                      inbox'[j].type = "PUBLISH", inbox'[k].type = "PUBLISH",
                      inbox'[j].id = inbox'[k].id
               PROVE  j = k
    BY DEF OnceInFlight
  <2>1. j + 1 = k + 1
    BY <1>2 DEF OnceInFlight
  <2> QED BY <1>1, <2>1
<1> QED BY <1>2, <1>3

\* A packet that is no PUBLISH, or the first PUBLISH of its message, arrives.
LEMMA AppendOnce ==
  ASSUME NEW S, inbox \in Seq(S), OnceInFlight, NEW m,
         m.type = "PUBLISH" =>
           \A k \in 1 .. Len(inbox) : inbox[k].type = "PUBLISH" => inbox[k].id # m.id,
         inbox' = Append(inbox, m)
  PROVE  OnceInFlight'
<1>1. /\ Len(inbox) \in Nat /\ Len(inbox') = Len(inbox) + 1
      /\ inbox'[Len(inbox) + 1] = m
      /\ \A k \in 1 .. Len(inbox) : inbox'[k] = inbox[k]
  OBVIOUS
<1> SUFFICES ASSUME NEW j \in 1 .. Len(inbox'), NEW k \in 1 .. Len(inbox'),
                    inbox'[j].type = "PUBLISH", inbox'[k].type = "PUBLISH",
                    inbox'[j].id = inbox'[k].id
             PROVE  j = k
  BY DEF OnceInFlight
<1>2. CASE j <= Len(inbox) /\ k <= Len(inbox)
  BY <1>1, <1>2 DEF OnceInFlight
<1>3. CASE j <= Len(inbox) /\ k > Len(inbox)
  <2>1. k = Len(inbox) + 1 /\ j \in 1 .. Len(inbox)
    BY <1>1, <1>3
  <2> QED BY <1>1, <2>1
<1>4. CASE j > Len(inbox) /\ k <= Len(inbox)
  <2>1. j = Len(inbox) + 1 /\ k \in 1 .. Len(inbox)
    BY <1>1, <1>4
  <2> QED BY <1>1, <2>1
<1>5. CASE j > Len(inbox) /\ k > Len(inbox)
  BY <1>1, <1>5
<1> QED BY <1>1, <1>2, <1>3, <1>4, <1>5

\* Steps that leave the messages of the broker alone.
LEMMA IncomingUntouched ==
  ASSUME IncomingInv, TypeOK', UNCHANGED << received, bIn, session >>,
         net' = net \/ net' # "open",
         outbox' \in Seq(Acking), inbox' \in Seq(Coming), OnceInFlight', InHand'
  PROVE  IncomingInv'
<1>1. Acking' = Acking /\ Coming' = Coming
  BY DEF Acking, Coming, StoredIncoming
<1>2. Unsent' /\ IncomingStored'
  BY DEF IncomingInv, Unsent, IncomingStored
<1> QED BY <1>1, <1>2 DEF IncomingInv

\* What the worker's cases have in common: one packet read, and perhaps one fired.
LEMMA RxIncoming ==
  ASSUME IncomingInv, TypeOK', UNCHANGED << received, bIn, session, net, guiMsg, hold >>,
         inbox # << >>, inbox' = Tail(inbox),
         outbox' = outbox \/ (\E m \in Acking : encode_and_fire(m)),
         messages_map' = messages_map \/ \E i : messages_map' = removed(i)
  PROVE  IncomingInv'
<1>1. inbox' \in Seq(Coming) /\ OnceInFlight'
  BY TakeOnce DEF IncomingInv
<1>2. outbox' \in Seq(Acking)
  BY FireAcking DEF IncomingInv
<1>3. InHand'
  BY RequestPackets DEF IncomingInv, InHand, removed
<1> QED BY <1>1, <1>2, <1>3, IncomingUntouched

-----------------------------------------------------------------------------
(* The worker.                                                             *)

\* The PUBLISH case stores the message, then fires the answer: the only packet
\* in flight that spoke of a message not stored yet is the one just read.
LEMMA PublishIncoming ==
  ASSUME IncomingInv, TypeOK', rx_publish
  PROVE  IncomingInv'
<1>0. PICK p, i : p = Head(inbox) /\ i = p.id
  OBVIOUS
<1>1. /\ inbox # << >> /\ p.type = "PUBLISH" /\ inbox' = Tail(inbox) /\ net = "open"
      /\ received' = [ received EXCEPT ![i] = @ + 1 ]
      /\ UNCHANGED << net, timerVars, brokerVars, guiVars >>
  BY <1>0 DEF rx_publish, Rx, get_message
<1>2. p \in Coming /\ p = inbox[1] /\ 1 \in 1 .. Len(inbox)
  BY <1>0, <1>1, SeqTake DEF IncomingInv
<1>3. i \in Incoming /\ i \in Ids /\ received[i] < session /\ bIn[i] # "none"
  BY <1>0, <1>1, <1>2 DEF Coming, Packet
<1>4. received \in [ Incoming -> Nat ] /\ session \in Nat
  BY ClientBounds DEF IncomingInv, TypeOK
<1>5. /\ received'[i] = received[i] + 1
      /\ \A j \in Incoming : j # i => received'[j] = received[j]
  BY <1>1, <1>3, <1>4
<1>6. ASSUME NEW j, StoredIncoming(j) PROVE StoredIncoming(j)'
  BY <1>3, <1>4, <1>5, <1>6 DEF StoredIncoming
<1>7. Acking \subseteq Acking'
  BY <1>6 DEF Acking
<1>8. outbox' \in Seq(Acking')
  <2>1. outbox \in Seq(Acking')
    BY <1>7, SeqMono DEF IncomingInv
  <2>2. ASSUME NEW type \in { "PUBACK", "PUBREC" }, encode_and_fire(Answer(type, i, TRUE))
        PROVE  outbox' \in Seq(Acking')
    <3>1. StoredIncoming(i)'
      BY <1>3, <1>4, <1>5 DEF StoredIncoming
    <3>2. Answer(type, i, TRUE) \in Acking'
      <4>1. type \in MessageType /\ i \in Ids /\ TRUE \in BOOLEAN
        BY <1>3 DEF MessageType
      <4>2. Answer(type, i, TRUE) \in Packet /\ Answer(type, i, TRUE).id = i
        BY ONLY <4>1, AnswerFields
      <4>3. PICK m : m = Answer(type, i, TRUE)
        OBVIOUS
      <4>4. m \in Packet /\ m.id = i
        BY <4>3, <4>2
      <4>5. m \in Acking'
        BY <3>1, <4>4 DEF Acking, StoredIncoming
      <4> QED BY <4>3, <4>5
    <3> QED BY <2>1, <2>2, <3>2, SeqAppend DEF encode_and_fire
  <2> QED BY <1>0, <2>1, <2>2 DEF rx_publish
<1>9. /\ OnceInFlight'
      /\ inbox' \in Seq(Coming)
      /\ \A k \in 1 .. Len(inbox') : k + 1 \in 1 .. Len(inbox) /\ inbox'[k] = inbox[k + 1]
  BY <1>1, TakeOnce DEF IncomingInv
<1>10. inbox' \in Seq(Coming')
  <2>1. ASSUME NEW k \in 1 .. Len(inbox')
        PROVE  inbox'[k] \in Coming'
    <3>0. PICK m : m = inbox'[k]
      OBVIOUS
    <3>1. m \in Coming /\ m = inbox[k + 1] /\ k + 1 \in 1 .. Len(inbox) /\ k + 1 # 1
      BY <1>9, <3>0
    <3>2. m.type = "PUBLISH" => m.id # i
      BY <1>0, <1>1, <1>2, <3>1 DEF IncomingInv, OnceInFlight
    <3>3. m.type = "PUBLISH" =>
            received'[m.id] = received[m.id] /\ session' = session /\ bIn' = bIn
      BY <1>1, <1>5, <3>1, <3>2 DEF Coming, guiVars, brokerVars
    <3>4. m.type = "PUBREL" => StoredIncoming(m.id)'
      BY <1>6, <3>1 DEF Coming
    <3>5. m \in Coming'
      BY <3>1, <3>3, <3>4 DEF Coming
    <3> QED BY <3>0, <3>5
  <2> QED BY <1>9, <2>1, SeqEach
<1>11. InHand'
  BY <1>1 DEF IncomingInv, InHand, timerVars, guiVars
<1>12. Unsent'
  BY <1>1, <1>3, <1>5 DEF IncomingInv, Unsent, brokerVars, guiVars
<1>13. IncomingStored'
  <2> SUFFICES ASSUME NEW j \in Incoming
               PROVE  received'[j] <= session'
                      /\ (bIn'[j] \in { "received", "done" } => received'[j] >= 1)
    BY DEF IncomingStored
  <2>1. session' = session /\ bIn' = bIn
    BY <1>1 DEF guiVars, brokerVars
  <2>2. CASE j = i
    BY <1>3, <1>4, <1>5, <2>1, <2>2
  <2>3. CASE j # i
    BY <1>5, <2>1, <2>3 DEF IncomingInv, IncomingStored
  <2> QED BY <2>2, <2>3
<1> QED BY <1>8, <1>9, <1>10, <1>11, <1>12, <1>13 DEF IncomingInv

LEMMA WorkerIncoming == ASSUME IncomingInv, TypeOK', WorkerStep PROVE IncomingInv'
<1>1. CASE rx_connack
  <2>1. UNCHANGED << received, bIn, session, net, guiMsg, hold, outbox >>
        /\ inbox # << >> /\ inbox' = Tail(inbox) /\ messages_map' = removed(0)
    BY <1>1 DEF rx_connack, Rx, brokerVars
  <2> QED BY <2>1, RxIncoming
<1>2. CASE rx_connack_timers
  <2>1. /\ UNCHANGED << received, bIn, session, net, outbox, inbox, guiMsg, hold >>
        /\ messages_map' = messages_map \/ messages_map' = EmptyMap
    BY <1>2 DEF rx_connack_timers, start_ping_and_message_timer, linkVars, brokerVars,
                guiVars, storeVars
  <2>2. InHand' /\ OnceInFlight'
    BY <2>1, RequestPackets DEF IncomingInv, InHand, EmptyMap, OnceInFlight
  <2> QED BY <2>1, <2>2, IncomingUntouched DEF IncomingInv
<1>3. CASE rx_publish
  BY <1>3, PublishIncoming
<1>4. CASE rx_publish_done
  <2>1. /\ UNCHANGED << received, bIn, session, net, guiMsg, hold, outbox >>
        /\ inbox # << >> /\ inbox' = Tail(inbox)
        /\ messages_map' = messages_map \/ messages_map' = removed(Head(inbox).id)
    BY <1>4 DEF rx_publish_done, Rx, brokerVars, guiVars
  <2> QED BY <2>1, RxIncoming
<1>5. CASE rx_pubrec
  <2>1. /\ UNCHANGED << received, bIn, session, net, guiMsg, hold, messages_map >>
        /\ inbox # << >> /\ inbox' = Tail(inbox)
        /\ encode_and_fire(Answer("PUBREL", Head(inbox).id, TRUE))
    BY <1>5 DEF rx_pubrec, Rx, brokerVars, guiVars, timerVars, storeVars
  <2>2. Head(inbox).id \in Ids
    BY <2>1, SeqTake DEF IncomingInv, Coming, Packet
  <2>3. Answer("PUBREL", Head(inbox).id, TRUE) \in Acking
    BY <2>2, AnswerFields DEF Acking, AckTypes, MessageType
  <2> QED BY <2>1, <2>3, RxIncoming
<1>6. CASE rx_pubrel
  <2>1. /\ UNCHANGED << received, bIn, session, net, guiMsg, hold, messages_map >>
        /\ inbox # << >> /\ inbox' = Tail(inbox) /\ Head(inbox).type = "PUBREL"
        /\ encode_and_fire(Answer("PUBCOMP", Head(inbox).id, TRUE))
    BY <1>6 DEF rx_pubrel, Rx, brokerVars, guiVars, timerVars, storeVars
  <2>2. Head(inbox).id \in Ids /\ StoredIncoming(Head(inbox).id)
    BY <2>1, SeqTake DEF IncomingInv, Coming, Packet
  <2>3. Answer("PUBCOMP", Head(inbox).id, TRUE) \in Acking
    BY <2>2, AnswerFields DEF Acking, MessageType
  <2> QED BY <2>1, <2>3, RxIncoming
<1>7. CASE rx_suback
  <2>1. /\ UNCHANGED << received, bIn, session, net, guiMsg, hold, outbox >>
        /\ inbox # << >> /\ inbox' = Tail(inbox)
        /\ messages_map' = messages_map \/ messages_map' = removed(Head(inbox).id)
    BY <1>7 DEF rx_suback, Rx, brokerVars, guiVars
  <2> QED BY <2>1, RxIncoming
<1>8. CASE rx_unsuback
  <2>1. /\ UNCHANGED << received, bIn, session, net, guiMsg, hold, outbox >>
        /\ inbox # << >> /\ inbox' = Tail(inbox)
        /\ messages_map' = messages_map \/ messages_map' = removed(Head(inbox).id)
    BY <1>8 DEF rx_unsuback, Rx, brokerVars, guiVars
  <2> QED BY <2>1, RxIncoming
<1>9. CASE rx_pingresp \/ rx_unacceptable
  <2>1. /\ UNCHANGED << received, bIn, session, net, guiMsg, hold, outbox, messages_map >>
        /\ inbox # << >> /\ inbox' = Tail(inbox)
    BY <1>9 DEF rx_pingresp, rx_unacceptable, Rx, brokerVars, guiVars, timerVars, storeVars
  <2> QED BY <2>1, RxIncoming
<1>10. CASE raw_close
  <2>1. /\ UNCHANGED << received, bIn, session, net, outbox, inbox, guiMsg, hold >>
        /\ messages_map' = messages_map \/ messages_map' = EmptyMap
    BY <1>10 DEF raw_close, brokerVars, storeVars, timerVars
  <2>2. InHand' /\ OnceInFlight'
    BY <2>1, RequestPackets DEF IncomingInv, InHand, EmptyMap, OnceInFlight
  <2> QED BY <2>1, <2>2, IncomingUntouched DEF IncomingInv
<1>11. CASE service_task_ends
  <2>1. /\ UNCHANGED << received, bIn, session, guiMsg, hold, messages_map >>
        /\ net' = "down" /\ outbox' = << >> /\ inbox' = << >>
    BY <1>11 DEF service_task_ends, ServiceTaskEnds, brokerVars, guiVars, timerVars, storeVars
  <2>2. InHand' /\ OnceInFlight'
    BY <2>1 DEF IncomingInv, InHand, OnceInFlight
  <2> QED BY <2>1, <2>2, IncomingUntouched, SeqEmpty
<1> QED
  BY <1>1, <1>2, <1>3, <1>4, <1>5, <1>6, <1>7, <1>8, <1>9, <1>10, <1>11 DEF WorkerStep

-----------------------------------------------------------------------------
(* The GTK thread and the timers: they fire what the user asked for.       *)

LEMMA GuiIncoming == ASSUME IncomingInv, TypeOK', GuiStep PROVE IncomingInv'
<1>1. guiMsg \in Requests /\ NoMsg \in Requests /\ Disconnect \in Requests
      /\ Requests \subseteq Acking /\ messages_map \in [ Ids -> Requests ]
  BY RequestPackets DEF IncomingInv, InHand
<1>2. ASSUME UNCHANGED << received, bIn, session, net, inbox, hold >>,
             guiMsg' \in { guiMsg, NoMsg },
             messages_map' \in { messages_map, EmptyMap, [ messages_map EXCEPT ![guiMsg.id] = guiMsg ] },
             outbox' \in Seq(Acking)
      PROVE  IncomingInv'
  <2>1. messages_map' \in [ Ids -> Requests ]
    BY <1>1, <1>2 DEF EmptyMap
  <2>2. InHand' /\ OnceInFlight'
    BY <1>1, <1>2, <2>1 DEF IncomingInv, InHand, OnceInFlight
  <2> QED BY <1>2, <2>2, IncomingUntouched DEF IncomingInv
<1>3. outbox \in Seq(Acking)
  BY DEF IncomingInv
<1>4. CASE send_connect_fire \/ send_stored_fire
  <2>1. outbox' \in Seq(Acking)
    BY <1>1, <1>3, <1>4, FireAcking DEF send_connect_fire, send_stored_fire
  <2> QED BY <1>2, <1>4, <2>1 DEF send_connect_fire, send_stored_fire, timerVars, brokerVars,
                                   storeVars
<1>5. CASE send_connect_timer
  BY <1>2, <1>3, <1>5
     DEF send_connect_timer, start_connect_timer, linkVars, brokerVars, storeVars
<1>6. CASE send_connect_add
  BY <1>2, <1>3, <1>6
     DEF send_connect_add, add_message_in_map, linkVars, brokerVars, storeVars
<1>7. CASE send_publish_add
  BY <1>2, <1>3, <1>7
     DEF send_publish_add, add_message_in_map, linkVars, brokerVars, storeVars, timerVars
<1>8. CASE send_disconnect_ping
  BY <1>2, <1>3, <1>8 DEF send_disconnect_ping, stop_ping_timer, brokerVars, storeVars
<1>9. CASE send_disconnect_fire
  <2>1. outbox' \in Seq(Acking)
    BY <1>1, <1>3, <1>9, FireAcking DEF send_disconnect_fire
  <2> QED BY <1>2, <1>9, <2>1
             DEF send_disconnect_fire, stop_message_timer, brokerVars, storeVars
<1>10. CASE send_disconnect_close
  BY <1>2, <1>3, <1>10 DEF send_disconnect_close, timerVars, brokerVars, storeVars
<1> QED BY <1>4, <1>5, <1>6, <1>7, <1>8, <1>9, <1>10 DEF GuiStep

\* A new session: nothing is in flight, and every message may come once more.
LEMMA LogInIncoming == ASSUME IncomingInv, TypeOK', LogIn PROVE IncomingInv'
<1>1. /\ session' = session + 1 /\ received' = received /\ guiMsg' = Connect
      /\ outbox' = << >> /\ inbox' = << >>
      /\ bIn' = [ i \in Incoming |-> "none" ]
      /\ UNCHANGED << messages_map, hold >>
  BY DEF LogIn, open_lws_net_connection, NewConnection, timerVars, storeVars
<1>2. InHand' /\ OnceInFlight'
  BY <1>1, RequestPackets DEF IncomingInv, InHand, OnceInFlight
<1>3. ASSUME NEW i \in Incoming
      PROVE  received'[i] < session' /\ bIn'[i] = "none"
  <2>1. received[i] \in Nat /\ session \in Nat /\ received[i] <= session
    BY ClientBounds DEF IncomingInv, TypeOK, IncomingStored
  <2> QED BY <1>1, <2>1
<1>4. \A i \in Incoming : received'[i] <= session'
  <2> SUFFICES ASSUME NEW i \in Incoming PROVE received'[i] <= session'
    OBVIOUS
  <2>1. received[i] \in Nat /\ session \in Nat
    BY ClientBounds DEF IncomingInv, TypeOK
  <2> QED BY <1>1, <1>3, <2>1
<1>5. Unsent' /\ IncomingStored'
  BY <1>3, <1>4 DEF Unsent, IncomingStored
<1> QED BY <1>1, <1>2, <1>5, SeqEmpty DEF IncomingInv

LEMMA UserIncoming == ASSUME IncomingInv, TypeOK', UserStep PROVE IncomingInv'
<1>1. CASE LogIn
  BY <1>1, LogInIncoming
<1>2. NextId \in Ids
  BY PacketBounds DEF NextId, PacketId, Ids, IncomingInv, TypeOK
<1>3. ASSUME NEW m \in Requests, send_stored(m)
      PROVE  IncomingInv'
  <2>1. /\ UNCHANGED << received, bIn, session, net, outbox, inbox, hold >>
        /\ guiMsg' = m /\ messages_map' = [ messages_map EXCEPT ![m.id] = m ]
    BY <1>3 DEF send_stored, add_message_in_map, linkVars, brokerVars, storeVars
  <2>2. InHand' /\ OnceInFlight'
    BY <2>1 DEF IncomingInv, InHand, OnceInFlight
  <2> QED BY <2>1, <2>2, IncomingUntouched DEF IncomingInv
<1>4. ASSUME NEW t \in Topics, send_subscribe(t) \/ send_unsubscribe(t)
      PROVE  IncomingInv'
  BY <1>2, <1>3, <1>4, RequestPackets DEF send_subscribe, send_unsubscribe
<1>5. ASSUME NEW c \in Contents, NEW t \in Topics, NEW q \in UserQoS, send_publish(c, t, q)
      PROVE  IncomingInv'
  <2> DEFINE m == Publish(IF q = 0 THEN 0 ELSE NextId, t, q, c)
  <2>1. /\ UNCHANGED << received, bIn, session, net, inbox, hold, messages_map >>
        /\ guiMsg' = m /\ encode_and_fire(m)
    BY <1>5 DEF send_publish, timerVars, brokerVars, storeVars
  <2>2. m \in Requests
    BY <1>2, RequestPackets, IdFacts, ClientBounds
  <2>3. outbox' \in Seq(Acking)
    BY <2>1, <2>2, FireAcking, RequestPackets DEF IncomingInv
  <2> HIDE DEF m
  <2>4. InHand' /\ OnceInFlight'
    BY <2>1, <2>2 DEF IncomingInv, InHand, OnceInFlight
  <2> QED BY <2>1, <2>3, <2>4, IncomingUntouched DEF IncomingInv
<1>6. CASE log_out_handle
  <2>1. UNCHANGED << received, bIn, session, net, outbox, inbox, guiMsg, hold, messages_map >>
    BY <1>6 DEF log_out_handle, linkVars, timerVars, brokerVars
  <2>2. InHand' /\ OnceInFlight'
    BY <2>1 DEF IncomingInv, InHand, OnceInFlight
  <2> QED BY <2>1, <2>2, IncomingUntouched DEF IncomingInv
<1> QED BY <1>1, <1>4, <1>5, <1>6 DEF UserStep

LEMMA TimerIncoming == ASSUME IncomingInv, TypeOK', TimerStep PROVE IncomingInv'
<1>1. UNCHANGED << received, bIn, session, guiMsg >>
  BY DEF TimerStep, Timer, brokerVars, restOfClient, guiVars, storeVars
<1>2. /\ hold \in [ Threads -> Requests ] /\ messages_map \in [ Ids -> Requests ]
      /\ NoMsg \in Requests /\ Pingreq \in Requests /\ 0 \in Ids
      /\ Requests \subseteq Acking
  BY RequestPackets, IdFacts DEF IncomingInv, InHand
<1>3. ASSUME UNCHANGED << net, inbox, messages_map >>, hold' \in [ Threads -> Requests ],
             outbox' \in Seq(Acking)
      PROVE  IncomingInv'
  <2>1. InHand' /\ OnceInFlight'
    BY <1>1, <1>3 DEF IncomingInv, InHand, OnceInFlight
  <2> QED BY <1>1, <1>3, <2>1, IncomingUntouched DEF IncomingInv
<1>4. ASSUME NEW th \in Threads, NEW m \in Requests, Take(th, m)
      PROVE  hold' \in [ Threads -> Requests ]
  BY <1>2, <1>4 DEF Take
<1>5. outbox \in Seq(Acking)
  BY DEF IncomingInv
<1>6. CASE Timer(connect_task)
  BY <1>2, <1>3, <1>4, <1>5, <1>6
     DEF Timer, connect_task, linkVars, get_message_from_map, Threads
<1>7. CASE Timer(ping_task)
  BY <1>2, <1>3, <1>4, <1>5, <1>7 DEF Timer, ping_task, linkVars, Threads
<1>8. ASSUME NEW i \in Ids, Timer(message_resend_task(i)) PROVE IncomingInv'
  BY <1>2, <1>3, <1>4, <1>5, <1>8
     DEF Timer, message_resend_task, linkVars, get_message_from_map, Threads
<1>9. ASSUME NEW th \in Threads, Timer(TimerFires(th)) PROVE IncomingInv'
  <2>1. hold[th] \in Acking /\ outbox' \in Seq(Acking)
    BY <1>2, <1>5, <1>9, FireAcking DEF Timer, TimerFires
  <2> QED BY <1>2, <1>3, <1>4, <1>9, <2>1 DEF Timer, TimerFires
<1>10. ASSUME NEW th \in Threads, Timer(TimerReadsFreedMap(th)) PROVE IncomingInv'
  BY <1>2, <1>3, <1>5, <1>10 DEF Timer, TimerReadsFreedMap, timerVars
<1> QED BY <1>6, <1>7, <1>8, <1>9, <1>10 DEF TimerStep

-----------------------------------------------------------------------------
(* The broker.                                                             *)

\* More may be in flight when more is sent.
LEMMA ComingGrows ==
  ASSUME UNCHANGED << received, session >>,
         \A i \in Incoming : bIn[i] # "none" => bIn'[i] # "none"
  PROVE  Coming \subseteq Coming' /\ Acking' = Acking
  BY DEF Coming, Acking, StoredIncoming

\* The broker reads a packet and answers with one that is no PUBLISH.
LEMMA BrokerReadIncoming ==
  ASSUME IncomingInv, TypeOK', Broker(BrokerReads)
  PROVE  IncomingInv'
<1>1. PICK m : m = Head(outbox)
  OBVIOUS
<1>2. /\ outbox # << >> /\ outbox' = Tail(outbox)
      /\ UNCHANGED << net, received, session, guiMsg, messages_map, hold >>
  BY DEF Broker, BrokerReads, restOfClient, guiVars, storeVars, timerVars
<1>3. m \in Acking /\ m \in Packet /\ outbox' \in Seq(Acking)
  BY <1>1, <1>2, SeqTake DEF IncomingInv, Acking
<1>4. /\ \/ inbox' = inbox
         \/ \E a \in Packet :
              /\ inbox' = Append(inbox, a) /\ a.type # "PUBLISH"
              /\ a.type = "PUBREL" => StoredIncoming(a.id)
      /\ \/ bIn' = bIn
         \/ /\ StoredIncoming(m.id)
            /\ \/ bIn' = [ bIn EXCEPT ![m.id] = "received" ]
               \/ bIn' = [ bIn EXCEPT ![m.id] = "done" ]
  <2>1. m.id \in Ids
    BY <1>3 DEF Packet
  <2>2. ASSUME NEW type \in MessageType \ { "PUBLISH", "PUBREL" }, NEW i \in Ids,
               NEW ok \in BOOLEAN, Reply(Answer(type, i, ok))
        PROVE  \E a \in Packet :
                 /\ inbox' = Append(inbox, a) /\ a.type # "PUBLISH"
                 /\ a.type = "PUBREL" => StoredIncoming(a.id)
    BY <2>2, AnswerFields DEF Reply
  <2>3. CASE ReadConnect(m)
    BY <2>2, <2>3, IdFacts DEF ReadConnect, MessageType
  <2>4. CASE ReadBeforeConnect(m)
    BY <2>4 DEF ReadBeforeConnect
  <2>5. CASE ReadSubscribe(m)
    BY <2>1, <2>2, <2>5 DEF ReadSubscribe, MessageType
  <2>6. CASE ReadUnsubscribe(m)
    BY <2>1, <2>2, <2>6 DEF ReadUnsubscribe, MessageType
  <2>7. CASE ReadPublish(m)
    BY <2>1, <2>2, <2>7 DEF ReadPublish, MessageType
  <2>8. CASE ReadPubrel(m)
    BY <2>1, <2>2, <2>8 DEF ReadPubrel, MessageType
  <2>9. CASE ReadAck(m)
    <3>1. StoredIncoming(m.id)
      BY <1>3, <2>9 DEF ReadAck, Acking, AckTypes
    <3>2. CASE m.type = "PUBREC"
      <4>1. Reply(Answer("PUBREL", m.id, TRUE)) /\ bIn' = [ bIn EXCEPT ![m.id] = "received" ]
        BY <2>9, <3>2 DEF ReadAck
      <4>2. "PUBREL" \in MessageType /\ m.id \in Ids /\ TRUE \in BOOLEAN
        BY <2>1 DEF MessageType
      <4>3. PICK a : a = Answer("PUBREL", m.id, TRUE)
        OBVIOUS
      <4>4. a \in Packet /\ a.type = "PUBREL" /\ a.id = m.id
        BY ONLY <4>2, <4>3, AnswerFields
      <4>5. inbox' = Append(inbox, a)
        BY <4>1, <4>3 DEF Reply
      <4> QED BY <3>1, <4>1, <4>4, <4>5
    <3>3. CASE m.type # "PUBREC"
      BY <2>9, <3>1, <3>3 DEF ReadAck
    <3> QED BY <3>2, <3>3
  <2>10. CASE ReadPingreq(m)
    BY <2>2, <2>10, IdFacts DEF ReadPingreq, MessageType, brokerVars
  <2>11. CASE ReadDisconnect(m)
    BY <2>11 DEF ReadDisconnect
  <2> QED
    BY <1>1, <2>3, <2>4, <2>5, <2>6, <2>7, <2>8, <2>9, <2>10, <2>11 DEF Broker, BrokerReads
<1>5. bIn \in [ Incoming -> { "none", "sent", "received", "done" } ]
  BY DEF IncomingInv, TypeOK, BrokerTypeOK
<1>6. \A i \in Incoming : /\ bIn[i] # "none" => bIn'[i] # "none"
                          /\ bIn'[i] = bIn[i] \/ received[i] >= 1
                          /\ bIn'[i] = "none" => bIn[i] = "none"
  BY <1>4, <1>5 DEF StoredIncoming
<1>7. Coming \subseteq Coming' /\ Acking' = Acking
  BY <1>2, <1>6, ComingGrows
<1>8. OnceInFlight' /\ inbox' \in Seq(Coming)
  <2>1. inbox \in Seq(Coming) /\ OnceInFlight
    BY DEF IncomingInv
  <2>2. CASE inbox' = inbox
    BY <2>1, <2>2 DEF OnceInFlight
  <2>3. ASSUME NEW a \in Packet, inbox' = Append(inbox, a), a.type # "PUBLISH",
               a.type = "PUBREL" => StoredIncoming(a.id)
        PROVE  OnceInFlight' /\ inbox' \in Seq(Coming)
    <3>1. a \in Coming
      BY <2>3 DEF Coming
    <3> QED BY <2>1, <2>3, <3>1, AppendOnce, SeqAppend
  <2> QED BY <1>4, <2>2, <2>3
<1>9. inbox' \in Seq(Coming') /\ outbox' \in Seq(Acking')
  BY <1>3, <1>7, <1>8, SeqMono
<1>10. InHand' /\ Unsent' /\ IncomingStored'
  BY <1>2, <1>6 DEF IncomingInv, InHand, Unsent, IncomingStored
<1> QED BY <1>8, <1>9, <1>10 DEF IncomingInv

\* The broker sends a message: none of it was in flight.
LEMMA BrokerPublishIncoming ==
  ASSUME IncomingInv, TypeOK', NEW i \in Incoming, Broker(BrokerPublishes(i))
  PROVE  IncomingInv'
<1>1. PICK q \in QoS, t \in Topics :
        /\ Reply(Publish(i, t, q, None))
        /\ bIn' = [ bIn EXCEPT ![i] = "sent" ]
  BY DEF Broker, BrokerPublishes
<1>2. PICK m : m = Publish(i, t, q, None)
  OBVIOUS
<1>3. m \in Packet /\ m.type = "PUBLISH" /\ m.id = i /\ inbox' = Append(inbox, m)
  BY <1>1, <1>2, PacketTypes, BrokerBounds DEF Publish, Build, Reply
<1>4. /\ net = "open" /\ bIn[i] = "none"
      /\ UNCHANGED << net, outbox, received, session, guiMsg, messages_map, hold >>
  BY DEF Broker, BrokerPublishes, restOfClient, guiVars, storeVars, timerVars
<1>5. bIn \in [ Incoming -> { "none", "sent", "received", "done" } ]
      /\ received[i] < session
  BY <1>4 DEF IncomingInv, TypeOK, BrokerTypeOK, Unsent
<1>6. Coming \subseteq Coming' /\ Acking' = Acking
  BY <1>1, <1>4, <1>5, ComingGrows
<1>7. m \in Coming'
  BY <1>1, <1>3, <1>4, <1>5 DEF Coming
<1>8. inbox' \in Seq(Coming') /\ outbox' \in Seq(Acking')
  <2>1. inbox \in Seq(Coming')
    BY <1>6, SeqMono DEF IncomingInv
  <2> QED BY <1>3, <1>4, <1>6, <1>7, <2>1, SeqAppend DEF IncomingInv
<1>9. OnceInFlight'
  <2>1. ASSUME NEW k \in 1 .. Len(inbox), inbox[k].type = "PUBLISH"
        PROVE  inbox[k].id # m.id
    <3>1. inbox[k] \in Coming
      BY DEF IncomingInv
    <3> QED BY <1>3, <1>4, <2>1, <3>1 DEF Coming
  <2> QED BY <1>3, <2>1, AppendOnce DEF IncomingInv
<1>10. InHand' /\ Unsent' /\ IncomingStored'
  BY <1>1, <1>4, <1>5 DEF IncomingInv, InHand, Unsent, IncomingStored
<1> QED BY <1>8, <1>9, <1>10 DEF IncomingInv

LEMMA BrokerIncoming == ASSUME IncomingInv, TypeOK', BrokerStep PROVE IncomingInv'
<1>1. CASE Broker(BrokerCloses)
  <2>1. UNCHANGED << received, bIn, session, net, outbox, inbox, guiMsg, messages_map, hold >>
    BY <1>1 DEF Broker, BrokerCloses, linkVars, restOfClient, guiVars, storeVars, timerVars
  <2>2. InHand' /\ OnceInFlight'
    BY <2>1 DEF IncomingInv, InHand, OnceInFlight
  <2> QED BY <2>1, <2>2, IncomingUntouched DEF IncomingInv
<1>2. CASE Broker(BrokerSendsUnacceptable)
  <2>1. /\ UNCHANGED << received, bIn, session, net, outbox, guiMsg, messages_map, hold >>
        /\ inbox' = Append(inbox, Disconnect)
    BY <1>2 DEF Broker, BrokerSendsUnacceptable, Reply, restOfClient, guiVars, storeVars, timerVars
  <2>2. Disconnect \in Coming /\ Disconnect.type # "PUBLISH"
    BY PacketTypes DEF Coming, Disconnect, Build
  <2>3. InHand' /\ OnceInFlight' /\ inbox' \in Seq(Coming)
    BY <2>1, <2>2, AppendOnce, SeqAppend DEF IncomingInv, InHand
  <2> QED BY <2>1, <2>3, IncomingUntouched DEF IncomingInv
<1> QED
  BY <1>1, <1>2, BrokerReadIncoming, BrokerPublishIncoming DEF BrokerStep

-----------------------------------------------------------------------------
\* What the broker counts as acknowledged is in the client's message table, and
\* no message is there more often than there were sessions: get_message stores
\* before the PUBACK or PUBREC is fired, and a packet is handled once.
THEOREM IncomingStoredHolds == Spec => []IncomingStored
<1>1. Init => IncomingInv
  <2> SUFFICES ASSUME Init PROVE IncomingInv
    OBVIOUS
  <2>1. InHand
    BY RequestPackets DEF Init, InHand, TimersInit, EmptyMap
  <2>2. outbox \in Seq(Acking) /\ inbox \in Seq(Coming) /\ OnceInFlight /\ Unsent
    BY SeqEmpty DEF Init, LinkInit, OnceInFlight, Unsent
  <2>3. IncomingStored
    BY DEF Init, BrokerInit, IncomingStored
  <2> QED BY <2>1, <2>2, <2>3, InitType DEF IncomingInv
<1>2. IncomingInv /\ [Next]_vars => IncomingInv'
  <2> SUFFICES ASSUME IncomingInv, [Next]_vars PROVE IncomingInv'
    OBVIOUS
  <2>1. TypeOK'
    BY NextType DEF IncomingInv
  <2>2. CASE Next
    BY <2>1, <2>2, UserIncoming, GuiIncoming, WorkerIncoming, TimerIncoming, BrokerIncoming
       DEF Next
  <2>3. CASE UNCHANGED vars
    <3>1. UNCHANGED << received, bIn, session, net, outbox, inbox, guiMsg, messages_map, hold >>
      BY <2>3 DEF vars, linkVars, timerVars, brokerVars, guiVars, storeVars
    <3>2. InHand' /\ OnceInFlight'
      BY <3>1 DEF IncomingInv, InHand, OnceInFlight
    <3> QED BY <2>1, <3>1, <3>2, IncomingUntouched DEF IncomingInv
  <2> QED BY <2>2, <2>3
<1>3. IncomingInv => IncomingStored
  BY DEF IncomingInv
<1> QED BY <1>1, <1>2, <1>3, PTL DEF Spec
=============================================================================
