------------------------------ MODULE SnClient ------------------------------
(***************************************************************************)
(* mqttsn/mqtt_sn_client.c with the GUI handlers that call it, on top of   *)
(* SnTimers and against SnGateway.  The GTK thread and the service thread  *)
(* (process_sn_rx) both number messages with ++current_packet_number: the  *)
(* GTK thread's increments are a read and a write, so that the increment   *)
(* of the REGACK case can fall between them (two increments that overlap   *)
(* give the same number, whichever thread reads first).                    *)
(***************************************************************************)
EXTENDS SnGateway

CONSTANTS
  SnMaxSessions,   \* bound on log ins
  MaxOps,          \* bound on publishes, subscribes and unsubscribes
  SnUserQoS,       \* the QoS levels the user publishes with
  SlowAnswers,     \* TRUE: an answer takes longer than the rest of the call that fired
  AtomicSends      \* TRUE: no REGACK is handled inside a call of send_sn_message
ASSUME SnClientBounds == /\ SnMaxSessions \in Nat /\ MaxOps \in Nat
                         /\ SnUserQoS \subseteq SnQoS
                         /\ SlowAnswers \in BOOLEAN /\ AtomicSends \in BOOLEAN

VARIABLES
  gui,        \* what the GTK thread does next
  guiMsg,     \* the message it is working on
  seen,       \* the value its running ++current_packet_number has read
  worker,     \* the service thread: "service", or "timers" inside the CONNACK case
  ui,         \* "accounts", "loading", "main"
  session, ops,
  current_packet_number,
  is_disconnect_sent,
  rows,       \* topic list and topic table
  saved,      \* rows of the message table with is_incoming = 0, per content
  received,   \* topic names under which each incoming message was stored
  chosen      \* history: topic and QoS the user chose for each content

guiVars == << gui, guiMsg, seen >>
storeVars == << rows, saved, received >>
clientVars == << guiVars, worker, ui, session, ops, current_packet_number,
                 is_disconnect_sent, storeVars, chosen >>
vars == << netVars, snTimerVars, gatewayVars, clientVars >>

GuiSteps == { "idle", "conn_fire", "conn_timer", "conn_add", "sub_num", "msg_num",
              "reg_read", "reg_num", "pub_read", "pub_num", "pub_add", "disc_stop",
              "disc_fire" }

Unchosen == [ topic |-> None, qos |-> 0 ]

TypeOK ==
  /\ SnTimersTypeOK
  /\ GatewayTypeOK
  /\ gui \in GuiSteps
  /\ guiMsg \in SnPacket
  /\ seen \in SnIds
  /\ worker \in { "service", "timers" }
  /\ ui \in { "accounts", "loading", "main" }
  /\ session \in 0 .. SnMaxSessions
  /\ ops \in 0 .. MaxOps
  /\ current_packet_number \in SnIds
  /\ is_disconnect_sent \in BOOLEAN
  /\ rows \in Rows
  /\ saved \in [ Contents -> Nat ]
  /\ received \in [ Incoming -> SUBSET (Topics \cup {None}) ]
  /\ chosen \in [ Contents -> [ topic : Topics \cup {None}, qos : SnQoS ] ]

Init ==
  /\ SnTimersInit
  /\ GatewayInit
  /\ gui = "idle" /\ guiMsg = SnNoMsg /\ seen = 0
  /\ worker = "service"
  /\ ui = "accounts"
  /\ session = 0 /\ ops = 0
  /\ current_packet_number = 0
  /\ is_disconnect_sent = FALSE
  /\ rows = NoRows
  /\ saved = [ c \in Contents |-> 0 ]
  /\ received = [ i \in Incoming |-> {} ]
  /\ chosen = [ c \in Contents |-> Unchosen ]

save_message(c) == saved' = [ saved EXCEPT ![c] = @ + 1 ]

-----------------------------------------------------------------------------
(* The GTK thread.                                                         *)

Gui(from, to) == Alive /\ gui = from /\ gui' = to

\* activate_main_window_default.  Bound: the user comes back after the service
\* thread and the connecter of the last session have ended.
LogIn ==
  /\ Gui("idle", "conn_fire")
  /\ ui = "accounts" /\ net # "open" /\ thread["connecter"] # "running"
  /\ session < SnMaxSessions
  /\ session' = session + 1
  /\ ui' = "loading"
  /\ guiMsg' = SnPlain("CONNECT")
  /\ init_net_service
  /\ UNCHANGED << fault, snTimerVars, gatewayVars, seen, worker, ops,
                  current_packet_number, is_disconnect_sent, storeVars, chosen >>

\* init_mqtt_sn_client returns an error, which is shown over the account list.
\* Over UDP the service thread runs all the same, on a stream that is closed.
LogInFails ==
  /\ Gui("idle", "idle")
  /\ Lossy
  /\ ui = "accounts" /\ net # "open" /\ thread["connecter"] # "running"
  /\ session < SnMaxSessions
  /\ session' = session + 1
  /\ IF Secure THEN UNCHANGED << net, is_stop >> ELSE net' = "open" /\ is_stop' = TRUE
  /\ UNCHANGED << fault, toGw, toClient, snTimerVars, gatewayVars, guiMsg, seen, worker, ui,
                  ops, current_packet_number, is_disconnect_sent, storeVars, chosen >>

\* send_sn_connect: fire, then start the timer, then store under key 0
send_sn_connect_fire ==
  /\ Gui("conn_fire", "conn_timer")
  /\ MayFault(FireFaults)
  /\ sn_encode_and_fire(guiMsg)
  /\ UNCHANGED << net, is_stop, toClient, snTimerVars, gatewayVars, guiMsg, seen, worker, ui,
                  session, ops, current_packet_number, is_disconnect_sent, storeVars, chosen >>

send_sn_connect_timer ==
  /\ Gui("conn_timer", "conn_add")
  /\ sn_start_connect_timer
  /\ UNCHANGED << netVars, gatewayVars, guiMsg, seen, worker, ui, session, ops,
                  current_packet_number, is_disconnect_sent, storeVars, chosen >>

send_sn_connect_add ==
  /\ Gui("conn_add", "idle")
  /\ MayFault(TableFaults)
  /\ sn_add_message_in_map(guiMsg)
  /\ guiMsg' = SnNoMsg
  /\ UNCHANGED << net, is_stop, toGw, toClient, mapState, topicVars, thread, tries,
                  gatewayVars, seen, worker, ui, session, ops, current_packet_number,
                  is_disconnect_sent, storeVars, chosen >>

\* a button of the main window: build m, read the counter of the first ++
Begin(step, m) ==
  /\ Gui("idle", step)
  /\ ui = "main"
  /\ ops < MaxOps
  /\ ops' = ops + 1
  /\ guiMsg' = m
  /\ seen' = current_packet_number
  /\ MayFault(IF topicState = "destroyed" THEN {"freed_table"} ELSE {})
  /\ UNCHANGED << net, is_stop, toGw, toClient, snTimerVars, gatewayVars, worker, ui, session,
                  current_packet_number, is_disconnect_sent, storeVars >>

send_sn_subscribe(t) ==
  /\ Begin("sub_num", SnSubscribe(0, t, sn_get_topic_id_from_map(t)))
  /\ UNCHANGED chosen

\* the button exists only on the row of a listed topic
send_sn_unsubscribe(t) ==
  /\ rows.list[t] > 0
  /\ Begin("sub_num", SnUnsubscribe(0, t, sn_get_topic_id_from_map(t)))
  /\ UNCHANGED chosen

send_sn_message(c, t, q) ==
  /\ chosen[c] = Unchosen
  /\ chosen' = [ chosen EXCEPT ![c] = [ topic |-> t, qos |-> q ] ]
  /\ Begin("msg_num", SnPublish(0, t, sn_get_topic_id_from_map(t), q, c))

\* the write of ++current_packet_number
Number == seen < MaxNumber /\ current_packet_number' = seen + 1

\* bug variant: every message gets the same number
Numbered_constant(m) == [ m EXCEPT !.id = 1 ]

Numbered(m) == [ m EXCEPT !.id = seen + 1 ]

\* send_sn_subscribe and send_sn_unsubscribe: number, store, fire
send_numbered ==
  /\ Gui("sub_num", "idle")
  /\ Number
  /\ MayFault(FireFaults \cup TableFaults)
  /\ sn_add_message_in_map(Numbered(guiMsg))
  /\ sn_encode_and_fire(Numbered(guiMsg))
  /\ guiMsg' = SnNoMsg
  /\ UNCHANGED << net, is_stop, toClient, mapState, topicVars, thread, tries, gatewayVars,
                  seen, worker, ui, session, ops, is_disconnect_sent, storeVars, chosen >>

\* send_sn_message: the PUBLISH of a topic without id is stored before its
\* REGISTER is sent, another one goes on to send_sn_publish
send_sn_message_number ==
  /\ Gui("msg_num", IF guiMsg.tid = 0 THEN "reg_read" ELSE "pub_read")
  /\ Number
  /\ guiMsg' = Numbered(guiMsg)
  /\ IF guiMsg.tid = 0
     THEN sn_add_message_in_map(Numbered(guiMsg)) /\ MayFault(TableFaults)
     ELSE UNCHANGED << fault, messages_map >>
  /\ UNCHANGED << net, is_stop, toGw, toClient, mapState, topicVars, thread, tries,
                  gatewayVars, seen, worker, ui, session, ops, is_disconnect_sent,
                  storeVars, chosen >>

\* the read of the second ++, in send_sn_register or send_sn_publish
second_read(from, to) ==
  /\ Gui(from, to)
  /\ seen' = current_packet_number
  /\ UNCHANGED << netVars, snTimerVars, gatewayVars, guiMsg, worker, ui, session, ops,
                  current_packet_number, is_disconnect_sent, storeVars, chosen >>

\* send_sn_register: number, store, fire
send_sn_register ==
  /\ Gui("reg_num", "idle")
  /\ Number
  /\ MayFault(FireFaults \cup TableFaults)
  /\ LET m == SnRegister(seen + 1, guiMsg.topic, 0)
     IN  sn_add_message_in_map(m) /\ sn_encode_and_fire(m)
  /\ guiMsg' = SnNoMsg
  /\ UNCHANGED << net, is_stop, toClient, mapState, topicVars, thread, tries, gatewayVars,
                  seen, worker, ui, session, ops, is_disconnect_sent, storeVars, chosen >>

\* send_sn_publish: number and fire, then save (QoS 0) or store
send_sn_publish_fire ==
  /\ Gui("pub_num", "pub_add")
  /\ Number
  /\ MayFault(FireFaults)
  /\ guiMsg' = Numbered(guiMsg)
  /\ sn_encode_and_fire(Numbered(guiMsg))
  /\ UNCHANGED << net, is_stop, toClient, snTimerVars, gatewayVars, seen, worker, ui, session,
                  ops, is_disconnect_sent, storeVars, chosen >>

SavedAtOnce(m) == m.qos = 0

send_sn_publish_add ==
  /\ Gui("pub_add", "idle")
  /\ IF SavedAtOnce(guiMsg)
     THEN save_message(guiMsg.content) /\ UNCHANGED << fault, messages_map >>
     ELSE sn_add_message_in_map(guiMsg) /\ MayFault(TableFaults) /\ UNCHANGED saved
  /\ guiMsg' = SnNoMsg
  /\ UNCHANGED << net, is_stop, toGw, toClient, mapState, topicVars, thread, tries,
                  gatewayVars, seen, worker, ui, session, ops, current_packet_number,
                  is_disconnect_sent, rows, received, chosen >>

\* log_out_handle up to send_sn_disconnect
log_out_handle ==
  /\ Gui("idle", "disc_stop")
  /\ ui = "main"
  /\ rows' = IF SnCleanSession
             THEN [ list |-> rows.list, db |-> [ t \in Topics |-> 0 ] ] ELSE rows
  /\ UNCHANGED << netVars, snTimerVars, gatewayVars, guiMsg, seen, worker, ui, session, ops,
                  current_packet_number, is_disconnect_sent, saved, received, chosen >>

send_sn_disconnect_stop ==
  /\ Gui("disc_stop", "disc_fire")
  /\ is_disconnect_sent' = TRUE
  /\ MayFault(StopFaults \cup CancelFaults("pinger") \cup CancelFaults("connecter"))
  /\ sn_stop_all_timers
  /\ UNCHANGED << net, is_stop, toGw, toClient, gatewayVars, guiMsg, seen, worker, ui, session,
                  ops, current_packet_number, storeVars, chosen >>

\* fire, stop the service thread, show the account list
send_sn_disconnect_fire ==
  /\ Gui("disc_fire", "idle")
  /\ MayFault(FireFaults)
  /\ sn_encode_and_fire(SnPlain("DISCONNECT"))
  /\ is_stop' = TRUE
  /\ ui' = "accounts"
  /\ UNCHANGED << net, toClient, snTimerVars, gatewayVars, guiMsg, seen, worker, session, ops,
                  current_packet_number, is_disconnect_sent, storeVars, chosen >>
-----------------------------------------------------------------------------
(* The service thread: process_sn_rx, one datagram at a time.              *)

\* a is the datagram that process_sn_rx decodes
Rx(a, types) ==
  /\ Alive
  /\ net = "open" /\ worker = "service" /\ ~is_stop
  /\ SlowAnswers => gui \notin { "conn_timer", "conn_add", "pub_add" }
  /\ a.type \in types
  /\ toClient' \in Received(toClient, a)

\* the parts of the state that most of the cases leave alone
restOfClient == << guiVars, worker, ui, session, ops, current_packet_number,
                   is_disconnect_sent, chosen >>

\* bug variant: the failure is not shown
connection_unsuccessful_silent == UNCHANGED ui

\* cu_pt(-1): the error, then the account list
connection_unsuccessful == ui' = "accounts"

\* fin_mqtt_sn_client, which reasons for a fault rs of its caller add to
fin_mqtt_sn_client(rs) ==
  IF is_disconnect_sent
  THEN MayFault(rs) /\ UNCHANGED << is_stop, ui, snTimerVars >>
  ELSE /\ MayFault(rs \cup StopFaults \cup CancelFaults("pinger") \cup CancelFaults("connecter"))
       /\ sn_stop_all_timers
       /\ is_stop' = TRUE
       /\ connection_unsuccessful

RoundLeft == tries > 0

\* five rounds, then fin_mqtt_sn_client
connect_task ==
  /\ Alive
  /\ thread["connecter"] = "running"
  /\ IF RoundLeft
     THEN /\ tries' = tries - 1
          /\ MayFault(TableFaults \cup FireFaults)
          /\ toGw' = IF sn_get_message_from_map(0) = SnNoMsg THEN toGw
                     ELSE fired(sn_get_message_from_map(0))
          /\ UNCHANGED << is_stop, ui, mapVars, thread >>
     ELSE /\ IF is_disconnect_sent
             THEN /\ thread' = [ thread EXCEPT !["connecter"] = "done" ]
                  /\ UNCHANGED << fault, is_stop, ui, mapVars, tries >>
             ELSE fin_mqtt_sn_client({})
          /\ UNCHANGED toGw
  /\ UNCHANGED << net, toClient, gatewayVars, guiVars, worker, session, ops,
                  current_packet_number, is_disconnect_sent, storeVars, chosen >>

rx_connack(a) ==
  /\ Rx(a, {"CONNACK"})
  /\ MayFault(CancelFaults("connecter") \cup TableFaults)
  /\ thread' = cancelled({"connecter"})
  /\ messages_map' = removed({0})
  /\ IF a.ok
     THEN /\ ui' = "main"
          /\ rows' = topics_from_db(rows)
          /\ worker' = "timers"
     ELSE UNCHANGED << ui, rows, worker >>
  /\ UNCHANGED << net, is_stop, toGw, mapState, topicVars, tries, gatewayVars, guiVars,
                  session, ops, current_packet_number, is_disconnect_sent, saved, received,
                  chosen >>

\* after cs_pt has shown the main window
rx_connack_timers ==
  /\ Alive
  /\ worker = "timers"
  /\ worker' = "service"
  /\ start_mqtt_sn_ping_timer
  /\ UNCHANGED << netVars, gatewayVars, guiVars, ui, session, ops, current_packet_number,
                  is_disconnect_sent, storeVars, chosen >>

rx_will(a) ==
  /\ Rx(a, { "WILL_TOPIC_REQ", "WILL_MSG_REQ" })
  /\ sn_encode_and_fire(SnPlain(IF a.type = "WILL_TOPIC_REQ" THEN "WILL_TOPIC" ELSE "WILL_MSG"))
  /\ UNCHANGED << fault, net, is_stop, snTimerVars, gatewayVars, restOfClient, storeVars >>

\* topic name and topic id of a REGISTER
Registration(a) == << a.topic, a.tid >>

rx_register(a) ==
  /\ Rx(a, {"REGISTER"})
  /\ MayFault(TableFaults)
  /\ store_topic(Registration(a)[1], Registration(a)[2])
  /\ sn_encode_and_fire(SnAnswer("REGACK", a.id, a.tid, TRUE))
  /\ UNCHANGED << net, is_stop, messages_map, mapState, thread, tries, gatewayVars,
                  restOfClient, storeVars >>

\* bug variant: the answer is taken to be about the last registration
Registering_last(a) == IF current_packet_number = 0 THEN 0 ELSE current_packet_number - 1

\* the key of the PUBLISH that waits for this REGACK: message_id - 1
Registering(a) == a.id - 1

\* the PUBLISH p gets its topic id and a new number, is sent and then saved or stored
publish_registered(a, p) ==
  LET m == [ p EXCEPT !.tid = a.tid, !.id = current_packet_number + 1 ]
      old == removed({ Registering(a), a.id })
  IN  /\ current_packet_number < MaxNumber
      /\ current_packet_number' = current_packet_number + 1
      /\ store_topic(p.topic, a.tid)
      /\ sn_encode_and_fire(m)
      /\ IF SavedAtOnce(m)
         THEN save_message(m.content) /\ messages_map' = old
         ELSE messages_map' = [ old EXCEPT ![m.id] = m ] /\ UNCHANGED saved

rx_regack(a) ==
  /\ Rx(a, {"REGACK"})
  /\ AtomicSends => gui \notin { "sub_num", "msg_num", "reg_read", "reg_num", "pub_read", "pub_num" }
  /\ LET p == sn_get_message_from_map(Registering(a))
     IN  \/ /\ p = SnNoMsg
            /\ MayFault(TableFaults)
            /\ UNCHANGED << toGw, messages_map, topicVars, current_packet_number, saved >>
         \/ /\ p # SnNoMsg /\ a.ok
            /\ MayFault(TableFaults)
            /\ publish_registered(a, p)
         \/ /\ p # SnNoMsg /\ ~a.ok
            /\ MayFault(TableFaults)
            /\ messages_map' = removed({ Registering(a), a.id })
            /\ UNCHANGED << toGw, topicVars, current_packet_number, saved >>
  /\ UNCHANGED << net, is_stop, mapState, thread, tries, gatewayVars, guiVars, worker, ui,
                  session, ops, is_disconnect_sent, rows, received, chosen >>

\* the name of an id that the client does not know is NULL
rx_publish(a) ==
  /\ Rx(a, {"PUBLISH"})
  /\ LET name == sn_get_topic_name_from_map(a.tid)
     IN  /\ MayFault(TableFaults \cup IF name = None THEN {"bad_topic"} ELSE {})
         /\ received' = [ received EXCEPT ![a.id] = @ \cup {name} ]
  /\ \/ a.qos = 0 /\ UNCHANGED toGw
     \/ a.qos = 1 /\ sn_encode_and_fire(SnAnswer("PUBACK", a.id, a.tid, TRUE))
     \/ a.qos = 2 /\ sn_encode_and_fire(SnAnswer("PUBREC", a.id, 0, TRUE))
  /\ UNCHANGED << net, is_stop, snTimerVars, gatewayVars, restOfClient, rows, saved >>

\* the PUBCOMP and UNSUBACK cases compare the datagram, which is never NULL,
\* with NULL, instead of the message they looked up
null_check(a) == a.type \in { "PUBACK", "SUBACK", "REGACK" }

\* an answer that the map has nothing for
rx_unmatched(a) ==
  /\ Rx(a, { "PUBACK", "PUBCOMP", "SUBACK", "UNSUBACK" })
  /\ sn_get_message_from_map(a.id) = SnNoMsg
  /\ IF null_check(a) THEN MayFault(TableFaults) ELSE fault' = "null_message"
  /\ UNCHANGED << net, is_stop, toGw, snTimerVars, gatewayVars, restOfClient, storeVars >>

\* the type that each of these cases casts the stored message to
CastTo(a) == CASE a.type \in { "PUBACK", "PUBCOMP" } -> "PUBLISH"
               [] a.type = "SUBACK" -> "SUBSCRIBE"
               [] a.type = "UNSUBACK" -> "UNSUBSCRIBE"

\* the stored message is of another type, and its fields are read as pointers
rx_wrong_cast(a) ==
  /\ Rx(a, { "PUBACK", "PUBCOMP", "SUBACK", "UNSUBACK" })
  /\ sn_get_message_from_map(a.id).type \notin { CastTo(a), SnNoMsg.type }
  /\ fault' = "bad_cast"
  /\ UNCHANGED << net, is_stop, toGw, snTimerVars, gatewayVars, restOfClient, storeVars >>

\* the usual case: the map has the message that was sent, and its entry goes
Matched(a, types) ==
  /\ Rx(a, types)
  /\ sn_get_message_from_map(a.id).type = CastTo(a)
  /\ messages_map' = removed({a.id})

rx_publish_done(a) ==
  /\ Matched(a, { "PUBACK", "PUBCOMP" })
  /\ save_message(sn_get_message_from_map(a.id).content)
  /\ MayFault(TableFaults)
  /\ UNCHANGED << net, is_stop, toGw, mapState, topicVars, thread, tries, gatewayVars,
                  restOfClient, rows, received >>

\* PUBREC and PUBREL
rx_handshake(a) ==
  /\ Rx(a, { "PUBREC", "PUBREL" })
  /\ sn_encode_and_fire(SnAnswer(IF a.type = "PUBREC" THEN "PUBREL" ELSE "PUBCOMP", a.id, 0, TRUE))
  /\ UNCHANGED << fault, net, is_stop, snTimerVars, gatewayVars, restOfClient, storeVars >>

\* add_topics_to_list_box and save_topic_to_db
subscribed(r, t) == save_topic_to_db(add_topics_to_list_box(r, t), t)

\* the topic is the one the maps give for the id, else the one in the SUBSCRIBE,
\* which has none (an uninitialised pointer) when it was sent by id
rx_suback(a) ==
  /\ Matched(a, {"SUBACK"})
  /\ LET m == sn_get_message_from_map(a.id)
         name == sn_get_topic_name_from_map(a.tid)
     IN  \/ /\ ~a.ok
            /\ MayFault(TableFaults)
            /\ UNCHANGED << rows, topicVars >>
         \/ /\ a.ok /\ name # None
            /\ MayFault(TableFaults)
            /\ rows' = subscribed(rows, name)
            /\ UNCHANGED topicVars
         \/ /\ a.ok /\ name = None /\ m.topic # None
            /\ MayFault(TableFaults)
            /\ store_topic(m.topic, a.tid)
            /\ rows' = subscribed(rows, m.topic)
         \/ /\ a.ok /\ name = None /\ m.topic = None
            /\ fault' = "bad_topic"
            /\ UNCHANGED << rows, topicVars >>
  /\ UNCHANGED << net, is_stop, toGw, mapState, thread, tries, gatewayVars, restOfClient,
                  saved, received >>

\* the name in the UNSUBSCRIBE, or the one the maps give for its id
rx_unsuback(a) ==
  /\ Matched(a, {"UNSUBACK"})
  /\ LET m == sn_get_message_from_map(a.id)
         name == IF m.topic # None THEN m.topic ELSE sn_get_topic_name_from_map(m.tid)
     IN  IF name = None THEN fault' = "bad_topic" /\ UNCHANGED rows
         ELSE MayFault(TableFaults) /\ rows' = unsubscribed(rows, name)
  /\ UNCHANGED << net, is_stop, toGw, mapState, topicVars, thread, tries, gatewayVars,
                  restOfClient, saved, received >>

\* PINGRESP, and the types that are only printed
rx_ignored(a) ==
  /\ Rx(a, { "PINGRESP", "ADVERTISE" })
  /\ UNCHANGED << fault, net, is_stop, toGw, snTimerVars, gatewayVars, restOfClient, storeVars >>

rx_disconnect(a) ==
  /\ Rx(a, {"DISCONNECT"})
  /\ fin_mqtt_sn_client({})
  /\ UNCHANGED << net, toGw, gatewayVars, guiVars, worker, session, ops,
                  current_packet_number, is_disconnect_sent, storeVars, chosen >>

\* update_dyad returns after stop_pt, which is fin_mqtt_sn_client; update_dtls
\* returns without it
service_ends ==
  /\ Alive
  /\ net = "open" /\ worker = "service" /\ is_stop
  /\ net' = "ended"
  /\ IF Secure THEN UNCHANGED << fault, is_stop, ui, snTimerVars >> ELSE fin_mqtt_sn_client({})
  /\ UNCHANGED << toGw, toClient, gatewayVars, guiVars, worker, session, ops,
                  current_packet_number, is_disconnect_sent, storeVars, chosen >>

-----------------------------------------------------------------------------
UserStep == \/ LogIn \/ LogInFails \/ log_out_handle
            \/ \E t \in Topics : send_sn_subscribe(t)
            \/ \E t \in Topics : send_sn_unsubscribe(t)
            \/ \E c \in Contents, t \in Topics, q \in SnUserQoS : send_sn_message(c, t, q)

GuiStep == \/ send_sn_connect_fire \/ send_sn_connect_timer \/ send_sn_connect_add
           \/ send_numbered \/ send_sn_message_number
           \/ second_read("reg_read", "reg_num") \/ second_read("pub_read", "pub_num")
           \/ send_sn_register \/ send_sn_publish_fire \/ send_sn_publish_add
           \/ send_sn_disconnect_stop \/ send_sn_disconnect_fire

RxStep(a) == \/ rx_connack(a) \/ rx_will(a) \/ rx_register(a) \/ rx_regack(a)
             \/ rx_publish(a) \/ rx_unmatched(a) \/ rx_wrong_cast(a) \/ rx_publish_done(a)
             \/ rx_handshake(a) \/ rx_suback(a) \/ rx_unsuback(a) \/ rx_ignored(a)
             \/ rx_disconnect(a)

RxAny(ping) == \E a \in toClient : (a.type = "PINGRESP") = ping /\ RxStep(a)

ServiceStep == (\E p \in BOOLEAN : RxAny(p)) \/ rx_connack_timers \/ service_ends

PingStep == Alive /\ sn_ping_task /\ UNCHANGED << gatewayVars, clientVars >>

Gateway(A) == Alive /\ A /\ UNCHANGED << snTimerVars, clientVars >>

GatewayStep == \/ \E p \in BOOLEAN : Gateway(GatewayReads(p))
               \/ \E i \in Incoming : Gateway(GatewayPublishes(i))
               \/ Gateway(GatewayDisconnects)

NetworkStep == Gateway(LoseDatagram) \/ Gateway(LoseSocket)

Next == UserStep \/ GuiStep \/ ServiceStep \/ connect_task \/ PingStep
        \/ GatewayStep \/ NetworkStep

\* The threads run on, and each datagram that is not lost is read in the end.
\* The user and the gateway's own initiative are under no obligation.
Fairness == /\ WF_vars(GuiStep)
            /\ WF_vars(ServiceStep)
            /\ WF_vars(RxAny(FALSE))
            /\ WF_vars(connect_task)
            /\ WF_vars(Gateway(GatewayReads(FALSE)))

Spec == Init /\ [][Next]_vars
FairSpec == Spec /\ Fairness

-----------------------------------------------------------------------------
(* Properties.                                                             *)

\* The two topic maps are inverse to each other and give every topic the id
\* that the gateway has for it, whatever REGACK, REGISTER and SUBACK messages
\* were lost, repeated or overtaken.
TopicMapsRight ==
  /\ \A t \in Topics : topic_name_map[t] # 0 =>
       topic_name_map[t] = TopicIdOf[t] /\ reverse_topic_name_map[topic_name_map[t]] = t
  /\ \A i \in TopicIds : reverse_topic_name_map[i] # None =>
       topic_name_map[reverse_topic_name_map[i]] = i

\* What the user publishes on a topic reaches the subscribers of that topic and
\* of no other, also when several registrations are under way.
PublishedToItsTopic ==
  \A c \in Contents : deliveredTo[c] \subseteq {chosen[c].topic}

\* An outgoing message is in the history at most once, however often its PUBACK,
\* PUBCOMP or REGACK arrives; and until then one of the first session is in the
\* map, through the renumbering of the REGACK case as well.
SnSavedOnceOrStored ==
  \A c \in Contents :
    /\ saved[c] <= 1
    /\ (mapState = "live" /\ session = 1 /\ chosen[c].topic # None) =>
         saved[c] = 1 \/ guiMsg.content = c \/ \E i \in SnIds : messages_map[i].content = c

AnswerTypes == { "PUBACK", "PUBCOMP", "SUBACK", "UNSUBACK" }

\* Every variable has its type; what the map holds for an answer on its way is
\* the kind of message that the answer is for, so that the casts of process_sn_rx
\* are right; and a REGACK finds, one number below its own, the PUBLISH that
\* waits for this topic.
SnAnswerMatchesRequest ==
  /\ TypeOK
  /\ \A a \in toClient :
       /\ a.type \in AnswerTypes =>
            messages_map[a.id].type \in { CastTo(a), SnNoMsg.type }
       /\ a.type = "REGACK" =>
            LET p == messages_map[a.id - 1]
            IN  p = SnNoMsg \/ (p.type = "PUBLISH" /\ p.tid = 0 /\ TopicIdOf[p.topic] = a.tid)

\* An incoming message is never stored under the name of another topic.
IncomingNotMisfiled ==
  \A i \in Incoming : received[i] \subseteq { gIn[i], None }

\* While the main window is up, its list and the topic table show the same
\* topics, each once, also after a repeated CONNACK has built the window anew.
SnListMirrorsDb ==
  (Alive /\ ui = "main" /\ gui \notin { "disc_stop", "disc_fire" }) =>
    \A t \in Topics : rows.list[t] = rows.db[t] /\ rows.db[t] <= 1

KeptContents ==
  { c \in Contents : \E m \in {guiMsg} \cup { messages_map[i] : i \in SnIds } :
                       m.type = "PUBLISH" /\ m.content = c }

Chosen(qos) == { c \in Contents : chosen[c].topic # None /\ chosen[c].qos \in qos }

Promise == INSTANCE Publishing WITH
  KeepsAll <- TRUE, asked <- Chosen(SnQoS), assured <- Chosen({ 1, 2 }), kept <- KeptContents,
  passed <- { c \in Contents : deliveredTo[c] # {} }, history <- saved,
  open <- (mapState = "live")

\* The client keeps the promise of Publishing in every session: also through the
\* renumbering of the REGACK case a message leaves the map together with its way
\* into the history, once and after the gateway has passed a QoS 1 or 2 message
\* on, or with the whole map when the session ends.
SnKeepsPromise == Promise!PublishingSpec

\* The log in of the first session ends, with the main window or with an error,
\* when the gateway does not refuse it: a refused CONNACK is told to nobody.
LoginReported == (ui = "loading") ~> (ui # "loading" \/ ~Alive)

SnSessionOver == ~Alive \/ ui # "main" \/ gui \in { "disc_stop", "disc_fire" } \/ net # "open" \/ is_stop

\* On a network that loses nothing, every message is in the history in the end.
SnPublishEventuallySaved ==
  \A c \in Contents : (chosen[c].topic # None) ~> (saved[c] = 1 \/ SnSessionOver)
=============================================================================
