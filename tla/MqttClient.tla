----------------------------- MODULE MqttClient -----------------------------
(***************************************************************************)
(* mqtt/mqtt_client.c with the GUI handlers that call it: the GTK thread   *)
(* (log in, publish, subscribe, unsubscribe, log out), the libwebsockets   *)
(* worker thread (process_rx, fin_mqtt_client) and the timer threads of    *)
(* MqttTimers, against the broker of MqttBroker.                           *)
(*                                                                         *)
(* A handler of the GTK thread is cut where another thread can see it half *)
(* done: `gui' is the call it makes next.  process_rx runs as one step,    *)
(* but for the CONNACK, where the main window is shown before the timers   *)
(* start.                                                                  *)
(***************************************************************************)
EXTENDS MqttTimers, MqttBroker

CONSTANTS
  MaxSessions,    \* bound on log ins
  CleanSession,   \* account->clean_session
  UserQoS,        \* the QoS levels the user publishes with
  SlowConnack     \* TRUE: a CONNACK takes longer than the rest of send_connect
ASSUME ClientBounds == /\ MaxSessions \in Nat
                       /\ CleanSession \in BOOLEAN
                       /\ UserQoS \subseteq QoS
                       /\ SlowConnack \in BOOLEAN

VARIABLES
  gui,        \* what the GTK thread does next
  guiMsg,     \* the packet the running send_* call has built
  worker,     \* "service", or "timers" inside the CONNACK case
  ui,         \* the window on screen: "accounts", "loading", "main"
  session,    \* log ins so far
  connection_established,
  current_packet_number,
  rows,       \* topics in the list box and in the topic table
  saved,      \* rows of the message table with is_incoming = 0, per content
  received,   \* rows of the message table with is_incoming = 1, per message
  issued,     \* history: the packet that was given each identifier
  used,       \* history: contents the user has published
  base        \* history: current_packet_number when the session began

guiVars == << gui, guiMsg, ui, session, current_packet_number, issued, used, base >>
storeVars == << rows, saved, received >>
vars == << linkVars, timerVars, brokerVars, guiVars, storeVars, worker,
           connection_established >>

GuiSteps == { "idle", "conn_fire", "conn_timer", "conn_add", "pub_add",
              "sub_fire", "disc_ping", "disc_fire", "disc_close" }

TypeOK ==
  /\ LinkTypeOK
  /\ TimersTypeOK
  /\ BrokerTypeOK
  /\ gui \in GuiSteps
  /\ guiMsg \in Packet
  /\ worker \in { "service", "timers" }
  /\ ui \in { "accounts", "loading", "main" }
  /\ session \in 0 .. MaxSessions
  /\ connection_established \in BOOLEAN
  /\ current_packet_number \in 0 .. MaxPackets
  /\ rows \in Rows
  /\ saved \in [ Contents -> Nat ]
  /\ received \in [ Incoming -> Nat ]
  /\ issued \in [ Ids -> Packet ]
  /\ used \subseteq Contents
  /\ base \in 0 .. MaxPackets

Init ==
  /\ LinkInit
  /\ TimersInit
  /\ BrokerInit
  /\ gui = "idle"
  /\ guiMsg = NoMsg
  /\ worker = "service"
  /\ ui = "accounts"
  /\ session = 0
  /\ connection_established = FALSE
  /\ current_packet_number = 0
  /\ rows = NoRows
  /\ saved = [ c \in Contents |-> 0 ]
  /\ received = [ i \in Incoming |-> 0 ]
  /\ issued = [ i \in Ids |-> NoMsg ]
  /\ used = {}
  /\ base = 0

Running == proc = "running"

-----------------------------------------------------------------------------
(* The topic list and the message history.                                 *)

\* the SUBACK case: remove if already present, add topic to DB and GUI
subscribed(r, t) ==
  save_topic_to_db(
    add_topics_to_list_box(
      remove_topic_from_db(remove_topic_from_list_box(r, t), t), t), t)

save_message(c) == saved' = [ saved EXCEPT ![c] = @ + 1 ]

-----------------------------------------------------------------------------
(* The GTK thread.                                                         *)

\* activate_main_window_default: set up the client and open the connection.
\* Bound: the user comes back after the worker of the last session has ended
\* and reset `interrupted', and no connecter thread of that session is left.
LogIn ==
  /\ Running
  /\ gui = "idle" /\ ui = "accounts"
  /\ net # "open" /\ ~interrupted
  /\ thread["connecter"] # "running"
  /\ session < MaxSessions
  /\ session' = session + 1
  /\ base' = current_packet_number
  /\ ui' = "loading"
  /\ gui' = "conn_fire"
  /\ guiMsg' = Connect
  /\ issued' = [ issued EXCEPT ![0] = Connect ]
  /\ open_lws_net_connection
  /\ NewConnection
  /\ UNCHANGED << timerVars, storeVars, worker, current_packet_number, used,
                  connection_established >>

\* send_connect: fire, then start the timer, then store under key 0
send_connect_fire ==
  /\ Running
  /\ gui = "conn_fire"
  /\ gui' = "conn_timer"
  /\ encode_and_fire(guiMsg)
  /\ UNCHANGED << net, interrupted, inbox, timerVars, brokerVars, storeVars, worker,
                  guiMsg, ui, session, current_packet_number, issued, used, base,
                  connection_established >>

send_connect_timer ==
  /\ Running
  /\ gui = "conn_timer"
  /\ gui' = "conn_add"
  /\ start_connect_timer
  /\ UNCHANGED << linkVars, brokerVars, storeVars, worker,
                  guiMsg, ui, session, current_packet_number, issued, used, base,
                  connection_established >>

send_connect_add ==
  /\ Running
  /\ gui = "conn_add"
  /\ gui' = "idle"
  /\ guiMsg' = NoMsg
  /\ add_message_in_map(guiMsg)
  /\ connection_established' = TRUE
  /\ UNCHANGED << linkVars, brokerVars, storeVars, worker,
                  ui, session, current_packet_number, issued, used, base >>

NextId == PacketId(current_packet_number + 1)

\* the guard every send_* from the main window shares, and the bound
MayIssue ==
  /\ Running
  /\ gui = "idle" /\ ui = "main"
  /\ current_packet_number < MaxPackets

\* send_subscribe and send_unsubscribe: store, then fire
send_stored(m) ==
  /\ current_packet_number' = current_packet_number + 1
  /\ issued' = [ issued EXCEPT ![m.id] = m ]
  /\ add_message_in_map(m)
  /\ guiMsg' = m
  /\ gui' = "sub_fire"
  /\ UNCHANGED << linkVars, brokerVars, storeVars, worker, ui, session, used, base,
                  connection_established >>

send_subscribe(t) == MayIssue /\ send_stored(Subscribe(NextId, t))

\* the button exists only on the row of a listed topic
send_unsubscribe(t) ==
  MayIssue /\ rows.list[t] > 0 /\ send_stored(Unsubscribe(NextId, t))

send_stored_fire ==
  /\ Running
  /\ gui = "sub_fire"
  /\ gui' = "idle"
  /\ guiMsg' = NoMsg
  /\ encode_and_fire(guiMsg)
  /\ UNCHANGED << net, interrupted, inbox, timerVars, brokerVars, storeVars, worker,
                  ui, session, current_packet_number, issued, used, base,
                  connection_established >>

\* send_publish, first half: number the packet and fire it
send_publish(c, t, q) ==
  /\ MayIssue
  /\ c \notin used
  /\ used' = used \cup {c}
  /\ LET m == Publish(IF q = 0 THEN 0 ELSE NextId, t, q, c)
     IN  /\ encode_and_fire(m)
         /\ guiMsg' = m
         /\ IF q = 0
            THEN UNCHANGED << current_packet_number, issued >>
            ELSE /\ current_packet_number' = current_packet_number + 1
                 /\ issued' = [ issued EXCEPT ![NextId] = m ]
  /\ gui' = "pub_add"
  /\ UNCHANGED << net, interrupted, inbox, timerVars, brokerVars, storeVars, worker,
                  ui, session, base, connection_established >>

\* publish->topic.qos == AT_MOST_ONCE
SavedAtOnce(m) == m.qos = 0

\* send_publish, second half: QoS 0 goes to the history, QoS 1 and 2 to the map
send_publish_add ==
  /\ Running
  /\ gui = "pub_add"
  /\ gui' = "idle"
  /\ guiMsg' = NoMsg
  /\ IF SavedAtOnce(guiMsg)
     THEN save_message(guiMsg.content) /\ UNCHANGED << timerVars, rows, received >>
     ELSE add_message_in_map(guiMsg) /\ UNCHANGED storeVars
  /\ UNCHANGED << linkVars, brokerVars, worker, ui, session,
                  current_packet_number, issued, used, base, connection_established >>

\* log_out_handle up to send_disconnect
log_out_handle ==
  /\ Running
  /\ gui = "idle" /\ ui = "main"
  /\ gui' = "disc_ping"
  /\ rows' = IF CleanSession
             THEN [ list |-> rows.list, db |-> [ t \in Topics |-> 0 ] ] ELSE rows
  /\ UNCHANGED << linkVars, timerVars, brokerVars, saved, received, worker,
                  guiMsg, ui, session, current_packet_number, issued, used, base,
                  connection_established >>

\* send_disconnect: stop_all_timers is stop_ping_timer, then
\* stop_message_timer; each cancels a thread that may not exist yet
send_disconnect_ping ==
  /\ Running
  /\ gui = "disc_ping"
  /\ gui' = "disc_fire"
  /\ stop_ping_timer
  /\ proc' \in IF CancelFaults("pinger") THEN { "running", "crashed" } ELSE { proc }
  /\ UNCHANGED << net, interrupted, outbox, inbox, brokerVars, storeVars, worker,
                  guiMsg, ui, session, current_packet_number, issued, used, base,
                  connection_established >>

send_disconnect_fire ==
  /\ Running
  /\ gui = "disc_fire"
  /\ gui' = "disc_close"
  /\ stop_message_timer
  /\ \/ encode_and_fire(Disconnect)
     \/ /\ CancelFaults("messager")
        /\ proc' = "crashed"
        /\ UNCHANGED outbox
  /\ UNCHANGED << net, interrupted, inbox, brokerVars, storeVars, worker,
                  guiMsg, ui, session, current_packet_number, issued, used, base,
                  connection_established >>

\* lws_close_tcp_connection; then log_out_handle shows the account list
send_disconnect_close ==
  /\ Running
  /\ gui = "disc_close"
  /\ gui' = "idle"
  /\ ui' = "accounts"
  /\ lws_close_tcp_connection
  /\ UNCHANGED << proc, net, outbox, inbox, timerVars, brokerVars, storeVars, worker,
                  guiMsg, session, current_packet_number, issued, used, base,
                  connection_established >>
-----------------------------------------------------------------------------
(* The worker thread: process_rx on the next packet, and RAW_CLOSE.        *)

Rx(types) ==
  /\ Running
  /\ net = "open"
  /\ worker = "service"
  /\ inbox # << >>
  /\ Head(inbox).type \in types
  /\ inbox' = Tail(inbox)

\* outcomes of a step that may touch freed memory or a null pthread_t
MayFault(fault) == proc' \in IF fault THEN { "running", "crashed" } ELSE { proc }

\* bug variant: the loading window is left on screen
connection_unsuccessful_silent == UNCHANGED ui

\* cu_pt: show_account_list_error, then the account list
connection_unsuccessful == ui' = "accounts"

rx_connack ==
  /\ Rx({"CONNACK"})
  /\ SlowConnack => gui \notin { "conn_timer", "conn_add" }
  /\ MayFault(CancelFaults("connecter") \/ MapFaults)
  /\ thread' = cancelled({"connecter"})
  /\ messages_map' = removed(0)
  /\ IF Head(inbox).ok
     THEN /\ ui' = "main"
          /\ rows' = topics_from_db(rows)
          /\ worker' = "timers"
          /\ UNCHANGED interrupted
     ELSE /\ connection_unsuccessful
          /\ lws_close_tcp_connection
          /\ UNCHANGED << rows, worker >>
  /\ UNCHANGED << net, outbox, mapState, hold, tries, brokerVars, saved, received,
                  gui, guiMsg, session, current_packet_number, issued, used, base,
                  connection_established >>

\* the rest of the CONNACK case, after connection_success has shown the window
rx_connack_timers ==
  /\ Running
  /\ worker = "timers"
  /\ worker' = "service"
  /\ start_ping_and_message_timer
  /\ connection_established' = TRUE
  /\ UNCHANGED << linkVars, brokerVars, guiVars, storeVars >>

\* bug variant: the message is answered and not stored
get_message_dropped(i) == UNCHANGED received

\* get_pub_pt: save_message with is_incoming = 1
get_message(i) == received' = [ received EXCEPT ![i] = @ + 1 ]

rx_publish ==
  /\ Rx({"PUBLISH"})
  /\ LET p == Head(inbox)
     IN  /\ get_message(p.id)
         /\ \/ p.qos = 0 /\ UNCHANGED << proc, outbox >>
            \/ p.qos = 1 /\ encode_and_fire(Answer("PUBACK", p.id, TRUE))
            \/ p.qos = 2 /\ encode_and_fire(Answer("PUBREC", p.id, TRUE))
  /\ UNCHANGED << net, interrupted, timerVars, brokerVars, guiVars, worker, rows,
                  saved, connection_established >>

\* the packet that an answer is matched with: NoMsg when the id is unknown
Matched == get_message_from_map(Head(inbox).id)

\* PUBACK and PUBCOMP: the stored PUBLISH goes to the history and is dropped
rx_publish_done ==
  /\ Rx({"PUBACK", "PUBCOMP"})
  /\ MayFault(MapFaults)
  /\ IF Matched = NoMsg
     THEN UNCHANGED << saved, messages_map >>
     ELSE /\ save_message(Matched.content)
          /\ messages_map' = removed(Head(inbox).id)
  /\ UNCHANGED << net, interrupted, outbox, mapState, thread, hold, tries, brokerVars,
                  guiVars, worker, rows, received, connection_established >>

\* bug variant: the PUBREC already takes the PUBLISH out of the map
rx_pubrec_drops ==
  /\ Rx({"PUBREC"})
  /\ encode_and_fire(Answer("PUBREL", Head(inbox).id, TRUE))
  /\ messages_map' = removed(Head(inbox).id)
  /\ UNCHANGED << net, interrupted, mapState, thread, hold, tries, brokerVars, guiVars,
                  worker, storeVars, connection_established >>

\* the PUBLISH stays in the map until the PUBCOMP
rx_pubrec ==
  /\ Rx({"PUBREC"})
  /\ encode_and_fire(Answer("PUBREL", Head(inbox).id, TRUE))
  /\ UNCHANGED << net, interrupted, timerVars, brokerVars, guiVars, worker, storeVars,
                  connection_established >>

rx_pubrel ==
  /\ Rx({"PUBREL"})
  /\ encode_and_fire(Answer("PUBCOMP", Head(inbox).id, TRUE))
  /\ UNCHANGED << net, interrupted, timerVars, brokerVars, guiVars, worker, storeVars,
                  connection_established >>

\* bug variant: the return code is not looked at
Granted_unchecked(a) == TRUE

\* codes[0] != FAILURE
Granted(a) == a.ok

rx_suback ==
  /\ Rx({"SUBACK"})
  /\ MayFault(MapFaults)
  /\ IF Matched = NoMsg
     THEN UNCHANGED << rows, messages_map >>
     ELSE /\ rows' = IF Granted(Head(inbox)) THEN subscribed(rows, Matched.topic) ELSE rows
          /\ messages_map' = removed(Head(inbox).id)
  /\ UNCHANGED << net, interrupted, outbox, mapState, thread, hold, tries, brokerVars,
                  guiVars, worker, saved, received, connection_established >>

rx_unsuback ==
  /\ Rx({"UNSUBACK"})
  /\ MayFault(MapFaults)
  /\ IF Matched = NoMsg
     THEN UNCHANGED << rows, messages_map >>
     ELSE /\ rows' = unsubscribed(rows, Matched.topic)
          /\ messages_map' = removed(Head(inbox).id)
  /\ UNCHANGED << net, interrupted, outbox, mapState, thread, hold, tries, brokerVars,
                  guiVars, worker, saved, received, connection_established >>

rx_pingresp ==
  /\ Rx({"PINGRESP"})
  /\ UNCHANGED << proc, net, interrupted, outbox, timerVars, brokerVars, guiVars,
                  worker, storeVars, connection_established >>

\* send_disconnect(); exit(-1): what the calls did dies with the process
rx_unacceptable ==
  /\ Rx({"CONNECT", "SUBSCRIBE", "UNSUBSCRIBE", "PINGREQ", "DISCONNECT"})
  /\ proc' \in { "exited" } \cup
               IF MapFaults \/ CancelFaults("pinger") \/ CancelFaults("messager")
               THEN { "crashed" } ELSE {}
  /\ UNCHANGED << net, interrupted, outbox, timerVars, brokerVars, guiVars,
                  worker, storeVars, connection_established >>

\* LWS_CALLBACK_RAW_CLOSE: fin_mqtt_client, then interrupted = 1
raw_close ==
  /\ Running
  /\ net = "open" /\ worker = "service"
  /\ bConn = "closed" /\ inbox = << >>
  /\ ~interrupted
  /\ interrupted' = TRUE
  /\ IF connection_established
     THEN UNCHANGED << proc, ui, timerVars >>
     ELSE /\ connection_unsuccessful
          /\ mapState' = IF mapState = "null" THEN "null" ELSE "destroyed"
          /\ messages_map' = EmptyMap
          /\ thread' = cancelled({"pinger", "messager"})
          /\ MayFault(CancelFaults("pinger") \/ CancelFaults("messager"))
          /\ UNCHANGED << hold, tries >>
  /\ UNCHANGED << net, outbox, inbox, brokerVars, gui, guiMsg, session, issued, used,
                  base, current_packet_number, worker, storeVars,
                  connection_established >>

service_task_ends ==
  /\ Running
  /\ worker = "service"
  /\ ServiceTaskEnds
  /\ UNCHANGED << timerVars, brokerVars, guiVars, worker, storeVars,
                  connection_established >>

-----------------------------------------------------------------------------
GuiStep == \/ send_connect_fire \/ send_connect_timer \/ send_connect_add
           \/ send_stored_fire \/ send_publish_add
           \/ send_disconnect_ping \/ send_disconnect_fire \/ send_disconnect_close

UserStep == \/ LogIn
            \/ \E t \in Topics : send_subscribe(t)
            \/ \E t \in Topics : send_unsubscribe(t)
            \/ \E c \in Contents, t \in Topics, q \in UserQoS : send_publish(c, t, q)
            \/ log_out_handle

WorkerStep == \/ rx_connack \/ rx_connack_timers \/ rx_publish \/ rx_publish_done
              \/ rx_pubrec \/ rx_pubrel \/ rx_suback \/ rx_unsuback \/ rx_pingresp
              \/ rx_unacceptable \/ raw_close \/ service_task_ends

restOfClient == << guiVars, storeVars, worker, connection_established >>

Timer(A) == Running /\ A /\ UNCHANGED << brokerVars, restOfClient >>

TimerStep == \/ Timer(connect_task)
             \/ Timer(ping_task)
             \/ \E i \in Ids : Timer(message_resend_task(i))
             \/ \E th \in Threads : Timer(TimerFires(th))
             \/ \E th \in Threads : Timer(TimerReadsFreedMap(th))

Broker(A) == Running /\ A /\ UNCHANGED << timerVars, restOfClient >>

BrokerStep == \/ Broker(BrokerReads)
              \/ \E i \in Incoming : Broker(BrokerPublishes(i))
              \/ Broker(BrokerCloses)
              \/ Broker(BrokerSendsUnacceptable)

Next == UserStep \/ GuiStep \/ WorkerStep \/ TimerStep \/ BrokerStep

\* Every thread that is not asleep for good gets processor time, and the
\* broker answers.  message_resend_task visits every entry in each of its
\* passes, so no entry is passed over for ever (strong fairness): the user is
\* under no obligation.
Fairness ==
  /\ WF_vars(GuiStep)
  /\ WF_vars(WorkerStep)
  /\ WF_vars(Broker(BrokerReads))
  /\ \A th \in Threads : WF_vars(Timer(TimerFires(th)))
  /\ \A i \in Ids : SF_vars(Timer(message_resend_task(i)))

Spec == Init /\ [][Next]_vars
FairSpec == Spec /\ Fairness

-----------------------------------------------------------------------------
(* Properties.                                                             *)

PublishIds == { i \in Ids : issued[i].type = "PUBLISH" }

LoggingOut == gui \in { "disc_ping", "disc_fire", "disc_close" }

\* A message of the history was published once, however often its packet was
\* resent and acknowledged: the PUBACK/PUBCOMP cases of process_rx save the
\* stored PUBLISH and drop it, and a late second answer finds nothing.
SavedOnce == \A c \in Contents : saved[c] <= 1

\* A QoS 1 or 2 PUBLISH is never forgotten while the session lasts: until it is
\* in the history, it is in the retransmission map or the GTK thread is between
\* the fire and the store of send_publish, also when its answer came earlier.
NoPublishLost ==
  mapState = "live" =>
    \A i \in PublishIds : i > base =>
      \/ messages_map[i] = issued[i]
      \/ guiMsg = issued[i]
      \/ saved[issued[i].content] = 1

\* The history shows a QoS 1 or 2 message only after the broker has passed it
\* on: the answer that moves it there belongs to that very message.
SavedWasDelivered ==
  \A i \in PublishIds :
    saved[issued[i].content] > 0 => delivered[issued[i].content] > 0

\* the packet type, and the QoS of a PUBLISH, that an answer is about
Request(type) ==
  CASE type = "PUBACK" -> << "PUBLISH", 1 >>
    [] type \in { "PUBREC", "PUBCOMP" } -> << "PUBLISH", 2 >>
    [] type = "SUBACK" -> << "SUBSCRIBE", 0 >>
    [] type = "UNSUBACK" -> << "UNSUBSCRIBE", 0 >>

AnswerTypes == { "PUBACK", "PUBREC", "PUBCOMP", "SUBACK", "UNSUBACK" }

\* The (struct Publish*), (struct Subscribe*) and (struct Unsubscribe*) casts of
\* process_rx are right: what the map holds under the identifier of an answer
\* is the kind of packet that the answer is for.
AnswerMatchesRequest ==
  \A k \in 1 .. Len(inbox) :
    LET a == inbox[k]
        m == get_message_from_map(a.id)
    IN  (a.type \in AnswerTypes /\ m # NoMsg) => Request(a.type) = << m.type, m.qos >>

\* While the main window is up, its topic list and the topic table show the
\* same topics, each once, whatever SUBACKs, UNSUBACKs and repeats came in.
ListMirrorsDb ==
  (ui = "main" /\ ~LoggingOut) =>
    \A t \in Topics : rows.list[t] = rows.db[t] /\ rows.db[t] <= 1

\* What the broker counts as acknowledged is in the client's message table,
\* and no message is stored twice in a session.
IncomingStored ==
  \A i \in Incoming :
    /\ received[i] <= session
    /\ bIn[i] \in { "received", "done" } => received[i] >= 1

Settled ==
  /\ Running
  /\ ui = "main" /\ gui = "idle" /\ worker = "service"
  /\ net = "open" /\ bConn = "accepted"
  /\ outbox = << >> /\ inbox = << >>
  /\ \A th \in Threads : hold[th] = NoMsg

\* When nothing is in flight, the topic list shows what the broker has
\* subscribed the session to.
SubscriptionsAgree ==
  Settled => bSubs = { t \in Topics : rows.list[t] > 0 }

\* A QoS 2 message reaches the broker's subscribers once.
DeliveredOnce ==
  \A i \in PublishIds : issued[i].qos = 2 => delivered[issued[i].content] <= 1

\* g_hash_table_insert never replaces an unanswered packet by another one.
NoOverwrite ==
  [][ \A i \in Ids : (messages_map[i] # NoMsg /\ messages_map'[i] # NoMsg)
                       => messages_map'[i] = messages_map[i] ]_vars

\* The messages in the hands of the client: of send_publish, between its fire and
\* its second half, or of the retransmission map.
KeptContents ==
  { c \in Contents : \E m \in {guiMsg} \cup { messages_map[i] : i \in Ids } :
                       m.type = "PUBLISH" /\ m.content = c }

Promise == INSTANCE Publishing WITH
  KeepsAll <- TRUE, asked <- used, assured <- { issued[i].content : i \in PublishIds },
  kept <- KeptContents, passed <- { c \in Contents : delivered[c] > 0 },
  history <- saved, open <- (mapState = "live")

\* The client keeps the promise of Publishing in every session: a message leaves
\* the map together with its way into the history, once and after the broker has
\* passed a QoS 1 or 2 message on, or with the whole map when the session ends.
MqttKeepsPromise == Promise!PublishingSpec

SessionOver == ~Running \/ ui # "main" \/ LoggingOut \/ bConn = "closed"

\* Every QoS 1 or 2 message is acknowledged and stored in the end, if the user
\* stays and the broker keeps the connection.
PublishEventuallySaved ==
  \A i \in Ids : (i \in PublishIds /\ i > base)
                   ~> (SessionOver \/ (i \in PublishIds /\ saved[issued[i].content] = 1))

\* The loading window does not stay for ever when the broker answers.
LoginCompletes == (ui = "loading") ~> (~Running \/ ui # "loading")

=============================================================================
