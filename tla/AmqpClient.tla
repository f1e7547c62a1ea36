----------------------------- MODULE AmqpClient -----------------------------
(***************************************************************************)
(* amqp/amqp_client.c with the GUI handlers that call it, on top of        *)
(* AmqpTimers and against AmqpPeer.  process_amqp_rx is one step per       *)
(* frame, the BEGIN case included: the user is taken to be slower with the *)
(* first button than the worker with the loop that attaches the stored     *)
(* topics (the two share next_handle without a lock).  A failing           *)
(* pthread_create ends the program and is left out.                        *)
(***************************************************************************)
EXTENDS AmqpPeer, SequencesExt

CONSTANTS
  MaxSessions,       \* bound on log ins
  CleanSession,      \* account->clean_session
  OutboxBound,       \* bound on frames in q when the user presses a button
  UserSettled        \* the window offers QoS 1 only: { FALSE }
ASSUME AmqpClientBounds ==
  /\ {MaxSessions, OutboxBound} \subseteq Nat
  /\ CleanSession \in BOOLEAN /\ UserSettled \subseteq BOOLEAN
  /\ IsFiniteSet(Topics)
\* the spin button of the main window goes from 1 to 1 for AMQP (gui/main_w.c:389)
ASSUME AmqpQosOne == UserSettled \subseteq { FALSE }

VARIABLES
  gui,                    \* what the GTK thread does next
  ui, session,
  next_handle, packet_id_counter, is_connected,
  rows, saved,            \* topic list and table; sent messages in the history
  received,               \* topics under which each incoming message was stored
  published               \* history: the transfer and session of each content

amqpGuiVars == << gui, ui, session, published >>
counterVars == << next_handle, packet_id_counter, is_connected >>
storeVars == << rows, saved, received >>
vars == << fault, amqpNetVars, tableVars, threadVars, peerVars, amqpGuiVars, counterVars, storeVars >>

NotPublished == [ frame |-> NoFrame, session |-> 0 ]

TypeOK ==
  /\ AmqpTimersTypeOK
  /\ AmqpPeerTypeOK
  /\ gui \in { "idle", "conn_fire", "conn_timer", "disc_fire" }
  /\ ui \in { "accounts", "loading", "main" }
  /\ session \in 0 .. MaxSessions
  /\ next_handle \in 1 .. MaxHandle + 1
  /\ packet_id_counter \in 1 .. MaxDelivery + 1
  /\ is_connected \in BOOLEAN
  /\ rows \in Rows
  /\ saved \in [ Contents -> Nat ]
  /\ received \in [ AmqpIncoming -> SUBSET Topics ]
  /\ published \in [ Contents -> [ frame : Frame, session : 0 .. MaxSessions ] ]

Init ==
  /\ AmqpTimersInit
  /\ AmqpPeerInit
  /\ gui = "idle" /\ ui = "accounts" /\ session = 0
  /\ next_handle = 1 /\ packet_id_counter = 1 /\ is_connected = FALSE
  /\ rows = NoRows
  /\ saved = [ c \in Contents |-> 0 ]
  /\ received = [ i \in AmqpIncoming |-> {} ]
  /\ published = [ c \in Contents |-> NotPublished ]

\* bug variant: the stored topics are not attached
StoredTopics_none == << >>

\* get_topics_from_db, in the order of the rows
StoredTopics == SetToSeq({ t \in Topics : topics_from_db(rows).db[t] > 0 })

-----------------------------------------------------------------------------
(* The GTK thread.                                                         *)

Gui(from, to) == Alive /\ gui = from /\ gui' = to

\* activate_main_window_default, init_amqp_client.  Bound: the user comes back
\* when the worker and the resend pass of the last session have ended,
\* and handles are left for the stored topics.
LogIn ==
  /\ Gui("idle", "conn_fire")
  /\ ui = "accounts" /\ net # "open" /\ ~interrupted /\ hold = NoFrame
  /\ session < MaxSessions /\ next_handle + Len(StoredTopics) <= ServerHandle
  /\ session' = session + 1
  /\ ui' = "loading"
  /\ net' = "open" /\ outbox' = << >> /\ inbox' = << >>
  /\ NewLink
  /\ UNCHANGED << fault, interrupted, tableVars, threadVars, clash, delivered, pIn, pTopic,
                  published, counterVars, storeVars >>

\* start_amqp_connect: the protocol header of SASL, then the timer
start_amqp_connect_fire ==
  /\ Gui("conn_fire", "conn_timer")
  /\ amqp_encode_and_fire(Verdict("PROTO", FALSE))
  /\ UNCHANGED << net, interrupted, inbox, tableVars, threadVars, peerVars, ui, session,
                  published, counterVars, storeVars >>

start_amqp_connect_timer ==
  /\ Gui("conn_timer", "idle")
  /\ amqp_start_connect_timer
  /\ UNCHANGED << fault, amqpNetVars, tableVars, peerVars, ui, session, published,
                  counterVars, storeVars >>

Button == Gui("idle", "idle") /\ ui = "main" /\ Len(outbox) < OutboxBound

\* the bound on handles; and the client does not get to the handle of the peer's
\* own link before it has heard of that link
FreshHandle ==
  /\ next_handle <= MaxHandle
  /\ next_handle = ServerHandle => reverse_topic_name_map[ServerHandle] # NoTopic

\* add_topic_button_handle asks for no topic that is stored already
send_amqp_attach(t) ==
  /\ Button
  /\ rows.db[t] = 0
  /\ FreshHandle
  /\ next_handle' = next_handle + 1
  /\ amqp_add_link(next_handle, t)
  /\ use_and_fire(<< Attach("RECEIVER", next_handle, t) >>)
  /\ UNCHANGED << net, interrupted, inbox, m_handler, m_delivery_id, topic_name_map_outgoing,
                  tables, threadVars, peerVars, ui, session, published, packet_id_counter,
                  is_connected, storeVars >>

\* bug variant: the link is forgotten before the peer has confirmed the DETACH
send_amqp_detach_eager(t) ==
  /\ Button
  /\ rows.list[t] > 0
  /\ amqp_get_handler_from_map(t) # 0
  /\ rows' = unsubscribed(rows, t)
  /\ amqp_remove_link(amqp_get_handler_from_map(t), t)
  /\ use_and_fire(<< Detach(amqp_get_handler_from_map(t)) >>)
  /\ UNCHANGED << net, interrupted, inbox, m_handler, m_delivery_id, topic_name_map_outgoing,
                  tables, threadVars, peerVars, ui, session, published, counterVars,
                  saved, received >>

\* the button of a listed topic; without a handle nothing is sent
send_amqp_detach(t) ==
  /\ Button
  /\ rows.list[t] > 0
  /\ use_and_fire(IF amqp_get_handler_from_map(t) = 0 THEN << >>
                  ELSE << Detach(amqp_get_handler_from_map(t)) >>)
  /\ UNCHANGED << net, interrupted, inbox, tableVars, threadVars, peerVars, ui, session,
                  published, counterVars, storeVars >>

\* on a link that is known the transfer is only fired; else it waits in
\* m_handler for the answer to an ATTACH
send_amqp_transfer(c, t, settled) ==
  /\ Button
  /\ published[c] = NotPublished
  /\ packet_id_counter <= MaxDelivery
  /\ packet_id_counter' = packet_id_counter + 1
  /\ LET h == amqp_get_handler_from_map_outgoing(t)
         f == Transfer(IF h # 0 THEN h ELSE next_handle, packet_id_counter, settled, c)
     IN  /\ published' = [ published EXCEPT ![c] = [ frame |-> f, session |-> session ] ]
         /\ \/ /\ h # 0
               /\ use_and_fire(<< f >>)
               /\ UNCHANGED << next_handle, tableVars >>
            \/ /\ h = 0
               /\ FreshHandle
               /\ next_handle' = next_handle + 1
               /\ amqp_add_link_outgoing(next_handle, t)
               /\ m_handler' = with_message_by_handler(f)
               /\ use_and_fire(<< Attach("SENDER", next_handle, t) >>)
               /\ UNCHANGED << m_delivery_id, topic_name_map, tables >>
  /\ UNCHANGED << net, interrupted, inbox, threadVars, peerVars, ui, session, is_connected,
                  storeVars >>

\* log_out_handle up to send_disconnect
log_out_handle ==
  /\ Gui("idle", "disc_fire")
  /\ ui = "main"
  /\ rows' = IF CleanSession
             THEN [ list |-> rows.list, db |-> [ t \in Topics |-> 0 ] ] ELSE rows
  /\ UNCHANGED << fault, amqpNetVars, tableVars, threadVars, peerVars, ui, session, published,
                  counterVars, saved, received >>

\* the rest of log_out_handle: END, then the account list
send_amqp_end ==
  /\ Gui("disc_fire", "idle")
  /\ next_handle' = 1 /\ packet_id_counter' = 1
  /\ amqp_encode_and_fire(Plain("END"))
  /\ ui' = "accounts"
  /\ UNCHANGED << net, interrupted, inbox, tableVars, threadVars, peerVars, session, published,
                  is_connected, storeVars >>

-----------------------------------------------------------------------------
(* The worker thread: process_amqp_rx.                                     *)

\* net_service_task looks at `interrupted' after every lws_service (bound: after
\* every frame)
Rx(types) ==
  /\ Alive /\ net = "open" /\ ~interrupted
  /\ inbox # << >> /\ Head(inbox).type \in types
  /\ inbox' = Tail(inbox)

\* PROTO, MECHANISMS, END and a good OUTCOME: an answer, and nothing else
AnswerTo(f) ==
  CASE f.type = "PROTO" /\ f.ok -> << Plain("OPEN") >>
    [] f.type = "PROTO" /\ ~f.ok -> << >>
    [] f.type = "MECHANISMS" -> << Plain("INIT") >>
    [] f.type = "OUTCOME" -> << Verdict("PROTO", TRUE) >>
    [] f.type = "END" -> << Plain("CLOSE") >>

rx_answered ==
  /\ Rx({ "PROTO", "MECHANISMS", "END", "OUTCOME" })
  /\ Head(inbox).type = "OUTCOME" => Head(inbox).ok
  /\ fire_all(AnswerTo(Head(inbox)))
  /\ UNCHANGED << net, interrupted, tableVars, threadVars, peerVars, amqpGuiVars, counterVars,
                  storeVars >>

\* bug variant: the loading window is left on screen
connection_unsuccessful_silent == UNCHANGED ui

\* cu_pt: show_account_list_error, then the account list
connection_unsuccessful == ui' = "accounts"

\* an OUTCOME that is no success: the connecter thread goes on
rx_outcome_refused ==
  /\ Rx({ "OUTCOME" })
  /\ ~Head(inbox).ok
  /\ connection_unsuccessful
  /\ UNCHANGED << fault, net, interrupted, outbox, tableVars, threadVars, peerVars, gui, session,
                  published, counterVars, storeVars >>

send_amqp_begin == amqp_encode_and_fire(Plain("BEGIN"))

\* (bound: the four answers of the peer take longer than one pthread_create)
rx_open ==
  /\ Rx({ "OPEN" })
  /\ gui # "conn_timer"
  /\ stop_connect_and_start_ping
  /\ start_amqp_ping_timer
  /\ send_amqp_begin
  /\ UNCHANGED << net, interrupted, peerVars, amqpGuiVars, counterVars, storeVars >>

\* cs_pt shows the main window; every stored topic gets a link; the messager starts
rx_begin ==
  /\ Rx({ "BEGIN" })
  /\ ui' = "main"
  /\ rows' = topics_from_db(rows)
  /\ LET n == Len(StoredTopics)
         handle(t) == next_handle + (CHOOSE k \in 1 .. n : StoredTopics[k] = t) - 1
     IN  /\ next_handle' = next_handle + n
         /\ topic_name_map' = [ t \in Topics |->
              IF t \in ToSet(StoredTopics) THEN Short(handle(t)) ELSE topic_name_map[t] ]
         /\ reverse_topic_name_map' = [ h \in Handles |->
              IF h \in next_handle .. next_handle + n - 1
              THEN StoredTopics[h - next_handle + 1] ELSE reverse_topic_name_map[h] ]
         /\ fire_all([ k \in 1 .. n |-> Attach("RECEIVER", next_handle + k - 1, StoredTopics[k]) ])
  /\ is_connected' = TRUE
  /\ amqp_start_message_timer
  /\ UNCHANGED << net, interrupted, m_handler, m_delivery_id, topic_name_map_outgoing, tables,
                  peerVars, gui, session, published, packet_id_counter, saved, received >>

save_message(c) == saved' = [ saved EXCEPT ![c] = @ + 1 ]

\* the answer to the client's ATTACH as a sender: the waiting transfer is fired
\* and, unless settled, kept for resending
rx_attach_receiver ==
  /\ Rx({ "ATTACH" })
  /\ Head(inbox).role = "RECEIVER"
  /\ LET h == amqp_get_handler_from_map_outgoing(Head(inbox).topic)
         f == amqp_get_message_from_map_by_handler(h)
     IN  IF h = 0 \/ f = NoFrame
         THEN UNCHANGED << fault, outbox, m_handler, m_delivery_id, saved >>
         ELSE /\ amqp_encode_and_fire(f)
              /\ m_handler' = without_message_handler(h)
              /\ IF f.settled
                 THEN save_message(f.data) /\ UNCHANGED m_delivery_id
                 ELSE m_delivery_id' = with_message_by_delivery_id(f) /\ UNCHANGED saved
  /\ UNCHANGED << net, interrupted, topic_name_map, topic_name_map_outgoing,
                  reverse_topic_name_map, tables, threadVars, peerVars, amqpGuiVars,
                  counterVars, rows, received >>

\* if (*(attach->handle) >= next_handle) next_handle = *(attach->handle) + 1
HandleAfter(h) == IF h >= next_handle THEN h + 1 ELSE next_handle

\* a link on which the peer sends: listed and stored if the handle is known
rx_attach_sender ==
  /\ Rx({ "ATTACH" })
  /\ Head(inbox).role = "SENDER"
  /\ LET f == Head(inbox)
     IN  /\ rows' = IF amqp_get_topic_name_from_map(f.handle) = NoTopic THEN rows
                    ELSE save_topic_to_db(add_topics_to_list_box(rows, f.topic), f.topic)
         /\ amqp_add_link(f.handle, f.topic)
         /\ next_handle' = HandleAfter(f.handle)
  /\ UNCHANGED << fault, net, interrupted, outbox, m_handler, m_delivery_id,
                  topic_name_map_outgoing, tables, threadVars, peerVars, amqpGuiVars,
                  packet_id_counter, is_connected, saved, received >>

\* update_messages_window does not survive a handle without a topic
rx_transfer ==
  /\ Rx({ "TRANSFER" })
  /\ LET f == Head(inbox)
         t == amqp_get_topic_name_from_map(f.handle)
     IN  IF t = NoTopic
         THEN fault' = "null_topic" /\ UNCHANGED << outbox, received >>
         ELSE /\ fire_all(IF f.settled THEN << >> ELSE << Disposition(f.id) >>)
              /\ received' = [ received EXCEPT ![f.data] = @ \cup {t} ]
  /\ UNCHANGED << net, interrupted, tableVars, threadVars, peerVars, amqpGuiVars, counterVars,
                  rows, saved >>

\* a transfer that was never stored, or is gone: nothing
rx_disposition ==
  /\ Rx({ "DISPOSITION" })
  /\ LET f == amqp_get_message_from_map_by_delivery_id(Head(inbox).id)
     IN  IF f = NoFrame
         THEN UNCHANGED << m_delivery_id, saved >>
         ELSE /\ save_message(f.data)
              /\ m_delivery_id' = without_message_delivery_id(Head(inbox).id)
  /\ UNCHANGED << fault, net, interrupted, outbox, m_handler, topic_name_map,
                  topic_name_map_outgoing, reverse_topic_name_map, tables, threadVars, peerVars,
                  amqpGuiVars, counterVars, rows, received >>

rx_detach ==
  /\ Rx({ "DETACH" })
  /\ LET h == Head(inbox).handle
         t == amqp_get_topic_name_from_map(h)
     IN  IF t = NoTopic
         THEN UNCHANGED << rows, topic_name_map, reverse_topic_name_map >>
         ELSE rows' = unsubscribed(rows, t) /\ amqp_remove_link(h, t)
  /\ UNCHANGED << fault, net, interrupted, outbox, m_handler, m_delivery_id,
                  topic_name_map_outgoing, tables, threadVars, peerVars, amqpGuiVars,
                  counterVars, saved, received >>

rx_close ==
  /\ Rx({ "CLOSE" })
  /\ IF is_connected THEN UNCHANGED ui ELSE connection_unsuccessful
  /\ is_connected' = FALSE
  /\ interrupted' = TRUE
  /\ UNCHANGED << fault, net, outbox, tableVars, threadVars, peerVars, gui, session, published,
                  next_handle, packet_id_counter, storeVars >>

\* the socket is closed, by the peer or by lws_context_destroy: RAW_CLOSE calls
\* stop_pt, which is stop_amqp_client; then net_service_task ends
service_task_ends ==
  /\ Alive /\ net = "open"
  /\ interrupted \/ (pConn = "closed" /\ inbox = << >>)
  /\ amqp_stop_all_timers
  /\ net' = "down" /\ interrupted' = FALSE
  /\ outbox' = << >> /\ inbox' = << >>
  /\ pConn' = "none"
  /\ UNCHANGED << pSub, pPub, clash, delivered, pIn, pTopic, amqpGuiVars, counterVars, storeVars >>

-----------------------------------------------------------------------------
UserStep == \/ LogIn
            \/ \E t \in Topics : send_amqp_attach(t)
            \/ \E t \in Topics : send_amqp_detach(t)
            \/ \E c \in Contents, t \in Topics, s \in UserSettled : send_amqp_transfer(c, t, s)
            \/ log_out_handle

GuiStep == start_amqp_connect_fire \/ start_amqp_connect_timer \/ send_amqp_end

WorkerStep == \/ rx_answered \/ rx_outcome_refused \/ rx_open \/ rx_begin \/ rx_attach_receiver
              \/ rx_attach_sender \/ rx_transfer \/ rx_disposition \/ rx_detach \/ rx_close
              \/ service_task_ends

restOfClient == << amqpGuiVars, counterVars, storeVars >>

Timer(A) == Alive /\ A /\ UNCHANGED << peerVars, restOfClient >>

TimerStep == \/ Timer(amqp_connect_task)
             \/ Timer(amqp_ping_task)
             \/ \E id \in Deliveries : Timer(amqp_message_resend_task(id))
             \/ Timer(amqp_message_resend_fire)

Peer(A) == Alive /\ A /\ UNCHANGED << fault, net, interrupted, tableVars, threadVars, restOfClient >>

PeerStep == \/ Peer(PeerReads)
            \/ \E t \in Topics : Peer(PeerAttaches(t))
            \/ \E i \in AmqpIncoming, h \in Handles : Peer(PeerTransfers(i, h))
            \/ Peer(PeerCloses)

Next == UserStep \/ GuiStep \/ WorkerStep \/ TimerStep \/ PeerStep

Spec == Init /\ [][Next]_vars

-----------------------------------------------------------------------------
(* Properties.                                                             *)

InSession == tables = "live" /\ net = "open" /\ pConn = "begun" /\ ~interrupted

\* Every variable has its type; the tables of names and of handles are inverse:
\* the handle under which a topic is known, for either direction, leads back to
\* the topic, whatever attaches and detaches of client and peer were answered in
\* between; and no handle is attached while another link of the session uses it.
LinkTablesAgree ==
  /\ TypeOK
  /\ tables = "live" =>
       \A t \in Topics : \A h \in { topic_name_map[t], topic_name_map_outgoing[t] } :
         h # 0 => reverse_topic_name_map[h] = t
  /\ ~clash

\* A message of the peer is filed under the topic it was sent on, and never
\* arrives on a handle whose topic the DETACH case has already forgotten.
AmqpIncomingFiled ==
  /\ fault # "null_topic"
  /\ \A i \in AmqpIncoming : received[i] \subseteq { pTopic[i] }

\* A message the user published waits for its link, waits for its disposition,
\* is on its way, or has reached the peer, as long as the session lasts.  The
\* history shows it once, and only if the peer has it: the DISPOSITION case drops
\* the stored transfer, so an answer to a copy that was resent finds nothing, and
\* no delivery id of an earlier session is found.
AmqpSavedOnceOrStored ==
  \A c \in Contents :
    LET f == published[c].frame
    IN  /\ saved[c] <= 1 /\ (saved[c] = 1 => delivered[c] > 0)
        /\ (InSession /\ published[c].session = session) =>
             \/ m_handler[f.handle] = f
             \/ m_delivery_id[f.id] = f
             \/ ~NotQueued(f)
             \/ delivered[c] > 0

KeptContents ==
  { c \in Contents : \E f \in { m_handler[h] : h \in Handles } \cup { m_delivery_id[id] : id \in Deliveries } :
                       f.type = "TRANSFER" /\ f.data = c }

Published == { c \in Contents : published[c] # NotPublished }

Promise == INSTANCE Publishing WITH
  KeepsAll <- FALSE, asked <- Published, assured <- Published, kept <- KeptContents,
  passed <- { c \in Contents : delivered[c] > 0 }, history <- saved, open <- (tables = "live")

\* The client keeps the promise of Publishing: a transfer that waits for its link
\* or its disposition leaves the tables together with its way into the history,
\* once and after the peer has it, or with the tables when the session ends.  A
\* transfer on a link that is attached already is sent and not kept.
AmqpKeepsPromise == Promise!PublishingSpec

Settled == InSession /\ ui = "main" /\ gui = "idle" /\ Alive /\ outbox = << >> /\ inbox = << >>

\* The list box and the topic table show the same topics, each once; and when
\* nothing is in flight, a topic in the list has a link on which the peer sends,
\* also after the stored topics were attached anew in a later session.
ListedIsLinked ==
  /\ (ui = "main" /\ gui = "idle") =>
       \A t \in Topics : rows.list[t] = rows.db[t] /\ rows.db[t] <= 1
  /\ Settled => \A t \in Topics : rows.list[t] > 0 => \E h \in Handles : pSub[h] = t

\* A log in never stalls with each side waiting for the other: while the loading
\* window is up on a working connection, some frame of the log in is on its way.
LoginNeverStalls ==
  (ui = "loading" /\ gui \in { "conn_timer", "idle" } /\ net = "open" /\ Alive
     /\ ~interrupted /\ pConn # "closed") =>
    inbox # << >> \/ \E k \in 1 .. Len(outbox) : outbox[k].type # "PING"
=============================================================================
