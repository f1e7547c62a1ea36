----------------------------- MODULE CoapClient -----------------------------
(***************************************************************************)
(* coap/coap_client.c with the GUI handlers that call it, on top of        *)
(* CoapTimers and against CoapServer.  CoAP has no connection: log in      *)
(* sends a ping, and the first datagram that comes back, whatever it is,   *)
(* opens the main window and creates the map.  The connector thread gives  *)
(* up after five seconds.                                                  *)
(***************************************************************************)
EXTENDS CoapServer

CONSTANTS
  CoapMaxSessions,   \* bound on log ins
  CoapCleanSession,  \* account->clean_session
  SlowUser           \* TRUE: no button is pressed before the map exists
ASSUME CoapClientBounds ==
  CoapMaxSessions \in Nat /\ {CoapCleanSession, SlowUser} \subseteq BOOLEAN

VARIABLES
  gui,                    \* what the GTK thread does next
  guiMsg,                 \* the message it is about to fire
  rx,                     \* the datagram that process_coap_rx has in hand
  worker,                 \* the service thread: "service", or "timers" after cs_pt
  ui, session,
  init_connect,
  current_packet_number,
  rows, saved,            \* topic list and table; sent messages in the history
  received,               \* topics under which each incoming message was stored
  junk,                   \* history rows made from a message that is no publish
  published               \* history: session in which each content was published

coapGuiVars == << gui, guiMsg, session, current_packet_number, published >>
storeVars == << rows, saved, received, junk >>
coapClientVars == << coapGuiVars, rx, worker, ui, init_connect, storeVars >>
vars == << coapNetVars, coapTimerVars, serverVars, coapClientVars >>

TypeOK ==
  /\ CoapTimersTypeOK
  /\ CoapServerTypeOK
  /\ gui \in { "idle", "conn_fire", "conn_timer", "op_fire", "disc_msg", "disc_net" }
  /\ guiMsg \in CoapMessage
  /\ rx \in CoapMessage
  /\ worker \in { "service", "timers" }
  /\ ui \in { "accounts", "loading", "main" }
  /\ session \in 0 .. CoapMaxSessions
  /\ init_connect \in BOOLEAN
  /\ current_packet_number \in CoapIds
  /\ rows \in Rows
  /\ saved \in [ Contents -> Nat ]
  /\ received \in [ Incoming -> SUBSET Topics ]
  /\ junk \in BOOLEAN
  /\ published \in [ Contents -> 0 .. CoapMaxSessions ]

Init ==
  /\ CoapTimersInit
  /\ CoapServerInit
  /\ gui = "idle" /\ guiMsg = CoapNoMsg
  /\ rx = CoapNoMsg /\ worker = "service"
  /\ ui = "accounts"
  /\ session = 0
  /\ init_connect = FALSE
  /\ current_packet_number = 0
  /\ rows = NoRows
  /\ saved = [ c \in Contents |-> 0 ]
  /\ received = [ i \in Incoming |-> {} ]
  /\ junk = FALSE
  /\ published = [ c \in Contents |-> 0 ]

-----------------------------------------------------------------------------
(* The GTK thread.                                                         *)

Gui(from, to) == Alive /\ gui = from /\ gui' = to

\* activate_main_window_default.  Bound: the user comes back after the service
\* and connector threads of the last session have ended.
NewSession ==
  /\ ui = "accounts" /\ net # "open" /\ thread["connector"] \notin { "running", "failing" }
  /\ session < CoapMaxSessions
  /\ session' = session + 1

LogIn ==
  /\ Gui("idle", "conn_fire")
  /\ NewSession
  /\ ui' = "loading"
  /\ init_net_service
  /\ UNCHANGED << fault, coapTimerVars, serverVars, guiMsg, current_packet_number, published,
                  rx, worker, init_connect, storeVars >>

\* init_coap_client returns an error; over UDP the service thread runs all the same
LogInFails ==
  /\ Gui("idle", "idle")
  /\ SocketMayFail
  /\ NewSession
  /\ IF Secure THEN UNCHANGED << net, is_stop >> ELSE net' = "open" /\ is_stop' = TRUE
  /\ UNCHANGED << fault, toServer, toClient, coapTimerVars, serverVars, guiMsg,
                  current_packet_number, published, rx, worker, ui, init_connect, storeVars >>

coap_connect_fire ==
  /\ Gui("conn_fire", "conn_timer")
  /\ init_connect' = TRUE
  /\ MayFault(FireFaults)
  /\ coap_encode_and_fire(CoapPing)
  /\ UNCHANGED << net, is_stop, toClient, coapTimerVars, serverVars, guiMsg, session,
                  current_packet_number, published, rx, worker, ui, storeVars >>

coap_connect_timer ==
  /\ Gui("conn_timer", "idle")
  /\ start_coap_connect_timer
  /\ UNCHANGED << coapNetVars, messages_map, mapState, serverVars, guiMsg, session,
                  current_packet_number, published, rx, worker, ui, init_connect, storeVars >>

\* ++current_packet_number
Incremented == current_packet_number + 1

\* a button of the main window: number m, then store it
Send(m) ==
  /\ Gui("idle", "op_fire")
  /\ ui = "main"
  /\ SlowUser => worker = "service"
  /\ current_packet_number < CoapMaxNumber
  /\ current_packet_number' = Incremented
  /\ guiMsg' = m
  /\ MayFault(TableFaults)
  /\ messages_map' = added(m)
  /\ UNCHANGED << net, is_stop, toServer, toClient, mapState, thread, serverVars, session, rx,
                  worker, ui, init_connect, storeVars >>

send_coap_subscribe(t) ==
  /\ Send(Observe(Incremented, t, "register"))
  /\ UNCHANGED published

\* the button exists only on the row of a listed topic
send_coap_unsubscribe(t) ==
  /\ rows.list[t] > 0
  /\ Send(Observe(Incremented, t, "deregister"))
  /\ UNCHANGED published

send_coap_message(c, t) ==
  /\ published[c] = 0
  /\ published' = [ published EXCEPT ![c] = session ]
  /\ Send(Put(Incremented, t, c))

Fire(m) ==
  /\ Gui("op_fire", "idle")
  /\ MayFault(FireFaults)
  /\ coap_encode_and_fire(m)
  /\ guiMsg' = CoapNoMsg
  /\ UNCHANGED << net, is_stop, toClient, coapTimerVars, serverVars, session,
                  current_packet_number, published, rx, worker, ui, init_connect, rows,
                  received, junk >>

\* bug variant: a PUT is in the history as soon as it is fired
send_fire_saved ==
  /\ Fire(guiMsg)
  /\ saved' = [ c \in Contents |-> IF c = guiMsg.content THEN 1 ELSE saved[c] ]

\* the last line of the three: fire what was stored
send_fire == Fire(guiMsg) /\ UNCHANGED saved

\* log_out_handle and send_coap_disconnect, as far as coap_stop_ping_timer
log_out_handle ==
  /\ Gui("idle", "disc_msg")
  /\ ui = "main"
  /\ rows' = IF CoapCleanSession
             THEN [ list |-> rows.list, db |-> [ t \in Topics |-> 0 ] ] ELSE rows
  /\ stop_connect_and_ping_timer
  /\ UNCHANGED << net, is_stop, toServer, toClient, serverVars, guiMsg, session,
                  current_packet_number, published, rx, worker, ui, init_connect, saved,
                  received, junk >>

send_coap_disconnect_messager ==
  /\ Gui("disc_msg", "disc_net")
  /\ coap_stop_message_timer
  /\ UNCHANGED << net, is_stop, toServer, toClient, serverVars, guiMsg, session,
                  current_packet_number, published, rx, worker, ui, init_connect, storeVars >>

send_coap_disconnect_net ==
  /\ Gui("disc_net", "idle")
  /\ is_stop' = TRUE
  /\ ui' = "accounts"
  /\ UNCHANGED << fault, net, toServer, toClient, coapTimerVars, serverVars, guiMsg, session,
                  current_packet_number, published, rx, worker, init_connect, storeVars >>

-----------------------------------------------------------------------------
(* The connector thread, and the end of the service thread.                *)

\* bug variant: the failure is not shown
connection_unsuccessful_silent == UNCHANGED ui

\* cu_pt(-1): the error, then the account list
connection_unsuccessful == ui' = "accounts"

fin_coap_client ==
  /\ is_stop' = TRUE
  /\ init_connect' = FALSE
  /\ IF init_connect THEN connection_unsuccessful ELSE UNCHANGED ui

\* after sleep(5), where a cancelled thread ends: the test of init_connect
coap_connect_task ==
  /\ Alive
  /\ thread["connector"] = "running"
  /\ thread' = [ thread EXCEPT !["connector"] = IF init_connect THEN "failing" ELSE "done" ]
  /\ UNCHANGED << coapNetVars, messages_map, mapState, serverVars, coapClientVars >>

\* the call of fin_coap_client, which tests it again
coap_connect_fin ==
  /\ Alive
  /\ thread["connector"] = "failing"
  /\ thread' = [ thread EXCEPT !["connector"] = "done" ]
  /\ fin_coap_client
  /\ UNCHANGED << fault, net, toServer, toClient, messages_map, mapState, serverVars,
                  coapGuiVars, rx, worker, storeVars >>

\* the loop ends; update_dyad calls stop_pt, update_dtls does not
service_ends ==
  /\ Alive
  /\ net = "open" /\ is_stop /\ worker = "service" /\ rx = CoapNoMsg
  /\ net' = "ended"
  /\ IF Secure THEN UNCHANGED << is_stop, init_connect, ui >> ELSE fin_coap_client
  /\ UNCHANGED << fault, toServer, toClient, coapTimerVars, serverVars, coapGuiVars, rx,
                  worker, storeVars >>

-----------------------------------------------------------------------------
(* The service thread: process_coap_rx, one datagram at a time, also one   *)
(* that arrives while is_stop is being set.                                *)

Receiving == Alive /\ net = "open" /\ worker = "service"

\* if(init_connect): the connector is cancelled and the main window shown
rx_first(a) ==
  /\ Receiving /\ init_connect /\ rx = CoapNoMsg
  /\ a \in toClient
  /\ toClient' = toClient \ {a}
  /\ rx' = a
  /\ worker' = "timers"
  /\ MayFault(CancelFaults({"connector"}))
  /\ thread' = cancelled({"connector"})
  /\ ui' = "main"
  /\ rows' = topics_from_db(rows)
  /\ UNCHANGED << net, is_stop, toServer, messages_map, mapState, serverVars, coapGuiVars,
                  init_connect, saved, received, junk >>

\* the timers, the map, init_connect = 0
rx_first_timers ==
  /\ Alive
  /\ worker = "timers"
  /\ worker' = "service"
  /\ start_session_timers
  /\ init_connect' = FALSE
  /\ UNCHANGED << coapNetVars, serverVars, coapGuiVars, rx, ui, storeVars >>

\* (first_byte >> 4) & 2: a NON is read as a CON and a RESET as an ACK, so those
\* two cases of the switch are never taken
coap_decode_type(d) ==
  [ d EXCEPT !.type = CASE @ \in { "CON", "NON" } -> "CON" [] @ \in { "ACK", "RST" } -> "ACK" ]

\* d is the datagram in hand, or the next one; a is what coap_decode makes of it
Rx(d) ==
  /\ Receiving
  /\ IF rx = CoapNoMsg THEN d \in toClient /\ ~init_connect ELSE d = rx
  /\ toClient' = IF rx = CoapNoMsg THEN toClient \ {d} ELSE toClient
  /\ rx' = CoapNoMsg
  /\ UNCHANGED << net, is_stop, mapState, thread, serverVars, coapGuiVars, worker, ui,
                  init_connect >>

\* bug variant: the message is acknowledged and not stored
get_message_dropped(i, t) == UNCHANGED received

\* get_pub_pt: a row of the message table with is_incoming = 1
get_message(i, t) ==
  received' = [ k \in Incoming |-> IF k = i THEN received[k] \cup {t} ELSE received[k] ]

IsPublish(a) == a.code = "PUT" /\ a.type # "ACK"

\* stored and acknowledged, a second time by the switch (the same datagram)
rx_publish(d, a) ==
  /\ IsPublish(a) /\ a.topic # None
  /\ Rx(d)
  /\ get_message(a.id, a.topic)
  /\ coap_encode_and_fire(CoapAck(a, TRUE))
  /\ UNCHANGED << fault, messages_map, rows, saved, junk >>

\* no URI_PATH: BAD_OPTION and return; any other CON is acknowledged
rx_confirmable(d, a) ==
  /\ a.type = "CON" /\ a.topic = None
  /\ Rx(d)
  /\ coap_encode_and_fire(CoapAck(a, ~IsPublish(a)))
  /\ UNCHANGED << fault, messages_map, storeVars >>

\* bug variant: the row of an earlier subscribe is not replaced
observed_not_replaced(m, o) ==
  IF m = CoapNoMsg THEN rows
  ELSE IF o = "register"
       THEN save_topic_to_db([ rows EXCEPT !.list = [ rows.list EXCEPT ![m.topic] = @ + 1 ] ],
                             m.topic)
       ELSE unsubscribed(rows, m.topic)

\* the subscribe or unsubscribe that is answered takes effect
observed(m, o) ==
  IF m = CoapNoMsg THEN rows
  ELSE IF o = "register" THEN save_topic_to_db(add_topics_to_list_box(rows, m.topic), m.topic)
       ELSE unsubscribed(rows, m.topic)

rx_observe(d, a) ==
  /\ a.type = "ACK" /\ a.code = "GET" /\ a.observe # "-"
  /\ Rx(d)
  /\ rows' = observed(coap_get_message_from_map(a.id), a.observe)
  /\ messages_map' = removed(a.id)
  /\ MayFault(TableFaults)
  /\ UNCHANGED << toServer, saved, received, junk >>

\* "puback": whatever is stored under the id goes to the history, an error code
\* and a stored GET included
Puback(d, a) ==
  /\ a.type = "ACK" /\ a.id # 0
  /\ Rx(d)
  /\ LET m == coap_get_message_from_map(a.id)
     IN  /\ saved' = IF m.code = "PUT" THEN [ saved EXCEPT ![m.content] = @ + 1 ] ELSE saved
         /\ junk' = (junk \/ m.code = "GET")
  /\ messages_map' = removed(a.id)
  /\ MayFault(TableFaults)
  /\ UNCHANGED << toServer, rows, received >>

\* bug variant: the else belongs to the test of OBSERVE
rx_puback_dangling(d, a) == (a.code = "GET" => a.observe = "-") /\ Puback(d, a)

rx_puback(d, a) == a.code # "GET" /\ Puback(d, a)

\* the answer to a ping, and a GET answered without OBSERVE
rx_ignored(d, a) ==
  /\ a.type = "ACK"
  /\ (a.code = "GET" /\ a.observe = "-") \/ (a.code # "GET" /\ a.id = 0)
  /\ Rx(d)
  /\ UNCHANGED << fault, toServer, messages_map, storeVars >>

-----------------------------------------------------------------------------
UserStep == \/ LogIn \/ LogInFails \/ log_out_handle
            \/ \E t \in Topics : send_coap_subscribe(t) \/ send_coap_unsubscribe(t)
            \/ \E c \in Contents, t \in Topics : send_coap_message(c, t)

GuiStep == \/ coap_connect_fire \/ coap_connect_timer \/ send_fire
           \/ send_coap_disconnect_messager \/ send_coap_disconnect_net

ConnectorStep == coap_connect_task \/ coap_connect_fin

RxStep(i) ==
  \E d \in (toClient \cup {rx}) \ {CoapNoMsg} : \E a \in { coap_decode_type(d) } :
    /\ d.id = i
    /\ \/ rx_first(d) \/ rx_publish(d, a) \/ rx_confirmable(d, a)
       \/ rx_observe(d, a) \/ rx_puback(d, a) \/ rx_ignored(d, a)

Timer(A) == Alive /\ A /\ UNCHANGED << serverVars, coapClientVars >>

Server(A) == Alive /\ A /\ UNCHANGED << coapTimerVars, coapClientVars >>

AllIds == CoapIds \cup Incoming

ServiceStep == rx_first_timers \/ service_ends \/ \E i \in AllIds : RxStep(i)

TimerStep == \/ Timer(coap_ping_task) \/ Timer(resend_from_freed_map)
             \/ \E i \in CoapIds : Timer(coap_message_resend_task(i))

ServerStep == \/ \E i \in AllIds : Server(ServerReads(i))
              \/ \E i \in Incoming : Server(ServerPublishes(i))
              \/ Server(ServerPings)

NetworkStep == Server(LoseDatagram) \/ Server(LoseSocket)

Next == UserStep \/ GuiStep \/ ConnectorStep \/ ServiceStep \/ TimerStep \/ ServerStep
        \/ NetworkStep

\* The threads run on.  Fairness is per id where traffic on one id could go on
\* for ever (pings, resends): the socket delivers every datagram in the end,
\* and a pass of the messager visits every entry.
Fairness ==
  /\ WF_vars(GuiStep)
  /\ WF_vars(ConnectorStep)
  /\ WF_vars(rx_first_timers)
  /\ WF_vars(service_ends)
  /\ \A i \in AllIds : WF_vars(RxStep(i)) /\ WF_vars(Server(ServerReads(i)))
  /\ \A i \in CoapIds : WF_vars(Timer(coap_message_resend_task(i)))

Spec == Init /\ [][Next]_vars
FairSpec == Spec /\ Fairness

-----------------------------------------------------------------------------
(* Properties.                                                             *)

\* Every variable has its type, and a message is in the history at most once,
\* however often the messager resends it and the server acknowledges it, and only
\* after the server has passed it on: the acknowledgement that moves it is its
\* own, although the server numbers its messages alike.
CoapSavedOnceDelivered ==
  TypeOK /\ \A c \in Contents : saved[c] <= 1 /\ (saved[c] > 0 => delivered[c] > 0)

\* An unanswered message is never forgotten: it stays in the map to be resent,
\* whatever the server sends under the same number.
CoapNothingForgotten ==
  mapState = "live" =>
    \A c \in Contents : (published[c] = session /\ session > 0) =>
      saved[c] = 1 \/ \E i \in CoapIds : messages_map[i].content = c

\* What the server counts as acknowledged is stored, under its own topic.
CoapIncomingStored == \A i \in sAcked : received[i] = { sIn[i] }

\* Nothing but published messages gets into the history, unless the server has
\* answered a subscribe or unsubscribe with an error or a RESET.
CoapHistoryIsPublished ==
  junk => \E i \in CoapIds : sAnswer[i].type = "RST" \/ sAnswer[i].code = "BAD_OPTION"

LoggingOut == gui \in { "disc_msg", "disc_net" }

\* While the main window is up, its list and the topic table show the same
\* topics, each once, under repeated and late answers.
CoapListMirrorsDb ==
  (Alive /\ ui = "main" /\ ~LoggingOut) =>
    \A t \in Topics : rows.list[t] = rows.db[t] /\ rows.db[t] <= 1

KeptContents ==
  { c \in Contents : \E i \in CoapIds : messages_map[i].code = "PUT" /\ messages_map[i].content = c }

Published == { c \in Contents : published[c] # 0 }

Promise == INSTANCE Publishing WITH
  KeepsAll <- TRUE, asked <- Published, assured <- Published, kept <- KeptContents,
  passed <- { c \in Contents : delivered[c] > 0 }, history <- saved, open <- (mapState = "live")

\* The client keeps the promise of Publishing: a message leaves the map together
\* with its way into the history, once and after the server has passed it on, or
\* with the whole map when the session ends.
CoapKeepsPromise == Promise!PublishingSpec

\* The loading window goes away: with the main window, or with the error that
\* the connector or the end of the service thread reports.
CoapLoginReported == (ui = "loading") ~> (ui # "loading" \/ ~Alive)

CoapSessionOver == ~Alive \/ ui # "main" \/ LoggingOut \/ is_stop \/ net # "open"

\* Lost datagrams are made good: every message is in the history in the end, if
\* the session lasts.
CoapPublishEventuallySaved ==
  \A c \in Contents : (published[c] # 0) ~> (saved[c] = 1 \/ CoapSessionOver)
=============================================================================
