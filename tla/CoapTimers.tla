----------------------------- MODULE CoapTimers -----------------------------
(***************************************************************************)
(* coap/coap_timers.c over the datagram sockets of net/tcp_client.c (UDP)  *)
(* or net/dtls_client.c: the map of unanswered messages and the connector, *)
(* pinger and messager threads.  A message is what process_coap_rx and the *)
(* server look at; tokens are never read.  Datagrams in flight are sets,   *)
(* so they overtake each other; a copy of one still in flight adds nothing.*)
(***************************************************************************)
EXTENDS TopicList

CONSTANTS
  Contents,       \* payloads the user publishes
  CoapMaxNumber,  \* bound on message ids the client gives
  Incoming,       \* message ids of the server's own messages
  Secure,         \* account->is_secure: DTLS instead of UDP
  CoapPingDue,    \* the session lasts longer than account->keep_alive
  CoapResendDue,  \* it lasts longer than the 10 seconds of the messager
  None
ASSUME CoapPacketBounds ==
  /\ CoapMaxNumber \in Nat
  /\ Incoming \subseteq Nat
  /\ {Secure, CoapPingDue, CoapResendDue} \subseteq BOOLEAN
  /\ None \notin Contents \cup Topics

CoapIds == 0 .. CoapMaxNumber
CoapType == { "CON", "NON", "ACK", "RST", "-" }
CoapCode == { "GET", "PUT", "BAD_OPTION", "EMPTY", "-" }

\* OBSERVE is "register" (last byte 0), "deregister", or absent
CoapMessage ==
  [ type : CoapType, code : CoapCode, id : CoapIds \cup Incoming,
    topic : Topics \cup {None}, observe : { "register", "deregister", "-" },
    content : Contents \cup {None} ]

CoapNoMsg == [ type |-> "-", code |-> "-", id |-> 0, topic |-> None, observe |-> "-",
               content |-> None ]

Observe(i, t, o) ==
  [ CoapNoMsg EXCEPT !.type = "CON", !.code = "GET", !.id = i, !.topic = t, !.observe = o ]

Put(i, t, c) ==
  [ CoapNoMsg EXCEPT !.type = "CON", !.code = "PUT", !.id = i, !.topic = t, !.content = c ]

\* coap_send_ping: a PUT without URI_PATH, id 0
CoapPing == Put(0, None, None)

\* send_coap_ack
CoapAck(m, is_ok) ==
  [ CoapNoMsg EXCEPT !.type = "ACK", !.id = m.id,
                     !.code = IF is_ok THEN m.code ELSE "BAD_OPTION" ]

VARIABLES
  fault,                \* why the process died, or "none"
  net, is_stop,         \* the service thread: "none", "open", "ended"; its loop is to end
  toServer, toClient,   \* datagrams in flight
  messages_map,         \* message id -> message
  mapState,             \* "null", "live", "destroyed" (the pointer dangles)
  thread                \* of the connector, the pinger and the messager

coapNetVars == << fault, net, is_stop, toServer, toClient >>
coapTimerVars == << messages_map, mapState, thread >>

CoapThreads == { "connector", "pinger", "messager" }
NoMessages == [ i \in CoapIds |-> CoapNoMsg ]

CoapTimersTypeOK ==
  /\ fault \in { "none", "null_thread", "freed_table", "freed_stream" }
  /\ net \in { "none", "open", "ended" }
  /\ is_stop \in BOOLEAN
  /\ toServer \subseteq CoapMessage
  /\ toClient \subseteq CoapMessage
  /\ messages_map \in [ CoapIds -> CoapMessage ]
  /\ mapState \in { "null", "live", "destroyed" }
  /\ thread \in [ CoapThreads -> { "none", "running", "failing", "cancelled", "done" } ]

CoapTimersInit ==
  /\ fault = "none"
  /\ net = "none"
  /\ is_stop = FALSE
  /\ toServer = {} /\ toClient = {}
  /\ messages_map = NoMessages
  /\ mapState = "null"
  /\ thread = [ th \in CoapThreads |-> "none" ]

Alive == fault = "none"
MayFault(rs) == fault' \in {"none"} \cup rs

-----------------------------------------------------------------------------
(* Sockets.                                                                *)

coap_encode_and_fire(m) == toServer' = IF net = "open" THEN toServer \cup {m} ELSE toServer

\* dyad_write uses a stream that dyad_shutdown has freed
FireFaults == IF net = "ended" /\ ~Secure THEN {"freed_stream"} ELSE {}

\* init_net_service or init_dtls on a new socket
init_net_service ==
  /\ net' = "open"
  /\ is_stop' = FALSE
  /\ toServer' = {} /\ toClient' = {}

-----------------------------------------------------------------------------
(* The map.  GLib ignores calls on a NULL table.                           *)

added(m) == IF mapState = "null" THEN messages_map ELSE [ messages_map EXCEPT ![m.id] = m ]

coap_get_message_from_map(i) == IF i \in CoapIds THEN messages_map[i] ELSE CoapNoMsg

\* bug variants: the entry stays; all entries go
removed_not(i) == messages_map
removed_all(i) == NoMessages

\* coap_remove_message_from_map
removed(i) == [ k \in CoapIds |-> IF k = i THEN CoapNoMsg ELSE messages_map[k] ]

TableFaults == IF mapState = "destroyed" THEN {"freed_table"} ELSE {}

-----------------------------------------------------------------------------
(* The threads.                                                            *)

cancelled(ths) ==
  [ th \in CoapThreads |-> IF th \in ths /\ thread[th] = "running"
                           THEN "cancelled" ELSE thread[th] ]

\* pthread_cancel reads through the null pthread_t of a thread never created
CancelFaults(ths) == IF \E th \in ths : thread[th] = "none" THEN {"null_thread"} ELSE {}

start_coap_connect_timer == thread' = [ thread EXCEPT !["connector"] = "running" ]

\* start_coap_ping_timer and coap_start_message_timer
start_session_timers ==
  /\ thread' = [ thread EXCEPT !["pinger"] = "running", !["messager"] = "running" ]
  /\ messages_map' = NoMessages
  /\ mapState' = "live"

\* stop_coap_connect_timer and coap_stop_ping_timer: the map goes while the
\* messager still runs
stop_connect_and_ping_timer ==
  /\ MayFault(CancelFaults({"connector", "pinger"}) \cup TableFaults)
  /\ thread' = cancelled({"connector", "pinger"})
  /\ messages_map' = NoMessages
  /\ mapState' = IF mapState = "null" THEN "null" ELSE "destroyed"

coap_stop_message_timer ==
  /\ MayFault(CancelFaults({"messager"}))
  /\ thread' = cancelled({"messager"})
  /\ UNCHANGED << messages_map, mapState >>

coap_ping_task ==
  /\ CoapPingDue
  /\ thread["pinger"] = "running"
  /\ MayFault(FireFaults)
  /\ coap_encode_and_fire(CoapPing)
  /\ UNCHANGED << net, is_stop, toClient, coapTimerVars >>

\* bug variant: no entry is ever old enough
Overdue_never == FALSE

\* time(NULL) - time_stamp > 10; entries are never refreshed
Overdue == CoapResendDue

\* one entry of one pass over the map
coap_message_resend_task(i) ==
  /\ Overdue
  /\ thread["messager"] = "running"
  /\ messages_map[i] # CoapNoMsg
  /\ MayFault(FireFaults)
  /\ coap_encode_and_fire(messages_map[i])
  /\ UNCHANGED << net, is_stop, toClient, coapTimerVars >>

\* a pass that begins after coap_stop_ping_timer has destroyed the map
resend_from_freed_map ==
  /\ CoapResendDue
  /\ thread["messager"] = "running"
  /\ mapState = "destroyed"
  /\ MayFault({"freed_table"})
  /\ UNCHANGED << net, is_stop, toServer, toClient, coapTimerVars >>
=============================================================================
