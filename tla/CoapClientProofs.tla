-------------------------- MODULE CoapClientProofs --------------------------
(***************************************************************************)
(* Proofs about CoapClient for every number of contents, topics, messages, *)
(* sessions, losses and repeats: its type, and what relates the datagrams  *)
(* in flight, the map of unanswered messages, the history and the server.  *)
(*                                                                         *)
(* Datagrams are lost, repeated and reordered, and tokens are never read,  *)
(* so all the safety rests on the message ids.  The invariant says so: an  *)
(* id of the client names one message wherever it occurs, and an           *)
(* acknowledgement of it is the one answer the server has given it.        *)
(***************************************************************************)
EXTENDS CoapClient, TopicListProofs

-----------------------------------------------------------------------------
(* The invariant.                                                          *)

Ids1 == 1 .. current_packet_number

\* what the user's calls build, as long as their id names them in the map
Requests ==
  { m \in CoapMessage :
      /\ m.type = "CON" /\ m.topic \in Topics /\ m.id \in Ids1
      /\ messages_map[m.id] \in { CoapNoMsg, m }
      /\ \/ m.code = "PUT" /\ m.content \in Contents
         \/ m.code = "GET" /\ m.content = None }

\* what the client acknowledges: a PUT only once it is stored
Acks ==
  { m \in CoapMessage :
      /\ m.type = "ACK" /\ m.code # "GET"
      /\ m.code = "PUT" => m.id \in Incoming /\ received[m.id] # {} }

\* the server's answers: to a ping, or the one answer a message has
Answers ==
  { m \in CoapMessage :
      /\ m.type \in { "ACK", "RST" }
      /\ m.id # 0 => m.id \in CoapIds /\ m = sAnswer[m.id] }

\* the server's own messages
Comes ==
  { m \in CoapMessage :
      /\ m.type \in { "CON", "NON" } /\ m.code # "GET"
      /\ m.topic # None => m.id \in Incoming /\ m.topic = sIn[m.id] }

\* an answer of the server fits the message the client stored under its id
AnswerOK(i) ==
  /\ i \in Ids1 /\ sAnswer[i].id = i
  /\ sAnswer[i].type \in { "ACK", "RST" }
  /\ \/ /\ sAnswer[i].code = "PUT"
        /\ messages_map[i] # CoapNoMsg =>
             messages_map[i].code = "PUT" /\ delivered[messages_map[i].content] > 0
     \/ /\ sAnswer[i].code = "GET"
        /\ messages_map[i] # CoapNoMsg => messages_map[i].code = "GET"
     \/ /\ sAnswer[i].type = "RST" \/ sAnswer[i].code = "BAD_OPTION"
        /\ sAnswer[i].code \notin { "GET", "PUT" }
        /\ "PUT" \notin Rejected =>
             (messages_map[i] # CoapNoMsg => messages_map[i].code = "GET")

StoredOK(i) ==
  /\ messages_map[i] \in Requests /\ messages_map[i].id = i
  /\ messages_map[i].code = "PUT" =>
       saved[messages_map[i].content] = 0 /\ published[messages_map[i].content] # 0

OncePerContent ==
  \A i, j \in CoapIds :
    (messages_map[i].content = messages_map[j].content /\ messages_map[i].content # None)
      => i = j

IdsInv ==
  /\ gui = "op_fire" => guiMsg \in Requests
  /\ \A i \in CoapIds : messages_map[i] # CoapNoMsg => StoredOK(i)
  /\ OncePerContent
  /\ toServer \subseteq {CoapPing} \cup Requests \cup Acks
  /\ toClient \cup {rx} \subseteq {CoapNoMsg} \cup Answers \cup Comes
  /\ \A i \in CoapIds : sAnswer[i] # CoapNoMsg => AnswerOK(i)

\* the history has what was published, and the store what came under its topic
HistoryInv ==
  /\ \A c \in Contents : /\ saved[c] <= 1
                         /\ published[c] = 0 => saved[c] = 0
                         /\ "PUT" \notin Rejected => (saved[c] > 0 => delivered[c] > 0)
  /\ \A i \in Incoming : received[i] \subseteq { sIn[i] }
  /\ CoapIncomingStored
  /\ CoapHistoryIsPublished

\* a session is on from log in to the account list; nothing of it is published
\* before its map exists
SessionInv ==
  /\ session = 0 => net = "none" /\ ui = "accounts" /\ gui = "idle"
  /\ \A c \in Contents : published[c] <= session
  /\ worker = "timers" => net = "open"
  /\ gui = "conn_fire" => /\ ui = "loading" /\ ~init_connect /\ worker = "service"
                          /\ thread["connector"] \notin { "running", "failing" }
  /\ gui \in { "disc_msg", "disc_net" } => ui # "loading"
  /\ (init_connect /\ worker = "service") => ui = "loading"
  /\ (SlowUser /\ (ui = "loading" \/ worker = "timers")) =>
       \A c \in Contents : published[c] # session \/ session = 0

\* the table has no more rows of a topic than the list, and that has one
RowsInv ==
  /\ \A t \in Topics : rows.db[t] <= rows.list[t] /\ rows.list[t] <= 1
  /\ CoapListMirrorsDb

ForgottenInv == SlowUser => CoapNothingForgotten

CoapInv == TypeOK /\ IdsInv /\ HistoryInv /\ SessionInv /\ RowsInv /\ ForgottenInv
-----------------------------------------------------------------------------
(* Messages.                                                               *)

LEMMA IdTypes ==
  /\ CoapIds \subseteq Nat /\ 0 \in CoapIds /\ Incoming \subseteq Nat
  /\ TypeOK => Ids1 \subseteq CoapIds /\ current_packet_number \in Nat
  /\ TypeOK /\ current_packet_number < CoapMaxNumber =>
       Incremented \in CoapIds /\ Incremented # 0 /\ Incremented = current_packet_number + 1
BY CoapPacketBounds DEF CoapIds, TypeOK, Ids1, Incremented

\* The constructors build messages.
LEMMA MessageTypes ==
  /\ CoapNoMsg \in CoapMessage /\ CoapPing \in CoapMessage
  /\ \A i \in CoapIds \cup Incoming, t \in Topics \cup {None},
        o \in { "register", "deregister", "-" } : Observe(i, t, o) \in CoapMessage
  /\ \A i \in CoapIds \cup Incoming, t \in Topics \cup {None}, c \in Contents \cup {None} :
        Put(i, t, c) \in CoapMessage
  /\ \A m \in CoapMessage, ok \in BOOLEAN : CoapAck(m, ok) \in CoapMessage
BY IdTypes DEF CoapNoMsg, CoapPing, Observe, Put, CoapAck, CoapMessage, CoapType, CoapCode

\* What coap_decode makes of a datagram: all but NON and RST is kept.
LEMMA Decoded ==
  ASSUME NEW d \in CoapMessage
  PROVE  LET a == coap_decode_type(d)
         IN  /\ a.id = d.id /\ a.code = d.code /\ a.topic = d.topic
             /\ a.observe = d.observe /\ a.content = d.content
             /\ d.type \in { "CON", "NON" } => a.type = "CON"
             /\ d.type \in { "ACK", "RST" } => a.type = "ACK"
BY DEF coap_decode_type, CoapMessage

\* An acknowledgement has the id of its message, and its code unless it is an error.
LEMMA AckFields ==
  ASSUME NEW m, NEW ok \in BOOLEAN
  PROVE  /\ CoapAck(m, ok).type = "ACK" /\ CoapAck(m, ok).id = m.id
         /\ CoapAck(m, ok).code = IF ok THEN m.code ELSE "BAD_OPTION"
BY DEF CoapAck, CoapNoMsg

\* The acknowledgement of a decoded datagram is a message.
LEMMA DecodedAck ==
  ASSUME NEW d \in CoapMessage, NEW ok \in BOOLEAN
  PROVE  CoapAck(coap_decode_type(d), ok) \in CoapMessage
<1> DEFINE a == coap_decode_type(d)
<1>1. a.id = d.id /\ a.code = d.code
  BY Decoded
<1>2. CoapAck(a, ok) = [ CoapNoMsg EXCEPT !.type = "ACK", !.id = d.id,
                           !.code = IF ok THEN d.code ELSE "BAD_OPTION" ]
  BY <1>1 DEF CoapAck
<1> QED
  BY <1>2, MessageTypes DEF CoapMessage, CoapType, CoapCode

LEMMA Removed ==
  ASSUME messages_map \in [ CoapIds -> CoapMessage ], NEW i
  PROVE  /\ removed(i) \in [ CoapIds -> CoapMessage ]
         /\ coap_get_message_from_map(i) \in CoapMessage
BY MessageTypes DEF removed, coap_get_message_from_map

LEMMA Added ==
  ASSUME messages_map \in [ CoapIds -> CoapMessage ], NEW m \in CoapMessage
  PROVE  added(m) \in [ CoapIds -> CoapMessage ]
BY DEF added

-----------------------------------------------------------------------------
(* Type correctness.                                                       *)

Faults == { "none", "null_thread", "freed_table", "freed_stream" }

ThreadStates == { "none", "running", "failing", "cancelled", "done" }

LEMMA TypeFacts ==
  ASSUME TypeOK
  PROVE  /\ NoMessages \in [ CoapIds -> CoapMessage ]
         /\ \A ths : cancelled(ths) \in [ CoapThreads -> ThreadStates ]
         /\ \A rs : rs \subseteq Faults /\ MayFault(rs) => fault' \in Faults
         /\ FireFaults \subseteq Faults /\ TableFaults \subseteq Faults
         /\ \A ths : CancelFaults(ths) \subseteq Faults
         /\ \A m \in CoapMessage : coap_encode_and_fire(m) => toServer' \subseteq CoapMessage
         /\ \A m \in CoapMessage : Reply(m) => toClient' \subseteq CoapMessage
<1>1. NoMessages \in [ CoapIds -> CoapMessage ]
  BY MessageTypes DEF NoMessages
<1>2. \A ths : cancelled(ths) \in [ CoapThreads -> ThreadStates ]
  BY DEF TypeOK, CoapTimersTypeOK, cancelled, ThreadStates
<1>3. \A rs : rs \subseteq Faults /\ MayFault(rs) => fault' \in Faults
  BY DEF MayFault, Faults
<1>4. FireFaults \subseteq Faults /\ TableFaults \subseteq Faults
  BY DEF FireFaults, TableFaults, Faults
<1>5. \A ths : CancelFaults(ths) \subseteq Faults
  BY DEF CancelFaults, Faults
<1>6. /\ \A m \in CoapMessage : coap_encode_and_fire(m) => toServer' \subseteq CoapMessage
      /\ \A m \in CoapMessage : Reply(m) => toClient' \subseteq CoapMessage
  BY DEF TypeOK, CoapTimersTypeOK, coap_encode_and_fire, Reply
<1> QED BY <1>1, <1>2, <1>3, <1>4, <1>5, <1>6
\* A button of the main window builds a message and numbers it.
LEMMA SendType ==
  ASSUME TypeOK, NEW m \in CoapMessage, Send(m), published' \in [ Contents -> 0 .. CoapMaxSessions ]
  PROVE  TypeOK'
<1>1. messages_map' \in [ CoapIds -> CoapMessage ]
  BY Added DEF Send, TypeOK, CoapTimersTypeOK
<1>2. fault' \in Faults
  BY TypeFacts DEF Send
<1>3. current_packet_number' \in CoapIds
  BY IdTypes DEF Send
<1>4. CoapTimersTypeOK'
  BY <1>1, <1>2 DEF Send, TypeOK, CoapTimersTypeOK, Faults
<1>5. CoapServerTypeOK'
  BY DEF Send, TypeOK, CoapServerTypeOK, serverVars
<1> QED
  BY <1>3, <1>4, <1>5 DEF Send, Gui, TypeOK, storeVars

LEMMA UserType ==
  ASSUME TypeOK, UserStep
  PROVE  TypeOK'
<1> USE DEF Gui, NewSession, init_net_service, coapTimerVars, serverVars, storeVars
<1>1. CASE LogIn
  <2>1. CoapTimersTypeOK' /\ CoapServerTypeOK'
    BY <1>1 DEF LogIn, TypeOK, CoapTimersTypeOK, CoapServerTypeOK
  <2>2. session' \in 0 .. CoapMaxSessions
    BY <1>1, CoapClientBounds DEF LogIn, TypeOK
  <2> QED BY <1>1, <2>1, <2>2 DEF LogIn, TypeOK
<1>2. CASE LogInFails
  <2>1. CoapTimersTypeOK' /\ CoapServerTypeOK'
    BY <1>2 DEF LogInFails, TypeOK, CoapTimersTypeOK, CoapServerTypeOK
  <2>2. session' \in 0 .. CoapMaxSessions
    BY <1>2, CoapClientBounds DEF LogInFails, TypeOK
  <2> QED BY <1>2, <2>1, <2>2 DEF LogInFails, TypeOK
<1>3. CASE log_out_handle
  <2>1. /\ fault' \in Faults /\ thread' \in [ CoapThreads -> ThreadStates ]
        /\ messages_map' \in [ CoapIds -> CoapMessage ]
        /\ mapState' \in { "null", "live", "destroyed" }
    <3>1. CancelFaults({"connector", "pinger"}) \cup TableFaults \subseteq Faults
      BY TypeFacts
    <3> QED
      BY <1>3, <3>1, TypeFacts DEF log_out_handle, stop_connect_and_ping_timer
  <2>2. rows' \in Rows
    BY <1>3 DEF log_out_handle, TypeOK, Rows
  <2> QED
    BY <1>3, <2>1, <2>2
       DEF log_out_handle, TypeOK, CoapTimersTypeOK, CoapServerTypeOK, Faults, ThreadStates
<1>4. ASSUME NEW t \in Topics, send_coap_subscribe(t) \/ send_coap_unsubscribe(t)
      PROVE  TypeOK'
  <2>1. \E m \in CoapMessage : Send(m)
    <3>1. current_packet_number < CoapMaxNumber
      BY <1>4 DEF send_coap_subscribe, send_coap_unsubscribe, Send
    <3>2. Incremented \in CoapIds
      BY <3>1, IdTypes
    <3> QED
      BY <1>4, <3>2, MessageTypes DEF send_coap_subscribe, send_coap_unsubscribe
  <2>2. published' \in [ Contents -> 0 .. CoapMaxSessions ]
    BY <1>4 DEF send_coap_subscribe, send_coap_unsubscribe, TypeOK
  <2> QED BY <2>1, <2>2, SendType
<1>5. ASSUME NEW t \in Topics, NEW c \in Contents, send_coap_message(c, t)
      PROVE  TypeOK'
  <2>1. \E m \in CoapMessage : Send(m)
    <3>1. current_packet_number < CoapMaxNumber
      BY <1>5 DEF send_coap_message, Send
    <3>2. Incremented \in CoapIds
      BY <3>1, IdTypes
    <3> QED
      BY <1>5, <3>2, MessageTypes DEF send_coap_message
  <2>2. published' \in [ Contents -> 0 .. CoapMaxSessions ]
    BY <1>5 DEF send_coap_message, TypeOK
  <2> QED BY <2>1, <2>2, SendType
<1> QED BY <1>1, <1>2, <1>3, <1>4, <1>5 DEF UserStep

LEMMA GuiType ==
  ASSUME TypeOK, GuiStep \/ ConnectorStep
  PROVE  TypeOK'
<1> USE DEF Gui, coapTimerVars, coapNetVars, serverVars, storeVars, coapGuiVars, coapClientVars
<1>1. CASE coap_connect_fire
  <2>1. fault' \in Faults /\ toServer' \subseteq CoapMessage
    BY <1>1, TypeFacts, MessageTypes DEF coap_connect_fire
  <2> QED
    BY <1>1, <2>1 DEF coap_connect_fire, TypeOK, CoapTimersTypeOK, CoapServerTypeOK, Faults
<1>2. CASE coap_connect_timer
  BY <1>2 DEF coap_connect_timer, start_coap_connect_timer, TypeOK, CoapTimersTypeOK,
              CoapServerTypeOK
<1>3. CASE send_fire
  <2>1. fault' \in Faults /\ toServer' \subseteq CoapMessage
    BY <1>3, TypeFacts DEF send_fire, Fire, TypeOK
  <2> QED
    BY <1>3, <2>1, MessageTypes
       DEF send_fire, Fire, TypeOK, CoapTimersTypeOK, CoapServerTypeOK, Faults
<1>4. CASE send_coap_disconnect_messager
  <2>1. fault' \in Faults /\ thread' \in [ CoapThreads -> ThreadStates ]
    BY <1>4, TypeFacts DEF send_coap_disconnect_messager, coap_stop_message_timer
  <2> QED
    BY <1>4, <2>1 DEF send_coap_disconnect_messager, coap_stop_message_timer, TypeOK,
                      CoapTimersTypeOK, CoapServerTypeOK, Faults, ThreadStates
<1>5. CASE send_coap_disconnect_net
  BY <1>5 DEF send_coap_disconnect_net, TypeOK, CoapTimersTypeOK, CoapServerTypeOK
<1>6. CASE coap_connect_task
  <2>1. CoapTimersTypeOK'
    BY <1>6 DEF coap_connect_task, TypeOK, CoapTimersTypeOK
  <2>2. CoapServerTypeOK'
    BY <1>6 DEF coap_connect_task, TypeOK, CoapServerTypeOK
  <2> QED BY <1>6, <2>1, <2>2 DEF coap_connect_task, TypeOK
<1>7. CASE coap_connect_fin
  BY <1>7 DEF coap_connect_fin, fin_coap_client, connection_unsuccessful, TypeOK,
              CoapTimersTypeOK, CoapServerTypeOK
<1> QED BY <1>1, <1>2, <1>3, <1>4, <1>5, <1>6, <1>7 DEF GuiStep, ConnectorStep

LEMMA TimerType ==
  ASSUME TypeOK, TimerStep
  PROVE  TypeOK'
<1>1. /\ fault' \in Faults /\ toServer' \subseteq CoapMessage
      /\ UNCHANGED << net, is_stop, toClient, coapTimerVars, serverVars, coapClientVars >>
  <2>1. CASE Timer(coap_ping_task)
    BY <2>1, TypeFacts, MessageTypes DEF Timer, coap_ping_task
  <2>2. CASE Timer(resend_from_freed_map)
    BY <2>2, TypeFacts DEF Timer, resend_from_freed_map, MayFault, Faults, TypeOK,
                           CoapTimersTypeOK
  <2>3. ASSUME NEW i \in CoapIds, Timer(coap_message_resend_task(i))
        PROVE  /\ fault' \in Faults /\ toServer' \subseteq CoapMessage
               /\ UNCHANGED << net, is_stop, toClient, coapTimerVars, serverVars,
                               coapClientVars >>
    <3>1. messages_map[i] \in CoapMessage
      BY DEF TypeOK, CoapTimersTypeOK
    <3> QED BY <2>3, <3>1, TypeFacts DEF Timer, coap_message_resend_task
  <2> QED BY <2>1, <2>2, <2>3 DEF TimerStep
<1> QED
  BY <1>1 DEF TypeOK, CoapTimersTypeOK, CoapServerTypeOK, Faults, coapTimerVars, serverVars,
              coapClientVars, coapGuiVars, storeVars
-----------------------------------------------------------------------------
(* Type correctness of the service thread and the server.                  *)

\* The part of TypeOK that process_coap_rx may change.
LEMMA ReadType ==
  ASSUME TypeOK, NEW d \in toClient \cup {rx}, Rx(d),
         fault' \in Faults, toServer' \subseteq CoapMessage,
         messages_map' \in [ CoapIds -> CoapMessage ],
         rows' \in Rows, saved' \in [ Contents -> Nat ],
         received' \in [ Incoming -> SUBSET Topics ], junk' \in BOOLEAN
  PROVE  TypeOK'
<1>1. toClient' \subseteq toClient /\ rx' \in CoapMessage
  BY MessageTypes DEF Rx
<1>2. CoapTimersTypeOK'
  BY <1>1 DEF Rx, TypeOK, CoapTimersTypeOK, Faults
<1>3. CoapServerTypeOK'
  BY DEF Rx, TypeOK, CoapServerTypeOK, serverVars
<1> QED
  BY <1>1, <1>2, <1>3 DEF Rx, TypeOK, coapGuiVars

LEMMA RxType ==
  ASSUME TypeOK, NEW i \in AllIds, RxStep(i)
  PROVE  TypeOK'
<1>0. PICK d \in (toClient \cup {rx}) \ {CoapNoMsg} : \E a \in { coap_decode_type(d) } :
        \/ rx_first(d) \/ rx_publish(d, a) \/ rx_confirmable(d, a)
        \/ rx_observe(d, a) \/ rx_puback(d, a) \/ rx_ignored(d, a)
  BY DEF RxStep
<1>1. PICK a \in { coap_decode_type(d) } :
        \/ rx_first(d) \/ rx_publish(d, a) \/ rx_confirmable(d, a)
        \/ rx_observe(d, a) \/ rx_puback(d, a) \/ rx_ignored(d, a)
  BY <1>0
<1>2. d \in CoapMessage /\ a = coap_decode_type(d)
  BY <1>1 DEF TypeOK, CoapTimersTypeOK
<1>3. a.id = d.id /\ a.code = d.code /\ a.topic = d.topic
  BY <1>2, Decoded
<1>4. /\ messages_map \in [ CoapIds -> CoapMessage ] /\ fault \in Faults
      /\ toServer \subseteq CoapMessage /\ rows \in Rows /\ saved \in [ Contents -> Nat ]
      /\ received \in [ Incoming -> SUBSET Topics ] /\ junk \in BOOLEAN
  BY DEF TypeOK, CoapTimersTypeOK, Faults
<1>5. /\ removed(a.id) \in [ CoapIds -> CoapMessage ]
      /\ coap_get_message_from_map(a.id) \in CoapMessage
  BY <1>4, Removed
<1>6. \A ok \in BOOLEAN : CoapAck(a, ok) \in CoapMessage
  BY <1>2, DecodedAck
<1>7. CASE rx_first(d)
  <2>1. fault' \in Faults /\ thread' \in [ CoapThreads -> ThreadStates ]
    BY <1>7, TypeFacts DEF rx_first
  <2>2. rows' \in Rows
    BY <1>4, <1>7, RowTypes DEF rx_first
  <2>3. CoapTimersTypeOK' /\ CoapServerTypeOK'
    BY <1>7, <2>1 DEF rx_first, TypeOK, CoapTimersTypeOK, CoapServerTypeOK, Faults,
                      ThreadStates, serverVars
  <2> QED BY <1>2, <1>7, <2>2, <2>3 DEF rx_first, TypeOK, coapGuiVars
<1>8. CASE rx_publish(d, a)
  <2>1. a.topic \in Topics
    BY <1>2, <1>3, <1>8 DEF rx_publish, CoapMessage
  <2>2. received' \in [ Incoming -> SUBSET Topics ]
    BY <1>4, <1>8, <2>1 DEF rx_publish, get_message
  <2>3. toServer' \subseteq CoapMessage
    BY <1>6, <1>8, TypeFacts DEF rx_publish
  <2> QED BY <1>1, <1>4, <1>8, <2>2, <2>3, ReadType DEF rx_publish
<1>9. CASE rx_confirmable(d, a)
  <2>1. toServer' \subseteq CoapMessage
    <3>1. IsPublish(a) \in BOOLEAN
      BY DEF IsPublish
    <3> QED BY <1>6, <1>9, <3>1, TypeFacts DEF rx_confirmable
  <2> QED BY <1>1, <1>4, <1>9, <2>1, ReadType DEF rx_confirmable, storeVars
<1>10. CASE rx_observe(d, a)
  <2>1. rows' \in Rows
    BY <1>4, <1>10, RowTypes DEF rx_observe, observed, unsubscribed
  <2>2. fault' \in Faults
    BY <1>10, TypeFacts DEF rx_observe
  <2> QED BY <1>1, <1>4, <1>5, <1>10, <2>1, <2>2, ReadType DEF rx_observe
<1>11. CASE rx_puback(d, a)
  <2>1. saved' \in [ Contents -> Nat ] /\ junk' \in BOOLEAN
    <3>1. PICK m : m = coap_get_message_from_map(a.id)
      OBVIOUS
    <3>2. saved' = (IF m.code = "PUT" THEN [ saved EXCEPT ![m.content] = @ + 1 ] ELSE saved)
      BY <1>11, <3>1 DEF rx_puback, Puback
    <3>3. junk' \in BOOLEAN
      BY <1>11 DEF rx_puback, Puback
    <3> QED BY <1>4, <3>2, <3>3, CountUp
  <2>2. fault' \in Faults
    BY <1>11, TypeFacts DEF rx_puback, Puback
  <2> QED BY <1>1, <1>4, <1>5, <1>11, <2>1, <2>2, ReadType DEF rx_puback, Puback
<1>12. CASE rx_ignored(d, a)
  BY <1>1, <1>4, <1>12, ReadType DEF rx_ignored, storeVars
<1> QED BY <1>1, <1>7, <1>8, <1>9, <1>10, <1>11, <1>12

LEMMA ServiceType ==
  ASSUME TypeOK, ServiceStep
  PROVE  TypeOK'
<1>1. CASE rx_first_timers
  <2>1. CoapTimersTypeOK' /\ CoapServerTypeOK'
    BY <1>1, TypeFacts DEF rx_first_timers, start_session_timers, TypeOK, CoapTimersTypeOK,
                           CoapServerTypeOK, coapNetVars, serverVars
  <2> QED BY <1>1, <2>1 DEF rx_first_timers, TypeOK, coapGuiVars, storeVars
<1>2. CASE service_ends
  <2>1. CoapTimersTypeOK' /\ CoapServerTypeOK'
    BY <1>2 DEF service_ends, fin_coap_client, TypeOK, CoapTimersTypeOK,
                CoapServerTypeOK, coapTimerVars, serverVars
  <2> QED BY <1>2, <2>1 DEF service_ends, fin_coap_client, connection_unsuccessful, TypeOK,
                            coapGuiVars, storeVars
<1> QED BY <1>1, <1>2, RxType DEF ServiceStep
\* The part of TypeOK that the server and the network may change.
LEMMA PeerType ==
  ASSUME TypeOK, UNCHANGED << fault, net, coapTimerVars, coapClientVars >>, is_stop' \in BOOLEAN,
         toServer' \subseteq toServer, toClient' \subseteq CoapMessage, CoapServerTypeOK'
  PROVE  TypeOK'
<1>1. CoapTimersTypeOK'
  BY DEF TypeOK, CoapTimersTypeOK, coapTimerVars
<1> QED BY <1>1 DEF TypeOK, coapClientVars, coapGuiVars, storeVars


\* What the server makes of a request: the answer it had, or its first.
LEMMA ServerAnswers ==
  ASSUME TypeOK, IdsInv, NEW m \in toServer, ReadObserve(m) \/ ReadPut(m) \/ Reject(m)
  PROVE  /\ m \in Requests /\ m.id \in CoapIds /\ m.id # 0
         /\ UNCHANGED << sIn, sAcked, losses >>
         /\ sSubs' \subseteq Topics
         /\ \/ /\ sAnswer[m.id] # CoapNoMsg /\ Reply(sAnswer[m.id])
               /\ UNCHANGED << sAnswer, delivered >>
            \/ /\ sAnswer[m.id] = CoapNoMsg
               /\ \E r \in CoapMessage :
                    /\ Reply(r) /\ sAnswer' = [ sAnswer EXCEPT ![m.id] = r ]
                    /\ r.id = m.id /\ r.type \in { "ACK", "RST" }
                    /\ \/ /\ m.code = "PUT" /\ r.code = "PUT"
                          /\ delivered' = [ delivered EXCEPT ![m.content] = @ + 1 ]
                       \/ m.code = "GET" /\ r.code = "GET" /\ delivered' = delivered
                       \/ /\ m.code \in Rejected /\ delivered' = delivered
                          /\ r.type = "RST" \/ r.code = "BAD_OPTION"
                          /\ r.code \notin { "GET", "PUT" }
<1>1. m \in CoapMessage /\ m \in {CoapPing} \cup Requests \cup Acks
  BY DEF TypeOK, CoapTimersTypeOK, IdsInv
<1>2. m \in Requests
  <2>1. m # CoapPing
    <3>1. CoapPing.topic = None /\ CoapPing.code = "PUT"
      BY DEF CoapPing, Put, CoapNoMsg
    <3> QED BY <3>1 DEF ReadObserve, ReadPut, Reject
  <2>2. m \notin Acks
    BY DEF Acks, ReadObserve, ReadPut, Reject
  <2> QED BY <1>1, <2>1, <2>2
<1>3. m.id \in CoapIds /\ m.id # 0 /\ m.topic \in Topics
  BY <1>2, IdTypes DEF Requests, Ids1
<1>4. UNCHANGED << sIn, sAcked, losses >>
  BY DEF ReadObserve, ReadPut, Reject
<1>5. sSubs \subseteq Topics
  BY DEF TypeOK, CoapServerTypeOK
<1>6. CASE sAnswer[m.id] # CoapNoMsg
  <2>1. Reply(sAnswer[m.id]) /\ UNCHANGED << sAnswer, sSubs, delivered >>
    BY <1>6 DEF ReadObserve, ReadPut, Reject, Answer
  <2> QED BY <1>2, <1>3, <1>4, <1>5, <1>6, <2>1
<1>7. CASE sAnswer[m.id] = CoapNoMsg
  <2>1. CASE ReadObserve(m)
    <3>1. PICK r : r = [ CoapAck(m, TRUE) EXCEPT !.observe = m.observe ]
      OBVIOUS
    <3>2. r \in CoapMessage
      BY <1>1, <3>1, MessageTypes DEF CoapMessage
    <3>3. r.id = m.id /\ r.type = "ACK" /\ r.code = "GET" /\ m.code = "GET"
      BY <2>1, <3>1, AckFields DEF ReadObserve, CoapAck, CoapNoMsg
    <3>4. Reply(r) /\ sAnswer' = [ sAnswer EXCEPT ![m.id] = r ] /\ delivered' = delivered
      BY <1>7, <2>1, <3>1 DEF ReadObserve, Answer
    <3>5. sSubs' \subseteq Topics
      BY <1>3, <1>5, <1>7, <2>1 DEF ReadObserve, Answer
    <3> QED BY <1>2, <1>3, <1>4, <1>7, <3>2, <3>3, <3>4, <3>5
  <2>2. CASE ReadPut(m)
    <3>1. PICK r : r = CoapAck(m, TRUE)
      OBVIOUS
    <3>2. r \in CoapMessage /\ r.id = m.id /\ r.type = "ACK" /\ r.code = "PUT" /\ m.code = "PUT"
      BY <1>1, <2>2, <3>1, MessageTypes, AckFields DEF ReadPut
    <3>3. /\ Reply(r) /\ sAnswer' = [ sAnswer EXCEPT ![m.id] = r ]
          /\ delivered' = [ delivered EXCEPT ![m.content] = @ + 1 ] /\ sSubs' = sSubs
      BY <1>7, <2>2, <3>1 DEF ReadPut, Answer
    <3> QED BY <1>2, <1>3, <1>4, <1>5, <1>7, <3>2, <3>3
  <2>3. CASE Reject(m)
    <3>1. PICK r \in Refusals(m) : Answer(m, r, UNCHANGED << sSubs, delivered >>)
      BY <2>3 DEF Reject
    <3>2. /\ Reply(r) /\ sAnswer' = [ sAnswer EXCEPT ![m.id] = r ]
          /\ UNCHANGED << sSubs, delivered >>
      BY <1>7, <3>1 DEF Answer
    <3>3. /\ r \in CoapMessage /\ r.id = m.id /\ r.type \in { "ACK", "RST" }
          /\ \/ m.code = "GET" /\ r.code = "GET"
             \/ /\ r.type = "RST" \/ r.code = "BAD_OPTION"
                /\ r.code \notin { "GET", "PUT" }
      <4>1. CASE r = CoapAck(m, FALSE)
        BY <1>1, <4>1, MessageTypes, AckFields
      <4>2. CASE r = [ CoapNoMsg EXCEPT !.type = "RST", !.code = "EMPTY", !.id = m.id ]
        BY <1>1, <4>2, MessageTypes DEF CoapNoMsg, CoapMessage, CoapType, CoapCode
      <4>3. CASE m.code = "GET" /\ r = CoapAck(m, TRUE)
        BY <1>1, <4>3, MessageTypes, AckFields
      <4> QED BY <3>1, <4>1, <4>2, <4>3 DEF Refusals
    <3>4. m.code \in Rejected
      BY <2>3 DEF Reject
    <3> QED BY <1>2, <1>3, <1>4, <1>5, <1>7, <3>2, <3>3, <3>4
  <2> QED BY <2>1, <2>2, <2>3
<1> QED BY <1>6, <1>7

LEMMA ServerType ==
  ASSUME TypeOK, IdsInv, ServerStep \/ NetworkStep
  PROVE  TypeOK'
<1>0. /\ CoapServerTypeOK /\ is_stop \in BOOLEAN
      /\ toServer \subseteq CoapMessage /\ toClient \subseteq CoapMessage
      /\ sAnswer \in [ CoapIds -> CoapMessage ]
  BY DEF TypeOK, CoapTimersTypeOK, CoapServerTypeOK
<1>1. ASSUME NEW i \in AllIds, Server(ServerReads(i)) PROVE TypeOK'
  <2>1. PICK m \in toServer :
          /\ toServer' = toServer \ {m}
          /\ ReadPing(m) \/ ReadObserve(m) \/ ReadPut(m) \/ Reject(m) \/ ReadAck(m)
          /\ UNCHANGED << fault, net, is_stop, coapTimerVars, coapClientVars >>
    BY <1>1 DEF Server, ServerReads
  <2>2. CASE ReadPing(m)
    <3>1. toClient' \subseteq CoapMessage /\ CoapServerTypeOK'
      BY <1>0, <2>1, <2>2, TypeFacts, MessageTypes DEF ReadPing, serverVars, CoapServerTypeOK
    <3> QED BY <1>0, <2>1, <3>1, PeerType
  <2>3. CASE ReadObserve(m) \/ ReadPut(m) \/ Reject(m)
    <3>1. toClient' \subseteq CoapMessage /\ sAnswer' \in [ CoapIds -> CoapMessage ]
      BY <1>0, <2>3, ServerAnswers, TypeFacts
    <3>2. delivered' \in [ Contents -> Nat ]
      BY <1>0, <2>3, ServerAnswers, CountUp DEF CoapServerTypeOK
    <3>3. CoapServerTypeOK'
      BY <1>0, <2>3, <3>1, <3>2, ServerAnswers DEF CoapServerTypeOK
    <3> QED BY <1>0, <2>1, <3>1, <3>3, PeerType
  <2>4. CASE ReadAck(m)
    BY <1>0, <2>1, <2>4, PeerType DEF ReadAck, CoapServerTypeOK
  <2> QED BY <2>1, <2>2, <2>3, <2>4
<1>2. ASSUME NEW i \in Incoming, Server(ServerPublishes(i)) PROVE TypeOK'
  <2>1. PICK t \in Topics, type \in { "CON", "NON" } :
          /\ sIn' = [ sIn EXCEPT ![i] = t ]
          /\ Reply([ Put(i, t, None) EXCEPT !.type = type ])
    BY <1>2 DEF Server, ServerPublishes
  <2>2. [ Put(i, t, None) EXCEPT !.type = type ] \in CoapMessage
    BY MessageTypes DEF CoapMessage, CoapType
  <2>3. toClient' \subseteq CoapMessage
    BY <2>1, <2>2, TypeFacts
  <2>4. CoapServerTypeOK'
    BY <1>0, <1>2, <2>1 DEF Server, ServerPublishes, CoapServerTypeOK
  <2> QED BY <1>0, <1>2, <2>3, <2>4, PeerType DEF Server, ServerPublishes
<1>3. CASE Server(ServerPings)
  <2>1. PICK code \in ServerPing : Reply([ CoapPing EXCEPT !.code = code ])
    BY <1>3 DEF Server, ServerPings
  <2>2. [ CoapPing EXCEPT !.code = code ] \in CoapMessage
    BY MessageTypes, CoapServerBounds DEF CoapMessage, CoapCode
  <2>3. toClient' \subseteq CoapMessage
    BY <2>1, <2>2, TypeFacts
  <2> QED BY <1>0, <1>3, <2>3, PeerType DEF Server, ServerPings, serverVars, CoapServerTypeOK
<1>4. CASE Server(LoseDatagram)
  <2>1. toServer' \subseteq toServer /\ toClient' \subseteq CoapMessage
    BY <1>0, <1>4 DEF Server, LoseDatagram
  <2>2. CoapServerTypeOK'
    BY <1>0, <1>4, CoapServerBounds DEF Server, LoseDatagram, CoapServerTypeOK
  <2> QED BY <1>0, <1>4, <2>1, <2>2, PeerType DEF Server, LoseDatagram
<1>5. CASE Server(LoseSocket)
  BY <1>0, <1>5, PeerType DEF Server, LoseSocket, serverVars, CoapServerTypeOK
<1> QED BY <1>1, <1>2, <1>3, <1>4, <1>5 DEF ServerStep, NetworkStep

LEMMA NextType ==
  ASSUME TypeOK, IdsInv, [Next]_vars
  PROVE  TypeOK'
<1>1. CASE UNCHANGED vars
  BY <1>1 DEF vars, coapNetVars, coapTimerVars, serverVars, coapClientVars, coapGuiVars,
              storeVars, TypeOK, CoapTimersTypeOK, CoapServerTypeOK
<1> QED
  BY <1>1, UserType, GuiType, ServiceType, TimerType, ServerType DEF Next

LEMMA InitType == Init => TypeOK
<1> SUFFICES ASSUME Init PROVE TypeOK
  OBVIOUS
<1>1. CoapTimersTypeOK
  BY MessageTypes DEF Init, CoapTimersInit, CoapTimersTypeOK, NoMessages
<1>2. CoapServerTypeOK
  BY MessageTypes, CoapServerBounds DEF Init, CoapServerInit, CoapServerTypeOK, NoMessages
<1>3. rows \in Rows
  BY DEF Init, Rows, NoRows
<1>4. 0 \in 0 .. CoapMaxSessions /\ 0 \in CoapIds
  BY CoapClientBounds, IdTypes
<1> QED
  BY <1>1, <1>2, <1>3, <1>4, MessageTypes DEF Init, TypeOK
-----------------------------------------------------------------------------
(* Ids and history.                                                        *)

\* Steps that touch neither the map, nor a number, nor the server's answers
\* keep every message what it was.
LEMMA SetsStay ==
  ASSUME UNCHANGED << messages_map, current_packet_number >>
  PROVE  Requests' = Requests
BY DEF Requests, Ids1

LEMMA OthersStay ==
  /\ received' = received => Acks' = Acks
  /\ sAnswer' = sAnswer => Answers' = Answers
  /\ sIn' = sIn => Comes' = Comes
BY DEF Acks, Answers, Comes

\* Nothing of the server's side is changed by the client, nor the history by
\* anything but an acknowledgement.
LEMMA IdsUntouched ==
  ASSUME IdsInv,
         UNCHANGED << messages_map, current_packet_number, sAnswer, sIn, received, delivered,
                      saved, published >>,
         gui' = "op_fire" => gui = "op_fire" /\ guiMsg' = guiMsg,
         toServer' \subseteq toServer \cup {CoapPing} \cup Requests \cup Acks,
         toClient' \cup {rx'} \subseteq toClient \cup {rx, CoapNoMsg}
  PROVE  IdsInv'
<1>1. Requests' = Requests /\ Acks' = Acks /\ Answers' = Answers /\ Comes' = Comes
  BY SetsStay, OthersStay
<1>2. /\ \A i \in CoapIds : StoredOK(i) => StoredOK(i)'
      /\ \A i \in CoapIds : AnswerOK(i) => AnswerOK(i)'
      /\ OncePerContent => OncePerContent'
  BY <1>1 DEF StoredOK, AnswerOK, OncePerContent, Ids1
<1> QED BY <1>1, <1>2 DEF IdsInv

LEMMA HistoryUntouched ==
  ASSUME HistoryInv,
         UNCHANGED << sAnswer, sIn, sAcked, received, delivered, saved, published, junk >>
  PROVE  HistoryInv'
BY DEF HistoryInv, CoapIncomingStored, CoapHistoryIsPublished

\* The map is emptied.
LEMMA MapEmptied ==
  ASSUME TypeOK, IdsInv, messages_map' = NoMessages,
         UNCHANGED << current_packet_number, sAnswer, sIn, received, toServer >>,
         gui' # "op_fire" \/ UNCHANGED << gui, guiMsg >>,
         toClient' \cup {rx'} \subseteq toClient \cup {rx, CoapNoMsg}
  PROVE  IdsInv'
<1>1. \A i \in CoapIds : messages_map'[i] = CoapNoMsg
  BY DEF NoMessages
<1>2. Acks' = Acks /\ Answers' = Answers /\ Comes' = Comes
  BY OthersStay
<1>3. Requests \subseteq Requests'
  <2> SUFFICES ASSUME NEW m \in Requests PROVE m \in Requests'
    OBVIOUS
  <2>1. messages_map'[m.id] = CoapNoMsg
    BY <1>1, IdTypes DEF Requests
  <2> QED BY <2>1 DEF Requests, Ids1
<1>4. OncePerContent'
  <2>1. CoapNoMsg.content = None
    BY DEF CoapNoMsg
  <2> QED BY <1>1, <2>1 DEF OncePerContent
<1>5. \A i \in CoapIds : AnswerOK(i) => AnswerOK(i)'
  BY <1>1 DEF AnswerOK, Ids1
<1> QED BY <1>1, <1>2, <1>3, <1>4, <1>5 DEF IdsInv
\* An id above those given names nothing yet.
LEMMA NewId ==
  ASSUME TypeOK, IdsInv, NEW i \in CoapIds, i > current_packet_number
  PROVE  messages_map[i] = CoapNoMsg
BY IdTypes DEF IdsInv, StoredOK, Requests, Ids1

\* What a stored message is.
LEMMA StoredFacts ==
  ASSUME TypeOK, IdsInv, NEW i \in CoapIds, messages_map[i] # CoapNoMsg
  PROVE  /\ messages_map[i] \in Requests /\ messages_map[i].id = i /\ i \in Ids1
         /\ messages_map[i].topic \in Topics
         /\ \/ messages_map[i].code = "GET" /\ messages_map[i].content = None
            \/ /\ messages_map[i].code = "PUT" /\ messages_map[i].content \in Contents
               /\ saved[messages_map[i].content] = 0
               /\ published[messages_map[i].content] # 0
BY DEF IdsInv, StoredOK, Requests

\* A new message: it takes a number of its own, and its content, if any, is new.
LEMMA IdsSend ==
  ASSUME TypeOK, IdsInv, HistoryInv, session # 0,
         NEW m \in CoapMessage, Send(m),
         m.type = "CON", m.topic \in Topics, m.id = Incremented,
         \/ /\ m.code = "PUT" /\ m.content \in Contents /\ published[m.content] = 0
            /\ published' = [ published EXCEPT ![m.content] = session ]
         \/ m.code = "GET" /\ m.content = None /\ published' = published
  PROVE  IdsInv' /\ HistoryInv'
<1>1. /\ UNCHANGED << toServer, toClient, rx, sAnswer, sIn, sAcked, delivered, saved, received,
                      junk >>
      /\ guiMsg' = m /\ current_packet_number' = Incremented
      /\ messages_map' = added(m) /\ current_packet_number < CoapMaxNumber
  BY DEF Send, serverVars, storeVars
<1>2. /\ Incremented \in CoapIds /\ Incremented = current_packet_number + 1
      /\ current_packet_number \in Nat /\ Incremented \in Nat /\ Incremented # 0
  BY <1>1, IdTypes
<1>3. /\ messages_map \in [ CoapIds -> CoapMessage ]
      /\ messages_map[Incremented] = CoapNoMsg
      /\ published \in [ Contents -> 0 .. CoapMaxSessions ]
  BY <1>2, NewId DEF TypeOK, CoapTimersTypeOK
<1>4. /\ messages_map'[Incremented] \in { CoapNoMsg, m }
      /\ \A i \in CoapIds : i # Incremented => messages_map'[i] = messages_map[i]
  BY <1>1, <1>2, <1>3 DEF added
<1>5. Ids1 \subseteq Ids1' /\ Incremented \in Ids1' /\ Incremented \notin Ids1
  BY <1>1, <1>2 DEF Ids1
<1>6. Requests \subseteq Requests'
  <2> SUFFICES ASSUME NEW r \in Requests PROVE r \in Requests'
    OBVIOUS
  <2>1. r.id \in Ids1 /\ r.id \in CoapIds
    BY IdTypes DEF Requests
  <2>2. messages_map'[r.id] = messages_map[r.id]
    BY <1>4, <1>5, <2>1
  <2> QED BY <1>5, <2>1, <2>2 DEF Requests
<1>7. m \in Requests'
  BY <1>4, <1>5 DEF Requests
<1>8. Acks' = Acks /\ Answers' = Answers /\ Comes' = Comes
  BY <1>1, OthersStay
<1>9. \A c \in Contents : published[c] # 0 => published'[c] # 0
  BY <1>3
<1>10. ASSUME NEW i \in CoapIds, messages_map'[i] # CoapNoMsg PROVE StoredOK(i)'
  <2>1. CASE i # Incremented
    <3>1. messages_map'[i] = messages_map[i]
      BY <1>4, <2>1
    <3>2. messages_map[i] # CoapNoMsg
      BY <1>10, <3>1
    <3> QED BY <1>1, <1>6, <1>9, <3>1, <3>2, StoredFacts DEF StoredOK
  <2>2. CASE i = Incremented
    <3>1. messages_map'[i] = m
      BY <1>4, <1>10, <2>2
    <3>2. m.code = "PUT" => saved'[m.content] = 0 /\ published'[m.content] # 0
      BY <1>1, <1>3 DEF HistoryInv
    <3> QED BY <1>7, <2>2, <3>1, <3>2 DEF StoredOK
  <2> QED BY <2>1, <2>2
<1>11. ASSUME NEW i \in CoapIds, i # Incremented,
              messages_map'[i].content = messages_map'[Incremented].content,
              messages_map'[i].content # None
       PROVE  FALSE
  <2>1. CoapNoMsg.content = None
    BY DEF CoapNoMsg
  <2>2. messages_map'[Incremented] = m /\ messages_map'[i] = messages_map[i]
    BY <1>4, <1>11, <2>1
  <2>3. messages_map[i] # CoapNoMsg /\ messages_map[i].content = m.content
    BY <1>11, <2>1, <2>2
  <2>4. published[m.content] # 0 /\ m.content # None
    BY <1>11, <2>2, <2>3, StoredFacts
  <2> QED BY <2>4
<1>12. OncePerContent'
  BY <1>4, <1>11 DEF OncePerContent, IdsInv
<1>13. ASSUME NEW i \in CoapIds, sAnswer'[i] # CoapNoMsg PROVE AnswerOK(i)'
  <2>1. AnswerOK(i)
    BY <1>1, <1>13 DEF IdsInv
  <2>2. messages_map'[i] = messages_map[i]
    BY <1>4, <1>5, <2>1 DEF AnswerOK
  <2> QED BY <1>1, <1>5, <2>1, <2>2 DEF AnswerOK
<1>14. IdsInv'
  BY <1>1, <1>6, <1>7, <1>8, <1>10, <1>12, <1>13 DEF IdsInv
<1>15. HistoryInv'
  BY <1>1, <1>9 DEF HistoryInv, CoapIncomingStored, CoapHistoryIsPublished
<1> QED BY <1>14, <1>15

\* An answered entry leaves the map; no other entry's history is touched.
LEMMA IdsRemoved ==
  ASSUME TypeOK, IdsInv, NEW i, messages_map' = removed(i),
         UNCHANGED << current_packet_number, sAnswer, sIn, received, delivered, published, gui,
                      guiMsg, toServer >>,
         toClient' \cup {rx'} \subseteq toClient \cup {rx, CoapNoMsg},
         \A k \in CoapIds : (k # i /\ messages_map[k] # CoapNoMsg /\ messages_map[k].code = "PUT")
           => saved'[messages_map[k].content] = saved[messages_map[k].content]
  PROVE  IdsInv'
<1>1. \A k \in CoapIds : /\ k = i => messages_map'[k] = CoapNoMsg
                         /\ k # i => messages_map'[k] = messages_map[k]
  BY DEF removed
<1>2. Acks' = Acks /\ Answers' = Answers /\ Comes' = Comes
  BY OthersStay
<1>3. Requests \subseteq Requests'
  <2> SUFFICES ASSUME NEW m \in Requests PROVE m \in Requests'
    OBVIOUS
  <2>1. m.id \in CoapIds
    BY IdTypes DEF Requests
  <2> QED BY <1>1, <2>1 DEF Requests, Ids1
<1>4. ASSUME NEW k \in CoapIds, messages_map'[k] # CoapNoMsg PROVE StoredOK(k)'
  <2>1. k # i /\ messages_map'[k] = messages_map[k] /\ messages_map[k] # CoapNoMsg
    BY <1>1, <1>4
  <2> QED BY <1>3, <2>1, StoredFacts DEF StoredOK
<1>5. OncePerContent'
  <2>1. CoapNoMsg.content = None
    BY DEF CoapNoMsg
  <2> QED BY <1>1, <2>1 DEF OncePerContent, IdsInv
<1>6. \A k \in CoapIds : AnswerOK(k) => AnswerOK(k)'
  BY <1>1 DEF AnswerOK, Ids1
<1> QED BY <1>2, <1>3, <1>4, <1>5, <1>6 DEF IdsInv
LEMMA IdsUser ==
  ASSUME TypeOK, IdsInv, HistoryInv, SessionInv, UserStep
  PROVE  IdsInv' /\ HistoryInv'
<1> USE DEF Gui, NewSession, init_net_service, coapTimerVars, serverVars, storeVars
<1>1. CASE LogIn
  BY <1>1, IdsUntouched, HistoryUntouched DEF LogIn, IdsInv
<1>2. CASE LogInFails
  BY <1>2, IdsUntouched, HistoryUntouched DEF LogInFails
<1>3. CASE log_out_handle
  <2>1. IdsInv'
    BY <1>3, MapEmptied DEF log_out_handle, stop_connect_and_ping_timer
  <2> QED BY <1>3, <2>1, HistoryUntouched DEF log_out_handle
<1>4. ui = "main" => session # 0
  BY DEF SessionInv
<1>5. ASSUME NEW t \in Topics, send_coap_subscribe(t) \/ send_coap_unsubscribe(t)
      PROVE  IdsInv' /\ HistoryInv'
  <2>1. PICK o \in { "register", "deregister" } : Send(Observe(Incremented, t, o))
    BY <1>5 DEF send_coap_subscribe, send_coap_unsubscribe
  <2>2. PICK m : m = Observe(Incremented, t, o)
    OBVIOUS
  <2>3. session # 0 /\ current_packet_number < CoapMaxNumber
    BY <1>4, <2>1 DEF Send
  <2>4. m \in CoapMessage
    BY <2>2, <2>3, MessageTypes, IdTypes
  <2>5. m.type = "CON" /\ m.code = "GET" /\ m.topic = t /\ m.id = Incremented /\ m.content = None
    BY <2>2 DEF Observe, CoapNoMsg
  <2>6. published' = published
    BY <1>5 DEF send_coap_subscribe, send_coap_unsubscribe
  <2> QED BY <2>1, <2>2, <2>3, <2>4, <2>5, <2>6, IdsSend
<1>6. ASSUME NEW t \in Topics, NEW c \in Contents, send_coap_message(c, t)
      PROVE  IdsInv' /\ HistoryInv'
  <2>1. /\ Send(Put(Incremented, t, c)) /\ published[c] = 0
        /\ published' = [ published EXCEPT ![c] = session ]
    BY <1>6 DEF send_coap_message
  <2>2. PICK m : m = Put(Incremented, t, c)
    OBVIOUS
  <2>3. session # 0 /\ current_packet_number < CoapMaxNumber
    BY <1>4, <2>1 DEF Send
  <2>4. m \in CoapMessage
    BY <2>2, <2>3, MessageTypes, IdTypes
  <2>5. m.type = "CON" /\ m.code = "PUT" /\ m.topic = t /\ m.id = Incremented /\ m.content = c
    BY <2>2 DEF Put, CoapNoMsg
  <2> QED BY <2>1, <2>2, <2>3, <2>4, <2>5, IdsSend
<1> QED BY <1>1, <1>2, <1>3, <1>5, <1>6 DEF UserStep

LEMMA IdsGui ==
  ASSUME TypeOK, IdsInv, HistoryInv, GuiStep \/ ConnectorStep
  PROVE  IdsInv' /\ HistoryInv'
<1> USE DEF Gui, coapTimerVars, coapNetVars, serverVars, storeVars, coapGuiVars, coapClientVars
<1>1. CASE coap_connect_fire
  BY <1>1, IdsUntouched, HistoryUntouched DEF coap_connect_fire, coap_encode_and_fire
<1>2. CASE coap_connect_timer
  BY <1>2, IdsUntouched, HistoryUntouched DEF coap_connect_timer
<1>3. CASE send_fire
  <2>1. guiMsg \in Requests
    BY <1>3 DEF send_fire, Fire, IdsInv
  <2> QED
    BY <1>3, <2>1, IdsUntouched, HistoryUntouched DEF send_fire, Fire, coap_encode_and_fire
<1>4. CASE send_coap_disconnect_messager
  BY <1>4, IdsUntouched, HistoryUntouched
     DEF send_coap_disconnect_messager, coap_stop_message_timer
<1>5. CASE send_coap_disconnect_net
  BY <1>5, IdsUntouched, HistoryUntouched DEF send_coap_disconnect_net
<1>6. CASE coap_connect_task
  BY <1>6, IdsUntouched, HistoryUntouched DEF coap_connect_task
<1>7. CASE coap_connect_fin
  BY <1>7, IdsUntouched, HistoryUntouched DEF coap_connect_fin
<1> QED BY <1>1, <1>2, <1>3, <1>4, <1>5, <1>6, <1>7 DEF GuiStep, ConnectorStep

LEMMA IdsTimer ==
  ASSUME TypeOK, IdsInv, HistoryInv, TimerStep
  PROVE  IdsInv' /\ HistoryInv'
<1>1. /\ toServer' \subseteq toServer \cup {CoapPing} \cup Requests
      /\ UNCHANGED << toClient, messages_map, serverVars, coapClientVars >>
  <2>1. CASE Timer(coap_ping_task)
    BY <2>1 DEF Timer, coap_ping_task, coap_encode_and_fire, coapTimerVars
  <2>2. CASE Timer(resend_from_freed_map)
    BY <2>2 DEF Timer, resend_from_freed_map, coapTimerVars
  <2>3. ASSUME NEW i \in CoapIds, Timer(coap_message_resend_task(i))
        PROVE  /\ toServer' \subseteq toServer \cup {CoapPing} \cup Requests
               /\ UNCHANGED << toClient, messages_map, serverVars, coapClientVars >>
    <3>1. messages_map[i] \in Requests
      BY <2>3, StoredFacts DEF Timer, coap_message_resend_task
    <3> QED
      BY <2>3, <3>1
         DEF Timer, coap_message_resend_task, coap_encode_and_fire, coapTimerVars
  <2> QED BY <2>1, <2>2, <2>3 DEF TimerStep
<1> QED
  BY <1>1, IdsUntouched, HistoryUntouched
     DEF serverVars, coapClientVars, coapGuiVars, storeVars

-----------------------------------------------------------------------------
(* The service thread: a datagram in hand is an answer of the server or a  *)
(* message of its own.                                                     *)

LEMMA InHandFacts ==
  ASSUME TypeOK, IdsInv, NEW d \in (toClient \cup {rx}) \ {CoapNoMsg},
         NEW a, a = coap_decode_type(d)
  PROVE  /\ d \in CoapMessage
         /\ a.id = d.id /\ a.code = d.code /\ a.topic = d.topic
         /\ \/ a.type = "ACK" /\ d \in Answers
            \/ a.type = "CON" /\ d \in Comes
<1>1. d \in CoapMessage /\ d \in Answers \cup Comes
  BY DEF TypeOK, CoapTimersTypeOK, IdsInv
<1>2. d \in Answers => d.type \in { "ACK", "RST" }
  BY DEF Answers
<1>3. d \in Comes => d.type \in { "CON", "NON" }
  BY DEF Comes
<1> QED BY <1>1, <1>2, <1>3, Decoded

\* Storing a message keeps every acknowledgement right, and acknowledges it.
LEMMA IdsPublish ==
  ASSUME TypeOK, IdsInv, HistoryInv, NEW d \in (toClient \cup {rx}) \ {CoapNoMsg},
         NEW a, a = coap_decode_type(d), rx_publish(d, a)
  PROVE  IdsInv' /\ HistoryInv'
<1>1. a.id = d.id /\ a.topic = d.topic /\ d \in CoapMessage /\ d \in Comes /\ a.code = "PUT"
  BY InHandFacts DEF rx_publish, IsPublish
<1>2. d.id \in Incoming /\ d.topic = sIn[d.id]
  BY <1>1 DEF rx_publish, Comes
<1>3. /\ UNCHANGED << messages_map, current_packet_number, sAnswer, sIn, sAcked, delivered,
                      saved, published, junk, gui, guiMsg >>
      /\ toClient' \cup {rx'} \subseteq toClient \cup {rx, CoapNoMsg}
      /\ toServer' \subseteq toServer \cup { CoapAck(a, TRUE) }
  BY DEF rx_publish, Rx, serverVars, coapGuiVars, coap_encode_and_fire
<1>4. received \in [ Incoming -> SUBSET Topics ]
  BY DEF TypeOK
<1>5. \A i \in Incoming : received'[i] = IF i = d.id THEN received[i] \cup { sIn[i] }
                                                      ELSE received[i]
  BY <1>1, <1>2 DEF rx_publish, get_message
<1>6. Requests' = Requests /\ Answers' = Answers /\ Comes' = Comes
  BY <1>3, SetsStay, OthersStay
<1>7. Acks \subseteq Acks'
  BY <1>5 DEF Acks
<1>8. CoapAck(a, TRUE) \in Acks'
  <2>1. CoapAck(a, TRUE) \in CoapMessage
    BY <1>1, DecodedAck
  <2> QED BY <1>1, <1>2, <1>5, <2>1, AckFields DEF Acks
<1>9. IdsInv'
  <2>1. /\ \A i \in CoapIds : StoredOK(i) => StoredOK(i)'
        /\ \A i \in CoapIds : AnswerOK(i) => AnswerOK(i)'
        /\ OncePerContent => OncePerContent'
    BY <1>3, <1>6 DEF StoredOK, AnswerOK, OncePerContent, Ids1
  <2> QED BY <1>3, <1>6, <1>7, <1>8, <2>1 DEF IdsInv
<1>10. HistoryInv'
  <2>1. CoapHistoryIsPublished'
    BY <1>3 DEF HistoryInv, CoapHistoryIsPublished
  <2>2. CoapIncomingStored'
    <3>1. \A i \in sAcked : i \in Incoming /\ received[i] = { sIn[i] }
      BY DEF HistoryInv, CoapIncomingStored, TypeOK, CoapServerTypeOK
    <3> QED BY <1>3, <1>5, <3>1 DEF CoapIncomingStored
  <2> QED BY <1>3, <1>5, <2>1, <2>2 DEF HistoryInv
<1> QED BY <1>9, <1>10

\* An answer removes its request from the map, and puts a message that was
\* delivered into the history.
LEMMA IdsPuback ==
  ASSUME TypeOK, IdsInv, HistoryInv, NEW d \in (toClient \cup {rx}) \ {CoapNoMsg},
         NEW a, a = coap_decode_type(d), rx_puback(d, a)
  PROVE  IdsInv' /\ HistoryInv'
<1>1. /\ a.id = d.id /\ a.code = d.code /\ d \in CoapMessage /\ d \in Answers
      /\ d.id # 0 /\ d.code # "GET"
  BY InHandFacts DEF rx_puback, Puback
<1>2. d.id \in CoapIds /\ d = sAnswer[d.id] /\ AnswerOK(d.id)
  BY <1>1 DEF Answers, IdsInv
<1>3. /\ UNCHANGED << current_packet_number, sAnswer, sIn, sAcked, received, delivered,
                      published, gui, guiMsg, toServer >>
      /\ toClient' \cup {rx'} \subseteq toClient \cup {rx, CoapNoMsg}
      /\ messages_map' = removed(d.id)
  BY <1>1 DEF rx_puback, Puback, Rx, serverVars, coapGuiVars
<1>4. PICK m : m = messages_map[d.id]
  OBVIOUS
<1>5. /\ saved' = IF m.code = "PUT" THEN [ saved EXCEPT ![m.content] = @ + 1 ] ELSE saved
      /\ junk' = (junk \/ m.code = "GET")
  BY <1>1, <1>2, <1>4 DEF rx_puback, Puback, coap_get_message_from_map
<1>6. saved \in [ Contents -> Nat ]
  BY DEF TypeOK
<1>7. m.code = "PUT" => /\ m # CoapNoMsg /\ m.content \in Contents /\ m.content # None
                        /\ saved[m.content] = 0 /\ published[m.content] # 0
  <2>1. CoapNoMsg.code = "-"
    BY DEF CoapNoMsg
  <2> QED BY <1>2, <1>4, <2>1, StoredFacts, CoapPacketBounds
<1>8. ASSUME NEW k \in CoapIds, k # d.id, messages_map[k] # CoapNoMsg,
             messages_map[k].code = "PUT"
      PROVE  saved'[messages_map[k].content] = saved[messages_map[k].content]
  <2>1. m.code = "PUT" => messages_map[k].content # m.content
    BY <1>2, <1>4, <1>7, <1>8 DEF IdsInv, OncePerContent
  <2> QED BY <1>5, <1>6, <1>7, <2>1
<1>9. IdsInv'
  BY <1>3, <1>8, IdsRemoved
<1>10. ASSUME NEW c \in Contents
       PROVE  /\ saved'[c] <= 1
              /\ published'[c] = 0 => saved'[c] = 0
              /\ "PUT" \notin Rejected => (saved'[c] > 0 => delivered'[c] > 0)
  <2>1. CASE m.code = "PUT" /\ m.content = c
    <3>1. saved'[c] = 1 /\ published'[c] # 0
      BY <1>3, <1>5, <1>6, <1>7, <2>1
    <3>2. "PUT" \notin Rejected => delivered[c] > 0
      BY <1>1, <1>2, <1>4, <1>7, <2>1 DEF AnswerOK
    <3> QED BY <1>3, <3>1, <3>2
  <2>2. CASE ~(m.code = "PUT" /\ m.content = c)
    <3>1. saved'[c] = saved[c]
      BY <1>5, <1>6, <2>2
    <3> QED BY <1>3, <3>1 DEF HistoryInv
  <2> QED BY <2>1, <2>2
<1>11. CoapHistoryIsPublished'
  <2>1. CASE m.code = "GET"
    <3>1. m # CoapNoMsg
      BY <2>1 DEF CoapNoMsg
    <3>2. sAnswer[d.id].type = "RST" \/ sAnswer[d.id].code = "BAD_OPTION"
      BY <1>1, <1>2, <1>4, <2>1, <3>1 DEF AnswerOK
    <3> QED BY <1>2, <1>3, <3>2 DEF CoapHistoryIsPublished
  <2>2. CASE m.code # "GET"
    BY <1>3, <1>5, <2>2 DEF HistoryInv, CoapHistoryIsPublished
  <2> QED BY <2>1, <2>2
<1>12. HistoryInv'
  BY <1>3, <1>10, <1>11 DEF HistoryInv, CoapIncomingStored
<1> QED BY <1>9, <1>12

LEMMA IdsRx ==
  ASSUME TypeOK, IdsInv, HistoryInv, NEW i \in AllIds, RxStep(i)
  PROVE  IdsInv' /\ HistoryInv'
<1>0. PICK d \in (toClient \cup {rx}) \ {CoapNoMsg} : \E a \in { coap_decode_type(d) } :
        \/ rx_first(d) \/ rx_publish(d, a) \/ rx_confirmable(d, a)
        \/ rx_observe(d, a) \/ rx_puback(d, a) \/ rx_ignored(d, a)
  BY DEF RxStep
<1>1. PICK a : /\ a = coap_decode_type(d)
               /\ \/ rx_first(d) \/ rx_publish(d, a) \/ rx_confirmable(d, a)
                  \/ rx_observe(d, a) \/ rx_puback(d, a) \/ rx_ignored(d, a)
  BY <1>0
<1>2. CASE rx_first(d)
  BY <1>2, IdsUntouched, HistoryUntouched DEF rx_first, serverVars, coapGuiVars
<1>3. CASE rx_publish(d, a)
  BY <1>1, <1>3, IdsPublish
<1>4. CASE rx_confirmable(d, a)
  <2>1. CoapAck(a, ~IsPublish(a)) \in Acks
    <3>1. IsPublish(a) \in BOOLEAN
      BY DEF IsPublish
    <3>2. CoapAck(a, ~IsPublish(a)) \in CoapMessage
      BY <1>1, <3>1, InHandFacts, DecodedAck
    <3>3. d \in Comes /\ a.code = d.code
      BY <1>1, <1>4, InHandFacts DEF rx_confirmable
    <3>4. /\ CoapAck(a, ~IsPublish(a)).type = "ACK"
          /\ CoapAck(a, ~IsPublish(a)).code = IF ~IsPublish(a) THEN a.code ELSE "BAD_OPTION"
      BY <3>1, AckFields
    <3>5. a.code # "GET" /\ (~IsPublish(a) => a.code # "PUT")
      BY <1>4, <3>3 DEF rx_confirmable, IsPublish, Comes
    <3> QED BY <3>2, <3>4, <3>5 DEF Acks
  <2> QED
    BY <1>4, <2>1, IdsUntouched, HistoryUntouched
       DEF rx_confirmable, Rx, serverVars, coapGuiVars, storeVars, coap_encode_and_fire
<1>5. CASE rx_observe(d, a)
  <2>1. /\ UNCHANGED << current_packet_number, sAnswer, sIn, sAcked, received, delivered,
                        saved, published, junk, gui, guiMsg, toServer >>
        /\ toClient' \cup {rx'} \subseteq toClient \cup {rx, CoapNoMsg}
        /\ messages_map' = removed(a.id)
    BY <1>5 DEF rx_observe, Rx, serverVars, coapGuiVars
  <2>2. IdsInv'
    BY <2>1, IdsRemoved
  <2> QED BY <2>1, <2>2, HistoryUntouched
<1>6. CASE rx_puback(d, a)
  BY <1>1, <1>6, IdsPuback
<1>7. CASE rx_ignored(d, a)
  BY <1>7, IdsUntouched, HistoryUntouched
     DEF rx_ignored, Rx, serverVars, coapGuiVars, storeVars
<1> QED BY <1>1, <1>2, <1>3, <1>4, <1>5, <1>6, <1>7

LEMMA IdsService ==
  ASSUME TypeOK, IdsInv, HistoryInv, ServiceStep
  PROVE  IdsInv' /\ HistoryInv'
<1>1. CASE rx_first_timers
  <2>1. IdsInv'
    BY <1>1, MapEmptied
       DEF rx_first_timers, start_session_timers, coapNetVars, serverVars, coapGuiVars, storeVars
  <2> QED
    BY <1>1, <2>1, HistoryUntouched
       DEF rx_first_timers, serverVars, coapGuiVars, storeVars
<1>2. CASE service_ends
  BY <1>2, IdsUntouched, HistoryUntouched
     DEF service_ends, coapTimerVars, serverVars, coapGuiVars, storeVars
<1> QED BY <1>1, <1>2, IdsRx DEF ServiceStep
-----------------------------------------------------------------------------
(* The server and the network.                                             *)

\* The first answer to a request: it is about the request that the client
\* stored under its id, which was passed on if the answer says so.
LEMMA IdsAnswered ==
  ASSUME TypeOK, IdsInv, HistoryInv, NEW m \in toServer,
         ReadObserve(m) \/ ReadPut(m) \/ Reject(m),
         toServer' = toServer \ {m}, UNCHANGED coapTimerVars, UNCHANGED coapClientVars
  PROVE  IdsInv' /\ HistoryInv'
<1>1. UNCHANGED << messages_map, current_packet_number, sIn, sAcked, received, saved,
                   published, junk, gui, guiMsg, rx >>
  BY ServerAnswers DEF coapTimerVars, coapClientVars, coapGuiVars, storeVars
<1>2. m \in Requests /\ m.id \in CoapIds /\ m.id # 0
  BY ServerAnswers
<1>3. Requests' = Requests /\ Acks' = Acks /\ Comes' = Comes
  BY <1>1, SetsStay, OthersStay
<1>4. CASE sAnswer[m.id] # CoapNoMsg
  <2>1. Reply(sAnswer[m.id]) /\ UNCHANGED << sAnswer, delivered >>
    BY <1>4, ServerAnswers
  <2>2. sAnswer[m.id] \in Answers
    <3>1. AnswerOK(m.id) /\ sAnswer[m.id] \in CoapMessage
      BY <1>2, <1>4 DEF IdsInv, TypeOK, CoapServerTypeOK
    <3> QED BY <1>2, <3>1 DEF AnswerOK, Answers
  <2>3. toClient' \subseteq toClient \cup Answers /\ Answers' = Answers
    BY <2>1, <2>2, OthersStay DEF Reply
  <2>4. /\ \A i \in CoapIds : StoredOK(i) => StoredOK(i)'
        /\ \A i \in CoapIds : AnswerOK(i) => AnswerOK(i)'
        /\ OncePerContent => OncePerContent'
    BY <1>1, <1>3, <2>1 DEF StoredOK, AnswerOK, OncePerContent, Ids1
  <2>5. IdsInv'
    BY <1>1, <1>3, <2>1, <2>3, <2>4 DEF IdsInv
  <2> QED BY <1>1, <2>1, <2>5, HistoryUntouched
<1>5. CASE sAnswer[m.id] = CoapNoMsg
  <2>1. PICK r \in CoapMessage :
          /\ Reply(r) /\ sAnswer' = [ sAnswer EXCEPT ![m.id] = r ]
          /\ r.id = m.id /\ r.type \in { "ACK", "RST" }
          /\ \/ /\ m.code = "PUT" /\ r.code = "PUT"
                /\ delivered' = [ delivered EXCEPT ![m.content] = @ + 1 ]
             \/ m.code = "GET" /\ r.code = "GET" /\ delivered' = delivered
             \/ /\ m.code \in Rejected /\ delivered' = delivered
                /\ r.type = "RST" \/ r.code = "BAD_OPTION"
                /\ r.code \notin { "GET", "PUT" }
    BY <1>5, ServerAnswers
  <2>2. /\ sAnswer'[m.id] = r
        /\ \A i \in CoapIds : i # m.id => sAnswer'[i] = sAnswer[i]
    BY <1>2, <2>1 DEF TypeOK, CoapServerTypeOK
  <2>3. \A c \in Contents : delivered[c] > 0 => delivered'[c] > 0
    <3>1. delivered \in [ Contents -> Nat ]
      BY DEF TypeOK, CoapServerTypeOK
    <3> QED BY <2>1, <3>1
  <2>4. Answers \subseteq Answers' /\ r \in Answers'
    <3>1. ASSUME NEW d \in Answers PROVE d \in Answers'
      <4>1. d.type \in { "ACK", "RST" } /\ CoapNoMsg.type = "-"
        BY DEF Answers, CoapNoMsg
      <4>2. d.id # 0 => d.id # m.id
        BY <1>5, <4>1 DEF Answers
      <4> QED BY <2>2, <4>2 DEF Answers
    <3> QED BY <1>2, <2>1, <2>2, <3>1 DEF Answers
  <2>5. toClient' \subseteq toClient \cup {r}
    BY <2>1 DEF Reply
  <2>6. ASSUME NEW i \in CoapIds, sAnswer'[i] # CoapNoMsg PROVE AnswerOK(i)'
    <3>1. CASE i # m.id
      <4>1. AnswerOK(i) /\ sAnswer'[i] = sAnswer[i]
        BY <2>2, <2>6, <3>1 DEF IdsInv
      <4>2. (messages_map[i] # CoapNoMsg /\ messages_map[i].code = "PUT") =>
              messages_map[i].content \in Contents
        BY StoredFacts
      <4> QED BY <1>1, <2>3, <4>1, <4>2 DEF AnswerOK, Ids1
    <3>2. CASE i = m.id
      <4>1. i \in Ids1 /\ messages_map[i] \in { CoapNoMsg, m }
        BY <1>2, <3>2 DEF Requests
      <4>2. Ids1' = Ids1 /\ messages_map' = messages_map /\ sAnswer'[i] = r
        BY <1>1, <2>2, <3>2 DEF Ids1
      <4>3. CASE m.code = "PUT" /\ r.code = "PUT"
        <5>1. delivered'[m.content] > 0
          <6>1. m.content \in Contents
            BY <1>2, <4>3 DEF Requests
          <6>2. delivered' = [ delivered EXCEPT ![m.content] = @ + 1 ]
            BY <2>1, <4>3
          <6>3. delivered \in [ Contents -> Nat ]
            BY DEF TypeOK, CoapServerTypeOK
          <6> QED BY <6>1, <6>2, <6>3
        <5> QED BY <2>1, <3>2, <4>1, <4>2, <4>3, <5>1 DEF AnswerOK
      <4>4. CASE m.code = "GET" /\ r.code = "GET"
        BY <2>1, <3>2, <4>1, <4>2, <4>4 DEF AnswerOK
      <4>5. CASE /\ m.code \in Rejected
                 /\ r.type = "RST" \/ r.code = "BAD_OPTION"
                 /\ r.code \notin { "GET", "PUT" }
        <5>1. "PUT" \notin Rejected => m.code = "GET"
          BY <1>2, <4>5 DEF Requests
        <5> QED BY <2>1, <3>2, <4>1, <4>2, <4>5, <5>1 DEF AnswerOK
      <4> QED BY <2>1, <4>3, <4>4, <4>5
    <3> QED BY <3>1, <3>2
  <2>7. /\ \A i \in CoapIds : StoredOK(i) => StoredOK(i)'
        /\ OncePerContent => OncePerContent'
    BY <1>1, <1>3 DEF StoredOK, OncePerContent
  <2>8. IdsInv'
    BY <1>1, <1>3, <2>4, <2>5, <2>6, <2>7 DEF IdsInv
  <2>9. CoapHistoryIsPublished'
    <3>1. ASSUME junk
          PROVE  \E i \in CoapIds : sAnswer'[i].type = "RST" \/ sAnswer'[i].code = "BAD_OPTION"
      <4>1. PICK i \in CoapIds : sAnswer[i].type = "RST" \/ sAnswer[i].code = "BAD_OPTION"
        BY <3>1 DEF HistoryInv, CoapHistoryIsPublished
      <4>2. i # m.id
        BY <1>5, <4>1 DEF CoapNoMsg
      <4> QED BY <2>2, <4>1, <4>2
    <3> QED BY <1>1, <3>1 DEF CoapHistoryIsPublished
  <2>10. HistoryInv'
    BY <1>1, <2>3, <2>9 DEF HistoryInv, CoapIncomingStored
  <2> QED BY <2>8, <2>10
<1> QED BY <1>4, <1>5

\* A message of the server's own, or the answer to a ping.
LEMMA IdsCome ==
  ASSUME TypeOK, IdsInv, HistoryInv,
         UNCHANGED << sAnswer, delivered, sAcked, coapTimerVars, coapClientVars >>,
         toServer' \subseteq toServer,
         toClient' \subseteq toClient \cup Answers \cup Comes',
         \A i \in Incoming : sIn'[i] = sIn[i] \/ sIn[i] = None
  PROVE  IdsInv' /\ HistoryInv'
<1>1. UNCHANGED << messages_map, current_packet_number, received, saved, published, junk, gui,
                   guiMsg, rx >>
  BY DEF coapTimerVars, coapClientVars, coapGuiVars, storeVars
<1>2. Requests' = Requests /\ Acks' = Acks /\ Answers' = Answers
  BY <1>1, SetsStay, OthersStay
<1>3. Comes \subseteq Comes'
  BY DEF Comes
<1>4. /\ \A i \in CoapIds : StoredOK(i) => StoredOK(i)'
      /\ \A i \in CoapIds : AnswerOK(i) => AnswerOK(i)'
      /\ OncePerContent => OncePerContent'
  BY <1>1, <1>2 DEF StoredOK, AnswerOK, OncePerContent, Ids1
<1>5. IdsInv'
  BY <1>1, <1>2, <1>3, <1>4 DEF IdsInv
<1>6. ASSUME NEW i \in Incoming, sIn[i] = None PROVE received[i] = {}
  BY <1>6, CoapPacketBounds DEF HistoryInv, TypeOK
<1>7. ASSUME NEW i \in Incoming PROVE received'[i] \subseteq { sIn'[i] }
  BY <1>1, <1>6 DEF HistoryInv
<1>8. CoapIncomingStored'
  <2> SUFFICES ASSUME NEW i \in sAcked PROVE received'[i] = { sIn'[i] }
    BY DEF CoapIncomingStored
  <2>1. i \in Incoming /\ received[i] = { sIn[i] }
    BY DEF HistoryInv, CoapIncomingStored, TypeOK, CoapServerTypeOK
  <2> QED BY <1>1, <1>6, <2>1
<1>9. CoapHistoryIsPublished'
  BY <1>1 DEF HistoryInv, CoapHistoryIsPublished
<1> QED BY <1>1, <1>5, <1>7, <1>8, <1>9 DEF HistoryInv

LEMMA IdsServer ==
  ASSUME TypeOK, IdsInv, HistoryInv, ServerStep \/ NetworkStep
  PROVE  IdsInv' /\ HistoryInv'
<1>1. ASSUME NEW i \in AllIds, Server(ServerReads(i)) PROVE IdsInv' /\ HistoryInv'
  <2>1. PICK m \in toServer :
          /\ toServer' = toServer \ {m}
          /\ ReadPing(m) \/ ReadObserve(m) \/ ReadPut(m) \/ Reject(m) \/ ReadAck(m)
          /\ UNCHANGED << coapTimerVars, coapClientVars >>
    BY <1>1 DEF Server, ServerReads
  <2>2. CASE ReadPing(m)
    <3>1. CoapAck(m, TRUE) \in Answers
      <4>1. m = CoapPing
        BY <2>2 DEF ReadPing
      <4>2. CoapAck(m, TRUE) \in CoapMessage
        BY <4>1, MessageTypes
      <4>3. CoapAck(m, TRUE).type = "ACK" /\ CoapAck(m, TRUE).id = 0
        BY <4>1, AckFields DEF CoapPing, Put, CoapNoMsg
      <4> QED BY <4>2, <4>3 DEF Answers
    <3> QED BY <2>1, <2>2, <3>1, IdsCome DEF ReadPing, Reply, serverVars
  <2>3. CASE ReadObserve(m) \/ ReadPut(m) \/ Reject(m)
    BY <2>1, <2>3, IdsAnswered
  <2>4. CASE ReadAck(m)
    <3>1. UNCHANGED << messages_map, current_packet_number, received, saved, published, junk,
                       gui, guiMsg, rx, toClient, sAnswer, sIn, delivered >>
      BY <2>1, <2>4 DEF ReadAck, coapTimerVars, coapClientVars, coapGuiVars, storeVars
    <3>2. IdsInv'
      BY <2>1, <3>1, IdsUntouched
    <3>3. m \in {CoapPing} \cup Requests \cup Acks
      BY DEF IdsInv
    <3>4. m \in Acks
      BY <2>4, <3>3 DEF ReadAck, Requests, CoapPing, Put, CoapNoMsg
    <3>5. (m.id \in Incoming /\ m.code = "PUT") => received[m.id] = { sIn[m.id] }
      BY <3>4 DEF Acks, HistoryInv
    <3>6. CoapIncomingStored'
      BY <2>4, <3>1, <3>5 DEF ReadAck, HistoryInv, CoapIncomingStored
    <3>7. HistoryInv'
      BY <3>1, <3>6 DEF HistoryInv, CoapHistoryIsPublished
    <3> QED BY <3>2, <3>7
  <2> QED BY <2>1, <2>2, <2>3, <2>4
<1>2. ASSUME NEW i \in Incoming, Server(ServerPublishes(i)) PROVE IdsInv' /\ HistoryInv'
  <2>1. PICK t \in Topics, type \in { "CON", "NON" } :
          /\ sIn[i] \in { None, t }
          /\ sIn' = [ sIn EXCEPT ![i] = t ]
          /\ Reply([ Put(i, t, None) EXCEPT !.type = type ])
    BY <1>2 DEF Server, ServerPublishes
  <2>2. PICK d : d = [ Put(i, t, None) EXCEPT !.type = type ]
    OBVIOUS
  <2>3. /\ d \in CoapMessage /\ d.type = type /\ d.code = "PUT" /\ d.id = i /\ d.topic = t
    BY <2>2, MessageTypes DEF CoapMessage, CoapType, Put, CoapNoMsg
  <2>4. sIn \in [ Incoming -> Topics \cup {None} ]
    BY DEF TypeOK, CoapServerTypeOK
  <2>5. d \in Comes'
    BY <2>1, <2>3, <2>4 DEF Comes
  <2>6. toClient' \subseteq toClient \cup Comes'
    BY <2>1, <2>2, <2>5 DEF Reply
  <2>7. \A j \in Incoming : sIn'[j] = sIn[j] \/ sIn[j] = None
    BY <2>1, <2>4
  <2> QED BY <1>2, <2>6, <2>7, IdsCome DEF Server, ServerPublishes
<1>3. CASE Server(ServerPings)
  <2>1. PICK code \in ServerPing : Reply([ CoapPing EXCEPT !.code = code ])
    BY <1>3 DEF Server, ServerPings
  <2>2. [ CoapPing EXCEPT !.code = code ] \in Comes
    <3>1. [ CoapPing EXCEPT !.code = code ] \in CoapMessage /\ code # "GET"
      BY MessageTypes, CoapServerBounds DEF CoapMessage, CoapCode
    <3> QED BY <3>1 DEF Comes, CoapPing, Put, CoapNoMsg
  <2>3. sIn' = sIn /\ Comes' = Comes
    BY <1>3, OthersStay DEF Server, ServerPings, serverVars
  <2>4. toClient' \subseteq toClient \cup Comes'
    BY <2>1, <2>2, <2>3 DEF Reply
  <2> QED BY <1>3, <2>3, <2>4, IdsCome DEF Server, ServerPings, serverVars
<1>4. CASE Server(LoseDatagram)
  BY <1>4, IdsCome DEF Server, LoseDatagram
<1>5. CASE Server(LoseSocket)
  BY <1>5, IdsCome DEF Server, LoseSocket, serverVars
<1> QED BY <1>1, <1>2, <1>3, <1>4, <1>5 DEF ServerStep, NetworkStep
-----------------------------------------------------------------------------
(* Sessions.                                                               *)

\* A step of the timers, the server or the network.
LEMMA SessionUntouched ==
  ASSUME SessionInv, UNCHANGED << net, thread, coapClientVars >>
  PROVE  SessionInv'
BY DEF SessionInv, coapClientVars, coapGuiVars

LEMMA SessionUser ==
  ASSUME TypeOK, SessionInv, UserStep
  PROVE  SessionInv'
<1>0. session \in Nat /\ published \in [ Contents -> 0 .. CoapMaxSessions ]
  BY CoapClientBounds DEF TypeOK
<1> USE DEF Gui, NewSession
<1>1. CASE LogIn
  <2>1. worker = "service" /\ ~init_connect
    BY <1>1 DEF LogIn, SessionInv, TypeOK
  <2>2. \A c \in Contents : published[c] <= session /\ published[c] # session'
    BY <1>0, <1>1 DEF LogIn, SessionInv
  <2> QED BY <1>0, <1>1, <2>1, <2>2 DEF LogIn, init_net_service, SessionInv, coapTimerVars
<1>2. CASE LogInFails
  BY <1>0, <1>2 DEF LogInFails, SessionInv, coapTimerVars
<1>3. CASE log_out_handle
  <2>1. gui' = "disc_msg" /\ ui = "main"
        /\ UNCHANGED << net, session, published, worker, ui, init_connect >>
    BY <1>3 DEF log_out_handle
  <2> QED BY <2>1 DEF SessionInv
<1>4. ASSUME gui' = "op_fire", ui = "main", SlowUser => worker = "service",
             UNCHANGED << net, thread, session, worker, ui, init_connect >>,
             \A c \in Contents : published'[c] \in { published[c], session }
      PROVE  SessionInv'
  BY <1>0, <1>4 DEF SessionInv
<1>5. ASSUME NEW m, Send(m)
      PROVE  /\ gui' = "op_fire" /\ ui = "main" /\ (SlowUser => worker = "service")
             /\ UNCHANGED << net, thread, session, worker, ui, init_connect >>
  BY <1>5 DEF Send
<1>6. ASSUME NEW t \in Topics, send_coap_subscribe(t) \/ send_coap_unsubscribe(t)
      PROVE  SessionInv'
  BY <1>4, <1>5, <1>6 DEF send_coap_subscribe, send_coap_unsubscribe
<1>7. ASSUME NEW t \in Topics, NEW c \in Contents, send_coap_message(c, t)
      PROVE  SessionInv'
  <2>1. \A k \in Contents : published'[k] \in { published[k], session }
    BY <1>0, <1>7 DEF send_coap_message
  <2> QED BY <1>4, <1>5, <1>7, <2>1 DEF send_coap_message
<1> QED BY <1>1, <1>2, <1>3, <1>6, <1>7 DEF UserStep

LEMMA SessionGui ==
  ASSUME TypeOK, SessionInv, GuiStep \/ ConnectorStep
  PROVE  SessionInv'
<1> USE DEF Gui, coapTimerVars, coapNetVars, coapGuiVars, coapClientVars
<1>1. CASE coap_connect_fire
  BY <1>1 DEF coap_connect_fire, SessionInv
<1>2. CASE coap_connect_timer
  BY <1>2 DEF coap_connect_timer, SessionInv
<1>3. CASE send_fire
  BY <1>3 DEF send_fire, Fire, SessionInv
<1>4. CASE send_coap_disconnect_messager
  BY <1>4 DEF send_coap_disconnect_messager, coap_stop_message_timer, SessionInv
<1>5. CASE send_coap_disconnect_net
  BY <1>5 DEF send_coap_disconnect_net, SessionInv
<1>6. CASE coap_connect_task
  <2>1. gui = "conn_fire" => thread["connector"] # "running"
    BY DEF SessionInv
  <2> QED BY <1>6, <2>1 DEF coap_connect_task, SessionInv
<1>7. CASE coap_connect_fin
  BY <1>7 DEF coap_connect_fin, fin_coap_client, connection_unsuccessful, SessionInv
<1> QED BY <1>1, <1>2, <1>3, <1>4, <1>5, <1>6, <1>7 DEF GuiStep, ConnectorStep

LEMMA SessionService ==
  ASSUME TypeOK, SessionInv, ServiceStep
  PROVE  SessionInv'
<1>1. CASE rx_first_timers
  BY <1>1 DEF rx_first_timers, start_session_timers, SessionInv, coapNetVars, coapGuiVars
<1>2. CASE service_ends
  BY <1>2 DEF service_ends, fin_coap_client, connection_unsuccessful, SessionInv,
              coapTimerVars, coapGuiVars
<1>3. ASSUME NEW i \in AllIds, RxStep(i) PROVE SessionInv'
  <2>1. PICK d, a : \/ rx_first(d) \/ rx_publish(d, a) \/ rx_confirmable(d, a)
                    \/ rx_observe(d, a) \/ rx_puback(d, a) \/ rx_ignored(d, a)
    BY <1>3 DEF RxStep
  <2>2. CASE rx_first(d)
    <3>1. thread'["connector"] \in { thread["connector"], "cancelled" }
      BY <2>2 DEF rx_first, cancelled, CoapThreads
    <3> QED BY <2>2, <3>1 DEF rx_first, Receiving, SessionInv, coapGuiVars
  <2>3. CASE ~rx_first(d)
    <3>1. Rx(d)
      BY <2>1, <2>3 DEF rx_publish, rx_confirmable, rx_observe, rx_puback, Puback, rx_ignored
    <3> QED BY <3>1 DEF Rx, SessionInv, coapGuiVars
  <2> QED BY <2>2, <2>3
<1> QED BY <1>1, <1>2, <1>3 DEF ServiceStep

LEMMA SessionElsewhere ==
  ASSUME SessionInv, TimerStep \/ ServerStep \/ NetworkStep
  PROVE  SessionInv'
<1>1. UNCHANGED << net, thread, coapClientVars >>
  BY DEF TimerStep, Timer, coap_ping_task, resend_from_freed_map, coap_message_resend_task,
         ServerStep, NetworkStep, Server, ServerReads, ServerPublishes, ServerPings,
         LoseDatagram, LoseSocket, coapTimerVars
<1> QED BY <1>1, SessionUntouched

-----------------------------------------------------------------------------
(* The topic list.                                                         *)

LEMMA RowsUntouched ==
  ASSUME RowsInv, rows' = rows, ui' = ui \/ ui' # "main",
         (LoggingOut /\ ui' = "main") => LoggingOut', Alive
  PROVE  RowsInv'
BY DEF RowsInv, CoapListMirrorsDb

\* An answered subscribe or unsubscribe sets the rows of its topic.
LEMMA RowsObserved ==
  ASSUME TypeOK, IdsInv, RowsInv, Alive, NEW d, NEW a, rx_observe(d, a)
  PROVE  RowsInv'
<1>1. ui' = ui /\ gui' = gui
  BY DEF rx_observe, Rx, coapGuiVars
<1>2. PICK m : m = coap_get_message_from_map(a.id)
  OBVIOUS
<1>3. rows' = observed(m, a.observe)
  BY <1>2 DEF rx_observe
<1>4. CASE m = CoapNoMsg
  BY <1>1, <1>3, <1>4, RowsUntouched DEF observed, LoggingOut
<1>5. CASE m # CoapNoMsg
  <2>1. m.topic \in Topics
    BY <1>2, <1>5, StoredFacts DEF coap_get_message_from_map
  <2>2. rows \in Rows
    BY DEF TypeOK
  <2>3. \/ rows' = unsubscribed(rows, m.topic)
        \/ rows' = save_topic_to_db(add_topics_to_list_box(rows, m.topic), m.topic)
    BY <1>3, <1>5 DEF observed
  <2>4. ASSUME NEW t \in Topics
        PROVE  \/ rows'.list[t] = rows.list[t] /\ rows'.db[t] = rows.db[t]
               \/ rows'.list[t] = rows'.db[t] /\ rows'.list[t] \in { 0, 1 }
    <3>1. /\ rows.list[t] <= 1 /\ rows.db[t] <= rows.list[t]
          /\ rows.db[t] \in Nat /\ rows.list[t] \in Nat
      BY <2>2 DEF RowsInv, Rows
    <3> QED BY <2>2, <2>3, <3>1, RowsUnsubscribed, RowsSaved
  <2> QED BY <1>1, <2>4 DEF RowsInv, CoapListMirrorsDb, LoggingOut
<1> QED BY <1>4, <1>5

LEMMA RowsStep ==
  ASSUME TypeOK, IdsInv, RowsInv, Next
  PROVE  RowsInv'
<1>0. rows \in Rows
  BY DEF TypeOK
<1>1. CASE UserStep
  <2>1. CASE log_out_handle
    <3>1. /\ rows' = rows \/ rows' = [ list |-> rows.list, db |-> [ t \in Topics |-> 0 ] ]
          /\ gui' = "disc_msg"
      BY <2>1 DEF log_out_handle, Gui
    <3> QED BY <1>0, <3>1 DEF RowsInv, CoapListMirrorsDb, LoggingOut, Rows
  <2>2. CASE ~log_out_handle
    <3>1. Alive /\ rows' = rows /\ gui = "idle" /\ (ui' = ui \/ ui' = "loading")
      BY <1>1, <2>2 DEF UserStep, LogIn, LogInFails, send_coap_subscribe, Send, Gui,
                        send_coap_unsubscribe, send_coap_message, storeVars
    <3> QED BY <3>1, RowsUntouched DEF LoggingOut
  <2> QED BY <2>1, <2>2
<1>2. CASE GuiStep \/ ConnectorStep
  <2>1. Alive /\ rows' = rows /\ (ui' = ui \/ ui' = "accounts")
    BY <1>2 DEF GuiStep, ConnectorStep, Gui, coap_connect_fire, coap_connect_timer, send_fire, Fire,
                send_coap_disconnect_messager, send_coap_disconnect_net, coap_connect_task,
                coap_connect_fin, fin_coap_client, connection_unsuccessful, storeVars,
                coapClientVars
  <2>2. (LoggingOut /\ ui' = "main") => LoggingOut'
    BY <1>2 DEF GuiStep, ConnectorStep, Gui, coap_connect_fire, coap_connect_timer, send_fire, Fire,
                send_coap_disconnect_messager, send_coap_disconnect_net, coap_connect_task,
                coap_connect_fin, coapGuiVars, coapClientVars, LoggingOut
  <2> QED BY <2>1, <2>2, RowsUntouched
<1>3. CASE rx_first_timers \/ service_ends
  BY <1>3, RowsUntouched
     DEF rx_first_timers, service_ends, fin_coap_client, connection_unsuccessful, storeVars,
         coapGuiVars, LoggingOut
<1>4. ASSUME NEW i \in AllIds, RxStep(i) PROVE RowsInv'
  <2>1. PICK d, a : \/ rx_first(d) \/ rx_publish(d, a) \/ rx_confirmable(d, a)
                    \/ rx_observe(d, a) \/ rx_puback(d, a) \/ rx_ignored(d, a)
    BY <1>4 DEF RxStep
  <2>2. CASE rx_first(d)
    <3>1. ASSUME NEW t \in Topics
          PROVE  rows'.list[t] = rows'.db[t] /\ rows'.list[t] \in { 0, 1 }
      <4>1. rows.db[t] \in { 0, 1 }
        BY <1>0 DEF RowsInv, Rows
      <4>2. rows' = topics_from_db(rows)
        BY <2>2 DEF rx_first
      <4> QED BY <1>0, <4>1, <4>2, ShownFromDb
    <3> QED BY <3>1 DEF RowsInv, CoapListMirrorsDb
  <2>3. CASE rx_observe(d, a)
    BY <2>3, RowsObserved DEF rx_observe, Rx, Receiving
  <2>4. CASE ~rx_first(d) /\ ~rx_observe(d, a)
    <3>1. Rx(d) /\ rows' = rows
      BY <2>1, <2>4 DEF rx_publish, rx_confirmable, rx_puback, Puback, rx_ignored, storeVars
    <3> QED BY <3>1, RowsUntouched DEF Rx, Receiving, coapGuiVars, LoggingOut
  <2> QED BY <2>2, <2>3, <2>4
<1>5. CASE TimerStep \/ ServerStep \/ NetworkStep
  <2>1. Alive /\ UNCHANGED coapClientVars
    BY <1>5 DEF TimerStep, Timer, ServerStep, NetworkStep, Server
  <2> QED BY <2>1, RowsUntouched DEF coapClientVars, coapGuiVars, storeVars, LoggingOut
<1> QED BY <1>1, <1>2, <1>3, <1>4, <1>5 DEF Next, ServiceStep
-----------------------------------------------------------------------------
(* No message is forgotten.                                                *)

\* A step that keeps the map, the history and the numbers, or ends the map.
LEMMA NotForgottenStays ==
  ASSUME CoapNothingForgotten,
         \/ mapState' = "live" => mapState = "live"
                                  /\ UNCHANGED << messages_map, published, session, saved >>
         \/ mapState' # "live"
  PROVE  CoapNothingForgotten'
BY DEF CoapNothingForgotten

\* Nothing is published yet in a session that begins.
LEMMA NotForgottenInNew ==
  ASSUME \A c \in Contents : published'[c] # session' \/ session' = 0
  PROVE  CoapNothingForgotten'
BY DEF CoapNothingForgotten

LEMMA NotForgottenSend ==
  ASSUME TypeOK, IdsInv, CoapNothingForgotten, NEW m \in CoapMessage, Send(m), m.id = Incremented,
         \A c \in Contents : published'[c] = published[c] \/ m.content = c
  PROVE  CoapNothingForgotten'
<1>1. /\ UNCHANGED << mapState, session, saved >> /\ messages_map' = added(m)
      /\ current_packet_number < CoapMaxNumber
  BY DEF Send, storeVars
<1>2. /\ Incremented \in CoapIds /\ Incremented > current_packet_number
  BY <1>1, IdTypes
<1>3. messages_map[Incremented] = CoapNoMsg
  BY <1>2, NewId
<1>4. messages_map \in [ CoapIds -> CoapMessage ]
  BY DEF TypeOK, CoapTimersTypeOK
<1> SUFFICES ASSUME mapState = "live", NEW c \in Contents, published'[c] = session, session > 0
             PROVE  saved[c] = 1 \/ \E i \in CoapIds : messages_map'[i].content = c
  BY <1>1 DEF CoapNothingForgotten
<1>5. messages_map' = [ messages_map EXCEPT ![Incremented] = m ]
  BY <1>1 DEF added
<1>6. CASE m.content = c
  BY <1>2, <1>4, <1>5, <1>6
<1>7. CASE m.content # c
  <2>1. saved[c] = 1 \/ \E i \in CoapIds : messages_map[i].content = c
    BY <1>7 DEF CoapNothingForgotten
  <2>2. CoapNoMsg.content # c
    BY CoapPacketBounds DEF CoapNoMsg
  <2> QED BY <1>3, <1>4, <1>5, <2>1, <2>2
<1> QED BY <1>6, <1>7

\* What leaves the map is in the history, or was no publish.
LEMMA NotForgottenRemoved ==
  ASSUME TypeOK, IdsInv, HistoryInv, HistoryInv', CoapNothingForgotten, NEW i,
         messages_map' = removed(i), UNCHANGED << mapState, published, session >>,
         saved' \in [ Contents -> Nat ],
         \A c \in Contents : saved'[c] >= saved[c],
         (i \in CoapIds /\ messages_map[i].content \in Contents) =>
            saved'[messages_map[i].content] >= 1
  PROVE  CoapNothingForgotten'
<1> SUFFICES ASSUME mapState = "live", NEW c \in Contents, published[c] = session, session > 0
             PROVE  saved'[c] = 1 \/ \E k \in CoapIds : messages_map'[k].content = c
  BY DEF CoapNothingForgotten
<1>1. saved[c] \in Nat /\ saved'[c] \in Nat /\ saved'[c] <= 1
  BY DEF HistoryInv, TypeOK
<1>2. CASE saved[c] = 1
  BY <1>1, <1>2
<1>3. ASSUME NEW k \in CoapIds, messages_map[k].content = c
      PROVE  saved'[c] = 1 \/ \E j \in CoapIds : messages_map'[j].content = c
  <2>1. CASE k = i
    BY <1>1, <1>3, <2>1
  <2>2. CASE k # i
    BY <1>3, <2>2 DEF removed
  <2> QED BY <2>1, <2>2
<1> QED BY <1>2, <1>3 DEF CoapNothingForgotten

LEMMA ForgottenRx ==
  ASSUME TypeOK, IdsInv, HistoryInv, TypeOK', HistoryInv', CoapNothingForgotten,
         NEW i \in AllIds, RxStep(i)
  PROVE  CoapNothingForgotten'
<1>0. PICK d \in (toClient \cup {rx}) \ {CoapNoMsg} : \E a \in { coap_decode_type(d) } :
        \/ rx_first(d) \/ rx_publish(d, a) \/ rx_confirmable(d, a)
        \/ rx_observe(d, a) \/ rx_puback(d, a) \/ rx_ignored(d, a)
  BY DEF RxStep
<1>1. PICK a : /\ a = coap_decode_type(d)
               /\ \/ rx_first(d) \/ rx_publish(d, a) \/ rx_confirmable(d, a)
                  \/ rx_observe(d, a) \/ rx_puback(d, a) \/ rx_ignored(d, a)
  BY <1>0
<1>2. saved \in [ Contents -> Nat ] /\ saved' \in [ Contents -> Nat ]
  BY DEF TypeOK
<1>3. CASE rx_observe(d, a)
  <2>1. /\ messages_map' = removed(a.id) /\ saved' = saved
        /\ UNCHANGED << mapState, published, session >>
    BY <1>3 DEF rx_observe, Rx, coapGuiVars
  <2>2. a.id = d.id /\ a.code = d.code /\ d \in Answers
    BY <1>1, <1>3, InHandFacts DEF rx_observe
  <2>3. (a.id \in CoapIds /\ messages_map[a.id].content \in Contents) =>
          saved'[messages_map[a.id].content] >= 1
    <3> SUFFICES ASSUME a.id \in CoapIds, messages_map[a.id].content \in Contents PROVE FALSE
      OBVIOUS
    <3>1. messages_map[a.id] # CoapNoMsg
      BY CoapPacketBounds DEF CoapNoMsg
    <3>2. a.id \in Ids1 /\ messages_map[a.id].code = "PUT"
      BY <3>1, StoredFacts, CoapPacketBounds
    <3>3. d = sAnswer[d.id] /\ d # CoapNoMsg
      BY <2>2, <3>2, IdTypes DEF Answers, Ids1
    <3>4. AnswerOK(d.id) /\ d.code = "GET"
      BY <1>3, <2>2, <3>3 DEF IdsInv, rx_observe
    <3> QED BY <2>2, <3>1, <3>2, <3>3, <3>4 DEF AnswerOK
  <2>4. \A c \in Contents : saved'[c] >= saved[c]
    BY <1>2, <2>1
  <2> QED BY <1>2, <2>1, <2>3, <2>4, NotForgottenRemoved
<1>4. CASE rx_puback(d, a)
  <2>1. /\ messages_map' = removed(a.id)
        /\ UNCHANGED << mapState, published, session >>
    BY <1>4 DEF rx_puback, Puback, Rx, coapGuiVars
  <2>2. PICK m : m = coap_get_message_from_map(a.id)
    OBVIOUS
  <2>3. saved' = IF m.code = "PUT" THEN [ saved EXCEPT ![m.content] = @ + 1 ] ELSE saved
    BY <1>4, <2>2 DEF rx_puback, Puback
  <2>4. \A c \in Contents : saved'[c] >= saved[c]
    BY <1>2, <2>3
  <2>5. (a.id \in CoapIds /\ messages_map[a.id].content \in Contents) =>
          saved'[messages_map[a.id].content] >= 1
    <3> SUFFICES ASSUME a.id \in CoapIds, messages_map[a.id].content \in Contents
                 PROVE  saved'[messages_map[a.id].content] >= 1
      OBVIOUS
    <3>1. m = messages_map[a.id]
      BY <2>2 DEF coap_get_message_from_map
    <3>2. m # CoapNoMsg
      BY <3>1, CoapPacketBounds DEF CoapNoMsg
    <3>3. m.code = "PUT"
      BY <3>1, <3>2, StoredFacts, CoapPacketBounds
    <3> QED BY <1>2, <2>3, <3>1, <3>3
  <2> QED BY <1>2, <2>1, <2>4, <2>5, NotForgottenRemoved
<1>5. CASE ~rx_observe(d, a) /\ ~rx_puback(d, a)
  <2>1. UNCHANGED << mapState, messages_map, published, session, saved >>
    BY <1>1, <1>5 DEF rx_first, rx_publish, rx_confirmable, rx_ignored, Rx, storeVars,
                      coapGuiVars
  <2> QED BY <2>1, NotForgottenStays
<1> QED BY <1>3, <1>4, <1>5

\* Every step, for a user who waits for the map.
LEMMA ForgottenStep ==
  ASSUME TypeOK, IdsInv, HistoryInv, SessionInv, TypeOK', HistoryInv', CoapNothingForgotten,
         SlowUser, Next
  PROVE  CoapNothingForgotten'
<1>1. CASE UserStep
  <2>0. published \in [ Contents -> 0 .. CoapMaxSessions ] /\ session \in Nat
    BY CoapClientBounds DEF TypeOK
  <2>1. CASE LogIn \/ LogInFails
    <3>1. session' = session + 1 /\ published' = published
      BY <2>1 DEF LogIn, LogInFails, NewSession
    <3>2. \A c \in Contents : published'[c] # session'
      BY <2>0, <3>1 DEF SessionInv
    <3> QED BY <3>2, NotForgottenInNew
  <2>2. CASE log_out_handle
    BY <2>2, NotForgottenStays DEF log_out_handle, stop_connect_and_ping_timer
  <2>3. ASSUME NEW t \in Topics, send_coap_subscribe(t) \/ send_coap_unsubscribe(t)
        PROVE  CoapNothingForgotten'
    <3>1. PICK o \in { "register", "deregister" } : Send(Observe(Incremented, t, o))
      BY <2>3 DEF send_coap_subscribe, send_coap_unsubscribe
    <3>2. PICK m : m = Observe(Incremented, t, o)
      OBVIOUS
    <3>3. current_packet_number < CoapMaxNumber
      BY <3>1 DEF Send
    <3>4. m \in CoapMessage /\ m.id = Incremented
      BY <3>2, <3>3, MessageTypes, IdTypes DEF Observe, CoapNoMsg
    <3>5. published' = published
      BY <2>3 DEF send_coap_subscribe, send_coap_unsubscribe
    <3> QED BY <3>1, <3>2, <3>4, <3>5, NotForgottenSend
  <2>4. ASSUME NEW t \in Topics, NEW c \in Contents, send_coap_message(c, t)
        PROVE  CoapNothingForgotten'
    <3>1. PICK m : m = Put(Incremented, t, c)
      OBVIOUS
    <3>2. Send(m) /\ published' = [ published EXCEPT ![c] = session ]
      BY <2>4, <3>1 DEF send_coap_message
    <3>3. current_packet_number < CoapMaxNumber
      BY <3>2 DEF Send
    <3>4. m \in CoapMessage /\ m.id = Incremented /\ m.content = c
      BY <3>1, <3>3, MessageTypes, IdTypes DEF Put, CoapNoMsg
    <3>5. \A k \in Contents : published'[k] = published[k] \/ m.content = k
      BY <2>0, <3>2, <3>4
    <3> QED BY <3>2, <3>4, <3>5, NotForgottenSend
  <2> QED BY <1>1, <2>1, <2>2, <2>3, <2>4 DEF UserStep
<1>2. CASE rx_first_timers
  BY <1>2, NotForgottenInNew DEF rx_first_timers, SessionInv, coapGuiVars
<1>3. CASE GuiStep \/ ConnectorStep \/ service_ends \/ TimerStep \/ ServerStep \/ NetworkStep
  <2>1. UNCHANGED << mapState, messages_map, published, session, saved >>
    BY <1>3 DEF GuiStep, ConnectorStep, coap_connect_fire, coap_connect_timer, send_fire, Fire,
                send_coap_disconnect_messager, coap_stop_message_timer,
                send_coap_disconnect_net, coap_connect_task, coap_connect_fin, service_ends,
                TimerStep, Timer, coap_ping_task, resend_from_freed_map,
                coap_message_resend_task, ServerStep, NetworkStep, Server, coapTimerVars,
                coapClientVars, coapGuiVars, storeVars
  <2> QED BY <2>1, NotForgottenStays
<1> QED BY <1>1, <1>2, <1>3, ForgottenRx DEF Next, ServiceStep
-----------------------------------------------------------------------------
(* The theorems.                                                           *)

LEMMA CoapInit == Init => CoapInv
<1> SUFFICES ASSUME Init PROVE CoapInv
  OBVIOUS
<1>1. TypeOK
  BY InitType
<1>2. IdsInv
  <2>1. \A i \in CoapIds : messages_map[i] = CoapNoMsg /\ sAnswer[i] = CoapNoMsg
    BY DEF Init, CoapTimersInit, CoapServerInit, NoMessages
  <2>2. CoapNoMsg.content = None
    BY DEF CoapNoMsg
  <2> QED BY <2>1, <2>2 DEF Init, CoapTimersInit, IdsInv, OncePerContent
<1>3. HistoryInv
  BY DEF Init, CoapServerInit, HistoryInv, CoapIncomingStored, CoapHistoryIsPublished
<1>4. SessionInv
  BY DEF Init, CoapTimersInit, SessionInv
<1>5. RowsInv
  BY DEF Init, RowsInv, CoapListMirrorsDb, NoRows
<1>6. ForgottenInv
  BY DEF Init, ForgottenInv, CoapNothingForgotten
<1> QED BY <1>1, <1>2, <1>3, <1>4, <1>5, <1>6 DEF CoapInv

LEMMA CoapStep ==
  ASSUME CoapInv, [Next]_vars
  PROVE  CoapInv'
<1>1. TypeOK'
  BY NextType DEF CoapInv
<1>2. CASE UNCHANGED vars
  <2> USE DEF vars, coapNetVars, coapTimerVars, serverVars, coapClientVars, coapGuiVars, storeVars
  <2>1. IdsInv' /\ HistoryInv' /\ SessionInv'
    BY <1>2, IdsUntouched, HistoryUntouched, SessionUntouched DEF CoapInv
  <2>2. RowsInv' /\ ForgottenInv'
    BY <1>2, NotForgottenStays
       DEF CoapInv, RowsInv, CoapListMirrorsDb, LoggingOut, Alive, ForgottenInv
  <2> QED BY <1>1, <2>1, <2>2 DEF CoapInv
<1>3. CASE Next
  <2>1. IdsInv' /\ HistoryInv'
    BY <1>3, IdsUser, IdsGui, IdsService, IdsTimer, IdsServer DEF CoapInv, Next
  <2>2. SessionInv'
    BY <1>3, SessionUser, SessionGui, SessionService, SessionElsewhere DEF CoapInv, Next
  <2>3. RowsInv'
    BY <1>3, RowsStep DEF CoapInv
  <2>4. ForgottenInv'
    BY <1>1, <1>3, <2>1, ForgottenStep DEF CoapInv, ForgottenInv
  <2> QED BY <1>1, <2>1, <2>2, <2>3, <2>4 DEF CoapInv
<1> QED BY <1>2, <1>3

\* Everything below at once: types, what every id names, the history and the
\* store, the sessions, the rows.
THEOREM CoapInvariant == Spec => []CoapInv
BY CoapInit, CoapStep, PTL DEF Spec

\* A message is in the history at most once, and only after the server has
\* passed it on, unless the server may refuse a PUT: process_coap_rx does not
\* look at the code of an acknowledgement.
THEOREM CoapSavedOnceDeliveredHolds ==
  ASSUME "PUT" \notin Rejected
  PROVE  Spec => []CoapSavedOnceDelivered
<1>1. CoapInv => CoapSavedOnceDelivered
  BY DEF CoapInv, HistoryInv, CoapSavedOnceDelivered
<1> QED BY <1>1, CoapInvariant, PTL

\* No unanswered message is forgotten, if no button is pressed before the map is
\* there: coap_add_message_in_map drops what it is given without one.
THEOREM CoapNothingForgottenHolds ==
  ASSUME SlowUser
  PROVE  Spec => []CoapNothingForgotten
<1>1. CoapInv => CoapNothingForgotten
  BY DEF CoapInv, ForgottenInv
<1> QED BY <1>1, CoapInvariant, PTL

\* What the server counts as acknowledged is stored, under its own topic: the
\* PUT branch stores before it sends the acknowledgement.
THEOREM CoapIncomingStoredHolds == Spec => []CoapIncomingStored
<1>1. CoapInv => CoapIncomingStored
  BY DEF CoapInv, HistoryInv
<1> QED BY <1>1, CoapInvariant, PTL

\* Only a refusal of the server puts something else than a published message
\* into the history.
THEOREM CoapHistoryIsPublishedHolds == Spec => []CoapHistoryIsPublished
<1>1. CoapInv => CoapHistoryIsPublished
  BY DEF CoapInv, HistoryInv
<1> QED BY <1>1, CoapInvariant, PTL

\* The topic list of the main window and the topic table agree, each topic once,
\* under lost, repeated and late answers.
THEOREM CoapListMirrorsDbHolds == Spec => []CoapListMirrorsDb
<1>1. CoapInv => CoapListMirrorsDb
  BY DEF CoapInv, RowsInv
<1> QED BY <1>1, CoapInvariant, PTL

-----------------------------------------------------------------------------
(* The promise of Publishing.  Its map is made anew by the first datagram  *)
(* of a session; nothing is kept when that happens, also when a map was    *)
(* never taken down because the connector gave the last session up.        *)

NothingKept == \A i \in CoapIds : messages_map[i].code # "PUT"

KeptInv ==
  /\ (ui = "main" /\ worker = "service") => mapState # "null"
  /\ (mapState = "live" /\ (ui # "main" \/ worker = "timers" \/ LoggingOut)) => NothingKept

Asked(m) == m.content \in Contents => published[m.content] # 0

\* a message on its way to the server was published by the user
AskedInv ==
  /\ gui = "op_fire" => Asked(guiMsg)
  /\ \A m \in toServer : Asked(m)

\* A step that publishes nothing and puts only such messages on their way.
LEMMA AskedMoves ==
  ASSUME AskedInv, published' = published,
         gui' = "op_fire" => gui = "op_fire" /\ guiMsg' = guiMsg,
         \A m \in toServer' : m \in toServer \/ Asked(m)
  PROVE  AskedInv'
BY DEF AskedInv, Asked

\* A button: what it builds is new, and counts as published if it is a PUT.
LEMMA AskedSend ==
  ASSUME TypeOK, SessionInv, AskedInv, NEW m, Send(m),
         \/ m.content \notin Contents /\ published' = published
         \/ m.content \in Contents /\ published' = [ published EXCEPT ![m.content] = session ]
  PROVE  AskedInv'
<1>1. guiMsg' = m /\ toServer' = toServer /\ ui = "main"
  BY DEF Send
<1>2. session # 0 /\ published \in [ Contents -> 0 .. CoapMaxSessions ]
  BY <1>1 DEF SessionInv, TypeOK
<1>3. \A c \in Contents : published[c] # 0 => published'[c] # 0
  BY <1>2
<1>4. Asked(m)'
  BY <1>2 DEF Asked
<1> QED BY <1>1, <1>3, <1>4 DEF AskedInv, Asked

LEMMA AskedStep ==
  ASSUME TypeOK, IdsInv, SessionInv, AskedInv, Next
  PROVE  AskedInv'
<1>0. CoapNoMsg.content = None /\ None \notin Contents
  BY CoapPacketBounds DEF CoapNoMsg
<1>1. Asked(CoapPing) /\ \A a, ok : Asked(CoapAck(a, ok))
  BY <1>0 DEF Asked, CoapPing, Put, CoapAck, CoapNoMsg
<1>2. CASE UserStep
  <2>1. CASE LogIn \/ LogInFails \/ log_out_handle
    BY <2>1, AskedMoves DEF LogIn, LogInFails, log_out_handle, Gui, init_net_service
  <2>2. ASSUME NEW t \in Topics, send_coap_subscribe(t) \/ send_coap_unsubscribe(t)
        PROVE  AskedInv'
    <3>1. PICK o \in { "register", "deregister" } : Send(Observe(Incremented, t, o))
      BY <2>2 DEF send_coap_subscribe, send_coap_unsubscribe
    <3>2. published' = published
      BY <2>2 DEF send_coap_subscribe, send_coap_unsubscribe
    <3>3. Observe(Incremented, t, o).content = None
      BY DEF Observe, CoapNoMsg
    <3> QED BY <1>0, <3>1, <3>2, <3>3, AskedSend
  <2>3. ASSUME NEW t \in Topics, NEW c \in Contents, send_coap_message(c, t)
        PROVE  AskedInv'
    <3>1. Put(Incremented, t, c).content = c
      BY DEF Put, CoapNoMsg
    <3>2. /\ Send(Put(Incremented, t, c))
          /\ published' = [ published EXCEPT ![c] = session ]
      BY <2>3 DEF send_coap_message
    <3> QED BY <3>1, <3>2, AskedSend
  <2> QED BY <1>2, <2>1, <2>2, <2>3 DEF UserStep
<1>3. CASE GuiStep \/ ConnectorStep
  <2>1. published' = published /\ gui' \in { gui, "conn_timer", "idle", "disc_net" }
    BY <1>3 DEF GuiStep, ConnectorStep, coap_connect_fire, coap_connect_timer, send_fire, Fire,
       send_coap_disconnect_messager, send_coap_disconnect_net, coap_connect_task,
       coap_connect_fin, Gui, coapClientVars, coapGuiVars
  <2>2. gui' = gui => guiMsg' = guiMsg
    BY <1>3 DEF GuiStep, ConnectorStep, coap_connect_fire, coap_connect_timer, send_fire, Fire,
       send_coap_disconnect_messager, send_coap_disconnect_net, coap_connect_task,
       coap_connect_fin, Gui, coapClientVars, coapGuiVars
  <2>3. toServer' \subseteq toServer \cup {CoapPing}
                            \cup (IF gui = "op_fire" THEN {guiMsg} ELSE {})
    BY <1>3 DEF GuiStep, ConnectorStep, coap_connect_fire, coap_connect_timer, send_fire, Fire,
       send_coap_disconnect_messager, send_coap_disconnect_net, coap_connect_task,
       coap_connect_fin, Gui, coapNetVars, coap_encode_and_fire
  <2>4. \A m \in toServer' : m \in toServer \/ Asked(m)
    BY <1>1, <2>3 DEF AskedInv
  <2> QED BY <2>1, <2>2, <2>4, AskedMoves
<1>4. CASE ServiceStep
  <2>1. CASE rx_first_timers \/ service_ends
    BY <2>1, AskedMoves DEF rx_first_timers, service_ends, coapNetVars, coapGuiVars
  <2>2. ASSUME NEW i \in AllIds, RxStep(i) PROVE AskedInv'
    <3>1. PICK d, a : \/ rx_first(d) \/ rx_publish(d, a) \/ rx_confirmable(d, a)
                      \/ rx_observe(d, a) \/ rx_puback(d, a) \/ rx_ignored(d, a)
      BY <2>2 DEF RxStep
    <3>2. UNCHANGED << published, gui, guiMsg >>
      BY <3>1 DEF rx_first, rx_publish, rx_confirmable, rx_observe, rx_puback, Puback,
         rx_ignored, Rx, coapGuiVars
    <3>3. \/ toServer' = toServer
          \/ \E ok : toServer' \subseteq toServer \cup { CoapAck(a, ok) }
      BY <3>1 DEF rx_first, rx_publish, rx_confirmable, rx_observe, rx_puback, Puback,
         rx_ignored, coap_encode_and_fire
    <3> QED BY <1>1, <3>2, <3>3, AskedMoves
  <2> QED BY <1>4, <2>1, <2>2 DEF ServiceStep
<1>5. CASE TimerStep
  <2>1. UNCHANGED << published, gui, guiMsg >>
    BY <1>5 DEF TimerStep, Timer, coapClientVars, coapGuiVars
  <2>2. toServer' \subseteq toServer \cup {CoapPing}
                            \cup { messages_map[i] : i \in { j \in CoapIds : messages_map[j] # CoapNoMsg } }
    BY <1>5 DEF TimerStep, Timer, coap_ping_task, resend_from_freed_map,
       coap_message_resend_task, coap_encode_and_fire
  <2>3. \A i \in CoapIds : messages_map[i] # CoapNoMsg => Asked(messages_map[i])
    BY <1>0, StoredFacts DEF Asked
  <2>4. \A m \in toServer' : m \in toServer \/ Asked(m)
    BY <1>1, <2>2, <2>3
  <2> QED BY <2>1, <2>4, AskedMoves
<1>6. CASE ServerStep \/ NetworkStep
  <2>1. UNCHANGED << published, gui, guiMsg >> /\ toServer' \subseteq toServer
    BY <1>6 DEF ServerStep, NetworkStep, Server, ServerReads, ServerPublishes, ServerPings,
       LoseDatagram, LoseSocket, coapClientVars, coapGuiVars
  <2> QED BY <2>1, AskedMoves
<1> QED BY <1>2, <1>3, <1>4, <1>5, <1>6 DEF Next

LEMMA NoMessagesKept == messages_map' = NoMessages => NothingKept' /\ KeptContents' = {}
<1>1. \A i \in CoapIds : NoMessages[i] = CoapNoMsg /\ CoapNoMsg.code = "-"
  BY DEF NoMessages, CoapNoMsg
<1> QED BY <1>1 DEF NothingKept, KeptContents

LEMMA KeptStep ==
  ASSUME TypeOK, SessionInv, KeptInv, SlowUser, Next
  PROVE  KeptInv'
<1>0. worker \in { "service", "timers" }
  BY DEF TypeOK
<1>1. ASSUME UNCHANGED << messages_map, mapState, ui, worker >>, LoggingOut' => LoggingOut
      PROVE  KeptInv'
  BY <1>1 DEF KeptInv, NothingKept
<1>2. CASE UserStep
  <2>1. CASE LogIn
    <3>1. ui = "accounts" /\ ui' = "loading" /\ UNCHANGED << messages_map, mapState, worker >>
      BY <2>1 DEF LogIn, NewSession, coapTimerVars
    <3> QED BY <3>1 DEF KeptInv, NothingKept
  <2>2. CASE LogInFails
    BY <1>1, <2>2 DEF LogInFails, Gui, LoggingOut, coapTimerVars
  <2>3. CASE log_out_handle
    <3>1. /\ UNCHANGED << ui, worker >> /\ messages_map' = NoMessages
          /\ mapState' = (IF mapState = "null" THEN "null" ELSE "destroyed")
      BY <2>3 DEF log_out_handle, stop_connect_and_ping_timer
    <3> QED BY <3>1 DEF KeptInv
  <2>4. ASSUME NEW m, Send(m) PROVE KeptInv'
    <3>1. /\ ui = "main" /\ worker = "service" /\ gui' = "op_fire"
          /\ UNCHANGED << ui, worker, mapState >>
      BY <2>4 DEF Send, Gui
    <3> QED BY <3>1 DEF KeptInv, LoggingOut
  <2> QED
    BY <1>2, <2>1, <2>2, <2>3, <2>4
       DEF UserStep, send_coap_subscribe, send_coap_unsubscribe, send_coap_message
<1>3. CASE GuiStep
  <2>1. CASE send_coap_disconnect_net
    <3>1. LoggingOut /\ ui' = "accounts" /\ UNCHANGED << messages_map, mapState, worker >>
      BY <2>1 DEF send_coap_disconnect_net, Gui, LoggingOut, coapTimerVars
    <3> QED BY <3>1 DEF KeptInv, NothingKept
  <2> QED
    BY <1>1, <1>3, <2>1
       DEF GuiStep, coap_connect_fire, coap_connect_timer, send_fire, Fire,
           send_coap_disconnect_messager, coap_stop_message_timer, Gui, LoggingOut, coapTimerVars
<1>4. CASE ConnectorStep \/ service_ends
  <2>1. UNCHANGED << messages_map, mapState, worker, gui >>
    BY <1>4 DEF ConnectorStep, coap_connect_task, coap_connect_fin, service_ends,
       coapTimerVars, coapClientVars, coapGuiVars
  <2>2. ui' = ui \/ (ui' = "accounts" /\ init_connect)
    BY <1>4 DEF ConnectorStep, coap_connect_task, coap_connect_fin, service_ends,
       fin_coap_client, connection_unsuccessful, coapClientVars
  <2>3. init_connect => worker = "timers" \/ ui = "loading"
    BY <1>0 DEF SessionInv
  <2> QED BY <2>1, <2>2, <2>3 DEF KeptInv, NothingKept, LoggingOut
<1>5. CASE rx_first_timers
  <2>1. messages_map' = NoMessages /\ mapState' = "live"
    BY <1>5 DEF rx_first_timers, start_session_timers
  <2> QED BY <2>1, NoMessagesKept DEF KeptInv
<1>6. ASSUME NEW i \in AllIds, RxStep(i) PROVE KeptInv'
  <2>1. PICK d, a : \/ rx_first(d) \/ rx_publish(d, a) \/ rx_confirmable(d, a)
                    \/ rx_observe(d, a) \/ rx_puback(d, a) \/ rx_ignored(d, a)
    BY <1>6 DEF RxStep
  <2>2. CASE rx_first(d)
    <3>1. /\ init_connect /\ worker = "service" /\ worker' = "timers"
          /\ UNCHANGED << messages_map, mapState >>
      BY <2>2 DEF rx_first, Receiving
    <3>2. ui = "loading"
      BY <3>1 DEF SessionInv
    <3> QED BY <3>1, <3>2 DEF KeptInv, NothingKept
  <2>3. CASE ~rx_first(d)
    <3>1. UNCHANGED << mapState, ui, worker, gui >>
      BY <2>1, <2>3 DEF rx_publish, rx_confirmable, rx_observe, rx_puback, Puback, rx_ignored,
         Rx, coapGuiVars
    <3>2. messages_map' = messages_map \/ messages_map' = removed(a.id)
      BY <2>1, <2>3 DEF rx_publish, rx_confirmable, rx_observe, rx_puback, Puback, rx_ignored
    <3>3. NothingKept => NothingKept'
      BY <3>2 DEF NothingKept, removed, CoapNoMsg
    <3> QED BY <3>1, <3>3 DEF KeptInv, LoggingOut
  <2> QED BY <2>2, <2>3
<1>7. CASE TimerStep \/ ServerStep \/ NetworkStep
  <2>1. UNCHANGED << messages_map, mapState, ui, worker, gui >>
    BY <1>7 DEF TimerStep, Timer, coap_ping_task, resend_from_freed_map,
       coap_message_resend_task, ServerStep, NetworkStep, Server, coapTimerVars,
       coapClientVars, coapGuiVars
  <2> QED BY <1>1, <2>1 DEF LoggingOut
<1> QED BY <1>2, <1>3, <1>4, <1>5, <1>6, <1>7 DEF Next, ServiceStep

Delivered == { c \in Contents : delivered[c] > 0 }

\* A step that Publishing does not see.
LEMMA PromiseStutters ==
  ASSUME UNCHANGED << published, saved, KeptContents, Delivered >>,
         mapState' = "live" <=> mapState = "live"
  PROVE  UNCHANGED Promise!publishingVars
BY DEF Promise!publishingVars, Published, Delivered

LEMMA KeptSame == messages_map' = messages_map => KeptContents' = KeptContents
BY DEF KeptContents

LEMMA KeptRemoved ==
  ASSUME NEW i, messages_map' = removed(i), i \in CoapIds => messages_map[i].code # "PUT"
  PROVE  KeptContents' = KeptContents
<1>1. \A k \in CoapIds : messages_map'[k] = IF k = i THEN CoapNoMsg ELSE messages_map[k]
  BY DEF removed
<1>2. CoapNoMsg.code # "PUT"
  BY DEF CoapNoMsg
<1>3. \A c : (\E k \in CoapIds : messages_map'[k].code = "PUT" /\ messages_map'[k].content = c)
         <=> (\E k \in CoapIds : messages_map[k].code = "PUT" /\ messages_map[k].content = c)
  BY <1>1, <1>2
<1> QED BY <1>3 DEF KeptContents

\* The buttons: a new message is kept, the log out gives up what is left.
LEMMA PromiseUser ==
  ASSUME TypeOK, IdsInv, SessionInv, KeptInv, SlowUser, UserStep
  PROVE  Promise!PublishingNext \/ UNCHANGED Promise!publishingVars
<1>0. /\ UNCHANGED << saved, delivered >> /\ Delivered' = Delivered
      /\ messages_map \in [ CoapIds -> CoapMessage ]
      /\ published \in [ Contents -> 0 .. CoapMaxSessions ]
  <2>1. UNCHANGED << saved, delivered >>
    BY DEF UserStep, LogIn, LogInFails, log_out_handle, send_coap_subscribe,
       send_coap_unsubscribe, send_coap_message, Send, serverVars, storeVars
  <2> QED BY <2>1 DEF Delivered, TypeOK, CoapTimersTypeOK
<1>1. CASE LogIn \/ LogInFails
  <2>1. UNCHANGED << published, messages_map, mapState >>
    BY <1>1 DEF LogIn, LogInFails, coapTimerVars
  <2> QED BY <1>0, <2>1, KeptSame, PromiseStutters
<1>2. CASE log_out_handle
  <2>1. /\ messages_map' = NoMessages /\ published' = published
        /\ mapState' = (IF mapState = "null" THEN "null" ELSE "destroyed")
    BY <1>2 DEF log_out_handle, stop_connect_and_ping_timer
  <2>2. Promise!End
    BY <1>0, <2>1, NoMessagesKept DEF Promise!End, Published, Delivered
  <2> QED BY <2>2 DEF Promise!PublishingNext
<1>3. ASSUME NEW m, Send(m), m.id = Incremented
      PROVE  /\ ui = "main" /\ mapState' = mapState /\ Incremented \in CoapIds
             /\ messages_map[Incremented] = CoapNoMsg
             /\ messages_map' = [ messages_map EXCEPT ![Incremented] = m ]
  <2>1. /\ ui = "main" /\ worker = "service" /\ messages_map' = added(m)
        /\ current_packet_number < CoapMaxNumber /\ mapState' = mapState
    BY <1>3 DEF Send
  <2>2. Incremented \in CoapIds /\ Incremented > current_packet_number
    BY <2>1, IdTypes
  <2>3. mapState # "null"
    BY <2>1 DEF KeptInv
  <2> QED BY <1>3, <2>1, <2>2, <2>3, NewId DEF added
<1>4. ASSUME NEW t \in Topics, send_coap_subscribe(t) \/ send_coap_unsubscribe(t)
      PROVE  UNCHANGED Promise!publishingVars
  <2>1. PICK o \in { "register", "deregister" } : Send(Observe(Incremented, t, o))
    BY <1>4 DEF send_coap_subscribe, send_coap_unsubscribe
  <2>2. PICK m : m = Observe(Incremented, t, o)
    OBVIOUS
  <2>3. m.id = Incremented /\ m.code = "GET" /\ CoapNoMsg.code = "-"
    BY <2>2 DEF Observe, CoapNoMsg
  <2>4. /\ mapState' = mapState /\ Incremented \in CoapIds
        /\ messages_map[Incremented] = CoapNoMsg
        /\ messages_map' = [ messages_map EXCEPT ![Incremented] = m ]
    BY <1>3, <2>1, <2>2, <2>3
  <2> HIDE DEF Incremented
  <2>5. \A c : (\E k \in CoapIds : messages_map'[k].code = "PUT" /\ messages_map'[k].content = c)
           <=> (\E k \in CoapIds : messages_map[k].code = "PUT" /\ messages_map[k].content = c)
    BY <1>0, <2>3, <2>4
  <2>6. KeptContents' = KeptContents
    BY <2>5 DEF KeptContents
  <2>7. published' = published
    BY <1>4 DEF send_coap_subscribe, send_coap_unsubscribe
  <2> QED BY <1>0, <2>4, <2>6, <2>7, PromiseStutters
<1>5. ASSUME NEW t \in Topics, NEW c \in Contents, send_coap_message(c, t)
      PROVE  Promise!PublishingNext
  <2>1. PICK m : m = Put(Incremented, t, c)
    OBVIOUS
  <2>2. m.id = Incremented /\ m.code = "PUT" /\ m.content = c /\ CoapNoMsg.code = "-"
    BY <2>1 DEF Put, CoapNoMsg
  <2>3. /\ Send(m) /\ published[c] = 0 /\ published' = [ published EXCEPT ![c] = session ]
    BY <1>5, <2>1 DEF send_coap_message
  <2>4. /\ mapState' = mapState /\ Incremented \in CoapIds /\ ui = "main"
        /\ messages_map[Incremented] = CoapNoMsg
        /\ messages_map' = [ messages_map EXCEPT ![Incremented] = m ]
    BY <1>3, <2>2, <2>3
  <2> HIDE DEF Incremented
  <2>5. \A d \in Contents :
          (\E k \in CoapIds : messages_map'[k].code = "PUT" /\ messages_map'[k].content = d)
          <=> d = c \/ (\E k \in CoapIds : messages_map[k].code = "PUT"
                                           /\ messages_map[k].content = d)
    BY <1>0, <2>2, <2>4
  <2>6. KeptContents' = KeptContents \cup {c}
    BY <2>5 DEF KeptContents
  <2>7. session # 0
    BY <2>4 DEF SessionInv
  <2>8. Published' = Published \cup {c} /\ c \notin Published
    BY <1>0, <2>3, <2>7 DEF Published
  <2>9. Promise!Publish(c)
    BY <1>0, <2>4, <2>6, <2>8 DEF Promise!Publish, Delivered
  <2> QED BY <2>9 DEF Promise!PublishingNext
<1> QED BY <1>1, <1>2, <1>4, <1>5 DEF UserStep

\* The service thread: an acknowledgement moves its message into the history.
LEMMA PromiseRx ==
  ASSUME TypeOK, IdsInv, HistoryInv, "PUT" \notin Rejected, NEW i \in AllIds, RxStep(i)
  PROVE  Promise!PublishingNext \/ UNCHANGED Promise!publishingVars
<1>d. PICK d \in (toClient \cup {rx}) \ {CoapNoMsg} : \E a \in { coap_decode_type(d) } :
        \/ rx_first(d) \/ rx_publish(d, a) \/ rx_confirmable(d, a)
        \/ rx_observe(d, a) \/ rx_puback(d, a) \/ rx_ignored(d, a)
  BY DEF RxStep
<1>0. PICK a : /\ d \in (toClient \cup {rx}) \ {CoapNoMsg} /\ a = coap_decode_type(d)
               /\ \/ rx_first(d) \/ rx_publish(d, a) \/ rx_confirmable(d, a)
                  \/ rx_observe(d, a) \/ rx_puback(d, a) \/ rx_ignored(d, a)
  BY <1>d
<1>1. /\ UNCHANGED << published, delivered, mapState >> /\ UNCHANGED << Published, Delivered >>
  <2>1. UNCHANGED << published, delivered, mapState >>
    BY <1>0 DEF rx_first, rx_publish, rx_confirmable, rx_observe, rx_puback, Puback, rx_ignored,
       Rx, coapGuiVars, serverVars
  <2> QED BY <2>1 DEF Published, Delivered
<1>2. saved \in [ Contents -> Nat ] /\ CoapNoMsg.code = "-"
  BY DEF TypeOK, CoapNoMsg
<1>3. CASE rx_observe(d, a) \/ rx_puback(d, a)
  <2>1. /\ a.id = d.id /\ a.code = d.code /\ d \in Answers /\ messages_map' = removed(d.id)
        /\ rx_observe(d, a) => d.code = "GET" /\ saved' = saved
        /\ rx_puback(d, a) => d.code # "GET" /\ d.id # 0
    BY <1>0, <1>3, InHandFacts DEF rx_observe, rx_puback, Puback
  <2> DEFINE m == messages_map[d.id]
  <2>2. (d.id \in CoapIds /\ m # CoapNoMsg) => d = sAnswer[d.id] /\ AnswerOK(d.id)
    <3> SUFFICES ASSUME d.id \in CoapIds, m # CoapNoMsg
                 PROVE  d = sAnswer[d.id] /\ AnswerOK(d.id)
      OBVIOUS
    <3>1. d.id # 0
      BY StoredFacts, IdTypes DEF Ids1
    <3> QED BY <2>1, <3>1 DEF Answers, IdsInv
  <2>3. CASE d.id \in CoapIds /\ m.code = "PUT"
    <3>0. PICK c : c = m.content
      OBVIOUS
    <3>1. m # CoapNoMsg /\ c \in Contents /\ saved[c] = 0 /\ published[c] # 0
      BY <1>2, <2>3, <3>0, StoredFacts
    <3>2. rx_puback(d, a) /\ delivered[c] > 0
      BY <1>3, <2>1, <2>2, <2>3, <3>0, <3>1 DEF AnswerOK
    <3>3. saved' = [ saved EXCEPT ![c] = 1 ]
      <4>1. coap_get_message_from_map(a.id) = m
        BY <2>1, <2>3 DEF coap_get_message_from_map
      <4>2. saved' = [ saved EXCEPT ![c] = @ + 1 ]
        BY <2>3, <3>0, <3>2, <4>1 DEF rx_puback, Puback
      <4> QED BY <1>2, <3>1, <4>2
    <3>4. \A k \in CoapIds : messages_map'[k] = IF k = d.id THEN CoapNoMsg ELSE messages_map[k]
      BY <2>1 DEF removed
    <3>5. \A k \in CoapIds : messages_map[k].content = c => k = d.id
      BY <2>3, <3>0, <3>1, CoapPacketBounds DEF IdsInv, OncePerContent
    <3>6. KeptContents' = KeptContents \ {c} /\ c \in KeptContents
      BY <1>2, <2>3, <3>0, <3>1, <3>4, <3>5 DEF KeptContents
    <3>7. Promise!Save(c)
      BY <1>1, <3>1, <3>2, <3>3, <3>6 DEF Promise!Save, Delivered
    <3> QED BY <3>1, <3>7 DEF Promise!PublishingNext
  <2>4. CASE ~(d.id \in CoapIds /\ m.code = "PUT")
    <3>1. saved' = saved
      BY <1>2, <1>3, <2>1, <2>4 DEF rx_puback, Puback, coap_get_message_from_map
    <3> QED BY <1>1, <2>1, <2>4, <3>1, KeptRemoved, PromiseStutters
  <2> QED BY <2>3, <2>4
<1>4. CASE ~(rx_observe(d, a) \/ rx_puback(d, a))
  <2>1. UNCHANGED << messages_map, saved >>
    BY <1>0, <1>4 DEF rx_first, rx_publish, rx_confirmable, rx_ignored, storeVars
  <2> QED BY <1>1, <2>1, KeptSame, PromiseStutters
<1> QED BY <1>3, <1>4

\* The first datagram of a session: a new map, and nothing was kept.
LEMMA PromiseTimers ==
  ASSUME KeptInv, rx_first_timers
  PROVE  Promise!PublishingNext \/ UNCHANGED Promise!publishingVars
<1>1. /\ worker = "timers" /\ messages_map' = NoMessages /\ mapState' = "live"
      /\ UNCHANGED << published, saved, delivered >>
  BY DEF rx_first_timers, start_session_timers, coapGuiVars, storeVars, serverVars
<1>2. UNCHANGED << Published, Delivered >> /\ KeptContents' = {}
  BY <1>1, NoMessagesKept DEF Published, Delivered
<1>3. CASE mapState = "live"
  <2>1. KeptContents = {}
    BY <1>1, <1>3 DEF KeptInv, NothingKept, KeptContents
  <2> QED BY <1>1, <1>2, <1>3, <2>1, PromiseStutters
<1>4. CASE mapState # "live"
  <2>1. Promise!Begin
    BY <1>1, <1>2, <1>4 DEF Promise!Begin, Delivered
  <2> QED BY <2>1 DEF Promise!PublishingNext
<1> QED BY <1>3, <1>4

\* The server passes on what the user has published.
LEMMA PromiseServer ==
  ASSUME TypeOK, IdsInv, AskedInv, ServerStep \/ NetworkStep
  PROVE  Promise!PublishingNext \/ UNCHANGED Promise!publishingVars
<1>1. /\ UNCHANGED << published, saved, messages_map, mapState >>
      /\ UNCHANGED << Published, KeptContents >>
  <2>1. UNCHANGED << published, saved, messages_map, mapState >>
    BY DEF ServerStep, NetworkStep, Server, coapTimerVars, coapClientVars, coapGuiVars, storeVars
  <2> QED BY <2>1, KeptSame DEF Published
<1>2. CASE delivered' = delivered
  BY <1>1, <1>2, PromiseStutters DEF Delivered
<1>3. ASSUME NEW m \in toServer, m \in Requests, m.code = "PUT",
             delivered' = [ delivered EXCEPT ![m.content] = @ + 1 ]
      PROVE  Promise!PublishingNext
  <2>1. m.content \in Published /\ m.content \in Contents
    BY <1>3 DEF Requests, AskedInv, Asked, Published
  <2>2. PICK c \in Contents : c = m.content
    BY <2>1
  <2>3. delivered \in [ Contents -> Nat ]
    BY DEF TypeOK, CoapServerTypeOK
  <2>4. Delivered' = Delivered \cup {c}
    BY <1>3, <2>2, <2>3 DEF Delivered
  <2>5. Promise!PassOn(c)
    BY <1>1, <2>1, <2>2, <2>4 DEF Promise!PassOn, Delivered
  <2> QED BY <2>2, <2>5 DEF Promise!PublishingNext
<1>4. ASSUME NEW i \in AllIds, Server(ServerReads(i))
      PROVE  Promise!PublishingNext \/ UNCHANGED Promise!publishingVars
  <2>1. PICK m \in toServer :
          ReadPing(m) \/ ReadObserve(m) \/ ReadPut(m) \/ Reject(m) \/ ReadAck(m)
    BY <1>4 DEF Server, ServerReads
  <2>2. CASE ReadPing(m) \/ ReadAck(m)
    BY <1>2, <2>2 DEF ReadPing, ReadAck, serverVars
  <2>3. CASE ReadObserve(m) \/ ReadPut(m) \/ Reject(m)
    <3>1. m \in Requests
      BY <2>3, ServerAnswers
    <3>2. \/ delivered' = delivered
          \/ m.code = "PUT" /\ delivered' = [ delivered EXCEPT ![m.content] = @ + 1 ]
      BY <2>3, ServerAnswers
    <3> QED BY <1>2, <1>3, <3>1, <3>2
  <2> QED BY <2>1, <2>2, <2>3
<1> QED
  BY <1>2, <1>4 DEF ServerStep, NetworkStep, Server, ServerPublishes, ServerPings,
     LoseDatagram, LoseSocket, serverVars

\* The client keeps the promise of Publishing: until its session ends it drops
\* no message, and each gets into the history once, after the server has passed
\* it on -- if no button is pressed before the map is there, and the server
\* refuses no PUT.
THEOREM CoapKeepsPromiseHolds ==
  ASSUME SlowUser, "PUT" \notin Rejected
  PROVE  Spec => CoapKeepsPromise
<1>1. Init => Promise!PublishingInit /\ KeptInv /\ AskedInv
  <2> SUFFICES ASSUME Init PROVE Promise!PublishingInit /\ KeptInv /\ AskedInv
    OBVIOUS
  <2>1. /\ published = [ c \in Contents |-> 0 ] /\ saved = [ c \in Contents |-> 0 ]
        /\ delivered = [ c \in Contents |-> 0 ] /\ mapState = "null" /\ gui = "idle"
        /\ messages_map = NoMessages /\ toServer = {} /\ ui = "accounts"
    BY DEF Init, CoapTimersInit, CoapServerInit
  <2>2. Published = {} /\ Delivered = {} /\ KeptContents = {}
    BY <2>1 DEF Published, Delivered, KeptContents, NoMessages, CoapNoMsg
  <2> QED BY <2>1, <2>2 DEF Promise!PublishingInit, KeptInv, AskedInv, Delivered
<1>2. CoapInv /\ KeptInv /\ AskedInv /\ [Next]_vars => KeptInv' /\ AskedInv'
  <2>1. ASSUME KeptInv, AskedInv, UNCHANGED vars PROVE KeptInv' /\ AskedInv'
    BY <2>1 DEF vars, coapNetVars, coapTimerVars, coapClientVars, coapGuiVars, KeptInv,
       NothingKept, LoggingOut, AskedInv, Asked
  <2> QED BY <2>1, KeptStep, AskedStep DEF CoapInv
<1>3. CoapInv /\ KeptInv /\ AskedInv /\ [Next]_vars
        => [Promise!PublishingNext]_(Promise!publishingVars)
  <2> SUFFICES ASSUME CoapInv, KeptInv, AskedInv, [Next]_vars
               PROVE  Promise!PublishingNext \/ UNCHANGED Promise!publishingVars
    OBVIOUS
  <2>1. CASE \/ GuiStep \/ ConnectorStep \/ TimerStep \/ service_ends \/ UNCHANGED vars
    <3>1. UNCHANGED << published, saved, messages_map, mapState, delivered >>
      BY <2>1 DEF GuiStep, coap_connect_fire, coap_connect_timer, send_fire, Fire,
         send_coap_disconnect_messager, coap_stop_message_timer, send_coap_disconnect_net,
         ConnectorStep, coap_connect_task, coap_connect_fin, TimerStep, Timer, coap_ping_task,
         resend_from_freed_map, coap_message_resend_task, service_ends, vars, coapTimerVars,
         serverVars, coapClientVars, coapGuiVars, storeVars
    <3> QED BY <3>1, KeptSame, PromiseStutters DEF Delivered
  <2> QED
    BY <2>1, PromiseUser, PromiseRx, PromiseTimers, PromiseServer DEF CoapInv, Next, ServiceStep
<1> QED
  BY <1>1, <1>2, <1>3, CoapInit, CoapStep, PTL DEF Spec, CoapKeepsPromise, Promise!PublishingSpec
=============================================================================
