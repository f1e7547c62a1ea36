------------------------------ MODULE SnTimers ------------------------------
(***************************************************************************)
(* mqttsn/mqtt_sn_timers.c over the datagram sockets of net/tcp_client.c   *)
(* (dyad, plain UDP) or net/dtls_client.c: the map of stored messages, the *)
(* two topic maps and the connecter and pinger threads.  The messager      *)
(* thread is never started (its start in process_sn_rx is commented out),  *)
(* but it is cancelled.  Datagrams in flight are sets: they may be         *)
(* reordered, and a receipt may leave a copy behind.                       *)
(***************************************************************************)
EXTENDS SnPackets

CONSTANTS
  Secure,         \* account->is_secure: DTLS instead of UDP
  Lossy,          \* datagrams and the socket may be lost
  Duplicated,     \* types of which a datagram may arrive more than once
  LongLived,      \* the session lasts longer than account->keep_alive
  SnConnectTries  \* rounds of connect_task, 5 in the code
ASSUME SnTimerBounds == /\ {Secure, Lossy, LongLived} \subseteq BOOLEAN
                        /\ Duplicated \subseteq SnMessageType
                        /\ SnConnectTries \in Nat

VARIABLES
  fault,                    \* why the process died, or "none"
  net,                      \* the service thread: "none", "open", "ended"
  is_stop,                  \* its loop is to end
  toGw, toClient,           \* datagrams in flight
  messages_map,             \* packet id -> message
  mapState,                 \* "null", "live", "destroyed" (the pointer dangles)
  topic_name_map,           \* topic name -> topic id, 0 when absent
  reverse_topic_name_map,   \* topic id -> topic name
  topicState,               \* of the two topic maps, like mapState
  thread,                   \* of the connecter and the pinger
  tries                     \* rounds left in connect_task

netVars == << fault, net, is_stop, toGw, toClient >>
topicVars == << topic_name_map, reverse_topic_name_map, topicState >>
mapVars == << messages_map, mapState, topicVars >>
snTimerVars == << mapVars, thread, tries >>

SnThreads == { "connecter", "pinger" }
TableStates == { "null", "live", "destroyed" }
Faults == { "none", "null_thread", "freed_table", "null_message", "bad_topic", "bad_cast",
            "freed_stream" }

NoMessages == [ i \in SnIds |-> SnNoMsg ]
NoTopicIds == [ t \in Topics |-> 0 ]
NoTopicNames == [ i \in TopicIds |-> None ]

SnTimersTypeOK ==
  /\ fault \in Faults
  /\ net \in { "none", "open", "ended" }
  /\ is_stop \in BOOLEAN
  /\ toGw \subseteq SnPacket
  /\ toClient \subseteq SnPacket
  /\ messages_map \in [ SnIds -> SnPacket ]
  /\ mapState \in TableStates
  /\ topic_name_map \in [ Topics -> TopicIds \cup {0} ]
  /\ reverse_topic_name_map \in [ TopicIds -> Topics \cup {None} ]
  /\ topicState \in TableStates
  /\ thread \in [ SnThreads -> { "none", "running", "cancelled", "done" } ]
  /\ tries \in 0 .. SnConnectTries

SnTimersInit ==
  /\ fault = "none"
  /\ net = "none"
  /\ is_stop = FALSE
  /\ toGw = {} /\ toClient = {}
  /\ messages_map = NoMessages
  /\ mapState = "null"
  /\ topic_name_map = NoTopicIds
  /\ reverse_topic_name_map = NoTopicNames
  /\ topicState = "null"
  /\ thread = [ th \in SnThreads |-> "none" ]
  /\ tries = 0

Alive == fault = "none"

\* a step that may end the process for one of the reasons rs
MayFault(rs) == fault' \in {"none"} \cup rs

-----------------------------------------------------------------------------
(* Sockets.                                                                *)

\* sn_encode_and_fire: write_to_net or dtls_fire
fired(m) == IF net = "open" THEN toGw \cup {m} ELSE toGw

sn_encode_and_fire(m) == toGw' = fired(m)

\* dyad_write uses a stream that dyad_shutdown has freed
FireFaults == IF net = "ended" /\ ~Secure THEN {"freed_stream"} ELSE {}

\* init_net_service or init_dtls on a new socket, to which nothing is in flight
init_net_service ==
  /\ net' = "open"
  /\ is_stop' = FALSE
  /\ toGw' = {} /\ toClient' = {}

-----------------------------------------------------------------------------
(* The maps.                                                               *)

\* bug variant: the PUBLISH case is missing as well
key_no_publish(m) == IF m.type \in { "SUBSCRIBE", "UNSUBSCRIBE" } THEN m.id ELSE 0

\* the switch of sn_add_message_in_map: a REGISTER has no case, its key stays 0
key(m) == IF m.type \in { "PUBLISH", "SUBSCRIBE", "UNSUBSCRIBE" } THEN m.id ELSE 0

sn_add_message_in_map(m) == messages_map' = [ messages_map EXCEPT ![key(m)] = m ]

\* bug variant: the entries stay
removed_not(is) == messages_map

\* sn_remove_message_from_map
removed(is) == [ i \in SnIds |-> IF i \in is THEN SnNoMsg ELSE messages_map[i] ]

\* bug variant: the newest entry is taken for the one that is answered
sn_get_message_from_map_newest(i) ==
  LET used == { k \in SnIds : messages_map[k] # SnNoMsg }
  IN  IF used = {} THEN SnNoMsg ELSE messages_map[CHOOSE k \in used : \A j \in used : j <= k]

sn_get_message_from_map(i) == messages_map[i]

sn_get_topic_id_from_map(t) == topic_name_map[t]

sn_get_topic_name_from_map(tid) == reverse_topic_name_map[tid]

\* bug variant: only the first of the two maps is filled
store_topic_once(t, tid) ==
  /\ topic_name_map' = [ topic_name_map EXCEPT ![t] = tid ]
  /\ UNCHANGED << reverse_topic_name_map, topicState >>

\* sn_add_topic_id_in_map and sn_add_topic_name_in_map
store_topic(t, tid) ==
  /\ topic_name_map' = [ topic_name_map EXCEPT ![t] = tid ]
  /\ reverse_topic_name_map' = [ reverse_topic_name_map EXCEPT ![tid] = t ]
  /\ UNCHANGED topicState

TableFaults == IF "destroyed" \in { mapState, topicState } THEN {"freed_table"} ELSE {}

-----------------------------------------------------------------------------
(* The threads.                                                            *)

cancelled(ths) ==
  [ th \in SnThreads |-> IF th \in ths /\ thread[th] = "running"
                         THEN "cancelled" ELSE thread[th] ]

\* pthread_cancel reads through the null pthread_t of a thread never created
CancelFaults(th) == IF thread[th] = "none" THEN {"null_thread"} ELSE {}

sn_start_connect_timer ==
  /\ messages_map' = NoMessages
  /\ mapState' = "live"
  /\ thread' = [ thread EXCEPT !["connecter"] = "running" ]
  /\ tries' = SnConnectTries
  /\ UNCHANGED topicVars

\* the topic maps begin with every CONNACK, also with a repeated one
start_mqtt_sn_ping_timer ==
  /\ topic_name_map' = NoTopicIds
  /\ reverse_topic_name_map' = NoTopicNames
  /\ topicState' = "live"
  /\ thread' = [ thread EXCEPT !["pinger"] = "running" ]
  /\ UNCHANGED << messages_map, mapState, tries >>

Destroyed(state) == IF state = "null" THEN "null" ELSE "destroyed"

\* connecter, tables, pinger, messager, in this order
sn_stop_all_timers ==
  /\ thread' = cancelled(SnThreads)
  /\ messages_map' = NoMessages
  /\ mapState' = Destroyed(mapState)
  /\ topic_name_map' = NoTopicIds
  /\ reverse_topic_name_map' = NoTopicNames
  /\ topicState' = Destroyed(topicState)
  /\ UNCHANGED tries

\* messager has no thread; a table may be destroyed for the second time
StopFaults == {"null_thread"} \cup TableFaults

sn_ping_task ==
  /\ LongLived
  /\ thread["pinger"] = "running"
  /\ MayFault(FireFaults)
  /\ sn_encode_and_fire(SnPlain("PINGREQ"))
  /\ UNCHANGED << net, is_stop, toClient, snTimerVars >>
=============================================================================
