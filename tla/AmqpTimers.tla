----------------------------- MODULE AmqpTimers -----------------------------
(***************************************************************************)
(* amqp/amqp_timers.c: the five tables of the AMQP client and its three    *)
(* threads, on the connection as net/lws_net_client.c offers it (FIFO both *)
(* ways, see LwsNet).  The tables are created when OPEN arrives and        *)
(* destroyed by stop_pt; their pointers are never cleared.  Handles and    *)
(* delivery ids are int counters, cut to unsigned short as table keys.     *)
(* A thread that was never joined may be cancelled after it has ended, so  *)
(* the flag that amqp_stop_message_timer leaves set does no harm.          *)
(***************************************************************************)
EXTENDS TopicList, Sequences

CONSTANTS
  Contents,       \* contents the user publishes, each once
  AmqpIncoming,   \* messages of the peer
  MaxHandle,      \* bound on handles
  MaxDelivery,    \* bound on delivery ids
  ShortMod,       \* 2^16
  NoTopic, NoContent
ASSUME AmqpTableBounds ==
  /\ {MaxHandle, MaxDelivery} \subseteq Nat /\ ShortMod \in Nat \ {0}
  /\ MaxHandle < ShortMod /\ MaxDelivery < ShortMod
  /\ NoTopic \notin Topics /\ NoContent \notin Contents

Handles == 0 .. MaxHandle
Deliveries == 0 .. MaxDelivery

FrameTypes == { "NONE", "PROTO", "MECHANISMS", "INIT", "OUTCOME", "OPEN", "BEGIN", "ATTACH",
                "TRANSFER", "DISPOSITION", "DETACH", "END", "CLOSE", "PING" }

\* what the handlers look at: protocol_id of a PROTO and the OUTCOME code as
\* `ok', the role of an ATTACH, handle, name, delivery id, settled, the data
Frame == [ type : FrameTypes, ok : BOOLEAN, role : { "NONE", "SENDER", "RECEIVER" },
           handle : Handles, topic : Topics \cup {NoTopic}, id : Deliveries,
           settled : BOOLEAN, data : Contents \cup AmqpIncoming \cup {NoContent} ]

Plain(type) == [ type |-> type, ok |-> TRUE, role |-> "NONE", handle |-> 0, topic |-> NoTopic,
                 id |-> 0, settled |-> FALSE, data |-> NoContent ]
NoFrame == Plain("NONE")
Verdict(type, ok) == [ Plain(type) EXCEPT !.ok = ok ]
Attach(role, h, t) == [ Plain("ATTACH") EXCEPT !.role = role, !.handle = h, !.topic = t ]
Detach(h) == [ Plain("DETACH") EXCEPT !.handle = h ]
Transfer(h, id, settled, data) ==
  [ Plain("TRANSFER") EXCEPT !.handle = h, !.id = id, !.settled = settled, !.data = data ]
Disposition(id) == [ Plain("DISPOSITION") EXCEPT !.id = id ]

VARIABLES
  fault,          \* why the process died, if it did
  net,            \* "closed": never opened, "open": worker serves, "down": vhd = NULL
  interrupted, outbox, inbox,
  m_handler,                \* handle -> transfer that waits for the link
  m_delivery_id,            \* delivery id -> transfer that waits for a disposition
  topic_name_map, topic_name_map_outgoing,   \* topic -> handle, 0 if none
  reverse_topic_name_map,   \* handle -> topic
  tables,         \* all five: "null", "live", "destroyed" (the pointers dangle)
  thread,         \* pinger, messager and the connecter the variable names
  is_started,     \* is_pinger_started, is_messager_started, is_connecter_started
  strays,         \* connecter threads that no variable names any more
  hold            \* what amqp_message_resend_task is about to fire

amqpNetVars == << net, interrupted, outbox, inbox >>
tableVars == << m_handler, m_delivery_id, topic_name_map, topic_name_map_outgoing,
                reverse_topic_name_map, tables >>
threadVars == << thread, is_started, strays, hold >>

AmqpThreads == { "pinger", "messager", "connecter" }

NoTransfers(keys) == [ k \in keys |-> NoFrame ]

AmqpTimersTypeOK ==
  /\ fault \in { "none", "null_vhd", "freed_table", "null_topic" }
  /\ net \in { "closed", "open", "down" }
  /\ interrupted \in BOOLEAN
  /\ outbox \in Seq(Frame) /\ inbox \in Seq(Frame)
  /\ m_handler \in [ Handles -> Frame ]
  /\ m_delivery_id \in [ Deliveries -> Frame ]
  /\ topic_name_map \in [ Topics -> Handles ]
  /\ topic_name_map_outgoing \in [ Topics -> Handles ]
  /\ reverse_topic_name_map \in [ Handles -> Topics \cup {NoTopic} ]
  /\ tables \in { "null", "live", "destroyed" }
  /\ thread \in [ AmqpThreads -> { "none", "running", "ended" } ]
  /\ is_started \in [ AmqpThreads -> BOOLEAN ]
  /\ strays \in Nat
  /\ hold \in Frame

EmptyTables ==
  /\ m_handler' = NoTransfers(Handles)
  /\ m_delivery_id' = NoTransfers(Deliveries)
  /\ topic_name_map' = [ t \in Topics |-> 0 ]
  /\ topic_name_map_outgoing' = [ t \in Topics |-> 0 ]
  /\ reverse_topic_name_map' = [ h \in Handles |-> NoTopic ]

AmqpTimersInit ==
  /\ fault = "none"
  /\ net = "closed" /\ interrupted = FALSE
  /\ outbox = << >> /\ inbox = << >>
  /\ m_handler = NoTransfers(Handles)
  /\ m_delivery_id = NoTransfers(Deliveries)
  /\ topic_name_map = [ t \in Topics |-> 0 ]
  /\ topic_name_map_outgoing = [ t \in Topics |-> 0 ]
  /\ reverse_topic_name_map = [ h \in Handles |-> NoTopic ]
  /\ tables = "null"
  /\ thread = [ th \in AmqpThreads |-> "none" ]
  /\ is_started = [ th \in AmqpThreads |-> FALSE ]
  /\ strays = 0
  /\ hold = NoFrame

Alive == fault = "none"

-----------------------------------------------------------------------------
(* raw_fire of a sequence of frames.  With vhd = NULL the process dies.    *)

fire_all(frames) ==
  IF net = "open" \/ frames = << >>
  THEN outbox' = outbox \o frames /\ UNCHANGED fault
  ELSE fault' = "null_vhd" /\ UNCHANGED outbox

amqp_encode_and_fire(f) == fire_all(<< f >>)

-----------------------------------------------------------------------------
(* The tables.  What a destroyed table holds is of no interest: it is kept *)
(* empty, and a step that uses one may end the process.                    *)

Short(n) == n % ShortMod

\* the same after a look at the tables
use_and_fire(frames) ==
  \/ fire_all(frames)
  \/ tables = "destroyed" /\ fault' = "freed_table" /\ UNCHANGED outbox

\* bug variant: the transfer is not kept while its link is attached
with_message_by_handler_lost(f) == m_handler

with_message_by_handler(f) == [ m_handler EXCEPT ![Short(f.handle)] = f ]

\* bug variant: the transfer that waited for its link is fired and not kept
with_message_by_delivery_id_lost(f) == m_delivery_id

with_message_by_delivery_id(f) == [ m_delivery_id EXCEPT ![Short(f.id)] = f ]
amqp_get_message_from_map_by_handler(h) == m_handler[Short(h)]
amqp_get_message_from_map_by_delivery_id(id) == m_delivery_id[Short(id)]
without_message_handler(h) == [ m_handler EXCEPT ![Short(h)] = NoFrame ]

without_message_delivery_id(id) == [ m_delivery_id EXCEPT ![Short(id)] = NoFrame ]

amqp_get_handler_from_map(t) == topic_name_map[t]
amqp_get_handler_from_map_outgoing(t) == topic_name_map_outgoing[t]
amqp_get_topic_name_from_map(h) == reverse_topic_name_map[Short(h)]

\* amqp_add_handler_in_map with amqp_add_topic_name_in_map, as every caller does
amqp_add_link(h, t) ==
  /\ topic_name_map' = [ topic_name_map EXCEPT ![t] = Short(h) ]
  /\ reverse_topic_name_map' = [ reverse_topic_name_map EXCEPT ![Short(h)] = t ]

amqp_add_link_outgoing(h, t) ==
  /\ topic_name_map_outgoing' = [ topic_name_map_outgoing EXCEPT ![t] = Short(h) ]
  /\ reverse_topic_name_map' = [ reverse_topic_name_map EXCEPT ![Short(h)] = t ]

\* bug variant: only the handle is forgotten
amqp_remove_link_half(h, t) ==
  /\ reverse_topic_name_map' = [ reverse_topic_name_map EXCEPT ![Short(h)] = NoTopic ]
  /\ UNCHANGED topic_name_map

\* amqp_remove_topic_name_from_map, amqp_remove_handle_from_map
amqp_remove_link(h, t) ==
  /\ topic_name_map' = [ topic_name_map EXCEPT ![t] = 0 ]
  /\ reverse_topic_name_map' = [ reverse_topic_name_map EXCEPT ![Short(h)] = NoTopic ]

-----------------------------------------------------------------------------
(* The threads.                                                            *)

Start(th) ==
  /\ thread' = [ thread EXCEPT ![th] = "running" ]
  /\ is_started' = [ is_started EXCEPT ![th] = TRUE ]

\* creates the tables, too
start_amqp_ping_timer == EmptyTables /\ tables' = "live"

\* a connecter that still sleeps goes on, but the variable names the new one
amqp_start_connect_timer ==
  /\ Start("connecter")
  /\ strays' = IF thread["connecter"] = "running" THEN strays + 1 ELSE strays
  /\ UNCHANGED hold

\* the part of the OPEN case that is about threads: cancel the connecter if it
\* is marked as started, create the pinger
stop_connect_and_start_ping ==
  /\ thread' = [ thread EXCEPT !["pinger"] = "running",
                   !["connecter"] = IF is_started["connecter"] /\ @ = "running" THEN "ended" ELSE @ ]
  /\ is_started' = [ is_started EXCEPT !["pinger"] = TRUE, !["connecter"] = FALSE ]
  /\ UNCHANGED << strays, hold >>

amqp_start_message_timer ==
  /\ Start("messager")
  /\ UNCHANGED << strays, hold >>

\* amqp_stop_ping_timer, amqp_stop_message_timer: the second clears the flag of
\* the first.  Destroying destroyed tables, or those that the messager is
\* walking through, is undefined.
amqp_stop_all_timers ==
  /\ tables' = IF tables = "null" THEN "null" ELSE "destroyed"
  /\ EmptyTables
  /\ thread' = [ th \in AmqpThreads |->
                   IF th # "connecter" /\ is_started[th] /\ thread[th] = "running"
                   THEN "ended" ELSE thread[th] ]
  /\ is_started' = [ is_started EXCEPT !["pinger"] = FALSE ]
  /\ fault' \in IF tables = "destroyed" \/ thread["messager"] = "running"
                THEN { "none", "freed_table" } ELSE { fault }
  /\ UNCHANGED << strays, hold >>

\* amqp_connect_task after its five seconds: whichever session it finds
amqp_connect_task ==
  /\ \/ /\ thread["connecter"] = "running"
        /\ thread' = [ thread EXCEPT !["connecter"] = "ended" ]
        /\ UNCHANGED strays
     \/ /\ strays > 0
        /\ strays' = strays - 1
        /\ UNCHANGED thread
  /\ is_started' = [ is_started EXCEPT !["connecter"] = FALSE ]
  /\ interrupted' = TRUE
  /\ UNCHANGED << fault, net, outbox, inbox, tableVars, hold >>

\* a copy of a frame still in q is not queued again (the bound that keeps q finite)
NotQueued(f) == \A k \in 1 .. Len(outbox) : outbox[k] # f

\* (bound: only onto an empty q)
amqp_ping_task ==
  /\ thread["pinger"] = "running"
  /\ outbox = << >>
  /\ amqp_encode_and_fire(Plain("PING"))
  /\ UNCHANGED << net, interrupted, inbox, tableVars, threadVars >>

\* one entry of one pass of amqp_message_resend_task
amqp_message_resend_task(id) ==
  /\ thread["messager"] = "running"
  /\ hold = NoFrame
  /\ m_delivery_id[id] # NoFrame
  /\ NotQueued(m_delivery_id[id])
  /\ hold' = m_delivery_id[id]
  /\ UNCHANGED << fault, amqpNetVars, tableVars, thread, is_started, strays >>

\* ... and its amqp_encode_and_fire; pthread_cancel does not stop it
amqp_message_resend_fire ==
  /\ hold # NoFrame
  /\ amqp_encode_and_fire(hold)
  /\ hold' = NoFrame
  /\ UNCHANGED << net, interrupted, inbox, tableVars, thread, is_started, strays >>
=============================================================================
