----------------------------- MODULE MqttTimers -----------------------------
(***************************************************************************)
(* mqtt/mqtt_timers.c: the retransmission map and the three timer threads. *)
(* No lock protects the map.  A thread that has taken a packet out of the  *)
(* map and not yet fired it has it in `hold': pthread_cancel is deferred,  *)
(* so the packet is fired even when the thread is cancelled meanwhile.     *)
(* Entries are never refreshed, so how long one has been in the map is     *)
(* only "ten seconds or not", and that moment is left open.                *)
(***************************************************************************)
EXTENDS MqttLink

CONSTANTS
  LongSessions,    \* FALSE: no entry is ever ten seconds old
  ShortKeepalive,  \* FALSE: no session lasts as long as account->keep_alive
  ConnectTries     \* rounds of connect_task, 5 in the code
ASSUME TimerBounds == /\ LongSessions \in BOOLEAN
                      /\ ShortKeepalive \in BOOLEAN
                      /\ ConnectTries \in Nat

VARIABLES
  messages_map,   \* GHashTable: packet id -> packet
  mapState,       \* "null", "live" or "destroyed" (the pointer dangles)
  thread,         \* life of the connecter, pinger and messager threads
  hold,           \* what each of them is about to fire
  tries           \* rounds left in the loop of connect_task

timerVars == << messages_map, mapState, thread, hold, tries >>

Threads == { "connecter", "pinger", "messager" }

EmptyMap == [ i \in Ids |-> NoMsg ]

TimersTypeOK ==
  /\ messages_map \in [ Ids -> Packet ]
  /\ mapState \in { "null", "live", "destroyed" }
  /\ thread \in [ Threads -> { "none", "running", "cancelled", "done" } ]
  /\ hold \in [ Threads -> Packet ]
  /\ tries \in 0 .. ConnectTries

TimersInit ==
  /\ messages_map = EmptyMap
  /\ mapState = "null"
  /\ thread = [ th \in Threads |-> "none" ]
  /\ hold = [ th \in Threads |-> NoMsg ]
  /\ tries = 0

start_connect_timer ==
  /\ messages_map' = EmptyMap
  /\ mapState' = "live"
  /\ thread' = [ thread EXCEPT !["connecter"] = "running" ]
  /\ tries' = ConnectTries
  /\ UNCHANGED hold

\* start_mqtt_ping_timer and start_message_timer
start_ping_and_message_timer ==
  /\ thread' = [ thread EXCEPT !["pinger"] = "running",
                               !["messager"] = "running" ]
  /\ UNCHANGED << messages_map, mapState, hold, tries >>

cancelled(ths) ==
  [ th \in Threads |-> IF th \in ths /\ thread[th] = "running"
                       THEN "cancelled" ELSE thread[th] ]

\* pthread_cancel of a thread that was never created reads through a null
\* pthread_t: the process dies or the call does nothing
CancelFaults(th) == thread[th] = "none"

\* stop_ping_timer: the map is destroyed first, its pointer kept
stop_ping_timer ==
  /\ mapState' = IF mapState = "null" THEN "null" ELSE "destroyed"
  /\ messages_map' = EmptyMap
  /\ thread' = cancelled({"pinger"})
  /\ UNCHANGED << hold, tries >>

stop_message_timer ==
  /\ thread' = cancelled({"messager"})
  /\ UNCHANGED << messages_map, mapState, hold, tries >>

add_message_in_map(m) ==
  /\ messages_map' = [ messages_map EXCEPT ![m.id] = m ]
  /\ UNCHANGED << mapState, thread, hold, tries >>

\* GLib answers NULL for a missing key and (with a warning) for a NULL table
get_message_from_map(i) == messages_map[i]

\* bug variant: the entry stays
removed_not(i) == messages_map

\* remove_message_from_map
removed(i) == [ messages_map EXCEPT ![i] = NoMsg ]

\* any use of the table after stop_ping_timer reads freed memory
MapFaults == mapState = "destroyed"

-----------------------------------------------------------------------------
(* The threads.  A round of a timer loop is a step that wakes up and reads *)
(* the map, and a step that fires.  A copy of a packet still in q is not   *)
(* queued a second time (the bound that keeps q finite).                   *)

NotQueued(m) == \A k \in 1 .. Len(outbox) : outbox[k] # m

Take(th, m) == hold' = [ hold EXCEPT ![th] = m ]

RoundLeft == tries > 0

connect_task ==
  /\ thread["connecter"] = "running"
  /\ hold["connecter"] = NoMsg
  /\ IF RoundLeft
     THEN /\ NotQueued(Connect)
          /\ tries' = tries - 1
          /\ Take("connecter", get_message_from_map(0))
          /\ UNCHANGED thread
     ELSE /\ thread' = [ thread EXCEPT !["connecter"] = "done" ]
          /\ UNCHANGED << tries, hold >>
  /\ UNCHANGED << linkVars, messages_map, mapState >>

ping_task ==
  /\ ShortKeepalive
  /\ thread["pinger"] = "running"
  /\ hold["pinger"] = NoMsg
  /\ NotQueued(Pingreq)
  /\ Take("pinger", Pingreq)
  /\ UNCHANGED << linkVars, messages_map, mapState, thread, tries >>

\* bug variants: resent whatever its age, or never
Overdue_always == TRUE
Overdue_never == FALSE

\* time(NULL) - time_stamp > 10
Overdue == LongSessions

\* one entry of one pass over the map; the pass visits them in any order
message_resend_task(i) ==
  /\ Overdue
  /\ thread["messager"] = "running"
  /\ hold["messager"] = NoMsg
  /\ get_message_from_map(i) # NoMsg
  /\ NotQueued(get_message_from_map(i))
  /\ Take("messager", get_message_from_map(i))
  /\ UNCHANGED << linkVars, messages_map, mapState, thread, tries >>

\* encode_and_fire of what the thread holds
TimerFires(th) ==
  /\ hold[th] # NoMsg
  /\ encode_and_fire(hold[th])
  /\ Take(th, NoMsg)
  /\ UNCHANGED << net, interrupted, inbox, messages_map, mapState, thread, tries >>

\* connect_task or message_resend_task reads a table that was destroyed
TimerReadsFreedMap(th) ==
  /\ th \in { "connecter", "messager" }
  /\ thread[th] = "running"
  /\ hold[th] = NoMsg
  /\ MapFaults
  /\ proc' = "crashed"
  /\ UNCHANGED << net, interrupted, outbox, inbox, timerVars >>
=============================================================================
