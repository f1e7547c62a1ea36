------------------------------- MODULE LwsNet -------------------------------
(***************************************************************************)
(* net/lws_net_client.c: the connections of the libwebsockets worker, from *)
(* open_lws_net_connection to the end of net_service_task, one after the   *)
(* other, and the queue q that every other thread fills.  A call of fire   *)
(* or raw_fire is two steps (push on q, then lws_callback_on_writable);    *)
(* the worker serves one packet per writable callback.  libwebsockets      *)
(* merges the requests that are pending (`writable').  The GQueue calls    *)
(* are taken as atomic.                                                    *)
(***************************************************************************)
EXTENDS Integers, Sequences

CONSTANTS
  Data,         \* packets, each fired once
  Callers,      \* threads that call fire or raw_fire
  MaxPolls,     \* rounds of the wait for vhd->established, 15 in the code
  MaxOpens,     \* bound on connections
  SlowPeer,     \* no peer closes while the wait has not seen the connection
  StrayCloses   \* lws_close_tcp_connection may come with no session: a thread
                \* of an earlier one, or SIGINT
ASSUME NetBounds == /\ {MaxPolls, MaxOpens} \subseteq Nat
                    /\ {SlowPeer, StrayCloses} \subseteq BOOLEAN

VARIABLES
  current_protocol, \* set by open_lws_net_connection; all but WEBSOCKETS are raw
  opener,       \* open_lws_net_connection: "idle", "polling", "ok", "failed"
  polls,        \* its counter
  opens,        \* connections so far
  worker,       \* net_service_task: "none", "running", "ended"
  vhd,          \* the pointer: "null", "set"
  wsi,          \* vhd->client_wsi: "none", "connecting", "up", "freed" (dangles)
  established, interrupted,
  q,            \* the GQueue
  writable,     \* a writable callback is due
  caller,       \* per thread: "idle", or "pushed" between its two steps
  fired,        \* packets handed over so far
  wire,         \* what lws_write has written
  fault         \* why the process died, if it did

openerVars == << current_protocol, opener, polls, opens >>
netVars == << openerVars, worker, vhd, wsi, established, interrupted >>
queueVars == << q, writable, caller, fired, wire >>
vars == << netVars, queueVars, fault >>

TypeOK ==
  /\ current_protocol \in { "raw", "websockets" }
  /\ opener \in { "idle", "polling", "ok", "failed" }
  /\ polls \in 0 .. MaxPolls
  /\ opens \in 0 .. MaxOpens
  /\ worker \in { "none", "running", "ended" }
  /\ vhd \in { "null", "set" }
  /\ wsi \in { "none", "connecting", "up", "freed" }
  /\ established \in BOOLEAN
  /\ interrupted \in BOOLEAN
  /\ q \in Seq(Data)
  /\ writable \in BOOLEAN
  /\ caller \in [ Callers -> { "idle", "pushed" } ]
  /\ fired \subseteq Data
  /\ wire \in Seq(Data)
  /\ fault \in { "none", "null_vhd", "bad_wsi", "null_data" }

Init ==
  /\ current_protocol = "raw"
  /\ opener = "idle"
  /\ polls = 0
  /\ opens = 0
  /\ worker = "none"
  /\ vhd = "null"
  /\ wsi = "none"
  /\ established = FALSE
  /\ interrupted = FALSE
  /\ q = << >>
  /\ writable = FALSE
  /\ caller = [ c \in Callers |-> "idle" ]
  /\ fired = {}
  /\ wire = << >>
  /\ fault = "none"

Alive == fault = "none"

Websockets == current_protocol = "websockets"

-----------------------------------------------------------------------------
(* open_lws_net_connection.                                                *)

\* an error of the certificate file, of lws_create_context or of pthread_create
\* returns -1 with no worker.  Bound: the user logs in again when the worker and
\* the calls of the last session have ended.
open_lws_net_connection ==
  /\ Alive
  /\ opener # "polling" /\ worker # "running"
  /\ \A c \in Callers : caller[c] = "idle"
  /\ opens < MaxOpens
  /\ opens' = opens + 1
  /\ polls' = 0
  /\ current_protocol' \in { "raw", "websockets" }
  /\ q' = << >>
  /\ \/ opener' = "polling" /\ worker' = "running"
     \/ opener' = "failed" /\ UNCHANGED worker
  /\ UNCHANGED << vhd, wsi, established, interrupted, writable, caller, fired, wire, fault >>

\* counter < 15
PollAgain == polls < MaxPolls

\* while (vhd == NULL || (!vhd->established && counter < 15)) usleep: the count
\* goes on while vhd is NULL, and what it is past the limit makes no difference
open_poll ==
  /\ Alive
  /\ opener = "polling"
  /\ \/ vhd # "null" /\ established /\ opener' = "ok" /\ UNCHANGED polls
     \/ ~(vhd # "null" /\ established) /\ PollAgain /\ polls' = polls + 1 /\ UNCHANGED opener
     \/ vhd # "null" /\ ~established /\ ~PollAgain /\ opener' = "failed" /\ UNCHANGED polls
  /\ UNCHANGED << current_protocol, opens, worker, vhd, wsi, established, interrupted,
                  queueVars, fault >>

-----------------------------------------------------------------------------
(* fire and raw_fire.                                                      *)

\* bug variant: the packet is pushed at the wrong end
push_head(d) == q' = << d >> \o q

push(d) == q' = Append(q, d)

\* if (q != NULL) g_queue_push_tail(q, data)
fire_push(c, d) ==
  /\ Alive
  /\ opener = "ok"
  /\ caller[c] = "idle"
  /\ d \notin fired
  /\ fired' = fired \cup {d}
  /\ caller' = [ caller EXCEPT ![c] = "pushed" ]
  /\ IF worker = "running" THEN push(d) ELSE UNCHANGED q
  /\ UNCHANGED << netVars, writable, wire, fault >>

\* lws_callback_on_writable(vhd->client_wsi)
fire_request(c) ==
  /\ Alive
  /\ caller[c] = "pushed"
  /\ caller' = [ caller EXCEPT ![c] = "idle" ]
  /\ \/ vhd = "null" /\ fault' = "null_vhd" /\ UNCHANGED writable
     \/ vhd # "null" /\ wsi \in { "none", "freed" } /\ fault' = "bad_wsi" /\ UNCHANGED writable
     \/ vhd # "null" /\ wsi = "freed" /\ UNCHANGED << writable, fault >>
     \/ vhd # "null" /\ wsi \in { "connecting", "up" } /\ writable' = TRUE /\ UNCHANGED fault
  /\ UNCHANGED << netVars, q, fired, wire >>

\* called by the protocol client, from whichever of its threads; sigint_handler
\* does the same
lws_close_tcp_connection ==
  /\ Alive
  /\ StrayCloses \/ (opener = "ok" /\ worker = "running")
  /\ interrupted' = TRUE
  /\ UNCHANGED << openerVars, worker, vhd, wsi, established, queueVars, fault >>

-----------------------------------------------------------------------------
(* net_service_task and the callbacks it runs.                             *)

Serving == Alive /\ worker = "running"

protocol_init ==
  /\ Serving /\ vhd = "null"
  /\ vhd' = "set"
  /\ wsi' = "connecting"
  /\ UNCHANGED << openerVars, worker, established, interrupted, queueVars, fault >>

connection_error ==
  /\ Serving /\ vhd = "set" /\ wsi = "connecting"
  /\ wsi' = "none"
  /\ UNCHANGED << openerVars, worker, vhd, established, interrupted, queueVars, fault >>

\* CLIENT_ESTABLISHED, RAW_ADOPT
connection_established ==
  /\ Serving /\ vhd = "set" /\ wsi = "connecting"
  /\ wsi' = "up"
  /\ established' = TRUE
  /\ UNCHANGED << openerVars, worker, vhd, interrupted, queueVars, fault >>

\* bug variant: no second request
Rearm_never == FALSE

\* if (!g_queue_is_empty(q)) lws_callback_on_writable
Rearm == Tail(q) # << >>

\* CLIENT_WRITEABLE compares pending_data with NULL, RAW_WRITEABLE does not
Checked == Websockets

\* one packet per callback
client_writeable ==
  /\ Serving /\ wsi = "up" /\ writable
  /\ IF q # << >>
     THEN /\ wire' = Append(wire, Head(q))
          /\ q' = Tail(q)
          /\ writable' = Rearm
          /\ UNCHANGED fault
     ELSE /\ fault' = IF Checked THEN "none" ELSE "null_data"
          /\ writable' = FALSE
          /\ UNCHANGED << wire, q >>
  /\ UNCHANGED << netVars, caller, fired >>

\* RAW_CLOSE (after stop_pt, which is the protocol client's) ends the worker and
\* leaves client_wsi pointing to the freed socket; CLIENT_CLOSED only forgets it
peer_closes ==
  /\ Serving /\ wsi = "up"
  /\ SlowPeer => opener # "polling"
  /\ IF Websockets
     THEN wsi' = "none" /\ established' = FALSE /\ UNCHANGED interrupted
     ELSE interrupted' = TRUE /\ wsi' = "freed" /\ UNCHANGED established
  /\ UNCHANGED << openerVars, worker, vhd, queueVars, fault >>

\* bug variant: interrupted is left set
CleanedUp_not == UNCHANGED interrupted

\* interrupted = 0
CleanedUp == interrupted' = FALSE

\* the loop ends: the context is destroyed, q freed, vhd = NULL
net_service_task_ends ==
  /\ Serving /\ interrupted
  /\ worker' = "ended"
  /\ q' = << >>
  /\ writable' = FALSE
  /\ vhd' = "null"
  /\ wsi' = "none"
  /\ established' = FALSE
  /\ CleanedUp
  /\ UNCHANGED << openerVars, caller, fired, wire, fault >>

-----------------------------------------------------------------------------
OpenerStep == open_lws_net_connection \/ open_poll

CallerStep(c) == (\E d \in Data : fire_push(c, d)) \/ fire_request(c)

ServiceStep == \/ protocol_init \/ connection_error \/ connection_established
               \/ client_writeable \/ peer_closes \/ net_service_task_ends

Next == \/ OpenerStep
        \/ \E c \in Callers : CallerStep(c)
        \/ lws_close_tcp_connection
        \/ ServiceStep

\* the worker's loop and the running call of each thread go on; what the user
\* and the peer do is up to them
Fairness == /\ WF_vars(open_poll)
            /\ WF_vars(protocol_init)
            /\ WF_vars(client_writeable)
            /\ WF_vars(net_service_task_ends)
            /\ \A c \in Callers : WF_vars(fire_request(c))

Spec == Init /\ [][Next]_vars
FairSpec == Spec /\ Fairness

-----------------------------------------------------------------------------
(* Properties.                                                             *)

\* No lost wake-up: while the socket is up, a packet on q has a writable
\* callback coming, or the thread that pushed last is about to ask for one.
NoLostWakeup ==
  (wsi = "up" /\ Alive /\ q # << >>) =>
    writable \/ \E c \in Callers : caller[c] = "pushed"

\* A wake-up too many is survived over WebSockets: the callback finds q empty.
EmptyPopSurvived == Websockets => fault # "null_data"

\* Packets and wake-ups match although each of fire's two steps may be overtaken
\* and requests are merged: none is missing, and over WebSockets one that finds
\* nothing on q does no harm (lws_net_client.c:152, 281, 292).
WakeupsMatchQueue == NoLostWakeup /\ EmptyPopSurvived

\* open_lws_net_connection returns: the GTK thread does not wait for ever for a
\* vhd that never comes, whatever the connection before has left behind (the
\* condition of the wait at lws_net_client.c:256 has no limit while vhd is NULL).
OpenReturns == opener = "polling" ~> (opener # "polling" \/ ~Alive)

\* What OpenReturns rests on: the worker that is to set vhd serves as long as the
\* GTK thread waits, since no connection leaves interrupted set behind it.
WaitIsServed == opener = "polling" => worker = "running" /\ ~interrupted

\* The queue discipline of Outbox: in order, once each, dropped only at the end.
Queue == INSTANCE Outbox WITH pending <- q, sent <- wire, ended <- (worker = "ended")

Fifo == Queue!OutboxSpec

\* What is fired is written in the end, unless the connection or the process ends.
Drained ==
  \A d \in Data :
    (\E k \in 1 .. Len(q) : q[k] = d)
      ~> (wsi # "up" \/ ~Alive \/ \E k \in 1 .. Len(wire) : wire[k] = d)
=============================================================================
