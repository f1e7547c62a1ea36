---------------------------- MODULE LwsNetProofs ----------------------------
(***************************************************************************)
(* Proofs about LwsNet: types, the wake-up invariant, the NULL check of    *)
(* the WebSockets callback, and that the queue implements Outbox.          *)
(***************************************************************************)
EXTENDS LwsNet, TLAPS

LEMMA QueueTypes ==
  ASSUME NEW S, NEW s \in Seq(S)
  PROVE  /\ << >> \in Seq(S)
         /\ \A e \in S : Append(s, e) \in Seq(S)
         /\ s # << >> => Head(s) \in S /\ Tail(s) \in Seq(S)
OBVIOUS

LEMMA NetTypeInit == Init => TypeOK
<1> SUFFICES ASSUME Init PROVE TypeOK
  OBVIOUS
<1>1. q \in Seq(Data) /\ wire \in Seq(Data) /\ fired \subseteq Data
  BY DEF Init
<1>2. polls \in 0 .. MaxPolls /\ opens \in 0 .. MaxOpens /\ caller \in [ Callers -> { "idle", "pushed" } ]
  BY NetBounds DEF Init
<1> QED
  BY <1>1, <1>2 DEF Init, TypeOK

LEMMA NetTypeNext == TypeOK /\ [Next]_vars => TypeOK'
<1> SUFFICES ASSUME TypeOK, [Next]_vars PROVE TypeOK'
  OBVIOUS
<1> USE DEF TypeOK
<1>0. << >> \in Seq(Data)
  OBVIOUS
<1>1. CASE open_lws_net_connection
  <2>1. opens' \in 0 .. MaxOpens /\ polls' \in 0 .. MaxPolls
    BY <1>1, NetBounds DEF open_lws_net_connection
  <2> QED
    BY <1>0, <1>1, <2>1 DEF open_lws_net_connection
<1>2. CASE open_poll
  BY <1>2, NetBounds DEF open_poll, PollAgain, queueVars, openerVars
<1>3. ASSUME NEW c \in Callers, NEW d \in Data, fire_push(c, d) PROVE TypeOK'
  <2>1. q' \in Seq(Data)
    <3>1. q' = Append(q, d) \/ q' = q
      BY <1>3 DEF fire_push, push
    <3> QED
      BY <3>1, QueueTypes
  <2>2. fired' \subseteq Data /\ caller' \in [ Callers -> { "idle", "pushed" } ]
    BY <1>3 DEF fire_push
  <2> QED
    BY <1>3, <2>1, <2>2 DEF fire_push, netVars, openerVars
<1>4. ASSUME NEW c \in Callers, fire_request(c) PROVE TypeOK'
  BY <1>4 DEF fire_request, netVars, openerVars
<1>5. CASE lws_close_tcp_connection
  BY <1>5 DEF lws_close_tcp_connection, queueVars, openerVars
<1>6. CASE protocol_init \/ connection_error \/ connection_established
  BY <1>6 DEF protocol_init, connection_error, connection_established, queueVars, openerVars
<1>7. CASE client_writeable
  <2>1. q' \in Seq(Data) /\ wire' \in Seq(Data)
    <3>1. CASE q = << >>
      BY <1>7, <3>1 DEF client_writeable
    <3>2. CASE q # << >>
      <4>1. Head(q) \in Data /\ Tail(q) \in Seq(Data)
        BY <3>2, QueueTypes
      <4>2. q' = Tail(q) /\ wire' = Append(wire, Head(q))
        BY <1>7, <3>2 DEF client_writeable
      <4> QED
        BY <4>1, <4>2, QueueTypes
    <3> QED
      BY <3>1, <3>2
  <2>2. writable' \in BOOLEAN
    BY <1>7 DEF client_writeable, Rearm
  <2> QED
    BY <1>7, <2>1, <2>2 DEF client_writeable, netVars, openerVars
<1>8. CASE peer_closes
  BY <1>8 DEF peer_closes, queueVars, openerVars
<1>9. CASE net_service_task_ends
  BY <1>0, <1>9 DEF net_service_task_ends, CleanedUp, openerVars
<1>10. CASE UNCHANGED vars
  BY <1>10 DEF vars, netVars, openerVars, queueVars
<1> QED
  BY <1>1, <1>2, <1>3, <1>4, <1>5, <1>6, <1>7, <1>8, <1>9, <1>10
  DEF Next, OpenerStep, CallerStep, ServiceStep

\* Types of the connection, the queue and its callers.
THEOREM NetTypeCorrect == Spec => []TypeOK
BY NetTypeInit, NetTypeNext, PTL DEF Spec

-----------------------------------------------------------------------------
(* The wake-up invariant.  It needs to know that nothing is fired before   *)
(* open_lws_net_connection has returned, so that a socket never comes up   *)
(* with packets waiting.                                                   *)

\* What holds before the opener has seen vhd->established, of every connection.
NotYetOpen ==
  /\ opener = "idle" => worker = "none"
  /\ worker # "running" => vhd = "null" /\ ~established /\ wsi = "none" /\ q = << >>
  /\ (worker = "running" /\ vhd = "null") => wsi = "none" /\ ~established
  /\ wsi = "connecting" => ~established
  /\ (wsi = "connecting" \/ (worker = "running" /\ vhd = "null")) => opener # "ok"
  /\ opener # "ok" => q = << >>

WakeupInv == TypeOK /\ NotYetOpen /\ NoLostWakeup /\ EmptyPopSurvived

LEMMA WakeupInit == Init => WakeupInv
<1>1. Init => NotYetOpen /\ NoLostWakeup /\ EmptyPopSurvived
  BY DEF Init, NotYetOpen, NoLostWakeup, EmptyPopSurvived, Websockets
<1> QED
  BY <1>1, NetTypeInit DEF WakeupInv

LEMMA WakeupNext == WakeupInv /\ [Next]_vars => WakeupInv'
<1> SUFFICES ASSUME WakeupInv, [Next]_vars PROVE WakeupInv'
  OBVIOUS
<1> USE DEF WakeupInv
<1>0. TypeOK'
  BY NetTypeNext
<1>a. SUFFICES NotYetOpen' /\ NoLostWakeup' /\ EmptyPopSurvived'
  BY <1>0
<1> USE DEF NotYetOpen, NoLostWakeup, EmptyPopSurvived, Alive, Websockets
<1>1. CASE open_lws_net_connection
  BY <1>1 DEF open_lws_net_connection
<1>2. CASE open_poll
  BY <1>2 DEF open_poll, queueVars, openerVars
<1>3. ASSUME NEW c \in Callers, NEW d \in Data, fire_push(c, d)
      PROVE  NotYetOpen' /\ NoLostWakeup' /\ EmptyPopSurvived'
  <2>1. /\ caller'[c] = "pushed" /\ opener = "ok" /\ UNCHANGED << netVars, fault >>
        /\ worker # "running" => q' = q
    BY <1>3 DEF fire_push, TypeOK
  <2> QED
    BY <2>1 DEF netVars, openerVars
<1>4. ASSUME NEW c \in Callers, fire_request(c)
      PROVE  NotYetOpen' /\ NoLostWakeup' /\ EmptyPopSurvived'
  <2>1. UNCHANGED << netVars, q >> /\ fault' \in { "none", "null_vhd", "bad_wsi" }
    BY <1>4 DEF fire_request
  <2>2. NotYetOpen' /\ EmptyPopSurvived'
    BY <2>1 DEF netVars, openerVars
  <2>3. wsi = "up" => writable' \/ fault' # "none"
    BY <1>4 DEF fire_request, TypeOK
  <2> QED
    BY <2>1, <2>2, <2>3 DEF netVars, openerVars
<1>5. CASE lws_close_tcp_connection
  BY <1>5 DEF lws_close_tcp_connection, queueVars, openerVars
<1>6. CASE protocol_init
  BY <1>6 DEF protocol_init, Serving, queueVars, openerVars
<1>7. CASE connection_error
  BY <1>7 DEF connection_error, Serving, queueVars, openerVars
<1>8. CASE connection_established
  BY <1>8 DEF connection_established, Serving, queueVars, openerVars
<1>9. CASE client_writeable
  <2>1. UNCHANGED << netVars, caller >>
    BY <1>9 DEF client_writeable
  <2>2. CASE q = << >>
    BY <1>9, <2>1, <2>2 DEF client_writeable, Checked, netVars, openerVars
  <2>3. CASE q # << >>
    <3>1. q' = Tail(q) /\ (q' # << >> => writable') /\ UNCHANGED fault
      BY <1>9, <2>3 DEF client_writeable, Rearm
    <3>2. opener = "ok"
      BY <2>3
    <3> QED
      BY <2>1, <3>1, <3>2 DEF netVars, openerVars
  <2> QED
    BY <2>2, <2>3
<1>10. CASE peer_closes
  BY <1>10 DEF peer_closes, Serving, queueVars, openerVars
<1>11. CASE net_service_task_ends
  BY <1>11 DEF net_service_task_ends, CleanedUp, Serving, openerVars
<1>12. CASE UNCHANGED vars
  BY <1>12 DEF vars, netVars, openerVars, queueVars
<1> QED
  BY <1>1, <1>2, <1>3, <1>4, <1>5, <1>6, <1>7, <1>8, <1>9, <1>10, <1>11, <1>12
  DEF Next, OpenerStep, CallerStep, ServiceStep

\* On every connection, a packet on q never waits for a writable callback that
\* nobody asks for, and the NULL check of LWS_CALLBACK_CLIENT_WRITEABLE is enough.
THEOREM WakeupsMatchQueueHolds == Spec => []WakeupsMatchQueue
<1>1. WakeupInv => WakeupsMatchQueue
  BY DEF WakeupInv, WakeupsMatchQueue
<1> QED
  BY <1>1, WakeupInit, WakeupNext, PTL DEF Spec

-----------------------------------------------------------------------------
(* The queue implements Outbox.                                            *)

\* Whatever the threads, the callbacks and the end of the worker do, packets
\* leave q in order, each once, and are dropped only when the connection ends.
THEOREM QueueIsFifo == Spec => Fifo
<1>1. Init => Queue!OutboxInit
  BY DEF Init, Queue!OutboxInit
<1>2. ASSUME WakeupInv, [Next]_vars
      PROVE  [Queue!OutboxNext]_(Queue!outboxVars)
  <2> USE DEF Queue!outboxVars
  <2>1. CASE open_lws_net_connection
    <3>1. worker # "running" /\ q = << >> /\ q' = << >> /\ UNCHANGED wire
      BY <1>2, <2>1 DEF open_lws_net_connection, WakeupInv, NotYetOpen
    <3>2. CASE worker = "ended" /\ worker' # "ended"
      <4>1. Queue!Begin
        BY <3>1, <3>2 DEF Queue!Begin
      <4> QED
        BY <4>1 DEF Queue!OutboxNext
    <3>3. CASE worker = "ended" /\ worker' = "ended"
      BY <3>1, <3>3
    <3>4. CASE worker # "ended"
      <4>1. worker' # "ended"
        BY <2>1, <3>4 DEF open_lws_net_connection
      <4> QED
        BY <3>1, <3>4, <4>1
    <3> QED
      BY <3>2, <3>3, <3>4
  <2>2. CASE open_poll
    BY <2>2 DEF open_poll, queueVars, openerVars
  <2>3. ASSUME NEW c \in Callers, NEW d \in Data, fire_push(c, d)
        PROVE  [Queue!OutboxNext]_(Queue!outboxVars)
    <3>1. CASE worker = "running"
      <4>1. Queue!Submit(d)
        BY <2>3, <3>1 DEF fire_push, push, netVars, openerVars, Queue!Submit
      <4> QED
        BY <4>1 DEF Queue!OutboxNext
    <3>2. CASE worker # "running"
      BY <2>3, <3>2 DEF fire_push, netVars, openerVars
    <3> QED
      BY <3>1, <3>2
  <2>4. ASSUME NEW c \in Callers, fire_request(c)
        PROVE  [Queue!OutboxNext]_(Queue!outboxVars)
    BY <2>4 DEF fire_request, netVars, openerVars
  <2>5. CASE lws_close_tcp_connection
    BY <2>5 DEF lws_close_tcp_connection, queueVars, openerVars
  <2>6. CASE protocol_init \/ connection_error \/ connection_established \/ peer_closes
    BY <2>6 DEF protocol_init, connection_error, connection_established, peer_closes, queueVars, openerVars
  <2>7. CASE client_writeable
    <3>1. CASE q = << >>
      BY <2>7, <3>1 DEF client_writeable, netVars, openerVars
    <3>2. CASE q # << >>
      <4>1. Queue!Transmit
        BY <2>7, <3>2 DEF client_writeable, Serving, netVars, openerVars, Queue!Transmit
      <4> QED
        BY <4>1 DEF Queue!OutboxNext
    <3> QED
      BY <3>1, <3>2
  <2>8. CASE net_service_task_ends
    <3>1. Queue!End
      BY <2>8 DEF net_service_task_ends, Serving, Queue!End
    <3> QED
      BY <3>1 DEF Queue!OutboxNext
  <2>9. CASE UNCHANGED vars
    BY <2>9 DEF vars, netVars, openerVars, queueVars
  <2> QED
    BY <1>2, <2>1, <2>2, <2>3, <2>4, <2>5, <2>6, <2>7, <2>8, <2>9
    DEF Next, OpenerStep, CallerStep, ServiceStep
<1> QED
  BY <1>1, <1>2, WakeupInit, WakeupNext, PTL DEF Spec, Fifo, Queue!OutboxSpec
-----------------------------------------------------------------------------
(* The wait of open_lws_net_connection.                                    *)

ServedInv == WaitIsServed /\ (worker # "running" => ~interrupted)

LEMMA ServedNext ==
  ASSUME SlowPeer, ~StrayCloses
  PROVE  ServedInv /\ [Next]_vars => ServedInv'
<1> SUFFICES ASSUME ServedInv, [Next]_vars PROVE ServedInv'
  OBVIOUS
<1> USE DEF ServedInv, WaitIsServed
<1>1. CASE open_lws_net_connection
  BY <1>1 DEF open_lws_net_connection
<1>2. CASE open_poll
  BY <1>2 DEF open_poll
<1>3. CASE \E c \in Callers : CallerStep(c)
  BY <1>3 DEF CallerStep, fire_push, fire_request, netVars, openerVars
<1>4. CASE lws_close_tcp_connection
  BY <1>4 DEF lws_close_tcp_connection, openerVars
<1>5. CASE protocol_init \/ connection_error \/ connection_established
  BY <1>5 DEF protocol_init, connection_error, connection_established, openerVars
<1>6. CASE client_writeable
  BY <1>6 DEF client_writeable, netVars, openerVars
<1>7. CASE peer_closes
  BY <1>7 DEF peer_closes, Serving, openerVars
<1>8. CASE net_service_task_ends
  BY <1>8 DEF net_service_task_ends, CleanedUp, openerVars
<1>9. CASE UNCHANGED vars
  BY <1>9 DEF vars, netVars, openerVars
<1> QED
  BY <1>1, <1>2, <1>3, <1>4, <1>5, <1>6, <1>7, <1>8, <1>9
  DEF Next, OpenerStep, ServiceStep

\* No connection, however it ended, takes the worker away from under the wait of
\* the next one, if no peer closes during the wait and nobody closes a connection
\* that is over.
THEOREM WaitIsServedHolds ==
  ASSUME SlowPeer, ~StrayCloses
  PROVE  Spec => []WaitIsServed
<1>1. Init => ServedInv
  BY DEF Init, ServedInv, WaitIsServed
<1>2. ServedInv => WaitIsServed
  BY DEF ServedInv
<1> QED
  BY <1>1, <1>2, ServedNext, PTL DEF Spec
=============================================================================
