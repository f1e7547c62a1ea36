-------------------------- MODULE AmqpClientProofs --------------------------
(***************************************************************************)
(* Proofs about AmqpClient, for any topics, messages, handles and number   *)
(* of sessions: types, the stages of a log in, the tables of names and     *)
(* handles, the messages of both sides, the topic list.                    *)
(*                                                                         *)
(* Client and peer each keep tables about the same links, and learn of the *)
(* other's changes from frames on their way.  The invariants therefore say *)
(* what a side WILL know when it has read what is in flight (Sees), and    *)
(* StageInv what can be in flight at all.                                  *)
(***************************************************************************)
EXTENDS AmqpClient, TopicListProofs, FiniteSetTheorems

-----------------------------------------------------------------------------
(* The stages of a session.                                                *)

\* The thread and the timer that send on their own are not running.
Quiet == /\ thread["pinger"] # "running" /\ thread["messager"] # "running"
         /\ hold = NoFrame

\* The exchange up to OPEN: one frame is on its way, or the client answers.
Exchange ==
  { << << Verdict("PROTO", FALSE) >>, << >> >>,
    << << >>, << Verdict("PROTO", FALSE), Plain("MECHANISMS") >> >>,
    << << >>, << Plain("MECHANISMS") >> >>,
    << << Plain("INIT") >>, << >> >>,
    << << >>, << Verdict("OUTCOME", TRUE) >> >>,
    << << Verdict("PROTO", TRUE) >>, << >> >>,
    << << >>, << Verdict("PROTO", TRUE) >> >>,
    << << Plain("OPEN") >>, << >> >>,
    << << >>, << Plain("OPEN") >> >> }

Handshake ==
  /\ ui = "loading" /\ pConn \in { "sasl", "closed" } /\ Quiet
  /\ pSub = NoLinks /\ pPub = NoLinks
  /\ \/ gui = "conn_fire" /\ outbox = << >> /\ inbox = << >>
     \/ gui # "conn_fire" /\ << outbox, inbox >> \in Exchange

\* The peer has refused the log in, and the client hears of it or has heard.
Refused ==
  /\ gui # "conn_fire" /\ pConn \in { "refused", "closed" } /\ Quiet
  /\ outbox = << >>
  /\ \/ ui = "loading" /\ inbox \in { << Verdict("OUTCOME", FALSE) >>, << Plain("CLOSE") >> }
     \/ (ui = "accounts" \/ (ui = "loading" /\ interrupted)) /\ inbox = << >>

\* The messager is started by the BEGIN case.
NoMessager == thread["messager"] # "running" /\ hold = NoFrame

\* The client has sent BEGIN.
Opened ==
  /\ gui # "conn_fire" /\ ui = "loading" /\ pConn \in { "sasl", "closed" } /\ NoMessager
  /\ pSub = NoLinks /\ pPub = NoLinks
  /\ outbox = << Plain("BEGIN") >> /\ inbox = << >>

OfTypes(s, types) == \A k \in 1 .. Len(s) : s[k].type \in types

\* The peer has answered it, and may use its own link already.
Begun ==
  /\ gui # "conn_fire" /\ ui = "loading" /\ pConn \in { "begun", "closed" } /\ NoMessager
  /\ inbox # << >> /\ Head(inbox) = Plain("BEGIN")
  /\ OfTypes(Tail(inbox), { "ATTACH", "TRANSFER" })
  /\ OfTypes(outbox, { "PING" })

UserTypes == { "ATTACH", "TRANSFER", "DISPOSITION", "DETACH", "END", "CLOSE" }

\* The main window is up, or was.
Main ==
  /\ gui # "conn_fire" /\ ui \in { "main", "accounts" } /\ (is_connected \/ interrupted)
  /\ pConn \in { "begun", "ended", "closed" }
  /\ OfTypes(inbox, UserTypes)
  /\ OfTypes(outbox, UserTypes \cup { "PING" })

InStage ==
  (Alive /\ net = "open") =>
    IF tables = "live" THEN Opened \/ Begun \/ Main ELSE Handshake \/ Refused

LogOutInMain == gui = "disc_fire" => ui = "main"

\* The threads that send are cancelled when the worker ends.
SendersServed ==
  \A th \in { "pinger", "messager" } : thread[th] = "running" => is_started[th] /\ net = "open"

LiveIsServed == tables = "live" => net = "open" /\ fault \in { "none", "null_topic" }

\* The handles of the stored topics end below that of the peer.
RoomLeft == (ui = "loading" /\ Alive) => next_handle + Len(StoredTopics) <= ServerHandle

IsTransfer(f) == f = NoFrame \/ f.type = "TRANSFER"

OnlyTransfers ==
  /\ \A h \in Handles : IsTransfer(m_handler[h])
  /\ \A id \in Deliveries : IsTransfer(m_delivery_id[id])
  /\ IsTransfer(hold)

Named(s) == \A k \in 1 .. Len(s) : s[k].type = "ATTACH" => s[k].topic \in Topics

AttachNamed == Named(outbox) /\ Named(inbox)

StageInv ==
  /\ LogOutInMain /\ SendersServed /\ LiveIsServed /\ RoomLeft
  /\ OnlyTransfers /\ AttachNamed /\ InStage

-----------------------------------------------------------------------------
(* The links.                                                              *)

\* f makes the worker change what it knows of handle h.
Touches(f, h) ==
  f.handle = h /\ (f.type = "DETACH" \/ (f.type = "ATTACH" /\ f.role = "SENDER"))

NoTouch(h) == \A f \in ToSet(inbox) : ~Touches(f, h)

\* f makes the peer open or close the link on which it sends.
Moves(f, h) ==
  f.handle = h /\ (f.type = "DETACH" \/ (f.type = "ATTACH" /\ f.role = "RECEIVER"))

HasHandle(f) == f.type \in { "ATTACH", "DETACH" }

\* After the first k frames of s a worker that begins with table m has topic t
\* for handle h.
SeesIn(s, m, h, t, k) ==
  \/ /\ m[h] = t
     /\ \A j \in 1 .. k : ~Touches(s[j], h)
  \/ \E j \in 1 .. k : /\ Touches(s[j], h) /\ s[j].topic = t
                       /\ \A l \in j + 1 .. k : ~Touches(s[l], h)

Sees(h, t, k) == SeesIn(inbox, reverse_topic_name_map, h, t, k)

\* What the peer has attached is what the worker will know.
PeerSeen ==
  /\ \A h \in Handles : pSub[h] # NoTopic => Sees(h, pSub[h], Len(inbox))
  /\ pSub[ServerHandle] = NoTopic => Sees(ServerHandle, NoTopic, Len(inbox))

\* A message arrives while the worker has the topic it was sent on; an ATTACH of
\* the peer gives a handle no second topic.
Arrives(k) ==
  LET f == inbox[k]
  IN  /\ f.type = "TRANSFER" =>
           f.data \in AmqpIncoming /\ pTopic[f.data] # NoTopic /\ Sees(f.handle, pTopic[f.data], k - 1)
      /\ (f.type = "ATTACH" /\ f.role = "SENDER") =>
           /\ f.handle # 0 /\ f.topic # NoTopic
           /\ \A t \in Topics : Sees(f.handle, t, k - 1) => t = f.topic
      /\ f.type = "DETACH" => f.topic = NoTopic

ComingOK == \A k \in 1 .. Len(inbox) : Arrives(k)

\* The peer has not used handle h, and the worker will hear nothing of it.
Untouched(h) == pSub[h] = NoTopic /\ pPub[h] = NoTopic /\ NoTouch(h)

\* An ATTACH in q is for a handle that no frame before it names.
OrderedIn(s) ==
  \A j, k \in 1 .. Len(s) :
    (j < k /\ s[k].type = "ATTACH" /\ HasHandle(s[j])) => s[j].handle # s[k].handle

\* ... and that the client has reserved for its topic.
Leaves(f) ==
  f.type = "ATTACH" =>
    /\ f.handle \notin { 0, ServerHandle } /\ f.topic # NoTopic
    /\ reverse_topic_name_map[f.handle] = f.topic
    /\ Untouched(f.handle)

GoingOK == OrderedIn(outbox) /\ \A f \in ToSet(outbox) : Leaves(f)

\* The tables of names are inverse to that of handles; the handle of a link on
\* which the client sends is not that of a link on which the peer does.
NamesIn == \A t \in Topics : topic_name_map[t] # 0 => reverse_topic_name_map[topic_name_map[t]] = t

SendsOn(h, t) ==
  /\ reverse_topic_name_map[h] = t
  /\ h # ServerHandle
  /\ \A u \in Topics : topic_name_map[u] # h
  /\ NoTouch(h)
  /\ \A f \in ToSet(outbox) : ~Moves(f, h)

NamesOut == \A t \in Topics : topic_name_map_outgoing[t] # 0 => SendsOn(topic_name_map_outgoing[t], t)

\* h is, or will be, in some table of the client or of the peer.
InUse(h) ==
  \/ pSub[h] # NoTopic \/ pPub[h] # NoTopic \/ reverse_topic_name_map[h] # NoTopic
  \/ \E t \in Topics : topic_name_map[t] = h \/ topic_name_map_outgoing[t] = h
  \/ ~NoTouch(h)
  \/ \E f \in ToSet(outbox) : HasHandle(f) /\ f.handle = h

\* The next handle is a new one, and the client does not come to the peer's handle
\* without having heard of its link.
FreshUnused ==
  ui = "main" =>
    /\ \A h \in Handles \ {0} : InUse(h) => h < next_handle \/ h = ServerHandle
    /\ next_handle <= ServerHandle => reverse_topic_name_map[ServerHandle] = NoTopic

\* Until BEGIN has come there is no link but the peer's own.
NothingYet ==
  ui = "loading" =>
    /\ reverse_topic_name_map = [ h \in Handles |-> NoTopic ]
    /\ topic_name_map = [ t \in Topics |-> 0 ]
    /\ topic_name_map_outgoing = [ t \in Topics |-> 0 ]
    /\ m_handler = NoTransfers(Handles) /\ m_delivery_id = NoTransfers(Deliveries)
    /\ \A h \in Handles \ {ServerHandle} : pSub[h] = NoTopic /\ NoTouch(h)
    /\ pPub = NoLinks

Linked == PeerSeen /\ ComingOK /\ GoingOK /\ NamesIn /\ NamesOut /\ FreshUnused /\ NothingYet

LinkInv == ~clash /\ (tables = "live" => Linked)

-----------------------------------------------------------------------------
(* The messages of the peer.                                               *)

\* A message is stored under the topic it was sent on, and is sent once.
FiledInv ==
  /\ fault # "null_topic"
  /\ \A i \in AmqpIncoming : received[i] \subseteq { pTopic[i] }
  /\ \A i \in AmqpIncoming : pIn[i] = "new" => received[i] = {}
  /\ tables = "live" => \A f \in ToSet(inbox) : f.type = "TRANSFER" => pIn[f.data] # "new"

-----------------------------------------------------------------------------
(* The topic list.                                                         *)

\* No topic has two rows; on the main window the list and the table agree.
RowsInv ==
  /\ \A t \in Topics : rows.db[t] <= rows.list[t] /\ rows.list[t] <= 1
  /\ (ui = "main" /\ gui # "disc_fire") => \A t \in Topics : rows.list[t] = rows.db[t]

\* A DETACH of handle h is in s, from the k-th frame on.
DetachIn(s, h, k) == \E j \in k .. Len(s) : s[j].type = "DETACH" /\ s[j].handle = h

\* A link the worker will hear of is there, or gone again.
Announced(k) ==
  LET f == inbox[k]
  IN  (f.type = "ATTACH" /\ f.role = "SENDER") =>
        pSub[f.handle] = f.topic \/ DetachIn(inbox, f.handle, k + 1)

\* A topic has a link, will have one, or is about to leave the list.
LinkComes(t) ==
  LET h == topic_name_map[t]
  IN  /\ h # 0
      /\ \/ pSub[h] = t
         \/ DetachIn(inbox, h, 1)
         \/ Attach("RECEIVER", h, t) \in ToSet(outbox)

Listed ==
  /\ \A k \in 1 .. Len(inbox) : Announced(k)
  /\ ui # "loading" => \A t \in Topics : rows.list[t] > 0 => LinkComes(t)

ListedInv == tables = "live" => Listed

-----------------------------------------------------------------------------
(* The messages of the user.                                               *)

\* f is a transfer of this session, as it was published.
Mine(f) == f.data \in Contents /\ published[f.data] = [ frame |-> f, session |-> session ]

Ours(c) == published[c].session = session

PublishedInv ==
  /\ \A c \in Contents :
       \/ published[c] = NotPublished /\ saved[c] = 0
       \/ /\ published[c].session > 0 /\ published[c].session <= session
          /\ published[c].frame.type = "TRANSFER" /\ published[c].frame.data = c
          /\ ~published[c].frame.settled
  /\ (net # "closed" \/ ui # "accounts") => session > 0
  /\ (ui = "loading" /\ Alive) => \A c \in Contents : ~Ours(c)

\* Where a transfer can be.
Kept(c) ==
  LET f == published[c].frame
  IN  m_handler[f.handle] = f \/ m_delivery_id[f.id] = f \/ f \in ToSet(outbox) \/ delivered[c] > 0

HoldMine == hold = NoFrame \/ Mine(hold)

QueueMine == \A f \in ToSet(outbox) : f.type = "TRANSFER" => Mine(f)

\* No two transfers of a session have the same delivery id.
OwnIds ==
  \A c, d \in Contents :
    (Ours(c) /\ Ours(d) /\ published[c].frame.id = published[d].frame.id) => c = d

\* ... nor has one an id or a handle that is still to be given out.
BelowNext ==
  ui = "main" => \A c \in Contents : Ours(c) =>
    published[c].frame.id < packet_id_counter /\ published[c].frame.handle < next_handle

TablesMine ==
  /\ \A h \in Handles : m_handler[h] # NoFrame => Mine(m_handler[h]) /\ m_handler[h].handle = h
  /\ \A id \in Deliveries : m_delivery_id[id] # NoFrame => Mine(m_delivery_id[id]) /\ m_delivery_id[id].id = id

AllKept == \A c \in Contents : Ours(c) => Kept(c)

StoreInv ==
  net = "open" => /\ HoldMine /\ QueueMine /\ OwnIds /\ BelowNext
                  /\ tables = "live" => TablesMine /\ AllKept

\* A transfer is in the history once, when the peer has it.
SavedOnce == \A c \in Contents : saved[c] <= 1 /\ (saved[c] = 1 => delivered[c] > 0)

\* What waits is not in the history, and waits in one table.
WaitsUnsaved ==
  /\ \A h \in Handles : m_handler[h] # NoFrame =>
       saved[m_handler[h].data] = 0 /\ m_delivery_id[m_handler[h].id] = NoFrame
  /\ \A id \in Deliveries : m_delivery_id[id] # NoFrame => saved[m_delivery_id[id].data] = 0

\* A disposition is about a transfer that the peer has.
Confirms(f) ==
  f.type = "DISPOSITION" =>
    /\ ui = "main" => f.id < packet_id_counter
    /\ \A c \in Contents : (Ours(c) /\ published[c].frame.id = f.id) => delivered[c] > 0

SavedInv ==
  /\ SavedOnce
  /\ tables = "live" => WaitsUnsaved /\ \A f \in ToSet(inbox) : Confirms(f)

MessageInv == PublishedInv /\ StoreInv /\ SavedInv

-----------------------------------------------------------------------------
(* Frames and channels.                                                    *)

\* What each frame is made of.
LEMMA FrameFields ==
  /\ \A type : /\ Plain(type).type = type /\ Plain(type).handle = 0 /\ Plain(type).topic = NoTopic
               /\ Plain(type).role = "NONE" /\ Plain(type).data = NoContent /\ Plain(type).id = 0
  /\ NoFrame.type = "NONE"
  /\ \A type, ok : Verdict(type, ok).type = type /\ Verdict(type, ok).ok = ok
  /\ \A role, h, t : /\ Attach(role, h, t).type = "ATTACH" /\ Attach(role, h, t).role = role
                     /\ Attach(role, h, t).handle = h /\ Attach(role, h, t).topic = t
  /\ \A h : Detach(h).type = "DETACH" /\ Detach(h).handle = h /\ Detach(h).topic = NoTopic
  /\ \A h, id, s, d : /\ Transfer(h, id, s, d).type = "TRANSFER" /\ Transfer(h, id, s, d).handle = h
                      /\ Transfer(h, id, s, d).id = id /\ Transfer(h, id, s, d).settled = s
                      /\ Transfer(h, id, s, d).data = d
  /\ \A id : Disposition(id).type = "DISPOSITION" /\ Disposition(id).id = id
BY DEF Plain, NoFrame, Verdict, Attach, Detach, Transfer, Disposition

\* Every frame that is built is a frame.
LEMMA FrameTyped ==
  /\ \A type \in FrameTypes : Plain(type) \in Frame
  /\ NoFrame \in Frame
  /\ \A type \in FrameTypes, ok \in BOOLEAN : Verdict(type, ok) \in Frame
  /\ \A role \in { "SENDER", "RECEIVER" }, h \in Handles, t \in Topics : Attach(role, h, t) \in Frame
  /\ \A h \in Handles : Detach(h) \in Frame
  /\ \A h \in Handles, id \in Deliveries, s \in BOOLEAN, d \in Contents \cup AmqpIncoming :
       Transfer(h, id, s, d) \in Frame
  /\ \A id \in Deliveries : Disposition(id) \in Frame
<1>1. \A type \in FrameTypes : Plain(type) \in Frame
  BY AmqpTableBounds DEF Plain, Frame, Handles, Deliveries
<1>2. \A type \in FrameTypes, ok \in BOOLEAN : Verdict(type, ok) \in Frame
  BY <1>1 DEF Verdict, Frame
<1>3. \A role \in { "SENDER", "RECEIVER" }, h \in Handles, t \in Topics : Attach(role, h, t) \in Frame
  <2>1. Plain("ATTACH") \in Frame
    BY <1>1 DEF FrameTypes
  <2> QED BY <2>1 DEF Attach, Frame
<1>4. \A h \in Handles : Detach(h) \in Frame
  <2>1. Plain("DETACH") \in Frame
    BY <1>1 DEF FrameTypes
  <2> QED BY <2>1 DEF Detach, Frame
<1>5. \A h \in Handles, id \in Deliveries, s \in BOOLEAN, d \in Contents \cup AmqpIncoming :
        Transfer(h, id, s, d) \in Frame
  <2>1. Plain("TRANSFER") \in Frame
    BY <1>1 DEF FrameTypes
  <2> QED BY <2>1 DEF Transfer, Frame
<1>6. \A id \in Deliveries : Disposition(id) \in Frame
  <2>1. Plain("DISPOSITION") \in Frame
    BY <1>1 DEF FrameTypes
  <2> QED BY <2>1 DEF Disposition, Frame
<1>7. NoFrame \in Frame
  BY <1>1 DEF NoFrame, FrameTypes
<1> QED BY <1>1, <1>2, <1>3, <1>4, <1>5, <1>6, <1>7

\* Numbers below their bounds are not cut.
LEMMA ShortIsSame ==
  /\ \A h \in Handles : Short(h) = h
  /\ \A id \in Deliveries : Short(id) = id
  /\ 0 \in Handles /\ 0 \in Deliveries /\ ServerHandle \in Handles /\ ServerHandle # 0
BY AmqpTableBounds, AmqpPeerBounds DEF Short, Handles, Deliveries

\* A channel without its first frame.
LEMMA Taken ==
  ASSUME NEW s \in Seq(Frame), s # << >>
  PROVE  /\ Tail(s) \in Seq(Frame) /\ Len(Tail(s)) = Len(s) - 1
         /\ Head(s) = s[1] /\ Head(s) \in Frame /\ Len(s) \in Nat /\ Len(s) >= 1
         /\ \A k \in 1 .. Len(s) - 1 : Tail(s)[k] = s[k + 1]
OBVIOUS

\* A channel with one frame more.
LEMMA Added ==
  ASSUME NEW s \in Seq(Frame), NEW f \in Frame
  PROVE  /\ s \o << f >> \in Seq(Frame) /\ Len(s \o << f >>) = Len(s) + 1
         /\ Len(s) \in Nat
         /\ \A k \in 1 .. Len(s) : (s \o << f >>)[k] = s[k]
         /\ (s \o << f >>)[Len(s) + 1] = f
OBVIOUS

\* A channel with several frames more.
LEMMA Joined ==
  ASSUME NEW s \in Seq(Frame), NEW r \in Seq(Frame)
  PROVE  /\ s \o r \in Seq(Frame) /\ Len(s \o r) = Len(s) + Len(r)
         /\ Len(s) \in Nat /\ Len(r) \in Nat
         /\ \A k \in 1 .. Len(s) : (s \o r)[k] = s[k]
         /\ \A k \in 1 .. Len(r) : (s \o r)[Len(s) + k] = r[k]
         /\ r = << >> => s \o r = s
OBVIOUS

\* Channels of one or two frames.
LEMMA Short12 ==
  ASSUME NEW f \in Frame, NEW g \in Frame
  PROVE  /\ << >> \in Seq(Frame) /\ << f >> \in Seq(Frame) /\ << f, g >> \in Seq(Frame)
         /\ Head(<< f >>) = f /\ Tail(<< f >>) = << >> /\ << f >> # << >>
         /\ Head(<< f, g >>) = f /\ Tail(<< f, g >>) = << g >> /\ << f, g >> # << >>
         /\ << >> \o << f >> = << f >> /\ << >> \o << f, g >> = << f, g >>
         /\ << >> \o << >> = << >>
         /\ Len(<< f >>) = 1 /\ << f >>[1] = f
         /\ << f >> # << f, g >> /\ << f >> # << g, f >>
         /\ << f >> = << g >> => f = g
OBVIOUS

\* fire_all appends the frames, or the process dies and keeps q.
LEMMA FireType ==
  ASSUME NEW frames \in Seq(Frame), AmqpTimersTypeOK, fire_all(frames) \/ use_and_fire(frames)
  PROVE  /\ outbox' \in Seq(Frame)
         /\ fault' \in { "none", "null_vhd", "freed_table", "null_topic" }
<1>1. outbox \in Seq(Frame) /\ outbox \o frames \in Seq(Frame)
  BY Joined DEF AmqpTimersTypeOK
<1>2. fault \in { "none", "null_vhd", "freed_table", "null_topic" }
  BY DEF AmqpTimersTypeOK
<1> QED BY <1>1, <1>2 DEF fire_all, use_and_fire

-----------------------------------------------------------------------------
(* The stored topics.                                                      *)

Stored == { t \in Topics : topics_from_db(rows).db[t] > 0 }

\* get_topics_from_db returns each stored topic once.
LEMMA StoredList ==
  /\ StoredTopics \in Seq(Topics) /\ Len(StoredTopics) \in Nat
  /\ \A j \in 1 .. Len(StoredTopics) : StoredTopics[j] \in Stored
  /\ \A j, k \in 1 .. Len(StoredTopics) : StoredTopics[j] = StoredTopics[k] => j = k
  /\ \A t \in Stored : \E k \in 1 .. Len(StoredTopics) : StoredTopics[k] = t
<1> DEFINE n == Cardinality(Stored)
<1>1. IsFiniteSet(Stored)
  BY AmqpClientBounds, FS_Subset DEF Stored
<1>2. n \in Nat /\ ExistsBijection(1 .. n, Stored)
  BY <1>1, FS_CardinalityType
<1>3. PICK g \in [ 1 .. n -> Stored ] : IsInjective(g) /\ \A t \in Stored : \E k \in 1 .. n : g[k] = t
  BY <1>2 DEF ExistsBijection, Bijection, Injection, Surjection, IsInjective
<1>4. StoredTopics \in [ 1 .. n -> Stored ] /\ IsInjective(StoredTopics)
  <2>1. StoredTopics = SetToSeq(Stored)
    BY Zenon DEF StoredTopics, Stored
  <2> QED BY <1>3, <2>1, Zenon DEF SetToSeq
<1>5. \A t \in Stored : \E k \in 1 .. n : StoredTopics[k] = t
  <2>1. StoredTopics \in Injection(1 .. n, Stored)
    BY <1>4 DEF Injection
  <2>2. Cardinality(1 .. n) = n
    BY <1>2, FS_Interval
  <2> HIDE DEF n
  <2>3. Cardinality(1 .. n) = Cardinality(Stored)
    BY <2>2 DEF n
  <2>4. StoredTopics \in Surjection(1 .. n, Stored)
    BY <1>1, <2>1, <2>3, FS_Injection
  <2> QED BY <2>4 DEF Surjection
<1>6. Stored \subseteq Topics
  BY Zenon DEF Stored
<1>7. StoredTopics \in Seq(Topics) /\ Len(StoredTopics) = n
  BY <1>2, <1>4, <1>6
<1> QED BY <1>2, <1>4, <1>5, <1>7 DEF IsInjective

-----------------------------------------------------------------------------
(* Types.                                                                  *)

NetTyped ==
  /\ fault \in { "none", "null_vhd", "freed_table", "null_topic" }
  /\ net \in { "closed", "open", "down" }
  /\ interrupted \in BOOLEAN
  /\ outbox \in Seq(Frame) /\ inbox \in Seq(Frame)

TablesTyped ==
  /\ m_handler \in [ Handles -> Frame ]
  /\ m_delivery_id \in [ Deliveries -> Frame ]
  /\ topic_name_map \in [ Topics -> Handles ]
  /\ topic_name_map_outgoing \in [ Topics -> Handles ]
  /\ reverse_topic_name_map \in [ Handles -> Topics \cup {NoTopic} ]
  /\ tables \in { "null", "live", "destroyed" }

ThreadsTyped ==
  /\ thread \in [ AmqpThreads -> { "none", "running", "ended" } ]
  /\ is_started \in [ AmqpThreads -> BOOLEAN ]
  /\ strays \in Nat
  /\ hold \in Frame

ClientTyped ==
  /\ gui \in { "idle", "conn_fire", "conn_timer", "disc_fire" }
  /\ ui \in { "accounts", "loading", "main" }
  /\ session \in 0 .. MaxSessions
  /\ next_handle \in 1 .. MaxHandle + 1
  /\ packet_id_counter \in 1 .. MaxDelivery + 1
  /\ is_connected \in BOOLEAN

StoreTyped ==
  /\ rows \in Rows
  /\ saved \in [ Contents -> Nat ]
  /\ received \in [ AmqpIncoming -> SUBSET Topics ]
  /\ published \in [ Contents -> [ frame : Frame, session : 0 .. MaxSessions ] ]

\* The type invariant in six parts, by who writes them.
LEMMA TypeParts ==
  TypeOK <=> NetTyped /\ TablesTyped /\ ThreadsTyped /\ AmqpPeerTypeOK /\ ClientTyped /\ StoreTyped
BY DEF TypeOK, AmqpTimersTypeOK, NetTyped, TablesTyped, ThreadsTyped, ClientTyped, StoreTyped

LEMMA TypePartsNext ==
  TypeOK' <=> NetTyped' /\ TablesTyped' /\ ThreadsTyped' /\ AmqpPeerTypeOK' /\ ClientTyped' /\ StoreTyped'
BY TypeParts, PTL

LEMMA InitTypes == Init => TypeOK
<1> SUFFICES ASSUME Init PROVE TypeOK
  OBVIOUS
<1>1. NetTyped
  BY Short12, FrameTyped DEF Init, AmqpTimersInit, NetTyped
<1>2. TablesTyped
  BY FrameTyped, ShortIsSame DEF Init, AmqpTimersInit, TablesTyped, NoTransfers
<1>3. ThreadsTyped
  BY FrameTyped DEF Init, AmqpTimersInit, ThreadsTyped
<1>4. AmqpPeerTypeOK
  BY DEF Init, AmqpPeerInit, AmqpPeerTypeOK, NoLinks
<1>5. ClientTyped
  <2>1. MaxSessions \in Nat /\ MaxHandle \in Nat /\ MaxDelivery \in Nat
    BY AmqpTableBounds, AmqpClientBounds
  <2>2. /\ gui = "idle" /\ ui = "accounts" /\ session = 0
        /\ next_handle = 1 /\ packet_id_counter = 1 /\ is_connected = FALSE
    BY DEF Init
  <2>3. is_connected \in BOOLEAN
    BY <2>2
  <2> QED BY <2>1, <2>2, <2>3 DEF ClientTyped
<1>6. StoreTyped
  BY FrameTyped, AmqpClientBounds DEF Init, StoreTyped, NotPublished, Rows, NoRows
<1> QED BY <1>1, <1>2, <1>3, <1>4, <1>5, <1>6, TypeParts

\* A part stays typed when its variables are left alone.
LEMMA TypesStay ==
  /\ NetTyped /\ UNCHANGED << fault, amqpNetVars >> => NetTyped'
  /\ TablesTyped /\ UNCHANGED tableVars => TablesTyped'
  /\ ThreadsTyped /\ UNCHANGED threadVars => ThreadsTyped'
  /\ AmqpPeerTypeOK /\ UNCHANGED peerVars => AmqpPeerTypeOK'
  /\ ClientTyped /\ UNCHANGED << gui, ui, session, counterVars >> => ClientTyped'
  /\ StoreTyped /\ UNCHANGED << storeVars, published >> => StoreTyped'
<1>1. NetTyped /\ UNCHANGED << fault, amqpNetVars >> => NetTyped'
  BY DEF NetTyped, amqpNetVars
<1>2. TablesTyped /\ UNCHANGED tableVars => TablesTyped'
  BY DEF TablesTyped, tableVars
<1>3. ThreadsTyped /\ UNCHANGED threadVars => ThreadsTyped'
  BY DEF ThreadsTyped, threadVars
<1>4. AmqpPeerTypeOK /\ UNCHANGED peerVars => AmqpPeerTypeOK'
  BY DEF AmqpPeerTypeOK, peerVars
<1>5. ClientTyped /\ UNCHANGED << gui, ui, session, counterVars >> => ClientTyped'
  BY DEF ClientTyped, counterVars
<1>6. StoreTyped /\ UNCHANGED << storeVars, published >> => StoreTyped'
  BY DEF StoreTyped, storeVars
<1> QED BY <1>1, <1>2, <1>3, <1>4, <1>5, <1>6

\* The steps of the user keep the types.
LEMMA UserTypes1 ==
  ASSUME TypeOK, UserStep
  PROVE  TypeOK'
<1> USE TypeParts, TypePartsNext
<1>0. NetTyped /\ TablesTyped /\ ThreadsTyped /\ AmqpPeerTypeOK /\ ClientTyped /\ StoreTyped
  OBVIOUS
<1>a. MaxHandle \in Nat /\ MaxDelivery \in Nat /\ MaxSessions \in Nat
  BY AmqpTableBounds, AmqpClientBounds
<1>1. CASE LogIn
  <2>1. NetTyped'
    BY <1>0, <1>1, Short12, FrameTyped DEF LogIn, NetTyped
  <2>2. TablesTyped' /\ ThreadsTyped'
    BY <1>0, <1>1, TypesStay DEF LogIn
  <2>3. AmqpPeerTypeOK'
    BY <1>0, <1>1 DEF LogIn, NewLink, AmqpPeerTypeOK, NoLinks
  <2>4. ClientTyped'
    BY <1>0, <1>1, <1>a DEF LogIn, Gui, ClientTyped, counterVars
  <2>5. StoreTyped'
    BY <1>0, <1>1, TypesStay DEF LogIn
  <2> QED BY <2>1, <2>2, <2>3, <2>4, <2>5
<1>2. ASSUME NEW t \in Topics, send_amqp_attach(t) PROVE TypeOK'
  <2>0. next_handle \in Handles /\ Short(next_handle) = next_handle
    BY <1>0, <1>2, <1>a, ShortIsSame DEF send_amqp_attach, FreshHandle, ClientTyped, Handles
  <2>1. NetTyped'
    <3>1. << Attach("RECEIVER", next_handle, t) >> \in Seq(Frame)
      BY <2>0, FrameTyped
    <3> QED BY <1>0, <1>2, <3>1, FireType DEF send_amqp_attach, NetTyped, TypeOK
  <2>2. TablesTyped'
    BY <1>0, <1>2, <2>0 DEF send_amqp_attach, amqp_add_link, TablesTyped
  <2>3. ThreadsTyped' /\ AmqpPeerTypeOK' /\ StoreTyped'
    BY <1>0, <1>2, TypesStay DEF send_amqp_attach
  <2>4. ClientTyped'
    BY <1>0, <1>2, <1>a, <2>0 DEF send_amqp_attach, Button, Gui, ClientTyped, Handles
  <2> QED BY <2>1, <2>2, <2>3, <2>4
<1>3. ASSUME NEW t \in Topics, send_amqp_detach(t) PROVE TypeOK'
  <2>1. NetTyped'
    <3>1. topic_name_map[t] \in Handles
      BY <1>0 DEF TablesTyped
    <3>2. (IF amqp_get_handler_from_map(t) = 0 THEN << >>
           ELSE << Detach(amqp_get_handler_from_map(t)) >>) \in Seq(Frame)
      BY <3>1, FrameTyped DEF amqp_get_handler_from_map
    <3> QED BY <1>0, <1>3, <3>2, FireType DEF send_amqp_detach, NetTyped, TypeOK
  <2>2. TablesTyped' /\ ThreadsTyped' /\ AmqpPeerTypeOK' /\ StoreTyped'
    BY <1>0, <1>3, TypesStay DEF send_amqp_detach
  <2>3. ClientTyped'
    BY <1>0, <1>3 DEF send_amqp_detach, Button, Gui, ClientTyped, counterVars
  <2> QED BY <2>1, <2>2, <2>3
<1>4. ASSUME NEW c \in Contents, NEW t \in Topics, NEW s \in UserSettled, send_amqp_transfer(c, t, s)
      PROVE  TypeOK'
  <2> DEFINE h == amqp_get_handler_from_map_outgoing(t)
             f == Transfer(IF h # 0 THEN h ELSE next_handle, packet_id_counter, s, c)
  <2>0. /\ packet_id_counter \in Deliveries /\ packet_id_counter' \in 1 .. MaxDelivery + 1
        /\ published' = [ published EXCEPT ![c] = [ frame |-> f, session |-> session ] ]
        /\ \/ h # 0 /\ use_and_fire(<< f >>) /\ UNCHANGED << next_handle, tableVars >>
           \/ /\ h = 0 /\ FreshHandle
              /\ next_handle' = next_handle + 1
              /\ amqp_add_link_outgoing(next_handle, t)
              /\ m_handler' = with_message_by_handler(f)
              /\ use_and_fire(<< Attach("SENDER", next_handle, t) >>)
              /\ UNCHANGED << m_delivery_id, topic_name_map, tables >>
    BY <1>0, <1>4, <1>a DEF send_amqp_transfer, ClientTyped, Deliveries
  <2>1. h \in Handles /\ s \in BOOLEAN
    BY <1>0, AmqpClientBounds DEF TablesTyped, amqp_get_handler_from_map_outgoing
  <2>2. h = 0 => next_handle \in Handles /\ Short(next_handle) = next_handle /\ next_handle + 1 \in 1 .. MaxHandle + 1
    BY <1>0, <2>0, <1>a, ShortIsSame DEF FreshHandle, ClientTyped, Handles
  <2>3. f \in Frame
    BY <2>0, <2>1, <2>2, FrameTyped
  <2>4. h = 0 => Attach("SENDER", next_handle, t) \in Frame /\ f.handle = next_handle
    BY <2>2, FrameTyped, FrameFields
  <2> HIDE DEF h, f
  <2>5. NetTyped'
    <3>1. << f >> \in Seq(Frame) /\ (h = 0 => << Attach("SENDER", next_handle, t) >> \in Seq(Frame))
      BY <2>3, <2>4
    <3>2. outbox' \in Seq(Frame) /\ fault' \in { "none", "null_vhd", "freed_table", "null_topic" }
      BY <2>0, <3>1, FireType DEF TypeOK
    <3> QED BY <1>0, <1>4, <3>2 DEF send_amqp_transfer, NetTyped
  <2>6. TablesTyped'
    <3>1. CASE h # 0
      BY <1>0, <2>0, <3>1, TypesStay
    <3>2. CASE h = 0
      BY <1>0, <2>0, <2>2, <2>3, <2>4, <3>2 DEF amqp_add_link_outgoing, with_message_by_handler, TablesTyped
    <3> QED BY <3>1, <3>2
  <2>7. ThreadsTyped' /\ AmqpPeerTypeOK'
    BY <1>0, <1>4, TypesStay DEF send_amqp_transfer
  <2>8. ClientTyped'
    <3>1. next_handle' \in 1 .. MaxHandle + 1
      BY <1>0, <2>0, <2>2 DEF ClientTyped
    <3> QED BY <1>0, <1>4, <2>0, <3>1 DEF send_amqp_transfer, Button, Gui, ClientTyped
  <2>9. StoreTyped'
    <3>1. session \in 0 .. MaxSessions
      BY <1>0 DEF ClientTyped
    <3> QED BY <1>0, <1>4, <2>0, <2>3, <3>1 DEF send_amqp_transfer, StoreTyped, storeVars
  <2> QED BY <2>5, <2>6, <2>7, <2>8, <2>9
<1>5. CASE log_out_handle
  <2>1. NetTyped' /\ TablesTyped' /\ ThreadsTyped' /\ AmqpPeerTypeOK'
    BY <1>0, <1>5, TypesStay DEF log_out_handle
  <2>2. ClientTyped'
    BY <1>0, <1>5 DEF log_out_handle, Gui, ClientTyped, counterVars
  <2>3. StoreTyped'
    BY <1>0, <1>5 DEF log_out_handle, StoreTyped, Rows
  <2> QED BY <2>1, <2>2, <2>3
<1> QED BY <1>1, <1>2, <1>3, <1>4, <1>5 DEF UserStep

\* The steps of the GTK thread within a handler keep the types.
LEMMA GuiTypes ==
  ASSUME TypeOK, GuiStep
  PROVE  TypeOK'
<1> USE TypeParts, TypePartsNext
<1>0. NetTyped /\ TablesTyped /\ ThreadsTyped /\ AmqpPeerTypeOK /\ ClientTyped /\ StoreTyped
  OBVIOUS
<1>a. MaxHandle \in Nat /\ MaxDelivery \in Nat /\ MaxSessions \in Nat
  BY AmqpTableBounds, AmqpClientBounds
<1>b. << Verdict("PROTO", FALSE) >> \in Seq(Frame) /\ << Plain("END") >> \in Seq(Frame)
  <2>1. Verdict("PROTO", FALSE) \in Frame /\ Plain("END") \in Frame
    BY FrameTyped DEF FrameTypes
  <2> QED BY <2>1, Short12
<1>1. CASE start_amqp_connect_fire
  <2>1. NetTyped'
    BY <1>0, <1>1, <1>b, FireType DEF start_amqp_connect_fire, amqp_encode_and_fire, NetTyped, TypeOK
  <2>2. TablesTyped' /\ ThreadsTyped' /\ AmqpPeerTypeOK' /\ StoreTyped'
    BY <1>0, <1>1, TypesStay DEF start_amqp_connect_fire
  <2>3. ClientTyped'
    BY <1>0, <1>1 DEF start_amqp_connect_fire, Gui, ClientTyped, counterVars
  <2> QED BY <2>1, <2>2, <2>3
<1>2. CASE start_amqp_connect_timer
  <2>1. NetTyped' /\ TablesTyped' /\ AmqpPeerTypeOK' /\ StoreTyped'
    BY <1>0, <1>2, TypesStay DEF start_amqp_connect_timer
  <2>2. ClientTyped'
    BY <1>0, <1>2 DEF start_amqp_connect_timer, Gui, ClientTyped, counterVars
  <2>3. ThreadsTyped'
    <3>1. /\ thread' = [ thread EXCEPT !["connecter"] = "running" ]
          /\ is_started' = [ is_started EXCEPT !["connecter"] = TRUE ]
          /\ strays' \in { strays, strays + 1 } /\ hold' = hold
      BY <1>2 DEF start_amqp_connect_timer, amqp_start_connect_timer, Start
    <3>2. is_started' \in [ AmqpThreads -> BOOLEAN ]
      BY <1>0, <3>1 DEF ThreadsTyped
    <3>3. thread' \in [ AmqpThreads -> { "none", "running", "ended" } ]
      BY <1>0, <3>1 DEF ThreadsTyped
    <3>4. strays' \in Nat /\ hold' \in Frame
      BY <1>0, <3>1 DEF ThreadsTyped
    <3> QED BY <3>2, <3>3, <3>4 DEF ThreadsTyped
  <2> QED BY <2>1, <2>2, <2>3
<1>3. CASE send_amqp_end
  <2>1. NetTyped'
    BY <1>0, <1>3, <1>b, FireType DEF send_amqp_end, amqp_encode_and_fire, NetTyped, TypeOK
  <2>2. TablesTyped' /\ ThreadsTyped' /\ AmqpPeerTypeOK' /\ StoreTyped'
    BY <1>0, <1>3, TypesStay DEF send_amqp_end
  <2>3. ClientTyped'
    BY <1>0, <1>3, <1>a DEF send_amqp_end, Gui, ClientTyped
  <2> QED BY <2>1, <2>2, <2>3
<1> QED BY <1>1, <1>2, <1>3 DEF GuiStep

-----------------------------------------------------------------------------
(* What the first frame of a channel says about the stage.                 *)

\* The exchange, frame by frame.
LEMMA ExchangeCases ==
  ASSUME << outbox, inbox >> \in Exchange
  PROVE  \/ outbox = << Verdict("PROTO", FALSE) >> /\ inbox = << >>
         \/ outbox = << >> /\ inbox = << Verdict("PROTO", FALSE), Plain("MECHANISMS") >>
         \/ outbox = << >> /\ inbox = << Plain("MECHANISMS") >>
         \/ outbox = << Plain("INIT") >> /\ inbox = << >>
         \/ outbox = << >> /\ inbox = << Verdict("OUTCOME", TRUE) >>
         \/ outbox = << Verdict("PROTO", TRUE) >> /\ inbox = << >>
         \/ outbox = << >> /\ inbox = << Verdict("PROTO", TRUE) >>
         \/ outbox = << Plain("OPEN") >> /\ inbox = << >>
         \/ outbox = << >> /\ inbox = << Plain("OPEN") >>
BY DEF Exchange

\* The frames of a log in.
LEMMA LoginFrames ==
  /\ Verdict("PROTO", FALSE) \in Frame /\ Verdict("PROTO", TRUE) \in Frame
  /\ Verdict("OUTCOME", FALSE) \in Frame /\ Verdict("OUTCOME", TRUE) \in Frame
  /\ Plain("MECHANISMS") \in Frame /\ Plain("INIT") \in Frame /\ Plain("OPEN") \in Frame
  /\ Plain("BEGIN") \in Frame /\ Plain("CLOSE") \in Frame /\ Plain("END") \in Frame
  /\ Plain("PING") \in Frame
BY FrameTyped DEF FrameTypes

LEMMA LoginTypes ==
  /\ Verdict("PROTO", FALSE).type = "PROTO" /\ ~Verdict("PROTO", FALSE).ok
  /\ Verdict("PROTO", TRUE).type = "PROTO" /\ Verdict("PROTO", TRUE).ok
  /\ Verdict("OUTCOME", FALSE).type = "OUTCOME" /\ ~Verdict("OUTCOME", FALSE).ok
  /\ Verdict("OUTCOME", TRUE).type = "OUTCOME" /\ Verdict("OUTCOME", TRUE).ok
  /\ Plain("MECHANISMS").type = "MECHANISMS" /\ Plain("INIT").type = "INIT"
  /\ Plain("OPEN").type = "OPEN" /\ Plain("BEGIN").type = "BEGIN"
  /\ Plain("CLOSE").type = "CLOSE" /\ Plain("END").type = "END" /\ Plain("PING").type = "PING"
BY DEF Verdict, Plain

\* Whose turn it is during the exchange.
LEMMA ExchangeHeads ==
  ASSUME << outbox, inbox >> \in Exchange
  PROVE  /\ outbox # << >> => inbox = << >> /\ Len(outbox) = 1 /\ Tail(outbox) = << >>
                              /\ outbox = << Head(outbox) >>
                              /\ Head(outbox) \in { Verdict("PROTO", FALSE), Verdict("PROTO", TRUE),
                                                    Plain("INIT"), Plain("OPEN") }
         /\ inbox # << >> => outbox = << >>
                             /\ Head(inbox) \in { Verdict("PROTO", FALSE), Verdict("PROTO", TRUE),
                                   Plain("MECHANISMS"), Verdict("OUTCOME", TRUE), Plain("OPEN") }
                             /\ Tail(inbox) = IF Head(inbox) = Verdict("PROTO", FALSE)
                                              THEN << Plain("MECHANISMS") >> ELSE << >>
         /\ outbox = << >> => inbox # << >>
<1>1. ASSUME NEW f \in Frame
      PROVE  Head(<< f >>) = f /\ Tail(<< f >>) = << >> /\ << f >> # << >> /\ Len(<< f >>) = 1
  BY Short12
<1>2. ASSUME NEW f \in Frame, NEW g \in Frame
      PROVE  Head(<< f, g >>) = f /\ Tail(<< f, g >>) = << g >> /\ << f, g >> # << >>
  BY Short12
<1>3. /\ Verdict("PROTO", FALSE) # Verdict("PROTO", TRUE) /\ Plain("MECHANISMS") # Verdict("PROTO", FALSE)
      /\ Verdict("OUTCOME", TRUE) # Verdict("PROTO", FALSE) /\ Plain("OPEN") # Verdict("PROTO", FALSE)
  <2>1. Verdict("PROTO", FALSE) # Verdict("PROTO", TRUE)
    BY LoginTypes, Zenon
  <2> QED BY <2>1, LoginTypes
<1>4. CASE inbox = << >>
  <2>1. PICK f \in { Verdict("PROTO", FALSE), Verdict("PROTO", TRUE), Plain("INIT"), Plain("OPEN") } :
          outbox = << f >>
    <3>1. inbox # << Verdict("PROTO", FALSE), Plain("MECHANISMS") >> /\ inbox # << Plain("MECHANISMS") >>
          /\ inbox # << Verdict("OUTCOME", TRUE) >> /\ inbox # << Verdict("PROTO", TRUE) >>
          /\ inbox # << Plain("OPEN") >>
      BY <1>4
    <3> QED BY <3>1, ExchangeCases
  <2>2. f \in Frame
    BY LoginFrames
  <2> QED BY <1>1, <1>4, <2>1, <2>2
<1>5. CASE inbox # << >>
  <2>1. outbox = << >>
    BY <1>5, ExchangeCases
  <2>2. CASE inbox = << Verdict("PROTO", FALSE), Plain("MECHANISMS") >>
    BY <1>2, <2>1, <2>2, LoginFrames
  <2>3. CASE \E f \in { Plain("MECHANISMS"), Verdict("OUTCOME", TRUE), Verdict("PROTO", TRUE), Plain("OPEN") } :
               inbox = << f >>
    <3>1. PICK f \in { Plain("MECHANISMS"), Verdict("OUTCOME", TRUE), Verdict("PROTO", TRUE), Plain("OPEN") } :
            inbox = << f >>
      BY <2>3
    <3>2. f \in Frame /\ f # Verdict("PROTO", FALSE)
      BY <1>3, LoginFrames
    <3> QED BY <1>1, <2>1, <3>1, <3>2
  <2> QED BY <1>5, <2>2, <2>3, ExchangeCases
<1> QED BY <1>4, <1>5

\* What the worker reads next, and in which stage.
LEMMA RxStage ==
  ASSUME TypeOK, StageInv, Alive, net = "open", inbox # << >>
  PROVE  LET type == Head(inbox).type
         IN  /\ type \in { "PROTO", "MECHANISMS", "OPEN" } \/ (type = "OUTCOME" /\ Head(inbox).ok)
                  => Handshake /\ << outbox, inbox >> \in Exchange /\ tables # "live"
             /\ type = "OUTCOME" /\ ~Head(inbox).ok => Refused /\ tables # "live"
             /\ type = "BEGIN" => Begun /\ tables = "live"
             /\ type \in { "ATTACH", "TRANSFER", "DISPOSITION", "DETACH", "END" } =>
                  Main /\ tables = "live"
             /\ type = "CLOSE" => (Refused /\ tables # "live") \/ (Main /\ tables = "live")
<1>0. inbox \in Seq(Frame) /\ Head(inbox) = inbox[1] /\ Len(inbox) \in Nat /\ Len(inbox) >= 1
  BY Taken DEF TypeOK, AmqpTimersTypeOK
<1>1. CASE Handshake /\ tables # "live"
  <2>1. << outbox, inbox >> \in Exchange
    BY <1>1 DEF Handshake
  <2>2. Head(inbox) \in { Verdict("PROTO", FALSE), Verdict("PROTO", TRUE),
                          Plain("MECHANISMS"), Verdict("OUTCOME", TRUE), Plain("OPEN") }
    BY <2>1, ExchangeHeads
  <2>3. \/ Head(inbox).type \in { "PROTO", "MECHANISMS", "OPEN" }
        \/ Head(inbox).type = "OUTCOME" /\ Head(inbox).ok
    BY <2>2, LoginTypes
  <2> QED BY <1>1, <2>1, <2>3
<1>2. CASE Refused /\ tables # "live"
  <2>1. Head(inbox) \in { Verdict("OUTCOME", FALSE), Plain("CLOSE") }
    BY <1>2, Short12, LoginFrames DEF Refused
  <2>2. Head(inbox).type = "CLOSE" \/ (Head(inbox).type = "OUTCOME" /\ ~Head(inbox).ok)
    BY <2>1, LoginTypes
  <2> QED BY <1>2, <2>2
<1>3. CASE Opened /\ tables = "live"
  BY <1>3 DEF Opened
<1>4. CASE Begun /\ tables = "live"
  <2>1. Head(inbox).type = "BEGIN"
    BY <1>0, <1>4, LoginTypes DEF Begun
  <2> QED BY <1>4, <2>1
<1>5. CASE Main /\ tables = "live"
  <2>1. Head(inbox).type \in UserTypes
    BY <1>0, <1>5 DEF Main, OfTypes
  <2> QED BY <1>5, <2>1 DEF UserTypes
<1> QED BY <1>1, <1>2, <1>3, <1>4, <1>5 DEF StageInv, InStage

\* What the peer reads next, and in which stage.
LEMMA ReadStage ==
  ASSUME TypeOK, StageInv, Alive, net = "open", outbox # << >>
  PROVE  LET type == Head(outbox).type
         IN  /\ type \in { "PROTO", "INIT", "OPEN" } =>
                  Handshake /\ << outbox, inbox >> \in Exchange /\ tables # "live"
             /\ type = "BEGIN" => Opened /\ tables = "live"
             /\ type \in UserTypes => Main /\ tables = "live"
             /\ type = "PING" => (Begun \/ Main) /\ tables = "live"
<1>0. outbox \in Seq(Frame) /\ Head(outbox) = outbox[1] /\ Len(outbox) \in Nat /\ Len(outbox) >= 1
  BY Taken DEF TypeOK, AmqpTimersTypeOK
<1>1. CASE Handshake /\ tables # "live"
  <2>1. << outbox, inbox >> \in Exchange
    BY <1>1 DEF Handshake
  <2>2. Head(outbox) \in { Verdict("PROTO", FALSE), Verdict("PROTO", TRUE), Plain("INIT"), Plain("OPEN") }
    BY <2>1, ExchangeHeads
  <2>3. Head(outbox).type \in { "PROTO", "INIT", "OPEN" }
    BY <2>2, LoginTypes
  <2> QED BY <1>1, <2>1, <2>3 DEF UserTypes
<1>2. CASE Refused /\ tables # "live"
  BY <1>2 DEF Refused
<1>3. CASE Opened /\ tables = "live"
  <2>1. Head(outbox) = Plain("BEGIN")
    BY <1>3, Short12, LoginFrames DEF Opened
  <2> QED BY <1>3, <2>1, LoginTypes DEF UserTypes
<1>4. CASE Begun /\ tables = "live"
  <2>1. Head(outbox).type = "PING"
    BY <1>0, <1>4 DEF Begun, OfTypes
  <2> QED BY <1>4, <2>1 DEF UserTypes
<1>5. CASE Main /\ tables = "live"
  <2>1. Head(outbox).type \in UserTypes \cup { "PING" }
    BY <1>0, <1>5 DEF Main, OfTypes
  <2> QED BY <1>5, <2>1 DEF UserTypes
<1> QED BY <1>1, <1>2, <1>3, <1>4, <1>5 DEF StageInv, InStage

-----------------------------------------------------------------------------
(* Types, continued: the worker, the timers and the peer.                  *)

\* What the fields of a frame are.
LEMMA FrameHas ==
  ASSUME NEW f \in Frame
  PROVE  /\ f.type \in FrameTypes /\ f.ok \in BOOLEAN /\ f.role \in { "NONE", "SENDER", "RECEIVER" }
         /\ f.handle \in Handles /\ f.topic \in Topics \cup {NoTopic} /\ f.id \in Deliveries
         /\ f.settled \in BOOLEAN /\ f.data \in Contents \cup AmqpIncoming \cup {NoContent}
BY DEF Frame

\* The worker has taken a frame.
LEMMA RxTakes ==
  ASSUME TypeOK, NEW types, Rx(types)
  PROVE  /\ Head(inbox) \in Frame /\ Head(inbox).type \in types
         /\ inbox' = Tail(inbox) /\ inbox' \in Seq(Frame) /\ inbox # << >>
         /\ inbox \in Seq(Frame) /\ Head(inbox) = inbox[1]
         /\ Len(inbox) \in Nat /\ Len(inbox) >= 1 /\ Len(inbox') = Len(inbox) - 1
         /\ \A k \in 1 .. Len(inbox') : inbox'[k] = inbox[k + 1]
         /\ Alive /\ net = "open" /\ ~interrupted
BY Taken DEF TypeOK, AmqpTimersTypeOK, Rx

\* The BEGIN case gives each stored topic a handle below that of the peer.
LEMMA BeginHandles ==
  ASSUME TypeOK, StageInv, rx_begin
  PROVE  LET n == Len(StoredTopics)
         IN  /\ n \in Nat /\ next_handle \in Nat /\ next_handle >= 1
             /\ next_handle + n <= ServerHandle /\ ServerHandle <= MaxHandle
             /\ next_handle' = next_handle + n
             /\ \A k \in 1 .. n : /\ next_handle + k - 1 \in Handles
                                  /\ Short(next_handle + k - 1) = next_handle + k - 1
             /\ topic_name_map' \in [ Topics -> Handles ]
             /\ \A k \in 1 .. n : topic_name_map'[StoredTopics[k]] = next_handle + k - 1
             /\ \A t \in Topics : t \notin Stored => topic_name_map'[t] = topic_name_map[t]
<1> DEFINE n == Len(StoredTopics)
           handle(t) == next_handle + (CHOOSE k \in 1 .. n : StoredTopics[k] = t) - 1
<1>1. Begun /\ tables = "live" /\ Alive
  <2>1. Head(inbox).type = "BEGIN" /\ Alive /\ net = "open" /\ inbox # << >>
    BY RxTakes DEF rx_begin
  <2> QED BY <2>1, RxStage
<1>2. next_handle + n <= ServerHandle
  BY <1>1 DEF StageInv, RoomLeft, Begun
<1>3. n \in Nat /\ next_handle \in Nat /\ next_handle >= 1 /\ ServerHandle \in Nat /\ ServerHandle <= MaxHandle
      /\ MaxHandle \in Nat
  BY StoredList, AmqpTableBounds, AmqpPeerBounds DEF TypeOK, Handles
<1>4. \A k \in 1 .. n : next_handle + k - 1 \in Handles /\ Short(next_handle + k - 1) = next_handle + k - 1
  BY <1>2, <1>3, ShortIsSame DEF Handles
<1>5. /\ next_handle' = next_handle + n
      /\ topic_name_map' = [ t \in Topics |->
           IF t \in ToSet(StoredTopics) THEN Short(handle(t)) ELSE topic_name_map[t] ]
  BY DEF rx_begin
<1>6. \A k \in 1 .. n : StoredTopics[k] \in Topics /\ StoredTopics[k] \in ToSet(StoredTopics)
                        /\ handle(StoredTopics[k]) = next_handle + k - 1
  <2> TAKE k \in 1 .. n
  <2>1. StoredTopics[k] \in Topics /\ StoredTopics[k] \in ToSet(StoredTopics)
    BY StoredList DEF ToSet
  <2>2. (CHOOSE j \in 1 .. n : StoredTopics[j] = StoredTopics[k]) = k
    BY StoredList
  <2> QED BY <2>1, <2>2
<1>7. \A t \in ToSet(StoredTopics) : \E k \in 1 .. n : StoredTopics[k] = t
  BY StoredList DEF ToSet
<1>8. topic_name_map \in [ Topics -> Handles ]
  BY DEF TypeOK, AmqpTimersTypeOK
<1> HIDE DEF n, handle
<1>9. topic_name_map' \in [ Topics -> Handles ]
  <2>1. \A t \in ToSet(StoredTopics) : Short(handle(t)) \in Handles
    BY <1>4, <1>6, <1>7
  <2> QED BY <1>5, <1>8, <2>1
<1>10. \A k \in 1 .. n : topic_name_map'[StoredTopics[k]] = next_handle + k - 1
  BY <1>4, <1>5, <1>6
<1>11. \A t \in Topics : t \notin Stored => topic_name_map'[t] = topic_name_map[t]
  <2>1. \A t \in ToSet(StoredTopics) : t \in Stored
    BY <1>7, StoredList DEF n
  <2> QED BY <1>5, <2>1
<1> QED BY <1>2, <1>3, <1>4, <1>5, <1>9, <1>10, <1>11 DEF n

\* ... and attaches it as a receiver.
LEMMA BeginFrames ==
  ASSUME TypeOK, StageInv, rx_begin
  PROVE  LET n == Len(StoredTopics)
             r == [ k \in 1 .. n |-> Attach("RECEIVER", next_handle + k - 1, StoredTopics[k]) ]
         IN  /\ r \in Seq(Frame) /\ Len(r) = n
             /\ \A k \in 1 .. n : r[k] = Attach("RECEIVER", next_handle + k - 1, StoredTopics[k])
             /\ fire_all(r)
<1> DEFINE n == Len(StoredTopics)
           r == [ k \in 1 .. n |-> Attach("RECEIVER", next_handle + k - 1, StoredTopics[k]) ]
<1>1. \A k \in 1 .. n : Attach("RECEIVER", next_handle + k - 1, StoredTopics[k]) \in Frame
  <2> TAKE k \in 1 .. n
  <2>1. next_handle + k - 1 \in Handles /\ StoredTopics[k] \in Topics
    BY BeginHandles, StoredList
  <2> QED BY <2>1, FrameTyped
<1>2. fire_all(r)
  BY DEF rx_begin
<1>3. n \in Nat
  BY StoredList
<1>4. r \in [ 1 .. n -> Frame ]
  BY <1>1
<1> HIDE DEF n
<1>5. r \in Seq(Frame) /\ Len(r) = n
  BY <1>3, <1>4
<1>6. \A k \in 1 .. n : r[k] = Attach("RECEIVER", next_handle + k - 1, StoredTopics[k])
  OBVIOUS
<1> QED BY <1>2, <1>5, <1>6 DEF n

\* The steps of the worker keep the types.
LEMMA WorkerTypes ==
  ASSUME TypeOK, StageInv, WorkerStep
  PROVE  TypeOK'
<1> USE TypeParts, TypePartsNext
<1>0. NetTyped /\ TablesTyped /\ ThreadsTyped /\ AmqpPeerTypeOK /\ ClientTyped /\ StoreTyped
  OBVIOUS
<1>a. MaxHandle \in Nat /\ MaxDelivery \in Nat /\ MaxSessions \in Nat
  BY AmqpTableBounds, AmqpClientBounds
<1>b. ASSUME NEW types, Rx(types), UNCHANGED << net, interrupted >>, outbox' \in Seq(Frame),
             fault' \in { "none", "null_vhd", "freed_table", "null_topic" }
      PROVE  NetTyped'
  BY <1>0, <1>b, RxTakes DEF NetTyped
<1>c. ASSUME NEW types, Rx(types), UNCHANGED << fault, net, interrupted, outbox >> PROVE NetTyped'
  BY <1>0, <1>b, <1>c DEF NetTyped
<1>1. CASE rx_answered
  <2>1. AnswerTo(Head(inbox)) \in Seq(Frame)
    <3>1. Head(inbox).type \in { "PROTO", "MECHANISMS", "END", "OUTCOME" }
      BY <1>1, RxTakes DEF rx_answered
    <3>2. /\ << Plain("OPEN") >> \in Seq(Frame) /\ << Plain("INIT") >> \in Seq(Frame)
          /\ << Verdict("PROTO", TRUE) >> \in Seq(Frame) /\ << Plain("CLOSE") >> \in Seq(Frame)
          /\ << >> \in Seq(Frame)
      BY LoginFrames, Short12
    <3> QED BY <3>1, <3>2 DEF AnswerTo
  <2>2. NetTyped'
    BY <1>b, <1>1, <2>1, FireType DEF rx_answered, TypeOK
  <2>3. TablesTyped' /\ ThreadsTyped' /\ AmqpPeerTypeOK' /\ ClientTyped' /\ StoreTyped'
    BY <1>0, <1>1, TypesStay DEF rx_answered, amqpGuiVars
  <2> QED BY <2>2, <2>3
<1>2. CASE rx_outcome_refused
  <2>1. NetTyped'
    BY <1>c, <1>2 DEF rx_outcome_refused
  <2>2. TablesTyped' /\ ThreadsTyped' /\ AmqpPeerTypeOK' /\ StoreTyped'
    BY <1>0, <1>2, TypesStay DEF rx_outcome_refused
  <2>3. ClientTyped'
    BY <1>0, <1>2 DEF rx_outcome_refused, connection_unsuccessful, ClientTyped, counterVars
  <2> QED BY <2>1, <2>2, <2>3
<1>3. CASE rx_open
  <2>1. << Plain("BEGIN") >> \in Seq(Frame)
    BY LoginFrames, Short12
  <2>2. NetTyped'
    BY <1>b, <1>3, <2>1, FireType DEF rx_open, send_amqp_begin, amqp_encode_and_fire, TypeOK
  <2>3. TablesTyped'
    BY <1>3, FrameTyped, ShortIsSame DEF rx_open, start_amqp_ping_timer, EmptyTables, TablesTyped, NoTransfers
  <2>4. ThreadsTyped'
    <3>1. /\ thread' = [ thread EXCEPT !["pinger"] = "running",
                 !["connecter"] = IF is_started["connecter"] /\ @ = "running" THEN "ended" ELSE @ ]
          /\ is_started' = [ is_started EXCEPT !["pinger"] = TRUE, !["connecter"] = FALSE ]
          /\ strays' = strays /\ hold' = hold
      BY <1>3 DEF rx_open, stop_connect_and_start_ping
    <3>2. is_started' \in [ AmqpThreads -> BOOLEAN ]
      BY <1>0, <3>1 DEF ThreadsTyped
    <3>3. thread' \in [ AmqpThreads -> { "none", "running", "ended" } ]
      BY <1>0, <3>1 DEF ThreadsTyped, AmqpThreads
    <3> QED BY <1>0, <3>1, <3>2, <3>3 DEF ThreadsTyped
  <2>5. AmqpPeerTypeOK' /\ ClientTyped' /\ StoreTyped'
    BY <1>0, <1>3, TypesStay DEF rx_open, amqpGuiVars
  <2> QED BY <2>2, <2>3, <2>4, <2>5
<1>4. CASE rx_begin
  <2>1. NetTyped'
    <3>1. Rx({ "BEGIN" }) /\ UNCHANGED << net, interrupted >>
      BY <1>4 DEF rx_begin
    <3> QED BY <1>b, <1>4, <3>1, BeginFrames, FireType DEF TypeOK
  <2>2. TablesTyped'
    <3>1. topic_name_map' \in [ Topics -> Handles ]
      BY <1>4, BeginHandles
    <3>2. /\ reverse_topic_name_map' = [ h \in Handles |->
               IF h \in next_handle .. next_handle + Len(StoredTopics) - 1
               THEN StoredTopics[h - next_handle + 1] ELSE reverse_topic_name_map[h] ]
          /\ UNCHANGED << m_handler, m_delivery_id, topic_name_map_outgoing, tables >>
      BY <1>4 DEF rx_begin
    <3>3. \A h \in next_handle .. next_handle + Len(StoredTopics) - 1 : StoredTopics[h - next_handle + 1] \in Topics
      <4> TAKE h \in next_handle .. next_handle + Len(StoredTopics) - 1
      <4>1. h - next_handle + 1 \in 1 .. Len(StoredTopics)
        BY <1>0, StoredList DEF ClientTyped
      <4> QED BY <4>1, StoredList
    <3> QED BY <1>0, <3>1, <3>2, <3>3 DEF TablesTyped
  <2>3. ThreadsTyped'
    <3>1. /\ thread' = [ thread EXCEPT !["messager"] = "running" ]
          /\ is_started' = [ is_started EXCEPT !["messager"] = TRUE ]
          /\ strays' = strays /\ hold' = hold
      BY <1>4 DEF rx_begin, amqp_start_message_timer, Start
    <3>2. is_started' \in [ AmqpThreads -> BOOLEAN ]
      BY <1>0, <3>1 DEF ThreadsTyped
    <3>3. thread' \in [ AmqpThreads -> { "none", "running", "ended" } ]
      BY <1>0, <3>1 DEF ThreadsTyped
    <3> QED BY <1>0, <3>1, <3>2, <3>3 DEF ThreadsTyped
  <2>4. AmqpPeerTypeOK'
    BY <1>0, <1>4, TypesStay DEF rx_begin
  <2>5. ClientTyped'
    <3>1. next_handle' \in 1 .. MaxHandle + 1
      BY <1>a, <1>4, BeginHandles, AmqpPeerBounds DEF Handles
    <3>2. ui' = "main" /\ UNCHANGED << gui, session, packet_id_counter >> /\ is_connected' = TRUE
      BY <1>4 DEF rx_begin
    <3>3. is_connected' \in BOOLEAN
      BY <3>2
    <3> QED BY <1>0, <3>1, <3>2, <3>3 DEF ClientTyped
  <2>6. StoreTyped'
    BY <1>0, <1>4, RowTypes DEF rx_begin, StoreTyped
  <2> QED BY <2>1, <2>2, <2>3, <2>4, <2>5, <2>6
<1>5. CASE rx_attach_receiver
  <2> DEFINE h == amqp_get_handler_from_map_outgoing(Head(inbox).topic)
             f == amqp_get_message_from_map_by_handler(h)
  <2>1. /\ Rx({ "ATTACH" }) /\ UNCHANGED << net, interrupted >>
        /\ \/ UNCHANGED << fault, outbox, m_handler, m_delivery_id, saved >>
           \/ /\ ~(h = 0 \/ f = NoFrame)
              /\ fire_all(<< f >>)
              /\ m_handler' = without_message_handler(h)
              /\ IF f.settled
                 THEN save_message(f.data) /\ UNCHANGED m_delivery_id
                 ELSE m_delivery_id' = with_message_by_delivery_id(f) /\ UNCHANGED saved
        /\ UNCHANGED << topic_name_map, topic_name_map_outgoing, reverse_topic_name_map, tables,
                        threadVars, peerVars, amqpGuiVars, counterVars, rows, received >>
    BY <1>5 DEF rx_attach_receiver, amqp_encode_and_fire
  <2>2. CASE UNCHANGED << fault, outbox, m_handler, m_delivery_id, saved >>
    <3>1. NetTyped'
      BY <1>c, <2>1, <2>2
    <3>2. TablesTyped' /\ ThreadsTyped' /\ AmqpPeerTypeOK' /\ ClientTyped' /\ StoreTyped'
      BY <1>0, <2>1, <2>2, TypesStay DEF tableVars, storeVars, amqpGuiVars
    <3> QED BY <3>1, <3>2
  <2>3. CASE /\ ~(h = 0 \/ f = NoFrame)
             /\ fire_all(<< f >>)
             /\ m_handler' = without_message_handler(h)
             /\ IF f.settled
                THEN save_message(f.data) /\ UNCHANGED m_delivery_id
                ELSE m_delivery_id' = with_message_by_delivery_id(f) /\ UNCHANGED saved
    <3>1. f \in Frame
      <4>1. Head(inbox) \in Frame
        BY <2>1, RxTakes
      <4>2. Head(inbox).topic \in Topics
        BY <2>1, RxTakes DEF StageInv, AttachNamed, Named
      <4>3. h \in Handles
        BY <1>0, <4>2 DEF TablesTyped, amqp_get_handler_from_map_outgoing
      <4> QED BY <1>0, <4>3, ShortIsSame DEF TablesTyped, amqp_get_message_from_map_by_handler
    <3> HIDE DEF h, f
    <3>2. NetTyped'
      <4>1. << f >> \in Seq(Frame)
        BY <3>1
      <4> QED BY <1>b, <2>1, <2>3, <4>1, FireType DEF TypeOK
    <3>3. TablesTyped'
      <4>1. m_handler' \in [ Handles -> Frame ]
        BY <1>0, <2>3, FrameTyped DEF TablesTyped, without_message_handler
      <4>2. m_delivery_id' \in [ Deliveries -> Frame ]
        BY <1>0, <2>3, <3>1 DEF TablesTyped, with_message_by_delivery_id
      <4> QED BY <1>0, <2>1, <4>1, <4>2 DEF TablesTyped
    <3>4. StoreTyped'
      <4>1. [ saved EXCEPT ![f.data] = @ + 1 ] \in [ Contents -> Nat ]
        BY <1>0, CountUp DEF StoreTyped
      <4>2. saved' \in [ Contents -> Nat ]
        BY <1>0, <2>3, <4>1 DEF save_message, StoreTyped
      <4> QED BY <1>0, <2>1, <4>2 DEF StoreTyped, amqpGuiVars
    <3>5. ThreadsTyped' /\ AmqpPeerTypeOK' /\ ClientTyped'
      BY <1>0, <2>1, TypesStay DEF amqpGuiVars
    <3> QED BY <3>2, <3>3, <3>4, <3>5
  <2> QED BY <2>1, <2>2, <2>3
<1>6. CASE rx_attach_sender
  <2>1. Head(inbox) \in Frame /\ Head(inbox).handle \in Handles
    BY <1>6, RxTakes, FrameHas DEF rx_attach_sender
  <2>2. NetTyped'
    BY <1>c, <1>6 DEF rx_attach_sender
  <2>3. TablesTyped'
    <3>1. Head(inbox).topic \in Topics
      BY <1>6, RxTakes DEF StageInv, AttachNamed, Named, rx_attach_sender
    <3> QED BY <1>0, <1>6, <2>1, <3>1, ShortIsSame DEF rx_attach_sender, amqp_add_link, TablesTyped
  <2>4. ThreadsTyped' /\ AmqpPeerTypeOK'
    BY <1>0, <1>6, TypesStay DEF rx_attach_sender
  <2>5. ClientTyped'
    <3>1. next_handle' \in 1 .. MaxHandle + 1
      BY <1>0, <1>6, <1>a, <2>1 DEF rx_attach_sender, HandleAfter, ClientTyped, Handles
    <3> QED BY <1>0, <1>6, <3>1 DEF rx_attach_sender, ClientTyped, amqpGuiVars
  <2>6. StoreTyped'
    <3>1. save_topic_to_db(add_topics_to_list_box(rows, Head(inbox).topic), Head(inbox).topic) \in Rows
      BY <1>0, RowTypes DEF StoreTyped
    <3>2. rows' \in Rows
      BY <1>0, <1>6, <3>1 DEF rx_attach_sender, StoreTyped
    <3> QED BY <1>0, <1>6, <3>2 DEF rx_attach_sender, StoreTyped, amqpGuiVars
  <2> QED BY <2>2, <2>3, <2>4, <2>5, <2>6
<1>7. CASE rx_transfer
  <2> DEFINE f == Head(inbox)
             t == amqp_get_topic_name_from_map(f.handle)
  <2>1. f \in Frame /\ f.handle \in Handles /\ f.id \in Deliveries
    BY <1>7, RxTakes, FrameHas DEF rx_transfer
  <2>2. t \in Topics \cup {NoTopic}
    BY <1>0, <2>1, ShortIsSame DEF TablesTyped, amqp_get_topic_name_from_map
  <2>3. /\ Rx({ "TRANSFER" })
        /\ \/ fault' = "null_topic" /\ UNCHANGED << outbox, received >>
           \/ /\ t # NoTopic
              /\ fire_all(IF f.settled THEN << >> ELSE << Disposition(f.id) >>)
              /\ received' = [ received EXCEPT ![f.data] = @ \cup {t} ]
        /\ UNCHANGED << net, interrupted, tableVars, threadVars, peerVars, amqpGuiVars, counterVars,
                        rows, saved >>
    BY <1>7 DEF rx_transfer
  <2> HIDE DEF f, t
  <2>4. NetTyped'
    <3>1. (IF f.settled THEN << >> ELSE << Disposition(f.id) >>) \in Seq(Frame)
      BY <2>1, FrameTyped, Short12
    <3>2. outbox \in Seq(Frame)
      BY <1>0 DEF NetTyped
    <3> QED BY <1>b, <2>3, <3>1, <3>2, FireType DEF TypeOK
  <2>5. TablesTyped' /\ ThreadsTyped' /\ AmqpPeerTypeOK' /\ ClientTyped'
    BY <1>0, <2>3, TypesStay DEF amqpGuiVars
  <2>6. StoreTyped'
    <3>1. received' \in [ AmqpIncoming -> SUBSET Topics ]
      BY <1>0, <2>2, <2>3 DEF StoreTyped
    <3> QED BY <1>0, <2>3, <3>1 DEF StoreTyped, amqpGuiVars
  <2> QED BY <2>4, <2>5, <2>6
<1>8. CASE rx_disposition
  <2> DEFINE f == amqp_get_message_from_map_by_delivery_id(Head(inbox).id)
  <2>1. /\ Rx({ "DISPOSITION" })
        /\ \/ UNCHANGED << m_delivery_id, saved >>
           \/ save_message(f.data) /\ m_delivery_id' = without_message_delivery_id(Head(inbox).id)
        /\ UNCHANGED << fault, net, interrupted, outbox, m_handler, topic_name_map,
                        topic_name_map_outgoing, reverse_topic_name_map, tables, threadVars, peerVars,
                        amqpGuiVars, counterVars, rows, received >>
    BY <1>8 DEF rx_disposition
  <2> HIDE DEF f
  <2>2. NetTyped'
    BY <1>c, <2>1
  <2>3. TablesTyped'
    BY <1>0, <2>1, FrameTyped DEF TablesTyped, without_message_delivery_id
  <2>4. StoreTyped'
    <3>1. [ saved EXCEPT ![f.data] = @ + 1 ] \in [ Contents -> Nat ]
      BY <1>0, CountUp DEF StoreTyped
    <3> QED BY <1>0, <2>1, <3>1 DEF StoreTyped, amqpGuiVars, save_message
  <2>5. ThreadsTyped' /\ AmqpPeerTypeOK' /\ ClientTyped'
    BY <1>0, <2>1, TypesStay DEF amqpGuiVars
  <2> QED BY <2>2, <2>3, <2>4, <2>5
<1>9. CASE rx_detach
  <2> DEFINE h == Head(inbox).handle
             t == amqp_get_topic_name_from_map(h)
  <2>1. /\ Rx({ "DETACH" })
        /\ \/ UNCHANGED << rows, topic_name_map, reverse_topic_name_map >>
           \/ rows' = unsubscribed(rows, t) /\ amqp_remove_link(h, t)
        /\ UNCHANGED << fault, net, interrupted, outbox, m_handler, m_delivery_id,
                        topic_name_map_outgoing, tables, threadVars, peerVars, amqpGuiVars,
                        counterVars, saved, received >>
    BY <1>9 DEF rx_detach
  <2> HIDE DEF h, t
  <2>2. NetTyped'
    BY <1>c, <2>1
  <2>3. TablesTyped'
    BY <1>0, <2>1, ShortIsSame DEF TablesTyped, amqp_remove_link
  <2>4. StoreTyped'
    <3>1. unsubscribed(rows, t) \in Rows
      BY <1>0, RowTypes DEF StoreTyped, unsubscribed
    <3> QED BY <1>0, <2>1, <3>1 DEF StoreTyped, amqpGuiVars
  <2>5. ThreadsTyped' /\ AmqpPeerTypeOK' /\ ClientTyped'
    BY <1>0, <2>1, TypesStay DEF amqpGuiVars
  <2> QED BY <2>2, <2>3, <2>4, <2>5
<1>10. CASE rx_close
  <2>1. NetTyped'
    BY <1>0, <1>10, RxTakes DEF rx_close, NetTyped
  <2>2. TablesTyped' /\ ThreadsTyped' /\ AmqpPeerTypeOK' /\ StoreTyped'
    BY <1>0, <1>10, TypesStay DEF rx_close
  <2>3. ClientTyped'
    <3>1. ui' \in { ui, "accounts" } /\ is_connected' = FALSE
          /\ UNCHANGED << gui, session, next_handle, packet_id_counter >>
      BY <1>10 DEF rx_close, connection_unsuccessful
    <3>2. is_connected' \in BOOLEAN
      BY <3>1
    <3> QED BY <1>0, <3>1, <3>2 DEF ClientTyped
  <2> QED BY <2>1, <2>2, <2>3
<1>11. CASE service_task_ends
  <2>1. NetTyped'
    <3>1. /\ net' = "down" /\ interrupted' = FALSE /\ outbox' = << >> /\ inbox' = << >>
          /\ fault' \in { "none", "freed_table", fault }
      BY <1>11 DEF service_task_ends, amqp_stop_all_timers
    <3>2. interrupted' \in BOOLEAN
      BY <3>1
    <3> QED BY <1>0, <3>1, <3>2, Short12, FrameTyped DEF NetTyped
  <2>2. TablesTyped'
    BY <1>11, FrameTyped, ShortIsSame
    DEF service_task_ends, amqp_stop_all_timers, EmptyTables, TablesTyped, NoTransfers
  <2>3. ThreadsTyped'
    <3>1. /\ thread' = [ th \in AmqpThreads |->
                 IF th # "connecter" /\ is_started[th] /\ thread[th] = "running"
                 THEN "ended" ELSE thread[th] ]
          /\ is_started' = [ is_started EXCEPT !["pinger"] = FALSE ]
          /\ strays' = strays /\ hold' = hold
      BY <1>11 DEF service_task_ends, amqp_stop_all_timers
    <3>2. is_started' \in [ AmqpThreads -> BOOLEAN ]
      BY <1>0, <3>1 DEF ThreadsTyped
    <3>3. thread' \in [ AmqpThreads -> { "none", "running", "ended" } ]
      BY <1>0, <3>1 DEF ThreadsTyped
    <3> QED BY <1>0, <3>1, <3>2, <3>3 DEF ThreadsTyped
  <2>4. AmqpPeerTypeOK'
    BY <1>0, <1>11 DEF service_task_ends, AmqpPeerTypeOK
  <2>5. ClientTyped' /\ StoreTyped'
    BY <1>0, <1>11, TypesStay DEF service_task_ends, amqpGuiVars
  <2> QED BY <2>1, <2>2, <2>3, <2>4, <2>5
<1> QED BY <1>1, <1>2, <1>3, <1>4, <1>5, <1>6, <1>7, <1>8, <1>9, <1>10, <1>11 DEF WorkerStep

\* The timers keep the types.
LEMMA TimerTypes ==
  ASSUME TypeOK, TimerStep
  PROVE  TypeOK'
<1> USE TypeParts, TypePartsNext
<1>0. NetTyped /\ TablesTyped /\ ThreadsTyped /\ AmqpPeerTypeOK /\ ClientTyped /\ StoreTyped
  OBVIOUS
<1>1. CASE Timer(amqp_connect_task)
  <2>1. NetTyped'
    <3>1. interrupted' = TRUE /\ UNCHANGED << fault, net, outbox, inbox >>
      BY <1>1 DEF Timer, amqp_connect_task
    <3>2. interrupted' \in BOOLEAN
      BY <3>1
    <3> QED BY <1>0, <3>1, <3>2 DEF NetTyped
  <2>2. ThreadsTyped'
    <3>1. /\ \/ thread' = [ thread EXCEPT !["connecter"] = "ended" ] /\ UNCHANGED strays
             \/ strays > 0 /\ strays' = strays - 1 /\ UNCHANGED thread
          /\ is_started' = [ is_started EXCEPT !["connecter"] = FALSE ]
          /\ hold' = hold
      BY <1>1 DEF Timer, amqp_connect_task
    <3>2. is_started' \in [ AmqpThreads -> BOOLEAN ]
      BY <1>0, <3>1 DEF ThreadsTyped
    <3>3. thread' \in [ AmqpThreads -> { "none", "running", "ended" } ]
      BY <1>0, <3>1 DEF ThreadsTyped
    <3>4. strays' \in Nat /\ hold' \in Frame
      BY <1>0, <3>1 DEF ThreadsTyped
    <3> QED BY <3>2, <3>3, <3>4 DEF ThreadsTyped
  <2>3. TablesTyped' /\ AmqpPeerTypeOK' /\ ClientTyped' /\ StoreTyped'
    BY <1>0, <1>1, TypesStay DEF Timer, amqp_connect_task, restOfClient, amqpGuiVars
  <2> QED BY <2>1, <2>2, <2>3
<1>2. CASE Timer(amqp_ping_task)
  <2>1. NetTyped'
    <3>1. << Plain("PING") >> \in Seq(Frame)
      BY LoginFrames, Short12
    <3> QED BY <1>0, <1>2, <3>1, FireType DEF Timer, amqp_ping_task, amqp_encode_and_fire, NetTyped, TypeOK
  <2>2. TablesTyped' /\ ThreadsTyped' /\ AmqpPeerTypeOK' /\ ClientTyped' /\ StoreTyped'
    BY <1>0, <1>2, TypesStay DEF Timer, amqp_ping_task, restOfClient, amqpGuiVars
  <2> QED BY <2>1, <2>2
<1>3. ASSUME NEW id \in Deliveries, Timer(amqp_message_resend_task(id)) PROVE TypeOK'
  <2>1. ThreadsTyped'
    BY <1>0, <1>3 DEF Timer, amqp_message_resend_task, ThreadsTyped, TablesTyped
  <2>2. NetTyped' /\ TablesTyped' /\ AmqpPeerTypeOK' /\ ClientTyped' /\ StoreTyped'
    BY <1>0, <1>3, TypesStay DEF Timer, amqp_message_resend_task, restOfClient, amqpGuiVars
  <2> QED BY <2>1, <2>2
<1>4. CASE Timer(amqp_message_resend_fire)
  <2>1. << hold >> \in Seq(Frame)
    BY <1>0 DEF ThreadsTyped
  <2>2. NetTyped'
    BY <1>0, <1>4, <2>1, FireType DEF Timer, amqp_message_resend_fire, amqp_encode_and_fire, NetTyped, TypeOK
  <2>3. ThreadsTyped'
    BY <1>0, <1>4, FrameTyped DEF Timer, amqp_message_resend_fire, ThreadsTyped
  <2>4. TablesTyped' /\ AmqpPeerTypeOK' /\ ClientTyped' /\ StoreTyped'
    BY <1>0, <1>4, TypesStay DEF Timer, amqp_message_resend_fire, restOfClient, amqpGuiVars
  <2> QED BY <2>2, <2>3, <2>4
<1> QED BY <1>1, <1>2, <1>3, <1>4 DEF TimerStep

\* The peer has taken a frame.
LEMMA ReadTakes ==
  ASSUME TypeOK, NEW type, Read(type)
  PROVE  /\ Head(outbox) \in Frame /\ Head(outbox).type = type
         /\ outbox' = Tail(outbox) /\ outbox' \in Seq(Frame) /\ outbox # << >>
         /\ outbox \in Seq(Frame) /\ Head(outbox) = outbox[1]
         /\ Len(outbox) \in Nat /\ Len(outbox) >= 1 /\ Len(outbox') = Len(outbox) - 1
         /\ \A k \in 1 .. Len(outbox') : outbox'[k] = outbox[k + 1]
         /\ net = "open" /\ pConn \in { "sasl", "begun", "refused", "ended" }
BY Taken DEF TypeOK, AmqpTimersTypeOK, Read

\* The peer has answered with one frame.
LEMMA ReplyAdds ==
  ASSUME TypeOK, NEW f \in Frame, Reply(<< f >>)
  PROVE  /\ inbox' \in Seq(Frame) /\ Len(inbox') = Len(inbox) + 1 /\ Len(inbox) \in Nat
         /\ \A k \in 1 .. Len(inbox) : inbox'[k] = inbox[k]
         /\ inbox'[Len(inbox) + 1] = f /\ inbox' = inbox \o << f >>
BY Added DEF TypeOK, AmqpTimersTypeOK, Reply

\* The peer keeps the types.
LEMMA PeerTypes ==
  ASSUME TypeOK, StageInv, PeerStep
  PROVE  TypeOK'
<1> USE TypeParts, TypePartsNext
<1>0. NetTyped /\ TablesTyped /\ ThreadsTyped /\ AmqpPeerTypeOK /\ ClientTyped /\ StoreTyped
  OBVIOUS
<1>a. ASSUME NEW A, Peer(A) PROVE
        /\ UNCHANGED << fault, net, interrupted >>
        /\ TablesTyped' /\ ThreadsTyped' /\ ClientTyped' /\ StoreTyped'
  BY <1>0, <1>a, TypesStay DEF Peer, restOfClient, amqpGuiVars
<1>b. ASSUME NEW A, Peer(A), inbox' \in Seq(Frame), outbox' \in Seq(Frame), AmqpPeerTypeOK' PROVE TypeOK'
  <2>1. NetTyped'
    BY <1>0, <1>a, <1>b DEF NetTyped
  <2> QED BY <1>a, <1>b, <2>1
<1>c. inbox \in Seq(Frame) /\ outbox \in Seq(Frame)
  BY <1>0 DEF NetTyped
<1>1. ASSUME Peer(ReadLogIn) PROVE TypeOK'
  <2>1. outbox' \in Seq(Frame)
    BY <1>1, ReadTakes DEF Peer, ReadLogIn
  <2>2. \A f \in { Verdict("PROTO", TRUE), Verdict("OUTCOME", TRUE), Plain("OPEN"), Plain("BEGIN") } :
          Reply(<< f >>) => inbox' \in Seq(Frame)
    BY LoginFrames, ReplyAdds
  <2>3. Reply(<< Verdict("PROTO", FALSE), Plain("MECHANISMS") >>) => inbox' \in Seq(Frame)
    <3>1. << Verdict("PROTO", FALSE), Plain("MECHANISMS") >> \in Seq(Frame)
      BY LoginFrames, Short12
    <3> QED BY <1>c, <3>1, Joined DEF Reply
  <2>4. inbox' \in Seq(Frame)
    BY <1>1, <2>2, <2>3 DEF Peer, ReadLogIn
  <2>5. AmqpPeerTypeOK'
    BY <1>0, <1>1 DEF Peer, ReadLogIn, AmqpPeerTypeOK
  <2> QED BY <1>b, <1>1, <2>1, <2>4, <2>5
<1>2. ASSUME Peer(RefuseLogIn) PROVE TypeOK'
  <2>1. outbox' \in Seq(Frame)
    BY <1>2, ReadTakes DEF Peer, RefuseLogIn
  <2>2. inbox' \in Seq(Frame)
    BY <1>2, LoginFrames, ReplyAdds DEF Peer, RefuseLogIn
  <2>3. AmqpPeerTypeOK'
    BY <1>0, <1>2 DEF Peer, RefuseLogIn, AmqpPeerTypeOK
  <2> QED BY <1>b, <1>2, <2>1, <2>2, <2>3
<1>3. ASSUME Peer(ReadAttach), Head(outbox).topic \in Topics PROVE TypeOK'
  <2> DEFINE f == Head(outbox)
  <2>1. f \in Frame /\ f.handle \in Handles /\ outbox' \in Seq(Frame)
    BY <1>3, ReadTakes, FrameHas DEF Peer, ReadAttach
  <2>2. /\ clash' = (clash \/ Used(f.handle))
        /\ \/ /\ pSub' = [ pSub EXCEPT ![f.handle] = f.topic ]
              /\ Reply(<< Attach("SENDER", f.handle, f.topic) >>)
              /\ UNCHANGED pPub
           \/ /\ pPub' = [ pPub EXCEPT ![f.handle] = f.topic ]
              /\ Reply(<< Attach("RECEIVER", f.handle, f.topic) >>)
              /\ UNCHANGED pSub
        /\ UNCHANGED << pConn, delivered, pIn, pTopic >>
    BY <1>3 DEF Peer, ReadAttach
  <2>3. Attach("SENDER", f.handle, f.topic) \in Frame /\ Attach("RECEIVER", f.handle, f.topic) \in Frame
    BY <1>3, <2>1, FrameTyped
  <2>4. inbox' \in Seq(Frame)
    BY <2>2, <2>3, ReplyAdds
  <2>5. AmqpPeerTypeOK'
    <3>1. clash' \in BOOLEAN
      BY <2>2
    <3> HIDE DEF f
    <3>2. pSub' \in [ Handles -> Topics \cup {NoTopic} ] /\ pPub' \in [ Handles -> Topics \cup {NoTopic} ]
      BY <1>0, <1>3, <2>2 DEF AmqpPeerTypeOK, f
    <3> QED BY <1>0, <2>2, <3>1, <3>2 DEF AmqpPeerTypeOK
  <2> QED BY <1>b, <1>3, <2>1, <2>4, <2>5
<1>4. ASSUME Peer(ReadDetach) PROVE TypeOK'
  <2>1. Detach(Head(outbox).handle) \in Frame /\ outbox' \in Seq(Frame)
    BY <1>4, ReadTakes, FrameHas, FrameTyped DEF Peer, ReadDetach
  <2>2. inbox' \in Seq(Frame)
    BY <1>4, <2>1, ReplyAdds DEF Peer, ReadDetach
  <2>3. AmqpPeerTypeOK'
    BY <1>0, <1>4 DEF Peer, ReadDetach, AmqpPeerTypeOK
  <2> QED BY <1>b, <1>4, <2>1, <2>2, <2>3
<1>5. ASSUME Peer(ReadTransfer) PROVE TypeOK'
  <2>1. Disposition(Head(outbox).id) \in Frame /\ outbox' \in Seq(Frame)
    BY <1>5, ReadTakes, FrameHas, FrameTyped DEF Peer, ReadTransfer
  <2>2. inbox' \in Seq(Frame)
    BY <1>5, <1>c, <2>1, ReplyAdds DEF Peer, ReadTransfer
  <2>3. AmqpPeerTypeOK'
    <3>1. delivered' \in [ Contents -> Nat ]
      BY <1>0, <1>5, CountUp DEF Peer, ReadTransfer, AmqpPeerTypeOK
    <3> QED BY <1>0, <1>5, <3>1 DEF Peer, ReadTransfer, AmqpPeerTypeOK
  <2> QED BY <1>b, <1>5, <2>1, <2>2, <2>3
<1>6. ASSUME Peer(ReadDisposition) PROVE TypeOK'
  <2>1. outbox' \in Seq(Frame) /\ inbox' = inbox
    BY <1>6, ReadTakes DEF Peer, ReadDisposition
  <2>2. AmqpPeerTypeOK'
    BY <1>0, <1>6 DEF Peer, ReadDisposition, AmqpPeerTypeOK
  <2> QED BY <1>b, <1>c, <1>6, <2>1, <2>2
<1>7. ASSUME Peer(ReadPing) PROVE TypeOK'
  <2>1. outbox' \in Seq(Frame) /\ inbox' = inbox
    BY <1>7, ReadTakes DEF Peer, ReadPing
  <2>2. AmqpPeerTypeOK'
    BY <1>0, <1>7, TypesStay DEF Peer, ReadPing
  <2> QED BY <1>b, <1>c, <1>7, <2>1, <2>2
<1>8. ASSUME Peer(ReadEnd) PROVE TypeOK'
  <2>1. PICK type \in { "END", "CLOSE" } : Read(type) /\ Reply(<< Plain(type) >>)
    BY <1>8 DEF Peer, ReadEnd
  <2>2. outbox' \in Seq(Frame) /\ inbox' \in Seq(Frame)
    BY <2>1, ReadTakes, ReplyAdds, LoginFrames
  <2>3. AmqpPeerTypeOK'
    BY <1>0, <1>8 DEF Peer, ReadEnd, AmqpPeerTypeOK
  <2> QED BY <1>b, <1>8, <2>2, <2>3
<1>9. ASSUME NEW t \in Topics, Peer(PeerAttaches(t)) PROVE TypeOK'
  <2>1. Attach("SENDER", ServerHandle, t) \in Frame
    BY FrameTyped, ShortIsSame
  <2>2. inbox' \in Seq(Frame) /\ outbox' = outbox
    BY <1>9, <2>1, ReplyAdds DEF Peer, PeerAttaches
  <2>3. AmqpPeerTypeOK'
    BY <1>0, <1>9 DEF Peer, PeerAttaches, AmqpPeerTypeOK
  <2> QED BY <1>b, <1>c, <1>9, <2>2, <2>3
<1>10. ASSUME NEW i \in AmqpIncoming, NEW h \in Handles, Peer(PeerTransfers(i, h)) PROVE TypeOK'
  <2>1. PICK s \in BOOLEAN : Reply(<< Transfer(h, i, s, i) >>)
    BY <1>10 DEF Peer, PeerTransfers
  <2>2. Transfer(h, i, s, i) \in Frame
    <3>1. i \in Deliveries
      BY AmqpPeerBounds
    <3> QED BY <3>1, FrameTyped
  <2>3. inbox' \in Seq(Frame) /\ outbox' = outbox
    BY <1>10, <2>1, <2>2, ReplyAdds DEF Peer, PeerTransfers
  <2>4. AmqpPeerTypeOK'
    BY <1>0, <1>10 DEF Peer, PeerTransfers, AmqpPeerTypeOK
  <2> QED BY <1>b, <1>c, <1>10, <2>3, <2>4
<1>11. ASSUME Peer(PeerCloses) PROVE TypeOK'
  <2>1. AmqpPeerTypeOK' /\ outbox' = outbox /\ inbox' = inbox
    BY <1>0, <1>11 DEF Peer, PeerCloses, AmqpPeerTypeOK
  <2> QED BY <1>b, <1>c, <1>11, <2>1
<1>12. ASSUME Peer(ReadAttach) PROVE Head(outbox).topic \in Topics
  BY <1>12, ReadTakes DEF Peer, ReadAttach, StageInv, AttachNamed, Named
<1> QED
  BY <1>1, <1>2, <1>3, <1>4, <1>5, <1>6, <1>7, <1>8, <1>9, <1>10, <1>11, <1>12
  DEF PeerStep, PeerReads, Peer

-----------------------------------------------------------------------------
(* The stages: what each step makes of them.                               *)

\* What holds of every frame of a channel.
LEMMA ChannelTail ==
  ASSUME NEW s \in Seq(Frame), s # << >>, NEW types
  PROVE  /\ Named(s) => Named(Tail(s))
         /\ OfTypes(s, types) => OfTypes(Tail(s), types)
<1>1. /\ Len(Tail(s)) = Len(s) - 1 /\ Len(s) \in Nat /\ Len(s) >= 1
      /\ \A k \in 1 .. Len(s) - 1 : Tail(s)[k] = s[k + 1]
  BY Taken
<1>2. \A k \in 1 .. Len(Tail(s)) : k + 1 \in 1 .. Len(s) /\ Tail(s)[k] = s[k + 1]
  BY <1>1
<1> QED BY <1>2 DEF Named, OfTypes

LEMMA ChannelAdded ==
  ASSUME NEW s \in Seq(Frame), NEW f \in Frame, NEW types
  PROVE  /\ Named(s) /\ (f.type = "ATTACH" => f.topic \in Topics) => Named(s \o << f >>)
         /\ OfTypes(s, types) /\ f.type \in types => OfTypes(s \o << f >>, types)
         /\ s # << >> => /\ s \o << f >> # << >> /\ Head(s \o << f >>) = Head(s)
                         /\ Tail(s \o << f >>) = Tail(s) \o << f >>
<1>1. /\ Len(s \o << f >>) = Len(s) + 1 /\ Len(s) \in Nat
      /\ \A k \in 1 .. Len(s) : (s \o << f >>)[k] = s[k]
      /\ (s \o << f >>)[Len(s) + 1] = f
  BY Added
<1>2. \A k \in 1 .. Len(s \o << f >>) : k \in 1 .. Len(s) \/ k = Len(s) + 1
  BY <1>1
<1>3. Named(s) /\ (f.type = "ATTACH" => f.topic \in Topics) => Named(s \o << f >>)
  BY <1>1, <1>2 DEF Named
<1>4. OfTypes(s, types) /\ f.type \in types => OfTypes(s \o << f >>, types)
  BY <1>1, <1>2 DEF OfTypes
<1>5. s # << >> => /\ s \o << f >> # << >> /\ Head(s \o << f >>) = Head(s)
                   /\ Tail(s \o << f >>) = Tail(s) \o << f >>
  OBVIOUS
<1> QED BY <1>3, <1>4, <1>5

LEMMA ChannelJoined ==
  ASSUME NEW s \in Seq(Frame), NEW r \in Seq(Frame), NEW types
  PROVE  /\ Named(s) /\ Named(r) => Named(s \o r)
         /\ OfTypes(s, types) /\ OfTypes(r, types) => OfTypes(s \o r, types)
<1>1. /\ Len(s \o r) = Len(s) + Len(r) /\ Len(s) \in Nat /\ Len(r) \in Nat
      /\ \A k \in 1 .. Len(s) : (s \o r)[k] = s[k]
      /\ \A k \in 1 .. Len(r) : (s \o r)[Len(s) + k] = r[k]
  BY Joined
<1>2. \A k \in 1 .. Len(s \o r) : \/ k \in 1 .. Len(s) /\ (s \o r)[k] = s[k]
                                  \/ k - Len(s) \in 1 .. Len(r) /\ (s \o r)[k] = r[k - Len(s)]
  <2> TAKE k \in 1 .. Len(s \o r)
  <2>1. CASE k <= Len(s)
    BY <1>1, <2>1
  <2>2. CASE k > Len(s)
    <3>1. k - Len(s) \in 1 .. Len(r) /\ Len(s) + (k - Len(s)) = k
      BY <1>1, <2>2
    <3> QED BY <1>1, <3>1
  <2> QED BY <1>1, <2>1, <2>2
<1> QED BY <1>2 DEF Named, OfTypes

\* A new channel.
LEMMA ChannelOne ==
  ASSUME NEW f \in Frame, NEW types
  PROVE  /\ Named(<< >>) /\ OfTypes(<< >>, types)
         /\ (f.type = "ATTACH" => f.topic \in Topics) => Named(<< f >>)
         /\ f.type \in types => OfTypes(<< f >>, types)
BY DEF Named, OfTypes

\* What fire_all does on a connection, and without one.
LEMMA FireOpen ==
  ASSUME NEW frames, fire_all(frames) \/ (use_and_fire(frames) /\ tables # "destroyed"), net = "open"
  PROVE  outbox' = outbox \o frames /\ fault' = fault
BY DEF fire_all, use_and_fire

LEMMA FireDead ==
  ASSUME NEW frames, fire_all(frames) \/ use_and_fire(frames), net # "open", frames # << >>
  PROVE  outbox' = outbox /\ ~Alive'
BY DEF fire_all, use_and_fire, Alive

\* A part of the invariant stays when its variables are left alone.
LEMMA StagesStay ==
  /\ LogOutInMain /\ UNCHANGED << gui, ui >> => LogOutInMain'
  /\ SendersServed /\ UNCHANGED << thread, is_started, net >> => SendersServed'
  /\ LiveIsServed /\ UNCHANGED << tables, net, fault >> => LiveIsServed'
  /\ RoomLeft /\ Alive /\ UNCHANGED << ui, next_handle, rows >> => RoomLeft'
  /\ OnlyTransfers /\ UNCHANGED << m_handler, m_delivery_id, hold >> => OnlyTransfers'
  /\ AttachNamed /\ UNCHANGED << outbox, inbox >> => AttachNamed'
<1>1. LogOutInMain /\ UNCHANGED << gui, ui >> => LogOutInMain'
  BY DEF LogOutInMain
<1>2. SendersServed /\ UNCHANGED << thread, is_started, net >> => SendersServed'
  BY DEF SendersServed
<1>3. LiveIsServed /\ UNCHANGED << tables, net, fault >> => LiveIsServed'
  BY DEF LiveIsServed
<1>4. RoomLeft /\ Alive /\ UNCHANGED << ui, next_handle, rows >> => RoomLeft'
  BY DEF RoomLeft, StoredTopics
<1>5. OnlyTransfers /\ UNCHANGED << m_handler, m_delivery_id, hold >> => OnlyTransfers'
  BY DEF OnlyTransfers
<1>6. AttachNamed /\ UNCHANGED << outbox, inbox >> => AttachNamed'
  BY DEF AttachNamed
<1> QED BY <1>1, <1>2, <1>3, <1>4, <1>5, <1>6

\* No frame is on its way, no thread runs and nothing is stored.
LEMMA InitStages == Init => StageInv
<1> SUFFICES ASSUME Init PROVE StageInv
  OBVIOUS
<1>1. /\ gui = "idle" /\ ui = "accounts" /\ net = "closed" /\ tables = "null"
      /\ outbox = << >> /\ inbox = << >> /\ hold = NoFrame
      /\ m_handler = NoTransfers(Handles) /\ m_delivery_id = NoTransfers(Deliveries)
      /\ thread = [ th \in AmqpThreads |-> "none" ]
  BY DEF Init, AmqpTimersInit
<1>2. OnlyTransfers
  BY <1>1 DEF OnlyTransfers, IsTransfer, NoTransfers
<1>3. SendersServed
  BY <1>1 DEF SendersServed, AmqpThreads
<1>4. AttachNamed
  BY <1>1 DEF AttachNamed, Named
<1> QED BY <1>1, <1>2, <1>3, <1>4 DEF StageInv, LogOutInMain, LiveIsServed, RoomLeft, InStage

\* On the main window of a working connection the session is established.
LEMMA MainStage ==
  ASSUME StageInv, Alive, net = "open"
  PROVE  /\ ui = "main" => Main /\ tables = "live"
         /\ gui = "conn_fire" => Handshake /\ tables # "live"
         /\ (thread["messager"] = "running" \/ hold # NoFrame) => Main /\ tables = "live"
         /\ thread["pinger"] = "running" => (Opened \/ Begun \/ Main) /\ tables = "live"
         /\ pConn = "begun" => (Begun \/ Main) /\ tables = "live"
         /\ pConn = "ended" => Main /\ tables = "live"
BY DEF StageInv, InStage, Opened, Begun, Main, Handshake, Refused, Quiet, NoMessager

\* The session goes on after frames were handed to fire.
LEMMA FireServed ==
  ASSUME NEW frames, fire_all(frames) \/ use_and_fire(frames), LiveIsServed, UNCHANGED << tables, net >>
  PROVE  /\ LiveIsServed'
         /\ (tables = "live" \/ fire_all(frames)) /\ net = "open" =>
              outbox' = outbox \o frames /\ fault' = fault
BY DEF fire_all, use_and_fire, LiveIsServed

\* The steps of the user keep the stage.
LEMMA UserStages ==
  ASSUME TypeOK, StageInv, UserStep
  PROVE  StageInv'
<1>0. LogOutInMain /\ SendersServed /\ LiveIsServed /\ RoomLeft /\ OnlyTransfers /\ AttachNamed /\ InStage
  BY DEF StageInv
<1>a. outbox \in Seq(Frame) /\ inbox \in Seq(Frame)
  BY DEF TypeOK, AmqpTimersTypeOK
<1>1. CASE LogIn
  <2>1. /\ net # "open" /\ hold = NoFrame /\ gui' = "conn_fire" /\ ui' = "loading"
        /\ outbox' = << >> /\ inbox' = << >> /\ net' = "open" /\ Alive
        /\ pConn' = "sasl" /\ pSub' = NoLinks /\ pPub' = NoLinks
        /\ next_handle + Len(StoredTopics) <= ServerHandle
        /\ UNCHANGED << fault, interrupted, tableVars, threadVars, counterVars, storeVars >>
    BY <1>1 DEF LogIn, Gui, NewLink
  <2>2. thread["pinger"] # "running" /\ thread["messager"] # "running" /\ tables # "live"
    BY <1>0, <2>1 DEF SendersServed, LiveIsServed
  <2>3. LogOutInMain' /\ OnlyTransfers'
    BY <1>0, <2>1, StagesStay DEF LogOutInMain, tableVars, threadVars
  <2>4. SendersServed' /\ LiveIsServed'
    BY <2>1, <2>2 DEF SendersServed, LiveIsServed, threadVars, tableVars
  <2>5. RoomLeft' /\ AttachNamed'
    BY <2>1 DEF RoomLeft, StoredTopics, AttachNamed, Named, counterVars, storeVars
  <2>6. InStage'
    BY <2>1, <2>2 DEF InStage, Handshake, Quiet, threadVars, tableVars
  <2> QED BY <2>3, <2>4, <2>5, <2>6 DEF StageInv
<1>2. ASSUME NEW frames \in Seq(Frame), use_and_fire(frames), Named(frames), OfTypes(frames, UserTypes),
             Button, OnlyTransfers',
             UNCHANGED << net, interrupted, inbox, tables, threadVars, pConn, ui, is_connected >>
      PROVE  StageInv'
  <2>1. LogOutInMain' /\ SendersServed' /\ LiveIsServed'
    BY <1>0, <1>2, StagesStay, FireServed DEF Button, Gui, LogOutInMain, threadVars
  <2>2. RoomLeft'
    BY <1>2 DEF RoomLeft, Button
  <2>3. CASE net # "open"
    <3>1. outbox' \in { outbox, outbox \o frames }
      BY <1>2 DEF use_and_fire, fire_all
    <3>2. AttachNamed'
      BY <1>0, <1>2, <1>a, <3>1, ChannelJoined DEF AttachNamed
    <3> QED BY <1>2, <2>1, <2>2, <2>3, <3>2 DEF StageInv, InStage
  <2>4. CASE net = "open"
    <3>1. Main /\ tables = "live"
      BY <1>2, <2>4, MainStage DEF Button, Gui
    <3>2. outbox' = outbox \o frames
      BY <1>0, <1>2, <2>4, <3>1, FireServed
    <3>3. OfTypes(frames, UserTypes \cup { "PING" })
      BY <1>2 DEF OfTypes
    <3>4. AttachNamed' /\ OfTypes(outbox', UserTypes \cup { "PING" })
      BY <1>0, <1>2, <1>a, <3>1, <3>2, <3>3, ChannelJoined DEF AttachNamed, Main
    <3>5. Main'
      BY <1>2, <3>1, <3>4 DEF Main, Button, Gui
    <3> QED BY <1>2, <2>1, <2>2, <3>1, <3>4, <3>5 DEF StageInv, InStage
  <2> QED BY <2>3, <2>4
<1>3. ASSUME NEW t \in Topics, send_amqp_attach(t) PROVE StageInv'
  <2> DEFINE f == Attach("RECEIVER", next_handle, t)
  <2>1. next_handle \in Handles
    BY <1>3, AmqpTableBounds DEF send_amqp_attach, FreshHandle, TypeOK, Handles
  <2>2. f \in Frame /\ f.type = "ATTACH" /\ f.topic \in Topics
    BY <2>1, FrameTyped, FrameFields
  <2> HIDE DEF f
  <2>3. << f >> \in Seq(Frame) /\ Named(<< f >>) /\ OfTypes(<< f >>, UserTypes)
    BY <2>2, ChannelOne DEF UserTypes
  <2>4. OnlyTransfers'
    BY <1>0, <1>3, StagesStay DEF send_amqp_attach, threadVars
  <2> QED BY <1>2, <1>3, <2>3, <2>4 DEF send_amqp_attach, peerVars, f
<1>4. ASSUME NEW t \in Topics, send_amqp_detach(t) PROVE StageInv'
  <2> DEFINE h == amqp_get_handler_from_map(t)
             r == IF h = 0 THEN << >> ELSE << Detach(h) >>
  <2>1. h \in Handles
    BY DEF TypeOK, AmqpTimersTypeOK, amqp_get_handler_from_map
  <2>2. Detach(h) \in Frame /\ Detach(h).type = "DETACH"
    BY <2>1, FrameTyped, FrameFields
  <2>3. r \in Seq(Frame) /\ Named(r) /\ OfTypes(r, UserTypes)
    BY <2>2, ChannelOne DEF UserTypes
  <2>4. use_and_fire(r) /\ Button
    BY <1>4 DEF send_amqp_detach
  <2> HIDE DEF r, h
  <2>5. OnlyTransfers'
    BY <1>0, <1>4, StagesStay DEF send_amqp_detach, tableVars, threadVars
  <2> QED BY <1>2, <1>4, <2>3, <2>4, <2>5 DEF send_amqp_detach, peerVars, tableVars, counterVars
<1>5. ASSUME NEW c \in Contents, NEW t \in Topics, NEW s \in UserSettled, send_amqp_transfer(c, t, s)
      PROVE  StageInv'
  <2> DEFINE h == amqp_get_handler_from_map_outgoing(t)
             f == Transfer(IF h # 0 THEN h ELSE next_handle, packet_id_counter, s, c)
             g == Attach("SENDER", next_handle, t)
  <2>1. /\ packet_id_counter \in Deliveries /\ Button
        /\ \/ h # 0 /\ use_and_fire(<< f >>) /\ UNCHANGED tableVars
           \/ /\ h = 0 /\ FreshHandle
              /\ m_handler' = with_message_by_handler(f)
              /\ use_and_fire(<< g >>)
              /\ UNCHANGED << m_delivery_id, tables >>
        /\ UNCHANGED << net, interrupted, inbox, threadVars, peerVars, ui, session, is_connected, storeVars >>
    BY <1>5, AmqpTableBounds DEF send_amqp_transfer, TypeOK, Deliveries
  <2>2. h \in Handles /\ s \in BOOLEAN
    BY AmqpClientBounds DEF TypeOK, AmqpTimersTypeOK, amqp_get_handler_from_map_outgoing
  <2>3. h = 0 => next_handle \in Handles
    BY <2>1, AmqpTableBounds DEF FreshHandle, TypeOK, Handles
  <2>4. f \in Frame /\ f.type = "TRANSFER"
    BY <2>1, <2>2, <2>3, FrameTyped, FrameFields
  <2>5. h = 0 => g \in Frame /\ g.type = "ATTACH" /\ g.topic \in Topics
    BY <2>3, FrameTyped, FrameFields
  <2> HIDE DEF h, f, g
  <2>6. CASE h # 0
    <3>1. << f >> \in Seq(Frame) /\ Named(<< f >>) /\ OfTypes(<< f >>, UserTypes)
      BY <2>4, ChannelOne DEF UserTypes
    <3>2. OnlyTransfers'
      BY <1>0, <2>1, <2>6, StagesStay DEF tableVars, threadVars
    <3> QED BY <1>2, <2>1, <2>6, <3>1, <3>2 DEF peerVars, tableVars
  <2>7. CASE h = 0
    <3>1. << g >> \in Seq(Frame) /\ Named(<< g >>) /\ OfTypes(<< g >>, UserTypes)
      BY <2>5, <2>7, ChannelOne DEF UserTypes
    <3>2. OnlyTransfers'
      <4>1. \A k \in Handles : m_handler'[k] \in { m_handler[k], f }
        BY <2>1, <2>7 DEF with_message_by_handler, TypeOK, AmqpTimersTypeOK
      <4> QED BY <1>0, <2>1, <2>4, <2>7, <4>1 DEF OnlyTransfers, IsTransfer, threadVars
    <3> QED BY <1>2, <2>1, <2>7, <3>1, <3>2 DEF peerVars
  <2> QED BY <2>6, <2>7
<1>6. CASE log_out_handle
  <2>1. /\ ui = "main" /\ ui' = ui /\ gui' = "disc_fire"
        /\ UNCHANGED << fault, amqpNetVars, tableVars, threadVars, peerVars, counterVars >>
    BY <1>6 DEF log_out_handle, Gui
  <2>2. LogOutInMain' /\ SendersServed' /\ LiveIsServed' /\ RoomLeft' /\ OnlyTransfers' /\ AttachNamed'
    BY <1>0, <2>1, StagesStay DEF LogOutInMain, RoomLeft, amqpNetVars, tableVars, threadVars
  <2>3. InStage'
    BY <1>0, <2>1, MainStage
    DEF StageInv, InStage, Main, Alive, amqpNetVars, tableVars, threadVars, peerVars, counterVars
  <2> QED BY <2>2, <2>3 DEF StageInv
<1> QED BY <1>1, <1>3, <1>4, <1>5, <1>6 DEF UserStep

\* The steps of the GTK thread within a handler keep the stage.
LEMMA GuiStages ==
  ASSUME TypeOK, StageInv, GuiStep
  PROVE  StageInv'
<1>0. LogOutInMain /\ SendersServed /\ LiveIsServed /\ RoomLeft /\ OnlyTransfers /\ AttachNamed /\ InStage
  BY DEF StageInv
<1>a. outbox \in Seq(Frame) /\ inbox \in Seq(Frame)
  BY DEF TypeOK, AmqpTimersTypeOK
<1>1. CASE start_amqp_connect_fire
  <2> DEFINE f == Verdict("PROTO", FALSE)
  <2>1. /\ Alive /\ gui = "conn_fire" /\ gui' = "conn_timer" /\ fire_all(<< f >>)
        /\ UNCHANGED << net, interrupted, inbox, tableVars, threadVars, peerVars, ui, counterVars, storeVars >>
    BY <1>1 DEF start_amqp_connect_fire, Gui, amqp_encode_and_fire
  <2>2. f \in Frame /\ f.type # "ATTACH"
    BY LoginFrames, LoginTypes
  <2>3. SendersServed' /\ LiveIsServed' /\ OnlyTransfers'
    BY <1>0, <2>1, StagesStay, FireServed DEF tableVars, threadVars
  <2>4. LogOutInMain' /\ RoomLeft'
    BY <1>0, <2>1, StagesStay DEF LogOutInMain, counterVars, storeVars
  <2>5. CASE net # "open"
    <3>1. outbox' = outbox /\ ~Alive'
      BY <2>1, <2>5, FireDead
    <3> QED BY <1>0, <2>1, <2>3, <2>4, <3>1, StagesStay DEF StageInv, InStage
  <2>6. CASE net = "open"
    <3>1. Handshake /\ tables # "live"
      BY <2>1, <2>6, MainStage
    <3>2. outbox' = << f >> /\ inbox' = << >>
      <4>1. outbox = << >> /\ inbox = << >>
        BY <2>1, <3>1 DEF Handshake
      <4>2. outbox' = outbox \o << f >>
        BY <2>1, <2>6, FireOpen
      <4>3. << >> \o << f >> = << f >>
        BY <2>2, Short12
      <4> QED BY <2>1, <4>1, <4>2, <4>3
    <3> HIDE DEF f
    <3>3. AttachNamed'
      BY <2>2, <3>2, ChannelOne DEF AttachNamed
    <3>4. << outbox', inbox' >> \in Exchange
      BY <3>2 DEF Exchange, f
    <3>5. Handshake' /\ tables' # "live"
      BY <2>1, <3>1, <3>4 DEF Handshake, Quiet, threadVars, peerVars, tableVars
    <3> QED BY <2>3, <2>4, <3>3, <3>5 DEF StageInv, InStage
  <2> QED BY <2>5, <2>6
<1>2. CASE start_amqp_connect_timer
  <2>1. /\ gui' = "idle" /\ gui = "conn_timer" /\ Alive
        /\ \A th \in AmqpThreads \ {"connecter"} : thread'[th] = thread[th] /\ is_started'[th] = is_started[th]
        /\ hold' = hold
        /\ UNCHANGED << fault, amqpNetVars, tableVars, peerVars, ui, counterVars, storeVars >>
    BY <1>2 DEF start_amqp_connect_timer, Gui, amqp_start_connect_timer, Start, TypeOK, AmqpTimersTypeOK
  <2>2. LogOutInMain' /\ LiveIsServed' /\ RoomLeft' /\ OnlyTransfers' /\ AttachNamed'
    BY <1>0, <2>1, StagesStay DEF LogOutInMain, tableVars, amqpNetVars, counterVars, storeVars
  <2>3. thread'["pinger"] = thread["pinger"] /\ thread'["messager"] = thread["messager"]
    BY <2>1 DEF AmqpThreads
  <2>4. SendersServed'
    BY <1>0, <2>1 DEF SendersServed, AmqpThreads, amqpNetVars
  <2>5. InStage'
    <3>1. ASSUME Alive', net' = "open"
          PROVE  IF tables' = "live" THEN (Opened \/ Begun \/ Main)' ELSE (Handshake \/ Refused)'
      <4>1. IF tables = "live" THEN Opened \/ Begun \/ Main ELSE Handshake \/ Refused
        BY <1>0, <2>1, <3>1 DEF InStage, amqpNetVars
      <4>2. UNCHANGED << ui, pConn, hold, pSub, pPub, outbox, inbox, is_connected, interrupted, tables >>
        BY <2>1 DEF amqpNetVars, peerVars, counterVars, tableVars
      <4>3. Opened => Opened'
        BY <2>1, <2>3, <4>2 DEF Opened, NoMessager
      <4>4. Begun => Begun'
        BY <2>1, <2>3, <4>2 DEF Begun, NoMessager
      <4>5. Main => Main'
        BY <2>1, <2>3, <4>2 DEF Main
      <4>6. Handshake => Handshake'
        BY <2>1, <2>3, <4>2 DEF Handshake, Quiet
      <4>7. Refused => Refused'
        BY <2>1, <2>3, <4>2 DEF Refused, Quiet
      <4> QED BY <4>1, <4>2, <4>3, <4>4, <4>5, <4>6, <4>7
    <3> QED BY <3>1 DEF InStage
  <2> QED BY <2>2, <2>4, <2>5 DEF StageInv
<1>3. CASE send_amqp_end
  <2> DEFINE f == Plain("END")
  <2>1. /\ Alive /\ gui = "disc_fire" /\ gui' = "idle" /\ ui' = "accounts" /\ fire_all(<< f >>)
        /\ UNCHANGED << net, interrupted, inbox, tableVars, threadVars, peerVars, is_connected, storeVars >>
    BY <1>3 DEF send_amqp_end, Gui, amqp_encode_and_fire
  <2>2. f \in Frame /\ f.type = "END"
    BY LoginFrames, LoginTypes
  <2>3. SendersServed' /\ LiveIsServed' /\ OnlyTransfers'
    BY <1>0, <2>1, StagesStay, FireServed DEF tableVars, threadVars
  <2>4. LogOutInMain' /\ RoomLeft'
    BY <2>1 DEF LogOutInMain, RoomLeft
  <2>5. CASE net # "open"
    <3>1. outbox' = outbox /\ ~Alive'
      BY <2>1, <2>5, FireDead
    <3> QED BY <1>0, <2>1, <2>3, <2>4, <3>1, StagesStay DEF StageInv, InStage
  <2>6. CASE net = "open"
    <3>1. Main /\ tables = "live"
      BY <1>0, <2>1, <2>6, MainStage DEF LogOutInMain
    <3>2. outbox' = outbox \o << f >>
      BY <2>1, <2>6, FireOpen
    <3> HIDE DEF f
    <3>3. AttachNamed' /\ OfTypes(outbox', UserTypes \cup { "PING" })
      BY <1>0, <1>a, <2>1, <2>2, <3>1, <3>2, ChannelAdded DEF AttachNamed, Main, UserTypes
    <3>4. Main' /\ tables' = "live"
      BY <2>1, <3>1, <3>3 DEF Main, peerVars, tableVars
    <3> QED BY <2>3, <2>4, <3>3, <3>4 DEF StageInv, InStage
  <2> QED BY <2>5, <2>6
<1> QED BY <1>1, <1>2, <1>3 DEF GuiStep

\* A step of the worker in a session that goes on.
LEMMA RxInMain ==
  ASSUME TypeOK, StageInv, NEW types, Rx(types), Main, tables = "live",
         gui' = gui, ui' = ui, is_connected' \/ interrupted', pConn' = pConn, net' = "open", tables' = "live",
         SendersServed', OnlyTransfers', fault' \in { "none", "null_topic" },
         NEW r \in Seq(Frame), outbox' = outbox \o r, Named(r), OfTypes(r, UserTypes)
  PROVE  StageInv'
<1>a. outbox \in Seq(Frame) /\ inbox \in Seq(Frame)
  BY DEF TypeOK, AmqpTimersTypeOK
<1>1. inbox # << >> /\ inbox' = Tail(inbox)
  BY RxTakes
<1>2. OfTypes(inbox', UserTypes) /\ Named(inbox')
  BY <1>a, <1>1, ChannelTail DEF Main, StageInv, AttachNamed
<1>3. OfTypes(r, UserTypes \cup { "PING" })
  BY DEF OfTypes
<1>4. OfTypes(outbox', UserTypes \cup { "PING" }) /\ Named(outbox')
  BY <1>a, <1>3, ChannelJoined DEF Main, StageInv, AttachNamed
<1>5. Main'
  BY <1>2, <1>4 DEF Main
<1>6. LogOutInMain' /\ RoomLeft' /\ LiveIsServed'
  BY DEF Main, RoomLeft, StageInv, LogOutInMain, LiveIsServed
<1> QED BY <1>2, <1>4, <1>5, <1>6 DEF StageInv, AttachNamed, InStage

\* The worker during the log in.
LEMMA LoginStages ==
  ASSUME TypeOK, StageInv, rx_answered \/ rx_outcome_refused \/ rx_open \/ rx_begin
  PROVE  StageInv'
<1>0. LogOutInMain /\ SendersServed /\ LiveIsServed /\ RoomLeft /\ OnlyTransfers /\ AttachNamed /\ InStage
  BY DEF StageInv
<1>a. outbox \in Seq(Frame) /\ inbox \in Seq(Frame)
  BY DEF TypeOK, AmqpTimersTypeOK
<1>1. CASE rx_answered /\ Head(inbox).type = "END"
  <2>1. /\ Rx({ "PROTO", "MECHANISMS", "END", "OUTCOME" })
        /\ fire_all(<< Plain("CLOSE") >>)
        /\ UNCHANGED << net, interrupted, tableVars, threadVars, peerVars, amqpGuiVars, counterVars, storeVars >>
    BY <1>1 DEF rx_answered, AnswerTo
  <2>2. Alive /\ net = "open" /\ inbox # << >>
    BY <2>1, RxTakes
  <2>3. Main /\ tables = "live"
    BY <1>1, <2>2, RxStage
  <2>4. outbox' = outbox \o << Plain("CLOSE") >> /\ fault' = fault
    BY <2>1, <2>2, FireOpen
  <2>5. Plain("CLOSE") \in Frame /\ Plain("CLOSE").type = "CLOSE"
    BY LoginFrames, LoginTypes
  <2>6. /\ << Plain("CLOSE") >> \in Seq(Frame)
        /\ Named(<< Plain("CLOSE") >>) /\ OfTypes(<< Plain("CLOSE") >>, UserTypes)
    BY <2>5, ChannelOne DEF UserTypes
  <2>7. SendersServed' /\ OnlyTransfers'
    BY <1>0, <2>1, StagesStay DEF threadVars, tableVars
  <2>8. is_connected \/ interrupted
    BY <2>3 DEF Main
  <2> QED
    BY <2>1, <2>2, <2>3, <2>4, <2>6, <2>7, <2>8, RxInMain
    DEF Alive, amqpGuiVars, counterVars, peerVars, tableVars
<1>2. CASE rx_answered /\ Head(inbox).type # "END"
  <2>1. /\ Rx({ "PROTO", "MECHANISMS", "END", "OUTCOME" })
        /\ Head(inbox).type = "OUTCOME" => Head(inbox).ok
        /\ fire_all(AnswerTo(Head(inbox)))
        /\ UNCHANGED << net, interrupted, tableVars, threadVars, peerVars, amqpGuiVars, counterVars, storeVars >>
    BY <1>2 DEF rx_answered
  <2>2. Alive /\ net = "open" /\ inbox # << >> /\ inbox' = Tail(inbox)
        /\ Head(inbox).type \in { "PROTO", "MECHANISMS", "OUTCOME" }
    BY <1>2, <2>1, RxTakes
  <2>3. Handshake /\ << outbox, inbox >> \in Exchange /\ tables # "live"
    BY <2>1, <2>2, RxStage
  <2>4. outbox = << >> /\ outbox' = << >> \o AnswerTo(Head(inbox)) /\ fault' = fault
    BY <2>1, <2>2, <2>3, FireOpen, ExchangeHeads
  <2>5. /\ Head(inbox) \in { Verdict("PROTO", FALSE), Verdict("PROTO", TRUE),
                             Plain("MECHANISMS"), Verdict("OUTCOME", TRUE) }
        /\ inbox' = IF Head(inbox) = Verdict("PROTO", FALSE) THEN << Plain("MECHANISMS") >> ELSE << >>
    BY <2>2, <2>3, ExchangeHeads, LoginTypes
  <2>6. << outbox', inbox' >> \in Exchange /\ Named(outbox') /\ Named(inbox')
    <3>0. \A f \in { Plain("OPEN"), Plain("INIT"), Verdict("PROTO", TRUE), Plain("MECHANISMS") } :
            << >> \o << f >> = << f >> /\ Named(<< f >>)
      <4> TAKE f \in { Plain("OPEN"), Plain("INIT"), Verdict("PROTO", TRUE), Plain("MECHANISMS") }
      <4>1. f \in Frame /\ f.type # "ATTACH"
        BY LoginFrames, LoginTypes
      <4> QED BY <4>1, Short12, ChannelOne
    <3>1. CASE Head(inbox) = Verdict("PROTO", FALSE)
      <4>1. AnswerTo(Head(inbox)) = << >>
        BY <3>1, LoginTypes DEF AnswerTo
      <4>2. outbox' = << >> /\ inbox' = << Plain("MECHANISMS") >>
        BY <2>4, <2>5, <3>1, <4>1, LoginFrames, Short12
      <4> QED BY <3>0, <4>2, LoginFrames, ChannelOne DEF Exchange
    <3>2. CASE Head(inbox) = Verdict("PROTO", TRUE)
      <4>1. AnswerTo(Head(inbox)) = << Plain("OPEN") >>
        BY <3>2, LoginTypes DEF AnswerTo
      <4>2. Verdict("PROTO", FALSE) # Verdict("PROTO", TRUE)
        BY LoginTypes, Zenon
      <4>3. outbox' = << Plain("OPEN") >> /\ inbox' = << >>
        BY <2>4, <2>5, <3>0, <3>2, <4>1, <4>2
      <4> QED BY <3>0, <4>3, LoginFrames, ChannelOne DEF Exchange
    <3>3. CASE Head(inbox) = Plain("MECHANISMS")
      <4>1. AnswerTo(Head(inbox)) = << Plain("INIT") >>
        BY <3>3, LoginTypes DEF AnswerTo
      <4>2. Verdict("PROTO", FALSE) # Plain("MECHANISMS")
        BY LoginTypes
      <4>3. outbox' = << Plain("INIT") >> /\ inbox' = << >>
        BY <2>4, <2>5, <3>0, <3>3, <4>1, <4>2
      <4> QED BY <3>0, <4>3, LoginFrames, ChannelOne DEF Exchange
    <3>4. CASE Head(inbox) = Verdict("OUTCOME", TRUE)
      <4>1. AnswerTo(Head(inbox)) = << Verdict("PROTO", TRUE) >>
        BY <3>4, LoginTypes DEF AnswerTo
      <4>2. Verdict("PROTO", FALSE) # Verdict("OUTCOME", TRUE)
        BY LoginTypes
      <4>3. outbox' = << Verdict("PROTO", TRUE) >> /\ inbox' = << >>
        BY <2>4, <2>5, <3>0, <3>4, <4>1, <4>2
      <4> QED BY <3>0, <4>3, LoginFrames, ChannelOne DEF Exchange
    <3> QED BY <2>5, <3>1, <3>2, <3>3, <3>4
  <2>7. Handshake' /\ tables' # "live"
    BY <2>1, <2>2, <2>3, <2>6 DEF Handshake, Quiet, peerVars, tableVars, threadVars, amqpGuiVars
  <2>8. LogOutInMain' /\ SendersServed' /\ LiveIsServed' /\ RoomLeft' /\ OnlyTransfers'
    BY <1>0, <2>1, <2>2, <2>4, StagesStay DEF tableVars, threadVars, amqpGuiVars, counterVars, storeVars
  <2> QED BY <2>6, <2>7, <2>8 DEF StageInv, AttachNamed, InStage
<1>3. CASE rx_outcome_refused
  <2>1. /\ Rx({ "OUTCOME" }) /\ ~Head(inbox).ok /\ ui' = "accounts"
        /\ UNCHANGED << fault, net, interrupted, outbox, tableVars, threadVars, peerVars, gui, session,
                        published, counterVars, storeVars >>
    BY <1>3 DEF rx_outcome_refused, connection_unsuccessful
  <2>2. Alive /\ net = "open" /\ inbox # << >> /\ inbox' = Tail(inbox) /\ Head(inbox).type = "OUTCOME"
    BY <2>1, RxTakes
  <2>3. Refused /\ tables # "live"
    BY <2>1, <2>2, RxStage
  <2>4. inbox' = << >> /\ ui = "loading"
    <3>1. inbox = << Verdict("OUTCOME", FALSE) >> \/ inbox = << Plain("CLOSE") >>
      BY <2>2, <2>3 DEF Refused
    <3>2. ui = "loading"
      BY <2>2, <2>3 DEF Refused
    <3> QED BY <2>2, <3>1, <3>2, LoginFrames, Short12
  <2>5. Refused' /\ tables' # "live"
    BY <2>1, <2>3, <2>4 DEF Refused, Quiet, peerVars, tableVars, threadVars
  <2>6. LogOutInMain' /\ RoomLeft'
    BY <1>0, <2>1, <2>4 DEF LogOutInMain, RoomLeft
  <2>7. SendersServed' /\ LiveIsServed' /\ OnlyTransfers'
    BY <1>0, <2>1, StagesStay DEF tableVars, threadVars
  <2>8. AttachNamed'
    BY <1>0, <2>1, <2>4 DEF AttachNamed, Named
  <2> QED BY <2>5, <2>6, <2>7, <2>8 DEF StageInv, InStage
<1>4. CASE rx_open
  <2>1. /\ Rx({ "OPEN" }) /\ fire_all(<< Plain("BEGIN") >>)
        /\ thread' = [ thread EXCEPT !["pinger"] = "running",
                 !["connecter"] = IF is_started["connecter"] /\ @ = "running" THEN "ended" ELSE @ ]
        /\ is_started' = [ is_started EXCEPT !["pinger"] = TRUE, !["connecter"] = FALSE ]
        /\ hold' = hold /\ EmptyTables /\ tables' = "live"
        /\ UNCHANGED << net, interrupted, peerVars, amqpGuiVars, counterVars, storeVars >>
    BY <1>4 DEF rx_open, send_amqp_begin, amqp_encode_and_fire, stop_connect_and_start_ping, start_amqp_ping_timer
  <2>2. Alive /\ net = "open" /\ inbox # << >> /\ inbox' = Tail(inbox) /\ Head(inbox).type = "OPEN"
    BY <2>1, RxTakes
  <2>3. Handshake /\ << outbox, inbox >> \in Exchange
    BY <2>1, <2>2, RxStage
  <2>4. Head(inbox) # Verdict("PROTO", FALSE)
    BY <2>2, LoginTypes
  <2>5. outbox = << >> /\ inbox' = << >>
    BY <2>2, <2>3, <2>4, ExchangeHeads
  <2>6. outbox' = << Plain("BEGIN") >> /\ fault' = fault
    BY <2>1, <2>2, <2>5, FireOpen, LoginFrames, Short12
  <2>7. thread \in [ AmqpThreads -> { "none", "running", "ended" } ] /\ is_started \in [ AmqpThreads -> BOOLEAN ]
    BY DEF TypeOK, AmqpTimersTypeOK
  <2>8. thread'["messager"] = thread["messager"] /\ is_started'["messager"] = is_started["messager"]
    BY <2>1, <2>7 DEF AmqpThreads
  <2>8a. is_started'["pinger"] = TRUE
    BY <2>1, <2>7 DEF AmqpThreads
  <2>9. Opened'
    BY <2>1, <2>2, <2>3, <2>5, <2>6, <2>8 DEF Opened, Handshake, Quiet, NoMessager, peerVars, amqpGuiVars
  <2>10. SendersServed'
    BY <2>1, <2>2, <2>3, <2>8, <2>8a DEF SendersServed, Handshake, Quiet
  <2>11. LogOutInMain' /\ RoomLeft' /\ LiveIsServed'
    BY <1>0, <2>1, <2>2, <2>6, StagesStay DEF LiveIsServed, Alive, amqpGuiVars, counterVars, storeVars
  <2>12. OnlyTransfers'
    BY <1>0, <2>1 DEF OnlyTransfers, IsTransfer, EmptyTables, NoTransfers
  <2>13. AttachNamed'
    BY <2>5, <2>6, LoginFrames, LoginTypes, ChannelOne DEF AttachNamed
  <2> QED BY <2>1, <2>9, <2>10, <2>11, <2>12, <2>13 DEF StageInv, InStage
<1>5. CASE rx_begin
  <2> DEFINE n == Len(StoredTopics)
             r == [ k \in 1 .. n |-> Attach("RECEIVER", next_handle + k - 1, StoredTopics[k]) ]
  <2>1. /\ Rx({ "BEGIN" }) /\ ui' = "main" /\ is_connected' = TRUE
        /\ thread' = [ thread EXCEPT !["messager"] = "running" ]
        /\ is_started' = [ is_started EXCEPT !["messager"] = TRUE ]
        /\ hold' = hold
        /\ UNCHANGED << net, interrupted, m_handler, m_delivery_id, tables, peerVars, gui >>
    BY <1>5 DEF rx_begin, amqp_start_message_timer, Start
  <2>2. Alive /\ net = "open" /\ inbox # << >> /\ inbox' = Tail(inbox) /\ Head(inbox).type = "BEGIN"
    BY <2>1, RxTakes
  <2>3. Begun /\ tables = "live"
    BY <2>2, RxStage
  <2>4. /\ r \in Seq(Frame) /\ Len(r) = n /\ fire_all(r)
        /\ \A k \in 1 .. n : r[k] = Attach("RECEIVER", next_handle + k - 1, StoredTopics[k])
    BY <1>5, BeginFrames
  <2>5. \A k \in 1 .. Len(r) : r[k].type = "ATTACH" /\ r[k].topic \in Topics
    BY <2>4, FrameFields, StoredList
  <2> HIDE DEF r, n
  <2>6. outbox' = outbox \o r /\ fault' = fault
    BY <2>2, <2>4, FireOpen
  <2>7. Named(r) /\ OfTypes(r, UserTypes \cup { "PING" })
    BY <2>5 DEF Named, OfTypes, UserTypes
  <2>8. OfTypes(outbox, UserTypes \cup { "PING" }) /\ OfTypes(inbox', UserTypes)
    BY <2>2, <2>3 DEF Begun, OfTypes, UserTypes
  <2>9. AttachNamed' /\ OfTypes(outbox', UserTypes \cup { "PING" })
    BY <1>0, <1>a, <2>2, <2>4, <2>6, <2>7, <2>8, ChannelJoined, ChannelTail DEF AttachNamed
  <2>10. Main'
    BY <2>1, <2>3, <2>8, <2>9 DEF Main, Begun, peerVars
  <2>11. SendersServed'
    <3>1. thread \in [ AmqpThreads -> { "none", "running", "ended" } ] /\ is_started \in [ AmqpThreads -> BOOLEAN ]
      BY DEF TypeOK, AmqpTimersTypeOK
    <3>2. is_started'["messager"] = TRUE /\ is_started'["pinger"] = is_started["pinger"]
      BY <2>1, <3>1 DEF AmqpThreads
    <3>3. thread'["pinger"] = thread["pinger"]
      BY <2>1, <3>1 DEF AmqpThreads
    <3> QED BY <1>0, <2>1, <2>2, <3>2, <3>3 DEF SendersServed
  <2>12. LogOutInMain' /\ RoomLeft' /\ LiveIsServed' /\ OnlyTransfers'
    BY <1>0, <2>1, <2>6, StagesStay DEF LogOutInMain, RoomLeft
  <2> QED BY <2>1, <2>3, <2>9, <2>10, <2>11, <2>12 DEF StageInv, InStage
<1> QED BY <1>1, <1>2, <1>3, <1>4, <1>5

\* The worker in the main window, and at the end of the session.
LEMMA SessionStages ==
  ASSUME TypeOK, StageInv,
         \/ rx_attach_receiver \/ rx_attach_sender \/ rx_transfer \/ rx_disposition \/ rx_detach
         \/ rx_close \/ service_task_ends
  PROVE  StageInv'
<1>0. LogOutInMain /\ SendersServed /\ LiveIsServed /\ RoomLeft /\ OnlyTransfers /\ AttachNamed /\ InStage
  BY DEF StageInv
<1>a. outbox \in Seq(Frame) /\ inbox \in Seq(Frame) /\ << >> \in Seq(Frame) /\ outbox \o << >> = outbox
  BY Joined, Short12 DEF TypeOK, AmqpTimersTypeOK
<1>b. ASSUME NEW types \in SUBSET { "ATTACH", "TRANSFER", "DISPOSITION", "DETACH" }, Rx(types),
             UNCHANGED << net, interrupted, tables, threadVars, peerVars, gui, ui, is_connected >>,
             OnlyTransfers', fault' \in { fault, "null_topic" },
             NEW r \in Seq(Frame), outbox' = outbox \o r, Named(r), OfTypes(r, UserTypes)
      PROVE  StageInv'
  <2>1. Alive /\ net = "open" /\ inbox # << >> /\ Head(inbox).type \in types
    BY <1>b, RxTakes
  <2>2. Head(inbox).type \in { "ATTACH", "TRANSFER", "DISPOSITION", "DETACH", "END" }
    BY <1>b, <2>1
  <2>3. Main /\ tables = "live"
    BY <2>1, <2>2, RxStage
  <2>4. SendersServed'
    BY <1>0, <1>b, StagesStay DEF threadVars
  <2>5. is_connected' \/ interrupted'
    BY <1>b, <2>3 DEF Main
  <2>6. fault' \in { "none", "null_topic" } /\ pConn' = pConn /\ net' = "open" /\ tables' = "live"
    BY <1>b, <2>1, <2>3 DEF Alive, peerVars
  <2> QED BY <1>b, <2>3, <2>4, <2>5, <2>6, RxInMain
<1>c. ASSUME NEW types \in SUBSET { "ATTACH", "TRANSFER", "DISPOSITION", "DETACH" }, Rx(types),
             UNCHANGED << net, interrupted, tables, threadVars, peerVars, gui, ui, is_connected >>,
             OnlyTransfers', fault' \in { fault, "null_topic" }, UNCHANGED outbox
      PROVE  StageInv'
  <2>1. outbox' = outbox \o << >> /\ Named(<< >>) /\ OfTypes(<< >>, UserTypes)
    BY <1>a, <1>c DEF Named, OfTypes
  <2> QED BY <1>a, <1>b, <1>c, <2>1
<1>d. ASSUME NEW type \in { "ATTACH", "TRANSFER", "DISPOSITION", "DETACH" }
      PROVE  { type } \in SUBSET { "ATTACH", "TRANSFER", "DISPOSITION", "DETACH" }
  OBVIOUS
<1>1. CASE rx_attach_receiver
  <2> DEFINE h == amqp_get_handler_from_map_outgoing(Head(inbox).topic)
             f == amqp_get_message_from_map_by_handler(h)
  <2>1. /\ Rx({ "ATTACH" })
        /\ \/ UNCHANGED << fault, outbox, m_handler, m_delivery_id, saved >>
           \/ /\ ~(h = 0 \/ f = NoFrame)
              /\ fire_all(<< f >>)
              /\ m_handler' = without_message_handler(h)
              /\ m_delivery_id' \in { m_delivery_id, with_message_by_delivery_id(f) }
        /\ UNCHANGED << net, interrupted, tables, threadVars, peerVars, gui, ui, is_connected >>
    BY <1>1 DEF rx_attach_receiver, amqp_encode_and_fire, amqpGuiVars, counterVars
  <2>2. CASE UNCHANGED << fault, outbox, m_handler, m_delivery_id, saved >>
    <3>1. OnlyTransfers'
      BY <1>0, <2>1, <2>2, StagesStay DEF threadVars
    <3> QED BY <1>c, <1>d, <2>1, <2>2, <3>1
  <2>3. CASE /\ ~(h = 0 \/ f = NoFrame)
             /\ fire_all(<< f >>)
             /\ m_handler' = without_message_handler(h)
             /\ m_delivery_id' \in { m_delivery_id, with_message_by_delivery_id(f) }
    <3>1. h \in Handles /\ f \in Frame /\ f = m_handler[h]
      <4>1. Head(inbox) \in Frame /\ Head(inbox).type = "ATTACH" /\ Head(inbox) = inbox[1] /\ 1 \in 1 .. Len(inbox)
        BY <2>1, RxTakes
      <4>2. Head(inbox).topic \in Topics
        BY <1>0, <4>1 DEF AttachNamed, Named
      <4>3. h \in Handles
        BY <4>2 DEF TypeOK, AmqpTimersTypeOK, amqp_get_handler_from_map_outgoing
      <4> QED BY <4>3, ShortIsSame DEF TypeOK, AmqpTimersTypeOK, amqp_get_message_from_map_by_handler
    <3>2. f.type = "TRANSFER"
      BY <1>0, <2>3, <3>1 DEF OnlyTransfers, IsTransfer
    <3> HIDE DEF h, f
    <3>3. OnlyTransfers'
      <4>1. \A k \in Handles : m_handler'[k] \in { m_handler[k], NoFrame }
        BY <2>3 DEF without_message_handler, TypeOK, AmqpTimersTypeOK
      <4>2. \A id \in Deliveries : m_delivery_id'[id] \in { m_delivery_id[id], f }
        BY <2>3 DEF with_message_by_delivery_id, TypeOK, AmqpTimersTypeOK
      <4> QED BY <1>0, <2>1, <3>2, <4>1, <4>2 DEF OnlyTransfers, IsTransfer, threadVars
    <3>4. << f >> \in Seq(Frame) /\ Named(<< f >>) /\ OfTypes(<< f >>, UserTypes)
      BY <3>1, <3>2, ChannelOne DEF UserTypes
    <3>5. outbox' = outbox \o << f >> /\ fault' = fault
      BY <2>1, <2>3, RxTakes, FireOpen
    <3> QED BY <1>b, <1>d, <2>1, <3>3, <3>4, <3>5
  <2> QED BY <2>1, <2>2, <2>3
<1>2. CASE rx_attach_sender
  <2>1. OnlyTransfers'
    BY <1>0, <1>2, StagesStay DEF rx_attach_sender, threadVars
  <2> QED BY <1>c, <1>d, <1>2, <2>1 DEF rx_attach_sender, amqpGuiVars
<1>3. CASE rx_transfer
  <2> DEFINE f == Head(inbox)
             r == IF f.settled THEN << >> ELSE << Disposition(f.id) >>
  <2>1. OnlyTransfers'
    BY <1>0, <1>3, StagesStay DEF rx_transfer, threadVars, tableVars
  <2>2. /\ Rx({ "TRANSFER" })
        /\ \/ fault' = "null_topic" /\ UNCHANGED << outbox, received >>
           \/ fire_all(r)
        /\ UNCHANGED << net, interrupted, tables, threadVars, peerVars, gui, ui, is_connected >>
    BY <1>3 DEF rx_transfer, tableVars, amqpGuiVars, counterVars
  <2>3. Disposition(f.id) \in Frame /\ Disposition(f.id).type = "DISPOSITION"
    BY <2>2, RxTakes, FrameHas, FrameTyped, FrameFields
  <2>4. r \in Seq(Frame) /\ Named(r) /\ OfTypes(r, UserTypes)
    BY <1>a, <2>3, ChannelOne DEF UserTypes
  <2> HIDE DEF r, f
  <2>5. CASE fault' = "null_topic" /\ UNCHANGED << outbox, received >>
    BY <1>c, <1>d, <2>1, <2>2, <2>5
  <2>6. CASE fire_all(r)
    <3>1. outbox' = outbox \o r /\ fault' = fault
      BY <2>2, <2>6, RxTakes, FireOpen
    <3> QED BY <1>b, <1>d, <2>1, <2>2, <2>4, <3>1
  <2> QED BY <2>2, <2>5, <2>6
<1>4. CASE rx_disposition
  <2>1. /\ Rx({ "DISPOSITION" }) /\ m_handler' = m_handler
        /\ m_delivery_id' \in { m_delivery_id, without_message_delivery_id(Head(inbox).id) }
        /\ UNCHANGED << fault, outbox, net, interrupted, tables, threadVars, peerVars, gui, ui, is_connected >>
    BY <1>4 DEF rx_disposition, amqpGuiVars, counterVars
  <2>2. \A id \in Deliveries : m_delivery_id'[id] \in { m_delivery_id[id], NoFrame }
    BY <2>1 DEF without_message_delivery_id, TypeOK, AmqpTimersTypeOK
  <2>3. OnlyTransfers'
    BY <1>0, <2>1, <2>2 DEF OnlyTransfers, IsTransfer, threadVars
  <2> QED BY <1>c, <1>d, <2>1, <2>3
<1>5. CASE rx_detach
  <2>1. OnlyTransfers'
    BY <1>0, <1>5, StagesStay DEF rx_detach, threadVars
  <2> QED BY <1>c, <1>d, <1>5, <2>1 DEF rx_detach, amqpGuiVars, counterVars
<1>6. CASE rx_close
  <2>1. /\ Rx({ "CLOSE" }) /\ ui' = IF is_connected THEN ui ELSE "accounts"
        /\ is_connected' = FALSE /\ interrupted' = TRUE
        /\ UNCHANGED << fault, net, outbox, tableVars, threadVars, peerVars, gui, next_handle, storeVars >>
    BY <1>6 DEF rx_close, connection_unsuccessful
  <2>2. Alive /\ net = "open" /\ ~interrupted /\ inbox # << >> /\ inbox' = Tail(inbox) /\ Head(inbox).type = "CLOSE"
    BY <2>1, RxTakes
  <2>3. SendersServed' /\ LiveIsServed' /\ OnlyTransfers'
    BY <1>0, <2>1, StagesStay DEF threadVars, tableVars
  <2>4. AttachNamed'
    BY <1>0, <1>a, <2>1, <2>2, ChannelTail DEF AttachNamed
  <2>5. CASE Refused /\ tables # "live"
    <3>1. inbox = << Verdict("OUTCOME", FALSE) >> \/ inbox = << Plain("CLOSE") >>
      BY <2>2, <2>5 DEF Refused
    <3>2. inbox' = << >> /\ ui = "loading"
      <4>1. ui = "loading"
        BY <2>2, <2>5 DEF Refused
      <4> QED BY <2>2, <3>1, <4>1, LoginFrames, Short12
    <3>3. gui # "disc_fire" /\ Refused'
      BY <1>0, <2>1, <2>5, <3>2 DEF Refused, Quiet, LogOutInMain, peerVars, threadVars
    <3>4. LogOutInMain' /\ RoomLeft'
      BY <1>0, <2>1, <3>2, <3>3, StagesStay DEF LogOutInMain, RoomLeft, StoredTopics, storeVars, Alive
    <3> QED BY <2>1, <2>3, <2>4, <2>5, <3>3, <3>4 DEF StageInv, InStage, tableVars
  <2>6. CASE Main /\ tables = "live"
    <3>1. is_connected /\ ui' = ui /\ ui # "loading"
      BY <2>1, <2>2, <2>6 DEF Main
    <3>2. OfTypes(inbox', UserTypes)
      BY <1>a, <2>2, <2>6, ChannelTail DEF Main
    <3>3. Main'
      BY <2>1, <2>6, <3>1, <3>2 DEF Main, peerVars
    <3>4. LogOutInMain' /\ RoomLeft'
      BY <1>0, <2>1, <3>1 DEF LogOutInMain, RoomLeft
    <3> QED BY <2>1, <2>3, <2>4, <2>6, <3>3, <3>4 DEF StageInv, InStage, tableVars
  <2> QED BY <2>2, <2>5, <2>6, RxStage
<1>7. CASE service_task_ends
  <2>1. /\ Alive /\ net' = "down" /\ outbox' = << >> /\ inbox' = << >>
        /\ tables' # "live" /\ EmptyTables /\ hold' = hold
        /\ thread' = [ th \in AmqpThreads |->
                 IF th # "connecter" /\ is_started[th] /\ thread[th] = "running"
                 THEN "ended" ELSE thread[th] ]
        /\ UNCHANGED << gui, ui, next_handle, storeVars >>
    BY <1>7 DEF service_task_ends, amqp_stop_all_timers, amqpGuiVars, counterVars
  <2>2. LogOutInMain' /\ LiveIsServed' /\ InStage'
    BY <1>0, <2>1 DEF LogOutInMain, LiveIsServed, InStage
  <2>3. SendersServed'
    <3>1. \A th \in { "pinger", "messager" } : thread'[th] # "running"
      BY <1>0, <2>1 DEF SendersServed, AmqpThreads
    <3> QED BY <3>1 DEF SendersServed
  <2>4. RoomLeft'
    BY <1>0, <2>1, StagesStay DEF storeVars
  <2>5. OnlyTransfers'
    BY <1>0, <2>1 DEF OnlyTransfers, IsTransfer, EmptyTables, NoTransfers
  <2>6. AttachNamed'
    BY <2>1 DEF AttachNamed, Named
  <2> QED BY <2>2, <2>3, <2>4, <2>5, <2>6 DEF StageInv
<1> QED BY <1>1, <1>2, <1>3, <1>4, <1>5, <1>6, <1>7

\* The steps of the worker keep the stage.
LEMMA WorkerStages ==
  ASSUME TypeOK, StageInv, WorkerStep
  PROVE  StageInv'
BY LoginStages, SessionStages DEF WorkerStep

\* The timers keep the stage.
LEMMA TimerStages ==
  ASSUME TypeOK, StageInv, TimerStep
  PROVE  StageInv'
<1>0. LogOutInMain /\ SendersServed /\ LiveIsServed /\ RoomLeft /\ OnlyTransfers /\ AttachNamed /\ InStage
  BY DEF StageInv
<1>a. outbox \in Seq(Frame) /\ inbox \in Seq(Frame)
  BY DEF TypeOK, AmqpTimersTypeOK
<1>1. CASE Timer(amqp_connect_task)
  <2>1. /\ Alive /\ interrupted' = TRUE
        /\ thread' \in { thread, [ thread EXCEPT !["connecter"] = "ended" ] }
        /\ is_started' = [ is_started EXCEPT !["connecter"] = FALSE ]
        /\ UNCHANGED << fault, net, outbox, inbox, tableVars, hold, pConn, pSub, pPub, gui, ui,
                        next_handle, is_connected, rows >>
    BY <1>1 DEF Timer, amqp_connect_task, restOfClient, peerVars, amqpGuiVars, counterVars, storeVars
  <2>2. /\ thread'["pinger"] = thread["pinger"] /\ thread'["messager"] = thread["messager"]
        /\ is_started'["pinger"] = is_started["pinger"] /\ is_started'["messager"] = is_started["messager"]
    BY <2>1 DEF TypeOK, AmqpTimersTypeOK, AmqpThreads
  <2>3. LogOutInMain' /\ LiveIsServed' /\ RoomLeft' /\ OnlyTransfers' /\ AttachNamed'
    BY <1>0, <2>1, StagesStay DEF tableVars
  <2>4. SendersServed'
    BY <1>0, <2>1, <2>2 DEF SendersServed
  <2>5. InStage'
    <3>1. ASSUME Alive', net' = "open"
          PROVE  IF tables' = "live" THEN (Opened \/ Begun \/ Main)' ELSE (Handshake \/ Refused)'
      <4>1. IF tables = "live" THEN Opened \/ Begun \/ Main ELSE Handshake \/ Refused
        BY <1>0, <2>1, <3>1 DEF InStage
      <4>2. tables' = tables
        BY <2>1 DEF tableVars
      <4>3. Opened => Opened'
        BY <2>1, <2>2 DEF Opened, NoMessager
      <4>4. Begun => Begun'
        BY <2>1, <2>2 DEF Begun, NoMessager
      <4>5. Main => Main'
        BY <2>1, <2>2 DEF Main
      <4>6. Handshake => Handshake'
        BY <2>1, <2>2 DEF Handshake, Quiet
      <4>7. Refused => Refused'
        BY <2>1, <2>2 DEF Refused, Quiet
      <4> QED BY <4>1, <4>2, <4>3, <4>4, <4>5, <4>6, <4>7
    <3> QED BY <3>1 DEF InStage
  <2> QED BY <2>3, <2>4, <2>5 DEF StageInv
<1>2. CASE Timer(amqp_ping_task)
  <2>1. /\ Alive /\ thread["pinger"] = "running" /\ outbox = << >> /\ fire_all(<< Plain("PING") >>)
        /\ UNCHANGED << net, interrupted, inbox, tableVars, threadVars, pConn, pSub, pPub, gui, ui,
                        next_handle, is_connected, rows >>
    BY <1>2
    DEF Timer, amqp_ping_task, amqp_encode_and_fire, restOfClient, peerVars, amqpGuiVars, counterVars, storeVars
  <2>2. net = "open"
    BY <1>0, <2>1 DEF SendersServed
  <2>3. (Begun \/ Main) /\ tables = "live"
    BY <2>1, <2>2, MainStage DEF Opened
  <2>4. Plain("PING") \in Frame /\ Plain("PING").type = "PING"
    BY LoginFrames, LoginTypes
  <2>5. outbox' = << Plain("PING") >> /\ fault' = fault
    BY <2>1, <2>2, <2>4, FireOpen, Short12
  <2>6. /\ OfTypes(outbox', { "PING" }) /\ OfTypes(outbox', UserTypes \cup { "PING" }) /\ Named(outbox')
    BY <2>4, <2>5, ChannelOne
  <2>7. LogOutInMain' /\ SendersServed' /\ LiveIsServed' /\ RoomLeft' /\ OnlyTransfers'
    BY <1>0, <2>1, <2>5, StagesStay DEF threadVars, tableVars
  <2>8. Begun => Begun'
    BY <2>1, <2>6 DEF Begun, NoMessager, threadVars
  <2>9. Main => Main'
    BY <2>1, <2>6 DEF Main
  <2> QED BY <1>0, <2>1, <2>3, <2>6, <2>7, <2>8, <2>9 DEF StageInv, AttachNamed, InStage, tableVars
<1>3. ASSUME NEW id \in Deliveries, Timer(amqp_message_resend_task(id)) PROVE StageInv'
  <2>1. /\ thread["messager"] = "running" /\ hold' = m_delivery_id[id] /\ Alive
        /\ UNCHANGED << fault, amqpNetVars, tableVars, thread, is_started, pConn, pSub, pPub, gui, ui,
                        next_handle, is_connected, rows >>
    BY <1>3 DEF Timer, amqp_message_resend_task, restOfClient, peerVars, amqpGuiVars, counterVars, storeVars
  <2>2. net = "open"
    BY <1>0, <2>1 DEF SendersServed
  <2>3. Main /\ tables = "live"
    BY <2>1, <2>2, MainStage
  <2>4. LogOutInMain' /\ SendersServed' /\ LiveIsServed' /\ RoomLeft' /\ AttachNamed'
    BY <1>0, <2>1, StagesStay DEF amqpNetVars, tableVars
  <2>5. OnlyTransfers'
    BY <1>0, <2>1 DEF OnlyTransfers, tableVars
  <2>6. Main' /\ tables' = "live"
    BY <2>1, <2>3 DEF Main, amqpNetVars, tableVars
  <2> QED BY <2>4, <2>5, <2>6 DEF StageInv, InStage
<1>4. CASE Timer(amqp_message_resend_fire)
  <2>1. /\ Alive /\ hold # NoFrame /\ hold' = NoFrame /\ fire_all(<< hold >>)
        /\ UNCHANGED << net, interrupted, inbox, tableVars, thread, is_started, pConn, pSub, pPub, gui, ui,
                        next_handle, is_connected, rows >>
    BY <1>4
    DEF Timer, amqp_message_resend_fire, amqp_encode_and_fire, restOfClient, peerVars, amqpGuiVars,
        counterVars, storeVars
  <2>2. LogOutInMain' /\ SendersServed' /\ LiveIsServed' /\ RoomLeft'
    BY <1>0, <2>1, StagesStay, FireServed DEF tableVars
  <2>3. OnlyTransfers'
    BY <1>0, <2>1 DEF OnlyTransfers, IsTransfer, tableVars
  <2>4. CASE net # "open"
    <3>1. outbox' = outbox /\ ~Alive'
      BY <2>1, <2>4, FireDead
    <3> QED BY <1>0, <2>1, <2>2, <2>3, <3>1, StagesStay DEF StageInv, InStage
  <2>5. CASE net = "open"
    <3>1. Main /\ tables = "live"
      BY <2>1, <2>5, MainStage
    <3>2. outbox' = outbox \o << hold >>
      BY <2>1, <2>5, FireOpen
    <3>3. hold \in Frame /\ hold.type = "TRANSFER"
      BY <1>0, <2>1 DEF TypeOK, AmqpTimersTypeOK, OnlyTransfers, IsTransfer
    <3>4. OfTypes(outbox', UserTypes \cup { "PING" }) /\ AttachNamed'
      BY <1>0, <1>a, <2>1, <3>1, <3>2, <3>3, ChannelAdded DEF Main, AttachNamed, UserTypes
    <3>5. Main' /\ tables' = "live"
      BY <2>1, <3>1, <3>4 DEF Main, tableVars
    <3> QED BY <2>2, <2>3, <3>4, <3>5 DEF StageInv, InStage
  <2> QED BY <2>4, <2>5
<1> QED BY <1>1, <1>2, <1>3, <1>4 DEF TimerStep

\* The peer keeps the stage.
LEMMA PeerStages ==
  ASSUME TypeOK, StageInv, PeerStep
  PROVE  StageInv'
<1>0. LogOutInMain /\ SendersServed /\ LiveIsServed /\ RoomLeft /\ OnlyTransfers /\ AttachNamed /\ InStage
  BY DEF StageInv
<1>a. outbox \in Seq(Frame) /\ inbox \in Seq(Frame)
  BY DEF TypeOK, AmqpTimersTypeOK
<1>b. ASSUME NEW A, Peer(A)
      PROVE  /\ Alive
             /\ UNCHANGED << fault, net, interrupted, tables, thread, hold, gui, ui, is_connected >>
             /\ LogOutInMain' /\ SendersServed' /\ LiveIsServed' /\ RoomLeft' /\ OnlyTransfers'
  <2>1. Alive /\ UNCHANGED << fault, net, interrupted, tableVars, threadVars, gui, ui, next_handle, is_connected, rows >>
    BY <1>b DEF Peer, restOfClient, amqpGuiVars, counterVars, storeVars
  <2>2. LogOutInMain' /\ SendersServed' /\ LiveIsServed' /\ RoomLeft' /\ OnlyTransfers'
    BY <1>0, <2>1, StagesStay DEF threadVars, tableVars
  <2> QED BY <2>1, <2>2 DEF threadVars, tableVars
<1>c. ASSUME NEW A, Peer(A), AttachNamed', net = "open",
             IF tables = "live" THEN Opened' \/ Begun' \/ Main' ELSE Handshake' \/ Refused'
      PROVE  StageInv'
  BY <1>b, <1>c DEF StageInv, InStage
\* the answers to the frames of the main window
<1>d. ASSUME NEW A, Peer(A), NEW type \in UserTypes, Read(type),
             pConn' = pConn \/ pConn' = "ended",
             inbox' = inbox \/ \E f \in Frame : /\ inbox' = inbox \o << f >> /\ f.type \in UserTypes
                                                /\ f.type = "ATTACH" => f.topic \in Topics
      PROVE  StageInv'
  <2>1. net = "open" /\ outbox # << >> /\ outbox' = Tail(outbox) /\ Head(outbox).type = type
    BY <1>d, ReadTakes
  <2>2. Main /\ tables = "live"
    BY <1>b, <1>d, <2>1, ReadStage
  <2>3. OfTypes(outbox', UserTypes \cup { "PING" }) /\ Named(outbox')
    BY <1>0, <1>a, <2>1, <2>2, ChannelTail DEF Main, AttachNamed
  <2>4. OfTypes(inbox', UserTypes) /\ Named(inbox')
    BY <1>0, <1>a, <1>d, <2>2, ChannelAdded DEF Main, AttachNamed
  <2>5. Main'
    BY <1>b, <1>d, <2>2, <2>3, <2>4 DEF Main
  <2> QED BY <1>c, <1>d, <2>1, <2>2, <2>3, <2>4, <2>5 DEF AttachNamed
\* the peer's own link
<1>e. ASSUME NEW A, Peer(A), net = "open", pConn = "begun", pConn' = pConn, outbox' = outbox,
             NEW f \in Frame, inbox' = inbox \o << f >>, f.type \in { "ATTACH", "TRANSFER" },
             f.type = "ATTACH" => f.topic \in Topics
      PROVE  StageInv'
  <2>1. (Begun \/ Main) /\ tables = "live"
    BY <1>b, <1>e, MainStage
  <2>2. AttachNamed'
    BY <1>0, <1>a, <1>e, ChannelAdded DEF AttachNamed
  <2>3. CASE Begun
    <3>1. inbox' # << >> /\ Head(inbox') = Head(inbox) /\ Tail(inbox') = Tail(inbox) \o << f >>
      BY <1>a, <1>e, <2>3, ChannelAdded DEF Begun
    <3>2. Tail(inbox) \in Seq(Frame)
      BY <1>a, <2>3, Taken DEF Begun
    <3>3. OfTypes(Tail(inbox'), { "ATTACH", "TRANSFER" })
      <4>1. OfTypes(Tail(inbox), { "ATTACH", "TRANSFER" })
        BY <2>3 DEF Begun
      <4>2. OfTypes(Tail(inbox) \o << f >>, { "ATTACH", "TRANSFER" })
        BY <1>e, <3>2, <4>1, ChannelAdded
      <4> QED BY <3>1, <4>2
    <3>4. Begun'
      BY <1>b, <1>e, <2>3, <3>1, <3>3 DEF Begun, NoMessager
    <3> QED BY <1>c, <1>e, <2>1, <2>2, <3>4
  <2>4. CASE Main
    <3>1. OfTypes(inbox', UserTypes)
      BY <1>a, <1>e, <2>4, ChannelAdded DEF Main, UserTypes
    <3>2. Main'
      BY <1>b, <1>e, <2>4, <3>1 DEF Main
    <3> QED BY <1>c, <1>e, <2>1, <2>2, <3>2
  <2> QED BY <2>1, <2>3, <2>4
<1>1. ASSUME Peer(ReadLogIn) PROVE StageInv'
  <2>0. ReadLogIn /\ pSub' = pSub /\ pPub' = pPub
    BY <1>1 DEF Peer, ReadLogIn
  <2>1. CASE Read("BEGIN") /\ Reply(<< Plain("BEGIN") >>) /\ pConn' = "begun"
    <3>1. net = "open" /\ outbox # << >> /\ outbox' = Tail(outbox) /\ Head(outbox).type = "BEGIN"
      BY <2>1, ReadTakes
    <3>2. Opened /\ tables = "live"
      BY <1>b, <1>1, <3>1, ReadStage
    <3>3. outbox' = << >> /\ inbox' = << >> \o << Plain("BEGIN") >>
      BY <2>1, <3>1, <3>2, LoginFrames, Short12 DEF Opened, Reply
    <3>4. inbox' = << Plain("BEGIN") >> /\ inbox' # << >> /\ Head(inbox') = Plain("BEGIN") /\ Tail(inbox') = << >>
      BY <3>3, LoginFrames, Short12
    <3>5. Begun'
      BY <1>b, <1>1, <2>1, <3>2, <3>3, <3>4 DEF Begun, Opened, NoMessager, OfTypes
    <3>6. AttachNamed'
      BY <3>3, <3>4, LoginFrames, LoginTypes, ChannelOne DEF AttachNamed
    <3> QED BY <1>c, <1>1, <3>1, <3>2, <3>5, <3>6
  <2>2. CASE \E type \in { "PROTO", "INIT", "OPEN" } : Read(type) /\ pConn' = pConn
               /\ Reply(IF type = "PROTO"
                        THEN IF Head(outbox).ok THEN << Verdict("PROTO", TRUE) >>
                             ELSE << Verdict("PROTO", FALSE), Plain("MECHANISMS") >>
                        ELSE IF type = "INIT" THEN << Verdict("OUTCOME", TRUE) >> ELSE << Plain("OPEN") >>)
    <3>1. PICK type \in { "PROTO", "INIT", "OPEN" } : Read(type) /\ pConn' = pConn
               /\ Reply(IF type = "PROTO"
                        THEN IF Head(outbox).ok THEN << Verdict("PROTO", TRUE) >>
                             ELSE << Verdict("PROTO", FALSE), Plain("MECHANISMS") >>
                        ELSE IF type = "INIT" THEN << Verdict("OUTCOME", TRUE) >> ELSE << Plain("OPEN") >>)
      BY <2>2
    <3>2. net = "open" /\ outbox # << >> /\ outbox' = Tail(outbox) /\ Head(outbox).type = type
      BY <3>1, ReadTakes
    <3>3. Handshake /\ << outbox, inbox >> \in Exchange /\ tables # "live"
      BY <1>b, <1>1, <3>2, ReadStage
    <3>4. inbox = << >> /\ outbox' = << >>
      BY <3>2, <3>3, ExchangeHeads
    <3>5. \E r \in { << Verdict("PROTO", TRUE) >>, << Verdict("PROTO", FALSE), Plain("MECHANISMS") >>,
                     << Verdict("OUTCOME", TRUE) >>, << Plain("OPEN") >> } : inbox' = << >> \o r
      BY <3>1, <3>4 DEF Reply
    <3>6. /\ << >> \o << Verdict("PROTO", TRUE) >> = << Verdict("PROTO", TRUE) >>
          /\ << >> \o << Verdict("PROTO", FALSE), Plain("MECHANISMS") >> = << Verdict("PROTO", FALSE), Plain("MECHANISMS") >>
          /\ << >> \o << Verdict("OUTCOME", TRUE) >> = << Verdict("OUTCOME", TRUE) >>
          /\ << >> \o << Plain("OPEN") >> = << Plain("OPEN") >>
      BY LoginFrames, Short12
    <3>7. << outbox', inbox' >> \in Exchange
      BY <3>4, <3>5, <3>6 DEF Exchange
    <3>8. AttachNamed'
      <4>1. Named(<< Verdict("PROTO", TRUE) >>) /\ Named(<< Verdict("OUTCOME", TRUE) >>) /\ Named(<< Plain("OPEN") >>)
        BY LoginFrames, LoginTypes, ChannelOne
      <4>2. Named(<< Verdict("PROTO", FALSE), Plain("MECHANISMS") >>)
        <5> DEFINE s == << Verdict("PROTO", FALSE), Plain("MECHANISMS") >>
        <5>1. Len(s) = 2 /\ s[1] = Verdict("PROTO", FALSE) /\ s[2] = Plain("MECHANISMS")
          OBVIOUS
        <5> HIDE DEF s
        <5>2. \A k \in 1 .. Len(s) : s[k].type # "ATTACH"
          <6>1. s[1].type = "PROTO" /\ s[2].type = "MECHANISMS"
            BY <5>1, LoginTypes
          <6>2. \A k \in 1 .. Len(s) : k = 1 \/ k = 2
            BY <5>1
          <6> QED BY <6>1, <6>2
        <5>3. Named(s)
          BY <5>2 DEF Named
        <5> QED BY <5>3 DEF s
      <4>3. Named(<< >>)
        BY DEF Named
      <4> QED BY <3>4, <3>5, <3>6, <4>1, <4>2, <4>3 DEF AttachNamed
    <3>9. Handshake'
      BY <1>b, <1>1, <2>0, <3>1, <3>2, <3>3, <3>4, <3>7 DEF Handshake, Quiet
    <3> QED BY <1>c, <1>1, <3>2, <3>3, <3>8, <3>9
  <2> QED BY <2>0, <2>1, <2>2 DEF ReadLogIn
<1>2. ASSUME Peer(RefuseLogIn) PROVE StageInv'
  <2>1. PICK type \in { "INIT", "OPEN" } :
          Read(type) /\ \E f \in { Verdict("OUTCOME", FALSE), Plain("CLOSE") } : Reply(<< f >>)
    BY <1>2 DEF Peer, RefuseLogIn
  <2>2. PICK f \in { Verdict("OUTCOME", FALSE), Plain("CLOSE") } : Reply(<< f >>)
    BY <2>1
  <2>3. net = "open" /\ outbox # << >> /\ outbox' = Tail(outbox) /\ Head(outbox).type = type
    BY <2>1, ReadTakes
  <2>4. Handshake /\ << outbox, inbox >> \in Exchange /\ tables # "live"
    BY <1>b, <1>2, <2>3, ReadStage
  <2>5. f \in Frame /\ f.type # "ATTACH"
    BY <2>2, LoginFrames, LoginTypes
  <2>6. outbox' = << >> /\ inbox' = << >> \o << f >>
    BY <2>2, <2>3, <2>4, ExchangeHeads DEF Reply
  <2>7. inbox' = << f >>
    BY <2>5, <2>6, Short12
  <2>8. pConn' = "refused" /\ gui # "conn_fire"
    BY <1>2, <2>3, <2>4 DEF Peer, RefuseLogIn, Handshake
  <2>9. Refused'
    <3>1. f = Verdict("OUTCOME", FALSE) \/ f = Plain("CLOSE")
      BY <2>2
    <3> QED BY <1>b, <1>2, <2>4, <2>6, <2>7, <2>8, <3>1 DEF Refused, Handshake, Quiet
  <2>10. AttachNamed'
    BY <2>5, <2>6, <2>7, ChannelOne DEF AttachNamed
  <2> QED BY <1>c, <1>2, <2>3, <2>4, <2>9, <2>10
<1>3. ASSUME Peer(ReadAttach) PROVE StageInv'
  <2> DEFINE f == Head(outbox)
  <2>1. Read("ATTACH") /\ pConn' = pConn
        /\ \/ Reply(<< Attach("SENDER", f.handle, f.topic) >>)
           \/ Reply(<< Attach("RECEIVER", f.handle, f.topic) >>)
    BY <1>3 DEF Peer, ReadAttach
  <2>2. f \in Frame /\ f.type = "ATTACH" /\ f = outbox[1] /\ 1 \in 1 .. Len(outbox)
    BY <2>1, ReadTakes
  <2>3. f.topic \in Topics /\ f.handle \in Handles
    BY <1>0, <2>2, FrameHas DEF AttachNamed, Named
  <2>4. \A role \in { "SENDER", "RECEIVER" } :
          Attach(role, f.handle, f.topic) \in Frame /\ Attach(role, f.handle, f.topic).type = "ATTACH"
          /\ Attach(role, f.handle, f.topic).topic \in Topics
    BY <2>3, FrameTyped, FrameFields
  <2> HIDE DEF f
  <2>5. \E g \in Frame : inbox' = inbox \o << g >> /\ g.type \in UserTypes /\ g.topic \in Topics
    BY <2>1, <2>4 DEF Reply, UserTypes
  <2>6. "ATTACH" \in UserTypes
    BY DEF UserTypes
  <2> QED BY <1>d, <1>3, <2>1, <2>5, <2>6
<1>4. ASSUME Peer(ReadDetach) PROVE StageInv'
  <2>1. Read("DETACH") /\ pConn' = pConn /\ Reply(<< Detach(Head(outbox).handle) >>)
    BY <1>4 DEF Peer, ReadDetach
  <2>2. Detach(Head(outbox).handle) \in Frame /\ Detach(Head(outbox).handle).type = "DETACH"
    BY <2>1, ReadTakes, FrameHas, FrameTyped, FrameFields
  <2>3. \E g \in Frame : inbox' = inbox \o << g >> /\ g.type \in UserTypes /\ g.type # "ATTACH"
    BY <2>1, <2>2 DEF Reply, UserTypes
  <2>4. "DETACH" \in UserTypes
    BY DEF UserTypes
  <2> QED BY <1>d, <1>4, <2>1, <2>3, <2>4
<1>5. ASSUME Peer(ReadTransfer) PROVE StageInv'
  <2>1. Read("TRANSFER") /\ pConn' = pConn
        /\ (inbox' = inbox \/ Reply(<< Disposition(Head(outbox).id) >>))
    BY <1>5 DEF Peer, ReadTransfer
  <2>2. Disposition(Head(outbox).id) \in Frame /\ Disposition(Head(outbox).id).type = "DISPOSITION"
    BY <2>1, ReadTakes, FrameHas, FrameTyped, FrameFields
  <2>3. inbox' = inbox \/ \E g \in Frame : inbox' = inbox \o << g >> /\ g.type \in UserTypes /\ g.type # "ATTACH"
    BY <2>1, <2>2 DEF Reply, UserTypes
  <2>4. "TRANSFER" \in UserTypes
    BY DEF UserTypes
  <2> QED BY <1>d, <1>5, <2>1, <2>3, <2>4
<1>6. ASSUME Peer(ReadDisposition) PROVE StageInv'
  <2>1. Read("DISPOSITION") /\ pConn' = pConn /\ inbox' = inbox /\ "DISPOSITION" \in UserTypes
    BY <1>6 DEF Peer, ReadDisposition, UserTypes
  <2> QED BY <1>d, <1>6, <2>1
<1>7. ASSUME Peer(ReadPing) PROVE StageInv'
  <2>1. Read("PING") /\ inbox' = inbox /\ pConn' = pConn /\ pSub' = pSub /\ pPub' = pPub
    BY <1>7 DEF Peer, ReadPing, peerVars
  <2>2. net = "open" /\ outbox # << >> /\ outbox' = Tail(outbox) /\ Head(outbox).type = "PING"
    BY <2>1, ReadTakes
  <2>3. (Begun \/ Main) /\ tables = "live"
    BY <1>b, <1>7, <2>2, ReadStage
  <2>4. AttachNamed'
    BY <1>0, <1>a, <2>1, <2>2, ChannelTail DEF AttachNamed
  <2>5. CASE Begun
    <3>1. OfTypes(outbox', { "PING" })
      BY <1>a, <2>2, <2>5, ChannelTail DEF Begun
    <3>2. Begun'
      BY <1>b, <1>7, <2>1, <2>5, <3>1 DEF Begun, NoMessager
    <3> QED BY <1>c, <1>7, <2>2, <2>3, <2>4, <3>2
  <2>6. CASE Main
    <3>1. OfTypes(outbox', UserTypes \cup { "PING" })
      BY <1>a, <2>2, <2>6, ChannelTail DEF Main
    <3>2. Main'
      BY <1>b, <1>7, <2>1, <2>6, <3>1 DEF Main
    <3> QED BY <1>c, <1>7, <2>2, <2>3, <2>4, <3>2
  <2> QED BY <2>3, <2>5, <2>6
<1>8. ASSUME Peer(ReadEnd) PROVE StageInv'
  <2>1. PICK type \in { "END", "CLOSE" } : Read(type) /\ Reply(<< Plain(type) >>)
    BY <1>8 DEF Peer, ReadEnd
  <2>2. Plain(type) \in Frame /\ Plain(type).type = type /\ type \in UserTypes
    BY <2>1, LoginFrames, LoginTypes DEF UserTypes
  <2>3. pConn' = "ended"
    BY <1>8 DEF Peer, ReadEnd
  <2>4. \E g \in Frame : inbox' = inbox \o << g >> /\ g.type \in UserTypes /\ g.type # "ATTACH"
    BY <2>1, <2>2 DEF Reply
  <2> QED BY <1>d, <1>8, <2>1, <2>2, <2>3, <2>4
<1>9. ASSUME NEW t \in Topics, Peer(PeerAttaches(t)) PROVE StageInv'
  <2>1. /\ Attach("SENDER", ServerHandle, t) \in Frame /\ Attach("SENDER", ServerHandle, t).type = "ATTACH"
        /\ Attach("SENDER", ServerHandle, t).topic = t
    BY FrameTyped, ShortIsSame, FrameFields
  <2>2. net = "open" /\ pConn = "begun" /\ pConn' = pConn /\ outbox' = outbox
        /\ inbox' = inbox \o << Attach("SENDER", ServerHandle, t) >>
    BY <1>9 DEF Peer, PeerAttaches, Reply
  <2> QED BY <1>e, <1>9, <2>1, <2>2
<1>10. ASSUME NEW i \in AmqpIncoming, NEW h \in Handles, Peer(PeerTransfers(i, h)) PROVE StageInv'
  <2>1. PICK s \in BOOLEAN : Reply(<< Transfer(h, i, s, i) >>)
    BY <1>10 DEF Peer, PeerTransfers
  <2>2. i \in Deliveries
    BY AmqpPeerBounds
  <2>3. Transfer(h, i, s, i) \in Frame /\ Transfer(h, i, s, i).type = "TRANSFER"
    BY <2>2, FrameTyped, FrameFields
  <2>4. net = "open" /\ pConn = "begun" /\ pConn' = pConn /\ outbox' = outbox
        /\ inbox' = inbox \o << Transfer(h, i, s, i) >>
    BY <1>10, <2>1 DEF Peer, PeerTransfers, Reply
  <2> QED BY <1>e, <1>10, <2>3, <2>4
<1>11. ASSUME Peer(PeerCloses) PROVE StageInv'
  <2>1. net = "open" /\ pConn' = "closed" /\ UNCHANGED << outbox, inbox, pSub, pPub >>
        /\ pConn \in { "sasl", "begun", "refused" }
    BY <1>11 DEF Peer, PeerCloses
  <2>2. AttachNamed'
    BY <1>0, <2>1, StagesStay
  <2>3. IF tables = "live" THEN Opened \/ Begun \/ Main ELSE Handshake \/ Refused
    BY <1>0, <1>b, <1>11, <2>1 DEF InStage
  <2>4. (Opened => Opened') /\ (Begun => Begun') /\ (Main => Main')
    <3>1. Opened => Opened'
      BY <1>b, <1>11, <2>1 DEF Opened, NoMessager
    <3>2. Begun => Begun'
      BY <1>b, <1>11, <2>1 DEF Begun, NoMessager
    <3>3. Main => Main'
      BY <1>b, <1>11, <2>1 DEF Main
    <3> QED BY <3>1, <3>2, <3>3
  <2>5. Handshake => Handshake'
    BY <1>b, <1>11, <2>1 DEF Handshake, Quiet
  <2>6. Refused => Refused'
    BY <1>b, <1>11, <2>1 DEF Refused, Quiet
  <2>7. IF tables = "live" THEN Opened' \/ Begun' \/ Main' ELSE Handshake' \/ Refused'
    <3>1. CASE tables = "live"
      BY <2>3, <2>4, <3>1
    <3>2. CASE tables # "live"
      BY <2>3, <2>5, <2>6, <3>2
    <3> QED BY <3>1, <3>2
  <2> QED BY <1>c, <1>11, <2>1, <2>2, <2>7
<1> QED
  BY <1>1, <1>2, <1>3, <1>4, <1>5, <1>6, <1>7, <1>8, <1>9, <1>10, <1>11
  DEF PeerStep, PeerReads, Peer

-----------------------------------------------------------------------------
(* Types and stages are invariant.                                         *)

\* A step that changes nothing.
LEMMA StuttersStages == TypeOK /\ StageInv /\ UNCHANGED vars => TypeOK' /\ StageInv'
<1> SUFFICES ASSUME TypeOK, StageInv, UNCHANGED vars PROVE TypeOK' /\ StageInv'
  OBVIOUS
<1>1. UNCHANGED << fault, amqpNetVars, tableVars, threadVars, peerVars, amqpGuiVars, counterVars, storeVars >>
  BY DEF vars
<1>2. TypeOK'
  BY <1>1, TypeParts, TypePartsNext, TypesStay DEF amqpGuiVars
<1>3. LogOutInMain' /\ SendersServed' /\ LiveIsServed' /\ OnlyTransfers' /\ AttachNamed'
  BY <1>1, StagesStay DEF StageInv, amqpNetVars, tableVars, threadVars, amqpGuiVars
<1>4. RoomLeft'
  BY <1>1 DEF StageInv, RoomLeft, StoredTopics, Alive, amqpGuiVars, counterVars, storeVars
<1>5. InStage'
  BY <1>1
  DEF StageInv, InStage, Opened, Begun, Main, Handshake, Refused, Quiet, NoMessager, Alive,
      amqpNetVars, tableVars, threadVars, peerVars, amqpGuiVars, counterVars
<1> QED BY <1>2, <1>3, <1>4, <1>5 DEF StageInv

THEOREM AmqpStagesHold == Spec => [](TypeOK /\ StageInv)
<1>1. Init => TypeOK /\ StageInv
  BY InitTypes, InitStages
<1>2. TypeOK /\ StageInv /\ [Next]_vars => TypeOK' /\ StageInv'
  <2>1. TypeOK /\ StageInv /\ Next => TypeOK'
    BY UserTypes1, GuiTypes, WorkerTypes, TimerTypes, PeerTypes DEF Next
  <2>2. TypeOK /\ StageInv /\ Next => StageInv'
    BY UserStages, GuiStages, WorkerStages, TimerStages, PeerStages DEF Next
  <2> QED BY <2>1, <2>2, StuttersStages
<1> QED BY <1>1, <1>2, PTL DEF Spec

\* Every variable has its type.
THEOREM AmqpTypesHold == Spec => []TypeOK
BY AmqpStagesHold, PTL

\* A log in never stalls: in every stage before the main window a frame is on its
\* way, or the peer has refused and the client has heard of it.
THEOREM LoginNeverStallsHolds == Spec => []LoginNeverStalls
<1>1. TypeOK /\ StageInv => LoginNeverStalls
  <2> SUFFICES ASSUME TypeOK, StageInv, ui = "loading", gui \in { "conn_timer", "idle" }, net = "open",
                      Alive, ~interrupted, pConn # "closed"
               PROVE  inbox # << >> \/ \E k \in 1 .. Len(outbox) : outbox[k].type # "PING"
    BY DEF LoginNeverStalls
  <2>1. CASE Handshake /\ tables # "live"
    <3>1. << outbox, inbox >> \in Exchange
      BY <2>1 DEF Handshake
    <3>2. CASE inbox = << >>
      <4>1. outbox # << >> /\ Len(outbox) = 1 /\ outbox = << Head(outbox) >>
            /\ Head(outbox) \in { Verdict("PROTO", FALSE), Verdict("PROTO", TRUE), Plain("INIT"), Plain("OPEN") }
        BY <3>1, <3>2, ExchangeHeads
      <4>2. Head(outbox) \in Frame /\ Head(outbox).type # "PING"
        BY <4>1, LoginFrames, LoginTypes
      <4>3. outbox[1] = Head(outbox)
        BY <4>1, <4>2, Taken DEF TypeOK, AmqpTimersTypeOK
      <4>4. 1 \in 1 .. Len(outbox)
        BY <4>1
      <4> QED BY <4>2, <4>3, <4>4
    <3> QED BY <3>2
  <2>2. CASE Refused /\ tables # "live"
    <3>1. inbox \in { << Verdict("OUTCOME", FALSE) >>, << Plain("CLOSE") >> }
      BY <2>2 DEF Refused
    <3> QED BY <3>1, LoginFrames, Short12
  <2>3. CASE Opened
    <3>1. outbox = << Plain("BEGIN") >>
      BY <2>3 DEF Opened
    <3>2. outbox[1].type = "BEGIN" /\ 1 \in 1 .. Len(outbox)
      BY <3>1, LoginFrames, LoginTypes, Short12
    <3> QED BY <3>2
  <2>4. CASE Begun
    BY <2>4 DEF Begun
  <2>5. CASE Main
    BY <2>5 DEF Main
  <2> QED BY <2>1, <2>2, <2>3, <2>4, <2>5 DEF StageInv, InStage
<1> QED BY <1>1, AmqpStagesHold, PTL

-----------------------------------------------------------------------------
(* The frames of a channel.                                                *)

\* Which frames a channel has when one is taken or some are added.
LEMMA FramesOf ==
  ASSUME NEW s \in Seq(Frame)
  PROVE  /\ ToSet(s) \subseteq Frame /\ Len(s) \in Nat
         /\ \A k \in 1 .. Len(s) : s[k] \in ToSet(s)
         /\ \A f \in ToSet(s) : \E k \in 1 .. Len(s) : s[k] = f
         /\ s # << >> => Head(s) \in ToSet(s) /\ ToSet(Tail(s)) \subseteq ToSet(s)
                         /\ \A f \in ToSet(s) : f = Head(s) \/ f \in ToSet(Tail(s))
         /\ ToSet(<< >>) = {}
<1>1. DOMAIN s = 1 .. Len(s) /\ Len(s) \in Nat
  OBVIOUS
<1>2. ToSet(s) \subseteq Frame
  BY DEF ToSet
<1>3. /\ \A k \in 1 .. Len(s) : s[k] \in ToSet(s)
      /\ \A f \in ToSet(s) : \E k \in 1 .. Len(s) : s[k] = f
  BY <1>1 DEF ToSet
<1>4. ASSUME s # << >>
      PROVE  Head(s) \in ToSet(s) /\ ToSet(Tail(s)) \subseteq ToSet(s)
             /\ \A f \in ToSet(s) : f = Head(s) \/ f \in ToSet(Tail(s))
  <2>1. /\ Tail(s) \in Seq(Frame) /\ Len(Tail(s)) = Len(s) - 1
        /\ Head(s) = s[1] /\ Len(s) \in Nat /\ Len(s) >= 1
        /\ \A k \in 1 .. Len(s) - 1 : Tail(s)[k] = s[k + 1]
    BY <1>4, Taken
  <2>2. Head(s) \in ToSet(s)
    BY <1>3, <2>1
  <2>3. DOMAIN Tail(s) = 1 .. Len(s) - 1
    BY <2>1
  <2>4. ASSUME NEW f \in ToSet(Tail(s)) PROVE f \in ToSet(s)
    <3>1. PICK k \in 1 .. Len(s) - 1 : Tail(s)[k] = f
      BY <2>3, <2>4 DEF ToSet
    <3>2. k + 1 \in 1 .. Len(s) /\ s[k + 1] = f
      BY <2>1, <3>1
    <3> QED BY <1>3, <3>2
  <2>5. ASSUME NEW f \in ToSet(s), f # Head(s) PROVE f \in ToSet(Tail(s))
    <3>1. PICK k \in 1 .. Len(s) : s[k] = f
      BY <1>3, <2>5
    <3>2. k # 1
      BY <2>1, <2>5, <3>1
    <3>3. k - 1 \in 1 .. Len(s) - 1 /\ (k - 1) + 1 = k
      BY <1>1, <3>1, <3>2
    <3>4. Tail(s)[k - 1] = f
      BY <2>1, <3>1, <3>3
    <3> QED BY <2>3, <3>3, <3>4 DEF ToSet
  <2> QED BY <2>2, <2>4, <2>5
<1>5. ToSet(<< >>) = {}
  BY DEF ToSet
<1> QED BY <1>1, <1>2, <1>3, <1>4, <1>5

LEMMA FramesJoined ==
  ASSUME NEW s \in Seq(Frame), NEW r \in Seq(Frame)
  PROVE  ToSet(s \o r) = ToSet(s) \cup ToSet(r)
<1>1. /\ s \o r \in Seq(Frame) /\ Len(s \o r) = Len(s) + Len(r)
      /\ Len(s) \in Nat /\ Len(r) \in Nat
      /\ \A k \in 1 .. Len(s) : (s \o r)[k] = s[k]
      /\ \A k \in 1 .. Len(r) : (s \o r)[Len(s) + k] = r[k]
  BY Joined
<1>2. ASSUME NEW f \in ToSet(s) \cup ToSet(r) PROVE f \in ToSet(s \o r)
  <2>1. CASE f \in ToSet(s)
    <3>1. PICK k \in 1 .. Len(s) : s[k] = f
      BY <2>1, FramesOf
    <3>2. k \in 1 .. Len(s \o r) /\ (s \o r)[k] = f
      BY <1>1, <3>1
    <3> QED BY <1>1, <3>2, FramesOf
  <2>2. CASE f \in ToSet(r)
    <3>1. PICK k \in 1 .. Len(r) : r[k] = f
      BY <2>2, FramesOf
    <3>2. Len(s) + k \in 1 .. Len(s \o r) /\ (s \o r)[Len(s) + k] = f
      BY <1>1, <3>1
    <3> QED BY <1>1, <3>2, FramesOf
  <2> QED BY <1>2, <2>1, <2>2
<1>3. ASSUME NEW f \in ToSet(s \o r) PROVE f \in ToSet(s) \cup ToSet(r)
  <2>1. PICK k \in 1 .. Len(s \o r) : (s \o r)[k] = f
    BY <1>1, FramesOf
  <2>2. CASE k <= Len(s)
    <3>1. k \in 1 .. Len(s) /\ s[k] = f
      BY <1>1, <2>1, <2>2
    <3> QED BY <3>1, FramesOf
  <2>3. CASE k > Len(s)
    <3>1. k - Len(s) \in 1 .. Len(r) /\ Len(s) + (k - Len(s)) = k
      BY <1>1, <2>1, <2>3
    <3>2. r[k - Len(s)] = f
      BY <1>1, <2>1, <3>1
    <3> QED BY <3>1, <3>2, FramesOf
  <2> QED BY <1>1, <2>1, <2>2, <2>3
<1> QED BY <1>2, <1>3

LEMMA FramesAdded ==
  ASSUME NEW s \in Seq(Frame), NEW f \in Frame
  PROVE  ToSet(s \o << f >>) = ToSet(s) \cup { f } /\ << f >> \in Seq(Frame)
<1>1. << f >> \in Seq(Frame)
  BY Short12
<1>2. ToSet(<< f >>) = { f }
  BY DEF ToSet
<1> QED BY <1>1, <1>2, FramesJoined

-----------------------------------------------------------------------------
(* What the worker knows of a handle.                                      *)

\* It knows one topic, and one topic only.
LEMMA SeesOne ==
  ASSUME NEW s, NEW m, NEW h, NEW k \in Nat, NEW t, NEW u, SeesIn(s, m, h, t, k), SeesIn(s, m, h, u, k)
  PROVE  t = u
<1>1. CASE \A j \in 1 .. k : ~Touches(s[j], h)
  BY <1>1 DEF SeesIn
<1>2. CASE \E j \in 1 .. k : Touches(s[j], h)
  <2>1. PICK i \in 1 .. k : Touches(s[i], h) /\ s[i].topic = t /\ \A l \in i + 1 .. k : ~Touches(s[l], h)
    BY <1>2 DEF SeesIn
  <2>2. PICK j \in 1 .. k : Touches(s[j], h) /\ s[j].topic = u /\ \A l \in j + 1 .. k : ~Touches(s[l], h)
    BY <1>2 DEF SeesIn
  <2>3. i = j
    BY <2>1, <2>2
  <2> QED BY <2>1, <2>2, <2>3
<1> QED BY <1>1, <1>2

\* A handle that no frame touches: what the table says.
LEMMA SeesTable ==
  ASSUME NEW s \in Seq(Frame), NEW m, NEW h, NEW t, NEW k \in 0 .. Len(s), \A f \in ToSet(s) : ~Touches(f, h)
  PROVE  SeesIn(s, m, h, t, k) <=> m[h] = t
<1>1. \A j \in 1 .. k : ~Touches(s[j], h)
  <2>1. \A j \in 1 .. k : j \in 1 .. Len(s)
    BY FramesOf
  <2>2. \A j \in 1 .. Len(s) : s[j] \in ToSet(s)
    BY FramesOf
  <2> QED BY <2>1, <2>2
<1> QED BY <1>1 DEF SeesIn

\* Before the first frame: what the table says.
LEMMA SeesNow ==
  ASSUME NEW s, NEW m, NEW h, NEW t
  PROVE  SeesIn(s, m, h, t, 0) <=> m[h] = t
BY DEF SeesIn

\* The worker has handled a frame.
LEMMA SeesTail ==
  ASSUME NEW s \in Seq(Frame), s # << >>, NEW m, NEW n, NEW h, NEW t, NEW k \in 1 .. Len(s),
         n[h] = IF Touches(s[1], h) THEN s[1].topic ELSE m[h]
  PROVE  SeesIn(s, m, h, t, k) <=> SeesIn(Tail(s), n, h, t, k - 1)
<1> DEFINE r == Tail(s)
<1>1. /\ Len(s) \in Nat
      /\ \A j \in 1 .. Len(s) - 1 : r[j] = s[j + 1]
  BY Taken
<1> HIDE DEF r
<1>2. \A j \in 1 .. k - 1 : r[j] = s[j + 1] /\ j + 1 \in 1 .. k
  BY <1>1
<1>3. \A j \in 1 .. k : j = 1 \/ (j - 1 \in 1 .. k - 1 /\ r[j - 1] = s[j])
  <2> TAKE j \in 1 .. k
  <2>1. CASE j # 1
    <3>1. j - 1 \in 1 .. k - 1 /\ (j - 1) + 1 = j
      BY <1>1, <2>1
    <3> QED BY <1>2, <3>1
  <2> QED BY <2>1
<1>5. ASSUME SeesIn(s, m, h, t, k) PROVE SeesIn(r, n, h, t, k - 1)
  <2>1. CASE m[h] = t /\ \A j \in 1 .. k : ~Touches(s[j], h)
    <3>1. ~Touches(s[1], h)
      BY <2>1
    <3>2. n[h] = t /\ \A j \in 1 .. k - 1 : ~Touches(r[j], h)
      BY <1>2, <2>1, <3>1
    <3> QED BY <3>2 DEF SeesIn
  <2>2. ASSUME NEW j \in 1 .. k, Touches(s[j], h), s[j].topic = t,
               \A l \in j + 1 .. k : ~Touches(s[l], h)
        PROVE  SeesIn(r, n, h, t, k - 1)
    <3>1. \A l \in j .. k - 1 : ~Touches(r[l], h)
      <4> TAKE l \in j .. k - 1
      <4>1. l + 1 \in j + 1 .. k /\ l \in 1 .. k - 1
        OBVIOUS
      <4> QED BY <1>2, <2>2, <4>1
    <3>2. CASE j = 1
      <4>1. n[h] = t
        BY <2>2, <3>2
      <4>2. \A l \in 1 .. k - 1 : ~Touches(r[l], h)
        BY <3>1, <3>2
      <4> QED BY <4>1, <4>2 DEF SeesIn
    <3>3. CASE j # 1
      <4>1. j - 1 \in 1 .. k - 1 /\ r[j - 1] = s[j]
        BY <1>3, <3>3
      <4>2. \A l \in (j - 1) + 1 .. k - 1 : ~Touches(r[l], h)
        BY <3>1
      <4> QED BY <2>2, <4>1, <4>2 DEF SeesIn
    <3> QED BY <3>2, <3>3
  <2> QED BY <1>5, <2>1, <2>2 DEF SeesIn
<1>6. ASSUME SeesIn(r, n, h, t, k - 1) PROVE SeesIn(s, m, h, t, k)
  <2>1. CASE n[h] = t /\ \A j \in 1 .. k - 1 : ~Touches(r[j], h)
    <3>1. \A j \in 2 .. k : ~Touches(s[j], h)
      BY <1>3, <2>1
    <3>2. CASE Touches(s[1], h)
      <4>1. 1 \in 1 .. k /\ s[1].topic = t /\ \A l \in 1 + 1 .. k : ~Touches(s[l], h)
        BY <2>1, <3>1, <3>2
      <4> QED BY <3>2, <4>1 DEF SeesIn
    <3>3. CASE ~Touches(s[1], h)
      <4>1. m[h] = t /\ \A j \in 1 .. k : ~Touches(s[j], h)
        BY <1>3, <2>1, <3>3
      <4> QED BY <4>1 DEF SeesIn
    <3> QED BY <3>2, <3>3
  <2>2. ASSUME NEW j \in 1 .. k - 1, Touches(r[j], h), r[j].topic = t,
               \A l \in j + 1 .. k - 1 : ~Touches(r[l], h)
        PROVE  SeesIn(s, m, h, t, k)
    <3>1. j + 1 \in 1 .. k /\ Touches(s[j + 1], h) /\ s[j + 1].topic = t
      BY <1>2, <2>2
    <3>2. \A l \in (j + 1) + 1 .. k : ~Touches(s[l], h)
      <4> TAKE l \in (j + 1) + 1 .. k
      <4>1. l \in 1 .. k /\ l # 1 /\ l - 1 \in j + 1 .. k - 1
        OBVIOUS
      <4> QED BY <1>3, <2>2, <4>1
    <3> QED BY <3>1, <3>2 DEF SeesIn
  <2> QED BY <1>6, <2>1, <2>2 DEF SeesIn
<1> QED BY <1>5, <1>6 DEF r

\* The peer has sent a frame.
LEMMA SeesAdded ==
  ASSUME NEW s \in Seq(Frame), NEW f \in Frame, NEW m, NEW h, NEW t
  PROVE  /\ \A k \in 0 .. Len(s) : SeesIn(s, m, h, t, k) <=> SeesIn(s \o << f >>, m, h, t, k)
         /\ Touches(f, h) /\ f.topic = t => SeesIn(s \o << f >>, m, h, t, Len(s \o << f >>))
         /\ ~Touches(f, h) /\ SeesIn(s, m, h, t, Len(s)) => SeesIn(s \o << f >>, m, h, t, Len(s \o << f >>))
<1> DEFINE n == Len(s)
           r == s \o << f >>
<1>1. /\ n \in Nat /\ Len(r) = n + 1
      /\ \A j \in 1 .. n : r[j] = s[j]
      /\ r[n + 1] = f
  BY Added
<1> HIDE DEF n, r
<1>3. ASSUME NEW k \in 0 .. n PROVE SeesIn(s, m, h, t, k) <=> SeesIn(r, m, h, t, k)
  <2>1. k \in Nat /\ \A j \in 1 .. k : r[j] = s[j]
    BY <1>1
  <2>2. \A j \in 1 .. k : \A l \in j + 1 .. k : l \in 1 .. k
    BY <1>1
  <2> QED BY <2>1, <2>2 DEF SeesIn
<1>5. ASSUME Touches(f, h), f.topic = t PROVE SeesIn(r, m, h, t, n + 1)
  <2>1. n + 1 \in 1 .. n + 1 /\ \A l \in (n + 1) + 1 .. n + 1 : ~Touches(r[l], h)
    BY <1>1
  <2> QED BY <1>1, <1>5, <2>1 DEF SeesIn
<1>6. ASSUME ~Touches(f, h), SeesIn(s, m, h, t, n) PROVE SeesIn(r, m, h, t, n + 1)
  <2>1. \A j \in 1 .. n + 1 : j = n + 1 \/ (j \in 1 .. n /\ r[j] = s[j])
    BY <1>1
  <2>2. CASE m[h] = t /\ \A j \in 1 .. n : ~Touches(s[j], h)
    <3>1. \A j \in 1 .. n + 1 : ~Touches(r[j], h)
      BY <1>1, <1>6, <2>1, <2>2
    <3> QED BY <2>2, <3>1 DEF SeesIn
  <2>3. ASSUME NEW j \in 1 .. n, Touches(s[j], h), s[j].topic = t,
               \A l \in j + 1 .. n : ~Touches(s[l], h)
        PROVE  SeesIn(r, m, h, t, n + 1)
    <3>1. \A l \in j + 1 .. n + 1 : ~Touches(r[l], h)
      <4> TAKE l \in j + 1 .. n + 1
      <4>1. CASE l = n + 1
        BY <1>1, <1>6, <4>1
      <4>2. CASE l # n + 1
        <5>1. l \in j + 1 .. n /\ l \in 1 .. n
          BY <1>1, <4>2
        <5> QED BY <1>1, <2>3, <5>1
      <4> QED BY <4>1, <4>2
    <3>2. j \in 1 .. n + 1 /\ r[j] = s[j]
      BY <1>1
    <3> QED BY <2>3, <3>1, <3>2 DEF SeesIn
  <2> QED BY <1>6, <2>2, <2>3 DEF SeesIn
<1> QED BY <1>1, <1>3, <1>5, <1>6 DEF n, r

\* Only the entry of the handle matters.
LEMMA SeesSame ==
  ASSUME NEW s, NEW m, NEW n, NEW h, NEW t, NEW k, m[h] = n[h]
  PROVE  SeesIn(s, m, h, t, k) <=> SeesIn(s, n, h, t, k)
BY DEF SeesIn

-----------------------------------------------------------------------------
(* The parts of the link invariant, by what changes.                       *)

\* A handle that nobody uses yet.
Unused(h) ==
  h # ServerHandle /\ pSub[h] = NoTopic /\ NoTouch(h) /\ reverse_topic_name_map[h] = NoTopic

\* No message is on its way for it.
LEMMA UnusedQuiet ==
  ASSUME TypeOK, ComingOK, NEW k \in 1 .. Len(inbox), Unused(inbox[k].handle)
  PROVE  inbox[k].type # "TRANSFER" /\ ~(inbox[k].type = "ATTACH" /\ inbox[k].role = "SENDER")
<1> DEFINE f == inbox[k]
<1>1. inbox \in Seq(Frame) /\ f \in ToSet(inbox) /\ k - 1 \in 0 .. Len(inbox) /\ f \in Frame
  BY FramesOf DEF TypeOK, AmqpTimersTypeOK
<1>2. Arrives(k)
  BY DEF ComingOK
<1> HIDE DEF f
<1>3. \A t : SeesIn(inbox, reverse_topic_name_map, f.handle, t, k - 1) <=> reverse_topic_name_map[f.handle] = t
  BY <1>1, SeesTable DEF Unused, NoTouch, f
<1>4. f.type # "TRANSFER"
  BY <1>2, <1>3 DEF Arrives, Sees, Unused, f
<1>5. ~Touches(f, f.handle)
  BY <1>1 DEF Unused, NoTouch, f
<1> QED BY <1>4, <1>5 DEF Touches, f

\* The worker has taken a frame and done what the frame says; it may have given
\* new handles topics, too.
LEMMA RxSeen ==
  ASSUME TypeOK, PeerSeen, ComingOK, inbox # << >>, inbox' = Tail(inbox),
         \A h \in Handles :
           \/ reverse_topic_name_map'[h] =
                IF Touches(inbox[1], h) THEN inbox[1].topic ELSE reverse_topic_name_map[h]
           \/ Unused(h),
         UNCHANGED << pSub, pTopic >>
  PROVE  PeerSeen' /\ ComingOK'
<1>1. /\ inbox \in Seq(Frame) /\ Len(inbox) \in Nat /\ Len(inbox) >= 1
      /\ Len(inbox') = Len(inbox) - 1 /\ inbox' \in Seq(Frame)
      /\ \A k \in 1 .. Len(inbox') : inbox'[k] = inbox[k + 1] /\ k + 1 \in 1 .. Len(inbox)
  BY Taken DEF TypeOK, AmqpTimersTypeOK
<1>2. ServerHandle \in Handles
  BY ShortIsSame
<1>3. ASSUME NEW h \in Handles, ~Unused(h), NEW t, NEW k \in 1 .. Len(inbox)
      PROVE  SeesIn(inbox, reverse_topic_name_map, h, t, k)
               <=> SeesIn(inbox', reverse_topic_name_map', h, t, k - 1)
  <2>1. reverse_topic_name_map'[h] =
          IF Touches(inbox[1], h) THEN inbox[1].topic ELSE reverse_topic_name_map[h]
    BY <1>3
  <2> QED BY <1>1, <2>1, SeesTail
<1>4. PeerSeen'
  <2>1. ASSUME NEW h \in Handles, pSub[h] # NoTopic
        PROVE  SeesIn(inbox', reverse_topic_name_map', h, pSub[h], Len(inbox'))
    <3>1. ~Unused(h) /\ SeesIn(inbox, reverse_topic_name_map, h, pSub[h], Len(inbox))
      BY <2>1 DEF Unused, PeerSeen, Sees
    <3>2. Len(inbox) \in 1 .. Len(inbox)
      BY <1>1
    <3> QED BY <1>1, <1>3, <3>1, <3>2
  <2>2. ASSUME pSub[ServerHandle] = NoTopic
        PROVE  SeesIn(inbox', reverse_topic_name_map', ServerHandle, NoTopic, Len(inbox'))
    <3>1. ~Unused(ServerHandle) /\ SeesIn(inbox, reverse_topic_name_map, ServerHandle, NoTopic, Len(inbox))
      BY <2>2 DEF Unused, PeerSeen, Sees
    <3>2. Len(inbox) \in 1 .. Len(inbox)
      BY <1>1
    <3> QED BY <1>1, <1>2, <1>3, <3>1, <3>2
  <2> QED BY <2>1, <2>2 DEF PeerSeen, Sees
<1>5. ASSUME NEW k \in 1 .. Len(inbox') PROVE Arrives(k)'
  <2> DEFINE f == inbox[k + 1]
  <2>1. inbox'[k] = f /\ k + 1 \in 1 .. Len(inbox) /\ (k + 1) - 1 = k /\ k \in 1 .. Len(inbox) /\ f \in Frame
    BY <1>1
  <2>2. Arrives(k + 1)
    BY <2>1 DEF ComingOK
  <2>3. f.handle \in Handles
    BY <2>1, FrameHas
  <2> HIDE DEF f
  <2>4. CASE ~Unused(f.handle)
    <3>1. \A t : SeesIn(inbox, reverse_topic_name_map, f.handle, t, k)
                   <=> SeesIn(inbox', reverse_topic_name_map', f.handle, t, k - 1)
      BY <1>3, <2>1, <2>3, <2>4
    <3> QED BY <2>1, <2>2, <3>1 DEF Arrives, Sees, f
  <2>5. CASE Unused(f.handle)
    <3>1. f.type # "TRANSFER" /\ ~(f.type = "ATTACH" /\ f.role = "SENDER")
      BY <2>1, <2>5, UnusedQuiet DEF f
    <3> QED BY <2>1, <2>2, <3>1 DEF Arrives, f
  <2> QED BY <2>4, <2>5
<1> QED BY <1>4, <1>5 DEF ComingOK

\* The user has given a new handle a topic, or the tables are as they were.
LEMMA KeepSeen ==
  ASSUME TypeOK, PeerSeen, ComingOK, inbox' = inbox,
         \A h \in Handles : reverse_topic_name_map'[h] = reverse_topic_name_map[h] \/ Unused(h),
         UNCHANGED << pSub, pTopic >>
  PROVE  PeerSeen' /\ ComingOK'
<1>2. ServerHandle \in Handles
  BY ShortIsSame
<1>3. ASSUME NEW h \in Handles, ~Unused(h), NEW t, NEW k
      PROVE  SeesIn(inbox, reverse_topic_name_map, h, t, k)
               <=> SeesIn(inbox', reverse_topic_name_map', h, t, k)
  <2>1. reverse_topic_name_map'[h] = reverse_topic_name_map[h]
    BY <1>3
  <2> QED BY <2>1, SeesSame
<1>4. PeerSeen'
  <2>1. ASSUME NEW h \in Handles, pSub[h] # NoTopic
        PROVE  SeesIn(inbox', reverse_topic_name_map', h, pSub[h], Len(inbox'))
    <3>1. ~Unused(h) /\ SeesIn(inbox, reverse_topic_name_map, h, pSub[h], Len(inbox))
      BY <2>1 DEF Unused, PeerSeen, Sees
    <3> QED BY <1>3, <3>1
  <2>2. ASSUME pSub[ServerHandle] = NoTopic
        PROVE  SeesIn(inbox', reverse_topic_name_map', ServerHandle, NoTopic, Len(inbox'))
    <3>1. ~Unused(ServerHandle) /\ SeesIn(inbox, reverse_topic_name_map, ServerHandle, NoTopic, Len(inbox))
      BY <2>2 DEF Unused, PeerSeen, Sees
    <3> QED BY <1>2, <1>3, <3>1
  <2> QED BY <2>1, <2>2 DEF PeerSeen, Sees
<1>5. ASSUME NEW k \in 1 .. Len(inbox) PROVE Arrives(k)'
  <2> DEFINE f == inbox[k]
  <2>2. Arrives(k)
    BY DEF ComingOK
  <2>3. f \in Frame /\ f.handle \in Handles
    <3>1. f \in Frame
      BY DEF TypeOK, AmqpTimersTypeOK
    <3> QED BY <3>1, FrameHas
  <2> HIDE DEF f
  <2>4. CASE ~Unused(f.handle)
    <3>1. \A t : SeesIn(inbox, reverse_topic_name_map, f.handle, t, k - 1)
                   <=> SeesIn(inbox', reverse_topic_name_map', f.handle, t, k - 1)
      BY <1>3, <2>3, <2>4
    <3> QED BY <2>2, <3>1 DEF Arrives, Sees, f
  <2>5. CASE Unused(f.handle)
    <3>1. f.type # "TRANSFER" /\ ~(f.type = "ATTACH" /\ f.role = "SENDER")
      BY <2>5, UnusedQuiet DEF f
    <3> QED BY <2>2, <3>1 DEF Arrives, f
  <2> QED BY <2>4, <2>5
<1> QED BY <1>4, <1>5 DEF ComingOK

\* The peer has sent a frame.
LEMMA AddSeen ==
  ASSUME TypeOK, PeerSeen, ComingOK, NEW f \in Frame, inbox' = inbox \o << f >>,
         reverse_topic_name_map' = reverse_topic_name_map,
         \A k \in 1 .. Len(inbox) :
           inbox[k].type = "TRANSFER" => pTopic'[inbox[k].data] = pTopic[inbox[k].data],
         \A h \in Handles : pSub'[h] = NoTopic \/ (pSub'[h] = pSub[h] /\ ~Touches(f, h))
                            \/ (Touches(f, h) /\ f.topic = pSub'[h]),
         (pSub'[ServerHandle] = pSub[ServerHandle] /\ ~Touches(f, ServerHandle))
           \/ (Touches(f, ServerHandle) /\ f.topic = pSub'[ServerHandle]),
         f.type = "TRANSFER" =>
           f.data \in AmqpIncoming /\ pTopic'[f.data] # NoTopic /\ Sees(f.handle, pTopic'[f.data], Len(inbox)),
         (f.type = "ATTACH" /\ f.role = "SENDER") =>
           /\ f.handle # 0 /\ f.topic # NoTopic
           /\ \A t \in Topics : Sees(f.handle, t, Len(inbox)) => t = f.topic,
         f.type = "DETACH" => f.topic = NoTopic
  PROVE  PeerSeen' /\ ComingOK'
<1> DEFINE m == reverse_topic_name_map
<1>1. /\ inbox \in Seq(Frame) /\ Len(inbox) \in Nat /\ Len(inbox') = Len(inbox) + 1
      /\ \A k \in 1 .. Len(inbox) : inbox'[k] = inbox[k]
      /\ inbox'[Len(inbox) + 1] = f
  BY Added DEF TypeOK, AmqpTimersTypeOK
<1>2. ServerHandle \in Handles
  BY ShortIsSame
<1>3. ASSUME NEW h, NEW t
      PROVE  /\ \A k \in 0 .. Len(inbox) : SeesIn(inbox, m, h, t, k) <=> SeesIn(inbox', m, h, t, k)
             /\ Touches(f, h) /\ f.topic = t => SeesIn(inbox', m, h, t, Len(inbox'))
             /\ ~Touches(f, h) /\ SeesIn(inbox, m, h, t, Len(inbox)) => SeesIn(inbox', m, h, t, Len(inbox'))
  BY <1>1, SeesAdded
<1> HIDE DEF m
<1>4. PeerSeen'
  <2>1. ASSUME NEW h \in Handles, pSub'[h] # NoTopic
        PROVE  SeesIn(inbox', m, h, pSub'[h], Len(inbox'))
    <3>1. CASE pSub'[h] = pSub[h] /\ ~Touches(f, h)
      <4>1. SeesIn(inbox, m, h, pSub[h], Len(inbox))
        BY <2>1, <3>1 DEF PeerSeen, Sees, m
      <4> QED BY <1>3, <3>1, <4>1
    <3>2. CASE Touches(f, h) /\ f.topic = pSub'[h]
      BY <1>3, <3>2
    <3> QED BY <2>1, <3>1, <3>2
  <2>2. ASSUME pSub'[ServerHandle] = NoTopic
        PROVE  SeesIn(inbox', m, ServerHandle, NoTopic, Len(inbox'))
    <3>1. CASE pSub'[ServerHandle] = pSub[ServerHandle] /\ ~Touches(f, ServerHandle)
      <4>1. SeesIn(inbox, m, ServerHandle, NoTopic, Len(inbox))
        BY <2>2, <3>1 DEF PeerSeen, Sees, m
      <4> QED BY <1>3, <3>1, <4>1
    <3>2. CASE Touches(f, ServerHandle) /\ f.topic = pSub'[ServerHandle]
      BY <1>3, <2>2, <3>2
    <3> QED BY <3>1, <3>2
  <2> QED BY <2>1, <2>2 DEF PeerSeen, Sees, m
<1>5. ASSUME NEW k \in 1 .. Len(inbox') PROVE Arrives(k)'
  <2>1. CASE k \in 1 .. Len(inbox)
    <3>1. inbox'[k] = inbox[k] /\ k - 1 \in 0 .. Len(inbox)
      BY <1>1, <2>1
    <3>2. Arrives(k)
      BY <2>1 DEF ComingOK
    <3>3. \A t : SeesIn(inbox, m, inbox[k].handle, t, k - 1) <=> SeesIn(inbox', m, inbox[k].handle, t, k - 1)
      BY <1>3, <3>1
    <3> QED BY <2>1, <3>1, <3>2, <3>3 DEF Arrives, Sees, m
  <2>2. CASE k = Len(inbox) + 1
    <3>1. k - 1 = Len(inbox) /\ inbox'[k] = f /\ Len(inbox) \in 0 .. Len(inbox)
      BY <1>1, <2>2
    <3>2. \A t : SeesIn(inbox, m, f.handle, t, Len(inbox)) <=> SeesIn(inbox', m, f.handle, t, k - 1)
      BY <1>3, <3>1
    <3>3. LET g == inbox'[k]
          IN  /\ g.type = "TRANSFER" =>
                   g.data \in AmqpIncoming /\ pTopic'[g.data] # NoTopic
                   /\ SeesIn(inbox', m, g.handle, pTopic'[g.data], k - 1)
              /\ (g.type = "ATTACH" /\ g.role = "SENDER") =>
                   /\ g.handle # 0 /\ g.topic # NoTopic
                   /\ \A t \in Topics : SeesIn(inbox', m, g.handle, t, k - 1) => t = g.topic
              /\ g.type = "DETACH" => g.topic = NoTopic
      BY <3>1, <3>2 DEF Sees, m
    <3> QED BY <3>3 DEF Arrives, Sees, m
  <2> QED BY <1>1, <2>1, <2>2
<1> QED BY <1>4, <1>5 DEF ComingOK

\* q keeps its order when a frame is taken or frames for new handles are added.
LEMMA OrderedTail ==
  ASSUME NEW s \in Seq(Frame), s # << >>, OrderedIn(s)
  PROVE  /\ OrderedIn(Tail(s))
         /\ HasHandle(Head(s)) =>
              \A f \in ToSet(Tail(s)) : f.type = "ATTACH" => f.handle # Head(s).handle
<1>1. /\ Tail(s) \in Seq(Frame) /\ Len(Tail(s)) = Len(s) - 1 /\ Len(s) \in Nat
      /\ Head(s) = s[1]
      /\ \A k \in 1 .. Len(Tail(s)) : Tail(s)[k] = s[k + 1] /\ k + 1 \in 1 .. Len(s)
  BY Taken
<1>2. OrderedIn(Tail(s))
  <2>1. ASSUME NEW j \in 1 .. Len(Tail(s)), NEW k \in 1 .. Len(Tail(s)), j < k,
               Tail(s)[k].type = "ATTACH", HasHandle(Tail(s)[j])
        PROVE  Tail(s)[j].handle # Tail(s)[k].handle
    <3>1. j + 1 \in 1 .. Len(s) /\ k + 1 \in 1 .. Len(s) /\ j + 1 < k + 1
      BY <1>1, <2>1
    <3> QED BY <1>1, <2>1, <3>1 DEF OrderedIn
  <2> QED BY <2>1 DEF OrderedIn
<1>3. ASSUME HasHandle(Head(s)), NEW f \in ToSet(Tail(s)), f.type = "ATTACH" PROVE f.handle # Head(s).handle
  <2>1. PICK k \in 1 .. Len(Tail(s)) : Tail(s)[k] = f
    BY <1>1, FramesOf
  <2>2. k + 1 \in 1 .. Len(s) /\ 1 \in 1 .. Len(s) /\ 1 < k + 1 /\ s[k + 1] = f
    BY <1>1, <2>1
  <2> QED BY <1>1, <1>3, <2>2 DEF OrderedIn
<1> QED BY <1>2, <1>3

LEMMA OrderedJoined ==
  ASSUME NEW s \in Seq(Frame), NEW r \in Seq(Frame), OrderedIn(s), OrderedIn(r),
         \A f \in ToSet(s), g \in ToSet(r) :
           (HasHandle(f) /\ g.type = "ATTACH") => f.handle # g.handle
  PROVE  OrderedIn(s \o r)
<1>1. /\ Len(s \o r) = Len(s) + Len(r)
      /\ Len(s) \in Nat /\ Len(r) \in Nat
      /\ \A k \in 1 .. Len(s) : (s \o r)[k] = s[k]
      /\ \A k \in 1 .. Len(r) : (s \o r)[Len(s) + k] = r[k]
  BY Joined
<1>2. \A k \in 1 .. Len(s \o r) : \/ k \in 1 .. Len(s) /\ (s \o r)[k] = s[k]
                                  \/ k - Len(s) \in 1 .. Len(r) /\ (s \o r)[k] = r[k - Len(s)]
  <2> TAKE k \in 1 .. Len(s \o r)
  <2>1. CASE k <= Len(s)
    BY <1>1, <2>1
  <2>2. CASE k > Len(s)
    <3>1. k - Len(s) \in 1 .. Len(r) /\ Len(s) + (k - Len(s)) = k
      BY <1>1, <2>2
    <3> QED BY <1>1, <3>1
  <2> QED BY <1>1, <2>1, <2>2
<1> SUFFICES ASSUME NEW j \in 1 .. Len(s \o r), NEW k \in 1 .. Len(s \o r), j < k,
                    (s \o r)[k].type = "ATTACH", HasHandle((s \o r)[j])
             PROVE  (s \o r)[j].handle # (s \o r)[k].handle
  BY DEF OrderedIn
<1>3. CASE k \in 1 .. Len(s) /\ (s \o r)[k] = s[k]
  <2>1. j \in 1 .. Len(s) /\ (s \o r)[j] = s[j]
    BY <1>1, <1>3
  <2> QED BY <1>3, <2>1 DEF OrderedIn
<1>4. CASE k - Len(s) \in 1 .. Len(r) /\ (s \o r)[k] = r[k - Len(s)]
  <2>1. CASE j \in 1 .. Len(s) /\ (s \o r)[j] = s[j]
    <3>1. s[j] \in ToSet(s) /\ r[k - Len(s)] \in ToSet(r)
      BY <1>4, <2>1, FramesOf
    <3> QED BY <1>4, <2>1, <3>1
  <2>2. CASE j - Len(s) \in 1 .. Len(r) /\ (s \o r)[j] = r[j - Len(s)]
    <3>1. j - Len(s) < k - Len(s)
      BY <1>1, <1>4, <2>2
    <3> QED BY <1>4, <2>2, <3>1 DEF OrderedIn
  <2> QED BY <1>2, <2>1, <2>2
<1> QED BY <1>2, <1>3, <1>4

LEMMA OrderedOne ==
  ASSUME NEW f \in Frame
  PROVE  OrderedIn(<< >>) /\ OrderedIn(<< f >>) /\ ToSet(<< f >>) = { f } /\ << f >> \in Seq(Frame)
<1>1. OrderedIn(<< >>)
  BY DEF OrderedIn
<1>2. Len(<< f >>) = 1
  OBVIOUS
<1>3. OrderedIn(<< f >>)
  BY <1>2 DEF OrderedIn
<1> QED BY <1>1, <1>3 DEF ToSet

\* Which handles the worker will hear of.
LEMMA NoTouchLess ==
  ASSUME ToSet(inbox') \subseteq ToSet(inbox), NEW h
  PROVE  NoTouch(h) => NoTouch(h)'
BY DEF NoTouch

LEMMA NoTouchMore ==
  ASSUME NEW f, ToSet(inbox') = ToSet(inbox) \cup { f }, NEW h, ~Touches(f, h)
  PROVE  NoTouch(h) => NoTouch(h)'
BY DEF NoTouch

\* A step that leaves the tables of the client and of the peer alone, and sends no
\* ATTACH.
LEMMA LinksStay ==
  ASSUME TypeOK, Linked, PeerSeen', ComingOK', OrderedIn(outbox'),
         UNCHANGED << reverse_topic_name_map, topic_name_map, topic_name_map_outgoing, pSub, pPub >>,
         \A h : NoTouch(h) => NoTouch(h)',
         \A f \in ToSet(outbox') :
           \/ f \in ToSet(outbox) \/ ~HasHandle(f)
           \/ f.type = "DETACH" /\ \E t \in Topics : topic_name_map[t] = f.handle,
         ui' = "main" => ui = "main" /\ next_handle' = next_handle,
         ui' = "loading" => ui = "loading" /\ UNCHANGED << m_handler, m_delivery_id >>
  PROVE  Linked'
<1>0. PeerSeen /\ ComingOK /\ GoingOK /\ NamesIn /\ NamesOut /\ FreshUnused /\ NothingYet
  BY DEF Linked
<1>1. ASSUME NEW f \in ToSet(outbox') PROVE Leaves(f)'
  BY <1>0, <1>1 DEF GoingOK, Leaves, Untouched, HasHandle
<1>2. NamesIn'
  BY <1>0 DEF NamesIn
<1>3. ASSUME NEW t \in Topics, topic_name_map_outgoing[t] # 0 PROVE SendsOn(topic_name_map_outgoing[t], t)'
  <2>1. SendsOn(topic_name_map_outgoing[t], t)
    BY <1>0, <1>3 DEF NamesOut
  <2>2. \A f \in ToSet(outbox') : ~Moves(f, topic_name_map_outgoing[t])
    BY <2>1 DEF SendsOn, Moves, HasHandle
  <2> QED BY <2>1, <2>2 DEF SendsOn
<1>4. NamesOut'
  BY <1>3 DEF NamesOut
<1>5. \A h : InUse(h)' => InUse(h)
  BY DEF InUse, HasHandle
<1>6. FreshUnused'
  BY <1>0, <1>5 DEF FreshUnused
<1>7. NothingYet'
  BY <1>0 DEF NothingYet
<1>8. GoingOK'
  BY <1>1 DEF GoingOK
<1> QED BY <1>2, <1>4, <1>6, <1>7, <1>8 DEF Linked

-----------------------------------------------------------------------------
(* The link invariant: steps that leave the tables alone.                  *)

\* Nothing of it changes.
LEMMA LinksSame ==
  ASSUME TypeOK, Linked,
         UNCHANGED << inbox, outbox, reverse_topic_name_map, topic_name_map, topic_name_map_outgoing,
                      pSub, pPub, pTopic, ui, next_handle, m_handler, m_delivery_id >>
  PROVE  Linked'
<1>1. PeerSeen /\ ComingOK /\ OrderedIn(outbox)
  BY DEF Linked, GoingOK
<1>2. PeerSeen' /\ ComingOK'
  BY <1>1, KeepSeen
<1>3. OrderedIn(outbox')
  BY <1>1
<1>4. \A h : NoTouch(h) => NoTouch(h)'
  BY DEF NoTouch
<1>5. \A f \in ToSet(outbox') : f \in ToSet(outbox)
  OBVIOUS
<1> QED BY <1>2, <1>3, <1>4, <1>5, LinksStay

\* Frames without an ATTACH are put on q.
LEMMA FiresStay ==
  ASSUME TypeOK, Linked, PeerSeen', ComingOK', ToSet(inbox') \subseteq ToSet(inbox),
         NEW r \in Seq(Frame), outbox' = outbox \o r,
         \A f \in ToSet(r) :
           ~HasHandle(f) \/ (f.type = "DETACH" /\ \E t \in Topics : topic_name_map[t] = f.handle),
         UNCHANGED << reverse_topic_name_map, topic_name_map, topic_name_map_outgoing, pSub, pPub >>,
         ui' = "main" => ui = "main" /\ next_handle' = next_handle,
         ui' = "loading" => ui = "loading" /\ UNCHANGED << m_handler, m_delivery_id >>
  PROVE  Linked'
<1>1. OrderedIn(outbox) /\ outbox \in Seq(Frame)
  BY DEF Linked, GoingOK, TypeOK, AmqpTimersTypeOK
<1>2. \A f \in ToSet(r) : f.type # "ATTACH"
  BY DEF HasHandle
<1>3. OrderedIn(r)
  <2>1. \A k \in 1 .. Len(r) : r[k] \in ToSet(r)
    BY FramesOf
  <2> QED BY <1>2, <2>1 DEF OrderedIn
<1>4. OrderedIn(outbox \o r)
  BY <1>1, <1>2, <1>3, OrderedJoined
<1>5. ToSet(outbox') = ToSet(outbox) \cup ToSet(r)
  BY <1>1, FramesJoined
<1>6. \A h : NoTouch(h) => NoTouch(h)'
  BY NoTouchLess
<1> QED BY <1>4, <1>5, <1>6, LinksStay

\* The worker handles a frame that says nothing about a link on which the peer
\* sends.
LEMMA RxStays ==
  ASSUME TypeOK, Linked, NEW types, Rx(types),
         \A h : ~Touches(Head(inbox), h),
         NEW r \in Seq(Frame), outbox' = outbox \o r, \A f \in ToSet(r) : ~HasHandle(f),
         UNCHANGED << reverse_topic_name_map, topic_name_map, topic_name_map_outgoing,
                      pSub, pPub, pTopic >>,
         ui # "loading",
         ui' = ui \/ ui' = "accounts", next_handle' = next_handle
  PROVE  Linked'
<1>1. /\ inbox # << >> /\ inbox' = Tail(inbox) /\ Head(inbox) = inbox[1]
      /\ inbox \in Seq(Frame)
  BY RxTakes
<1>2. PeerSeen /\ ComingOK
  BY DEF Linked
<1>3. \A h \in Handles : reverse_topic_name_map'[h] =
        IF Touches(inbox[1], h) THEN inbox[1].topic ELSE reverse_topic_name_map[h]
  BY <1>1
<1>4. PeerSeen' /\ ComingOK'
  BY <1>1, <1>2, <1>3, RxSeen
<1>5. ToSet(inbox') \subseteq ToSet(inbox)
  BY <1>1, FramesOf
<1> QED BY <1>4, <1>5, FiresStay

\* The worker in the main window, when it hears nothing new of a link.
LEMMA RxLinks ==
  ASSUME TypeOK, StageInv, LinkInv,
         rx_answered \/ rx_attach_receiver \/ rx_transfer \/ rx_disposition \/ rx_close
  PROVE  LinkInv'
<1>0. OnlyTransfers /\ AttachNamed
  BY DEF StageInv
<1>a. outbox \in Seq(Frame) /\ inbox \in Seq(Frame) /\ << >> \in Seq(Frame) /\ outbox \o << >> = outbox
  BY Joined, Short12 DEF TypeOK, AmqpTimersTypeOK
<1>b. ASSUME NEW types, Rx(types), tables' = tables, clash' = clash,
             \A h : ~Touches(Head(inbox), h),
             NEW r \in Seq(Frame), outbox' = outbox \o r, \A f \in ToSet(r) : ~HasHandle(f),
             UNCHANGED << reverse_topic_name_map, topic_name_map, topic_name_map_outgoing,
                          pSub, pPub, pTopic >>,
             tables = "live" => ui # "loading",
             ui' = ui \/ ui' = "accounts", next_handle' = next_handle
      PROVE  LinkInv'
  <2>1. CASE tables = "live"
    <3>1. Linked
      BY <2>1 DEF LinkInv
    <3>2. Linked'
      BY <1>b, <2>1, <3>1, RxStays
    <3> QED BY <1>b, <3>2 DEF LinkInv
  <2>2. CASE tables # "live"
    BY <1>b, <2>2 DEF LinkInv
  <2> QED BY <2>1, <2>2
<1>c. ASSUME NEW types, Rx(types), tables' = tables, clash' = clash,
             \A h : ~Touches(Head(inbox), h), UNCHANGED outbox,
             UNCHANGED << reverse_topic_name_map, topic_name_map, topic_name_map_outgoing,
                          pSub, pPub, pTopic >>,
             tables = "live" => ui # "loading",
             ui' = ui \/ ui' = "accounts", next_handle' = next_handle
      PROVE  LinkInv'
  <2>1. outbox' = outbox \o << >> /\ \A f \in ToSet(<< >>) : ~HasHandle(f)
    BY <1>a, <1>c, FramesOf
  <2> QED BY <1>a, <1>b, <1>c, <2>1
<1>d. ASSUME NEW f \in Frame, ~HasHandle(f) PROVE << f >> \in Seq(Frame) /\ \A g \in ToSet(<< f >>) : ~HasHandle(g)
  BY <1>d, OrderedOne
\* the frames of the main window come when it is up
<1>e. ASSUME NEW types, Rx(types),
             Head(inbox).type \in { "ATTACH", "TRANSFER", "DISPOSITION", "DETACH", "END" }
      PROVE  tables = "live" /\ ui # "loading"
  <2>1. Alive /\ net = "open" /\ inbox # << >>
    BY <1>e, RxTakes
  <2> QED BY <1>e, <2>1, RxStage DEF Main
<1>1. CASE rx_answered
  <2>1. /\ Rx({ "PROTO", "MECHANISMS", "END", "OUTCOME" })
        /\ Head(inbox).type = "OUTCOME" => Head(inbox).ok
        /\ fire_all(AnswerTo(Head(inbox)))
        /\ UNCHANGED << tables, reverse_topic_name_map, topic_name_map, topic_name_map_outgoing,
                        pSub, pPub, pTopic, clash, ui, next_handle >>
    BY <1>1 DEF rx_answered, tableVars, peerVars, amqpGuiVars, counterVars
  <2>2. Alive /\ net = "open" /\ inbox # << >> /\ Head(inbox).type \in { "PROTO", "MECHANISMS", "END", "OUTCOME" }
    BY <2>1, RxTakes
  <2>3. CASE Head(inbox).type = "END"
    <3>1. AnswerTo(Head(inbox)) = << Plain("CLOSE") >>
      BY <2>3 DEF AnswerTo
    <3>2. outbox' = outbox \o << Plain("CLOSE") >>
      BY <2>1, <2>2, <3>1, FireOpen
    <3>3. << Plain("CLOSE") >> \in Seq(Frame) /\ \A f \in ToSet(<< Plain("CLOSE") >>) : ~HasHandle(f)
      BY <1>d, LoginFrames, LoginTypes DEF HasHandle
    <3>4. \A h : ~Touches(Head(inbox), h)
      BY <2>3 DEF Touches
    <3>5. ui # "loading"
      BY <1>e, <2>1, <2>3
    <3> QED BY <1>b, <2>1, <3>2, <3>3, <3>4, <3>5
  <2>4. CASE Head(inbox).type # "END"
    <3>1. tables # "live"
      BY <2>1, <2>2, <2>4, RxStage
    <3> QED BY <2>1, <3>1 DEF LinkInv
  <2> QED BY <2>3, <2>4
<1>2. CASE rx_attach_receiver
  <2> DEFINE h == amqp_get_handler_from_map_outgoing(Head(inbox).topic)
             f == amqp_get_message_from_map_by_handler(h)
  <2>1. /\ Rx({ "ATTACH" }) /\ Head(inbox).role = "RECEIVER"
        /\ \/ UNCHANGED outbox
           \/ f # NoFrame /\ fire_all(<< f >>)
        /\ UNCHANGED << tables, reverse_topic_name_map, topic_name_map, topic_name_map_outgoing,
                        pSub, pPub, pTopic, clash, ui, next_handle >>
    BY <1>2 DEF rx_attach_receiver, amqp_encode_and_fire, peerVars, amqpGuiVars, counterVars
  <2>2. /\ net = "open" /\ Head(inbox) \in Frame /\ Head(inbox).type = "ATTACH"
        /\ Head(inbox) = inbox[1] /\ 1 \in 1 .. Len(inbox)
    BY <2>1, RxTakes
  <2>3. \A k : ~Touches(Head(inbox), k)
    BY <2>1, <2>2 DEF Touches
  <2>4. ui # "loading"
    BY <1>e, <2>1, <2>2
  <2>5. CASE UNCHANGED outbox
    BY <1>c, <2>1, <2>3, <2>4, <2>5
  <2>6. CASE f # NoFrame /\ fire_all(<< f >>)
    <3>1. Head(inbox).topic \in Topics
      BY <1>0, <2>2 DEF AttachNamed, Named
    <3>2. h \in Handles
      BY <3>1 DEF TypeOK, AmqpTimersTypeOK, amqp_get_handler_from_map_outgoing
    <3>3. f \in Frame /\ f = m_handler[h]
      BY <3>2, ShortIsSame DEF TypeOK, AmqpTimersTypeOK, amqp_get_message_from_map_by_handler
    <3>4. f.type = "TRANSFER"
      BY <1>0, <2>6, <3>2, <3>3 DEF OnlyTransfers, IsTransfer
    <3> HIDE DEF h, f
    <3>5. << f >> \in Seq(Frame) /\ \A g \in ToSet(<< f >>) : ~HasHandle(g)
      BY <1>d, <3>3, <3>4 DEF HasHandle
    <3>6. outbox' = outbox \o << f >>
      BY <2>2, <2>6, FireOpen
    <3> QED BY <1>b, <2>1, <2>3, <2>4, <3>5, <3>6
  <2> QED BY <2>1, <2>5, <2>6
<1>3. CASE rx_transfer
  <2> DEFINE f == Head(inbox)
             r == IF f.settled THEN << >> ELSE << Disposition(f.id) >>
  <2>1. /\ Rx({ "TRANSFER" })
        /\ UNCHANGED outbox \/ fire_all(r)
        /\ UNCHANGED << tables, reverse_topic_name_map, topic_name_map, topic_name_map_outgoing,
                        pSub, pPub, pTopic, clash, ui, next_handle >>
    BY <1>3 DEF rx_transfer, tableVars, peerVars, amqpGuiVars, counterVars
  <2>2. net = "open" /\ f.type = "TRANSFER" /\ f \in Frame
    BY <2>1, RxTakes
  <2>3. \A k : ~Touches(f, k)
    BY <2>2 DEF Touches
  <2>4. ui # "loading"
    BY <1>e, <2>1, <2>2
  <2>5. Disposition(f.id) \in Frame /\ ~HasHandle(Disposition(f.id))
    BY <2>2, FrameHas, FrameTyped, FrameFields DEF HasHandle
  <2>6. r \in Seq(Frame) /\ \A g \in ToSet(r) : ~HasHandle(g)
    BY <1>a, <1>d, <2>5, FramesOf
  <2> HIDE DEF f, r
  <2>7. CASE fire_all(r)
    <3>1. outbox' = outbox \o r
      BY <2>2, <2>7, FireOpen
    <3> QED BY <1>b, <2>1, <2>3, <2>4, <2>6, <3>1 DEF f
  <2> QED BY <1>c, <2>1, <2>3, <2>4, <2>7 DEF f
<1>4. CASE rx_disposition
  <2>1. /\ Rx({ "DISPOSITION" }) /\ UNCHANGED outbox
        /\ UNCHANGED << tables, reverse_topic_name_map, topic_name_map, topic_name_map_outgoing,
                        pSub, pPub, pTopic, clash, ui, next_handle >>
    BY <1>4 DEF rx_disposition, peerVars, amqpGuiVars, counterVars
  <2>2. Head(inbox).type = "DISPOSITION"
    BY <2>1, RxTakes
  <2>3. \A k : ~Touches(Head(inbox), k)
    BY <2>2 DEF Touches
  <2> QED BY <1>c, <1>e, <2>1, <2>2, <2>3
<1>5. CASE rx_close
  <2>1. /\ Rx({ "CLOSE" }) /\ UNCHANGED outbox /\ ui' = IF is_connected THEN ui ELSE "accounts"
        /\ UNCHANGED << tables, reverse_topic_name_map, topic_name_map, topic_name_map_outgoing,
                        pSub, pPub, pTopic, clash, next_handle >>
    BY <1>5 DEF rx_close, connection_unsuccessful, tableVars, peerVars
  <2>2. Alive /\ net = "open" /\ inbox # << >> /\ Head(inbox).type = "CLOSE"
    BY <2>1, RxTakes
  <2>3. \A k : ~Touches(Head(inbox), k)
    BY <2>2 DEF Touches
  <2>4. tables = "live" => ui # "loading"
    BY <2>2, RxStage DEF Main
  <2> QED BY <1>c, <2>1, <2>3, <2>4
<1> QED BY <1>1, <1>2, <1>3, <1>4, <1>5

-----------------------------------------------------------------------------
(* The link invariant: the user.                                           *)

\* The next handle of the client is in no table and in no frame.
LEMMA FreshLink ==
  ASSUME TypeOK, FreshUnused, FreshHandle, ui = "main"
  PROVE  /\ next_handle \in Handles \ { 0, ServerHandle } /\ Short(next_handle) = next_handle
         /\ ~InUse(next_handle) /\ Unused(next_handle) /\ Untouched(next_handle)
<1>1. next_handle \in Handles /\ next_handle \in Nat /\ next_handle >= 1 /\ ServerHandle \in Nat
  BY AmqpTableBounds, AmqpPeerBounds DEF TypeOK, FreshHandle, Handles
<1>2. next_handle # ServerHandle
  BY <1>1 DEF FreshHandle, FreshUnused
<1>3. ~InUse(next_handle)
  BY <1>1, <1>2 DEF FreshUnused
<1> QED BY <1>1, <1>2, <1>3, ShortIsSame DEF InUse, Unused, Untouched

\* The user has asked for a link: the handle and the topic are in the tables, and
\* the ATTACH is on q.
LEMMA FreshLinked ==
  ASSUME TypeOK, Linked, FreshHandle, ui = "main",
         NEW t \in Topics, NEW role \in { "SENDER", "RECEIVER" },
         outbox' = outbox \o << Attach(role, next_handle, t) >>,
         next_handle' = next_handle + 1,
         reverse_topic_name_map' = [ reverse_topic_name_map EXCEPT ![next_handle] = t ],
         IF role = "RECEIVER"
         THEN /\ topic_name_map' = [ topic_name_map EXCEPT ![t] = next_handle ]
              /\ UNCHANGED topic_name_map_outgoing
         ELSE /\ topic_name_map_outgoing' = [ topic_name_map_outgoing EXCEPT ![t] = next_handle ]
              /\ UNCHANGED topic_name_map,
         UNCHANGED << inbox, pSub, pPub, pTopic, ui >>
  PROVE  Linked'
<1>a. PICK h0 : h0 = next_handle
  OBVIOUS
<1>b. PICK f0 : f0 = Attach(role, h0, t)
  OBVIOUS
<1>0. PeerSeen /\ ComingOK /\ OrderedIn(outbox) /\ (\A f \in ToSet(outbox) : Leaves(f)) /\ NamesIn
      /\ NamesOut /\ FreshUnused
  BY DEF Linked, GoingOK
<1>1. /\ h0 \in Handles \ { 0, ServerHandle }
      /\ ~InUse(h0) /\ Unused(h0) /\ Untouched(h0)
  BY <1>0, <1>a, FreshLink
<1>2. /\ f0 \in Frame /\ f0.type = "ATTACH" /\ f0.handle = h0 /\ f0.topic = t /\ f0.role = role
      /\ t # NoTopic /\ outbox \in Seq(Frame)
  BY <1>1, <1>b, FrameTyped, FrameFields, AmqpTableBounds DEF TypeOK, AmqpTimersTypeOK
<1>3. /\ reverse_topic_name_map'[h0] = t
      /\ \A h \in Handles : h # h0 => reverse_topic_name_map'[h] = reverse_topic_name_map[h]
      /\ reverse_topic_name_map[h0] = NoTopic
  BY <1>1, <1>a DEF TypeOK, AmqpTimersTypeOK, Unused
<1>4. /\ \A u \in Topics : topic_name_map'[u] = topic_name_map[u]
                           \/ (u = t /\ role = "RECEIVER" /\ topic_name_map'[u] = h0)
      /\ \A u \in Topics : topic_name_map_outgoing'[u] = topic_name_map_outgoing[u]
                           \/ (u = t /\ role = "SENDER" /\ topic_name_map_outgoing'[u] = h0)
      /\ \A u \in Topics : topic_name_map[u] # h0 /\ topic_name_map_outgoing[u] # h0
      /\ \A u \in Topics : topic_name_map[u] \in Handles /\ topic_name_map_outgoing[u] \in Handles
      /\ role = "SENDER" => topic_name_map' = topic_name_map
  BY <1>1, <1>a DEF TypeOK, AmqpTimersTypeOK, InUse
<1>5. \A f \in ToSet(outbox) : HasHandle(f) => f.handle # h0
  BY <1>1 DEF InUse
<1>6. ToSet(outbox') = ToSet(outbox) \cup { f0 }
  BY <1>2, <1>a, <1>b, FramesAdded
<1>7. \A h : NoTouch(h) => NoTouch(h)'
  BY DEF NoTouch
<1>c. \A h : ~NoTouch(h) => ~NoTouch(h)'
  BY DEF NoTouch
<1>8. PeerSeen' /\ ComingOK'
  <2>1. \A h \in Handles : reverse_topic_name_map'[h] = reverse_topic_name_map[h] \/ Unused(h)
    BY <1>1, <1>3
  <2> QED BY <1>0, <2>1, KeepSeen
<1>9. OrderedIn(outbox')
  <2>1. << f0 >> \in Seq(Frame) /\ OrderedIn(<< f0 >>) /\ ToSet(<< f0 >>) = { f0 }
    BY <1>2, OrderedOne
  <2>2. \A f \in ToSet(outbox), g \in ToSet(<< f0 >>) :
          (HasHandle(f) /\ g.type = "ATTACH") => f.handle # g.handle
    BY <1>2, <1>5, <2>1
  <2>3. OrderedIn(outbox \o << f0 >>)
    BY <1>0, <1>2, <2>1, <2>2, OrderedJoined
  <2> QED BY <2>3, <1>a, <1>b
<1>10. ASSUME NEW f \in ToSet(outbox') PROVE Leaves(f)'
  <2>1. CASE f = f0
    <3>1. Untouched(h0)'
      BY <1>1, <1>7 DEF Untouched
    <3> QED BY <1>1, <1>2, <1>3, <2>1, <3>1 DEF Leaves
  <2>2. CASE f \in ToSet(outbox) /\ f.type = "ATTACH"
    <3>1. Leaves(f) /\ f.handle # h0 /\ f \in Frame
      BY <1>0, <1>2, <1>5, <2>2, FramesOf DEF HasHandle
    <3>2. f.handle \in Handles
      BY <3>1, FrameHas
    <3>3. Untouched(f.handle) => Untouched(f.handle)'
      BY <1>7 DEF Untouched
    <3> QED BY <1>3, <2>2, <3>1, <3>2, <3>3 DEF Leaves
  <2> QED BY <1>6, <1>10, <2>1, <2>2 DEF Leaves
<1>11. NamesIn'
  <2>1. ASSUME NEW u \in Topics, topic_name_map'[u] # 0
        PROVE  reverse_topic_name_map'[topic_name_map'[u]] = u
    BY <1>0, <1>3, <1>4, <2>1 DEF NamesIn
  <2> QED BY <2>1 DEF NamesIn
<1>12. ASSUME NEW u \in Topics, topic_name_map_outgoing'[u] # 0
       PROVE  SendsOn(topic_name_map_outgoing[u], u)'
  <2>0. PICK k : k = topic_name_map_outgoing'[u]
    OBVIOUS
  <2>1. CASE k = h0
    <3>1. u = t /\ role = "SENDER"
      BY <1>4, <2>0, <2>1
    <3>2. \A v \in Topics : topic_name_map'[v] # h0
      BY <1>4, <3>1
    <3>3. \A f \in ToSet(outbox') : ~Moves(f, h0)
      BY <1>2, <1>5, <1>6, <3>1 DEF Moves, HasHandle
    <3>4. NoTouch(h0)'
      BY <1>1, <1>7 DEF Unused
    <3>5. SendsOn(h0, u)'
      BY <1>1, <1>3, <3>1, <3>2, <3>3, <3>4 DEF SendsOn
    <3> QED BY <2>0, <2>1, <3>5 DEF SendsOn
  <2>2. CASE k # h0
    <3>1. k = topic_name_map_outgoing[u] /\ k \in Handles
      BY <1>4, <2>0, <2>2
    <3>2. SendsOn(k, u)
      BY <1>0, <1>12, <2>0, <3>1 DEF NamesOut
    <3>3. \A v \in Topics : topic_name_map'[v] # k
      BY <1>4, <2>2, <3>2 DEF SendsOn
    <3>4. \A f \in ToSet(outbox') : ~Moves(f, k)
      BY <1>2, <1>6, <2>2, <3>2 DEF SendsOn, Moves
    <3>5. reverse_topic_name_map'[k] = u /\ NoTouch(k)'
      BY <1>3, <1>7, <2>2, <3>1, <3>2 DEF SendsOn
    <3>6. SendsOn(k, u)'
      BY <3>2, <3>3, <3>4, <3>5 DEF SendsOn
    <3> QED BY <2>0, <3>6 DEF SendsOn
  <2> QED BY <2>1, <2>2
<1>13. FreshUnused'
  <2>1. ASSUME NEW h \in Handles, InUse(h)' PROVE InUse(h) \/ h = h0
    BY <1>2, <1>3, <1>4, <1>6, <1>7, <1>c, <2>1 DEF InUse
  <2>2. h0 \in Nat /\ ServerHandle \in Nat /\ ServerHandle \in Handles /\ h0 # ServerHandle
    BY <1>1, ShortIsSame, AmqpTableBounds DEF Handles
  <2>3. reverse_topic_name_map'[ServerHandle] = reverse_topic_name_map[ServerHandle]
    BY <1>3, <2>2
  <2>4. \A h \in Handles : h \in Nat
    BY DEF Handles
  <2>5. \A h \in Handles \ {0} : InUse(h) => h < h0 \/ h = ServerHandle
    BY <1>0, <1>a DEF FreshUnused
  <2>6. \A h \in Handles \ {0} : InUse(h)' => h < h0 + 1 \/ h = ServerHandle
    BY <2>1, <2>2, <2>4, <2>5
  <2>7. next_handle' = h0 + 1
    BY <1>a
  <2>8. h0 + 1 <= ServerHandle => reverse_topic_name_map'[ServerHandle] = NoTopic
    <3>1. h0 <= ServerHandle => reverse_topic_name_map[ServerHandle] = NoTopic
      BY <1>0, <1>a DEF FreshUnused
    <3> QED BY <2>2, <2>3, <3>1
  <2> QED BY <2>6, <2>7, <2>8 DEF FreshUnused
<1>14. NothingYet'
  BY DEF NothingYet
<1> QED BY <1>8, <1>9, <1>10, <1>11, <1>12, <1>13, <1>14 DEF Linked, GoingOK, NamesOut

\* The steps of the user and of the window.
LEMMA UserLinks ==
  ASSUME TypeOK, StageInv, LinkInv, UserStep \/ GuiStep
  PROVE  LinkInv'
<1>0. LiveIsServed
  BY DEF StageInv
<1>a. outbox \in Seq(Frame) /\ inbox \in Seq(Frame) /\ << >> \in Seq(Frame) /\ outbox \o << >> = outbox
  BY Joined, Short12 DEF TypeOK, AmqpTimersTypeOK
<1>b. tables = "live" => net = "open" /\ Linked
  BY <1>0 DEF LiveIsServed, LinkInv
<1>1. CASE LogIn
  <2>1. net # "open" /\ UNCHANGED << tables, clash >>
    BY <1>1 DEF LogIn, tableVars
  <2> QED BY <1>b, <2>1 DEF LinkInv
\* frames of a link that is there
<1>c. ASSUME NEW r \in Seq(Frame), use_and_fire(r),
             \A f \in ToSet(r) :
               ~HasHandle(f) \/ (f.type = "DETACH" /\ \E t \in Topics : topic_name_map[t] = f.handle),
             tables' = tables, UNCHANGED << reverse_topic_name_map, topic_name_map, topic_name_map_outgoing >>,
             UNCHANGED << inbox, pSub, pPub, pTopic, clash >>,
             (ui' = ui /\ ui # "loading" /\ next_handle' = next_handle) \/ ui' = "accounts"
      PROVE  LinkInv'
  <2>1. CASE tables = "live"
    <3>1. PeerSeen /\ ComingOK
      BY <1>b, <2>1 DEF Linked
    <3>2. PeerSeen' /\ ComingOK'
      BY <1>c, <3>1, KeepSeen
    <3>3. outbox' = outbox \o r
      BY <1>b, <1>c, <2>1, FireOpen
    <3>4. Linked'
      BY <1>b, <1>c, <2>1, <3>2, <3>3, FiresStay
    <3> QED BY <1>c, <3>4 DEF LinkInv
  <2>2. CASE tables # "live"
    BY <1>c, <2>2 DEF LinkInv
  <2> QED BY <2>1, <2>2
<1>d. ASSUME NEW f \in Frame, ~HasHandle(f) PROVE << f >> \in Seq(Frame) /\ \A g \in ToSet(<< f >>) : ~HasHandle(g)
  BY <1>d, OrderedOne
<1>2. ASSUME NEW t \in Topics, send_amqp_attach(t) PROVE LinkInv'
  <2>1. CASE tables = "live"
    <3>1. /\ ui = "main" /\ FreshHandle /\ next_handle' = next_handle + 1
          /\ amqp_add_link(next_handle, t)
          /\ use_and_fire(<< Attach("RECEIVER", next_handle, t) >>)
          /\ UNCHANGED << inbox, topic_name_map_outgoing, pSub, pPub, pTopic, clash, ui >>
      BY <1>2 DEF send_amqp_attach, Button, peerVars
    <3>2. Short(next_handle) = next_handle
      BY <1>b, <2>1, <3>1, FreshLink DEF Linked
    <3>3. outbox' = outbox \o << Attach("RECEIVER", next_handle, t) >>
      BY <1>b, <2>1, <3>1, FireOpen
    <3>4. /\ topic_name_map' = [ topic_name_map EXCEPT ![t] = next_handle ]
          /\ reverse_topic_name_map' = [ reverse_topic_name_map EXCEPT ![next_handle] = t ]
      BY <3>1, <3>2 DEF amqp_add_link
    <3>5. Linked'
      BY <1>b, <2>1, <3>1, <3>3, <3>4, FreshLinked
    <3> QED BY <3>1, <3>5 DEF LinkInv
  <2>2. CASE tables # "live"
    BY <1>2, <2>2 DEF send_amqp_attach, LinkInv, peerVars
  <2> QED BY <2>1, <2>2
<1>3. ASSUME NEW t \in Topics, send_amqp_detach(t) PROVE LinkInv'
  <2> DEFINE h == topic_name_map[t]
             r == IF h = 0 THEN << >> ELSE << Detach(h) >>
  <2>1. /\ ui = "main" /\ use_and_fire(r)
        /\ UNCHANGED << inbox, tables, reverse_topic_name_map, topic_name_map, topic_name_map_outgoing,
                        pSub, pPub, pTopic, clash, ui, next_handle >>
    BY <1>3 DEF send_amqp_detach, Button, amqp_get_handler_from_map, tableVars, peerVars, counterVars
  <2>2. h \in Handles
    BY DEF TypeOK, AmqpTimersTypeOK
  <2>3. Detach(h) \in Frame /\ Detach(h).type = "DETACH" /\ Detach(h).handle = h
    BY <2>2, FrameTyped, FrameFields
  <2>4. << Detach(h) >> \in Seq(Frame) /\ ToSet(<< Detach(h) >>) = { Detach(h) }
    BY <2>3, OrderedOne
  <2>5. r \in Seq(Frame) /\ \A f \in ToSet(r) : f.type = "DETACH" /\ f.handle = topic_name_map[t]
    BY <1>a, <2>3, <2>4, FramesOf
  <2> HIDE DEF h, r
  <2> QED BY <1>c, <2>1, <2>5
<1>4. ASSUME NEW c \in Contents, NEW t \in Topics, NEW s \in UserSettled, send_amqp_transfer(c, t, s)
      PROVE  LinkInv'
  <2> DEFINE h == topic_name_map_outgoing[t]
             f == Transfer(IF h # 0 THEN h ELSE next_handle, packet_id_counter, s, c)
  <2>1. /\ ui = "main" /\ packet_id_counter <= MaxDelivery
        /\ \/ /\ h # 0
              /\ use_and_fire(<< f >>)
              /\ UNCHANGED << next_handle, tableVars >>
           \/ /\ h = 0
              /\ FreshHandle
              /\ next_handle' = next_handle + 1
              /\ amqp_add_link_outgoing(next_handle, t)
              /\ use_and_fire(<< Attach("SENDER", next_handle, t) >>)
              /\ UNCHANGED << topic_name_map, tables >>
        /\ UNCHANGED << inbox, pSub, pPub, pTopic, clash, ui >>
    BY <1>4 DEF send_amqp_transfer, Button, amqp_get_handler_from_map_outgoing, peerVars
  <2>2. h \in Handles /\ packet_id_counter \in Deliveries /\ s \in BOOLEAN
    BY <2>1, AmqpTableBounds, AmqpClientBounds DEF TypeOK, AmqpTimersTypeOK, Deliveries
  <2>3. CASE h # 0 /\ use_and_fire(<< f >>) /\ UNCHANGED << next_handle, tableVars >>
    <3>1. f = Transfer(h, packet_id_counter, s, c)
      BY <2>3
    <3>2. f \in Frame /\ ~HasHandle(f)
      BY <2>2, <3>1, FrameTyped, FrameFields DEF HasHandle
    <3> HIDE DEF f
    <3>3. << f >> \in Seq(Frame) /\ \A g \in ToSet(<< f >>) : ~HasHandle(g)
      BY <1>d, <3>2
    <3> QED BY <1>c, <2>1, <2>3, <3>3 DEF tableVars
  <2>4. CASE /\ h = 0
             /\ FreshHandle
             /\ next_handle' = next_handle + 1
             /\ amqp_add_link_outgoing(next_handle, t)
             /\ use_and_fire(<< Attach("SENDER", next_handle, t) >>)
             /\ UNCHANGED << topic_name_map, tables >>
    <3>1. CASE tables = "live"
      <4>2. Short(next_handle) = next_handle
        BY <1>b, <2>1, <2>4, <3>1, FreshLink DEF Linked
      <4>3. outbox' = outbox \o << Attach("SENDER", next_handle, t) >>
        BY <1>b, <2>4, <3>1, FireOpen
      <4>4. /\ topic_name_map_outgoing' = [ topic_name_map_outgoing EXCEPT ![t] = next_handle ]
            /\ reverse_topic_name_map' = [ reverse_topic_name_map EXCEPT ![next_handle] = t ]
        BY <2>4, <4>2 DEF amqp_add_link_outgoing
      <4>5. Linked'
        BY <1>b, <2>1, <2>4, <3>1, <4>3, <4>4, FreshLinked
      <4> QED BY <2>1, <4>5 DEF LinkInv
    <3>2. CASE tables # "live"
      BY <2>1, <2>4, <3>2 DEF LinkInv
    <3> QED BY <3>1, <3>2
  <2> QED BY <2>1, <2>3, <2>4
\* nothing changes
<1>e. ASSUME UNCHANGED << tables, clash, inbox, outbox, reverse_topic_name_map, topic_name_map,
                          topic_name_map_outgoing, pSub, pPub, pTopic, ui, next_handle, m_handler,
                          m_delivery_id >>
      PROVE  LinkInv'
  <2>1. Linked => Linked'
    BY <1>e, LinksSame
  <2> QED BY <1>e, <2>1 DEF LinkInv
<1>5. CASE log_out_handle
  BY <1>e, <1>5 DEF log_out_handle, amqpNetVars, tableVars, peerVars, counterVars
<1>6. CASE start_amqp_connect_timer
  BY <1>e, <1>6 DEF start_amqp_connect_timer, amqpNetVars, tableVars, peerVars, counterVars
<1>7. CASE start_amqp_connect_fire
  <2>1. Alive /\ gui = "conn_fire" /\ UNCHANGED << tables, clash >>
    BY <1>7 DEF start_amqp_connect_fire, Gui, tableVars, peerVars
  <2>2. tables # "live"
    BY <1>b, <2>1, MainStage
  <2> QED BY <2>1, <2>2 DEF LinkInv
<1>8. CASE send_amqp_end
  <2>1. /\ fire_all(<< Plain("END") >>) /\ ui' = "accounts"
        /\ UNCHANGED << inbox, tables, reverse_topic_name_map, topic_name_map, topic_name_map_outgoing,
                        pSub, pPub, pTopic, clash >>
    BY <1>8 DEF send_amqp_end, amqp_encode_and_fire, tableVars, peerVars
  <2>2. << Plain("END") >> \in Seq(Frame) /\ \A f \in ToSet(<< Plain("END") >>) : ~HasHandle(f)
    BY <1>d, LoginFrames, LoginTypes DEF HasHandle
  <2>3. use_and_fire(<< Plain("END") >>)
    BY <2>1 DEF use_and_fire
  <2> QED BY <1>c, <2>1, <2>2, <2>3
<1> QED BY <1>1, <1>2, <1>3, <1>4, <1>5, <1>6, <1>7, <1>8 DEF UserStep, GuiStep

-----------------------------------------------------------------------------
(* The link invariant: the worker.                                         *)

\* The worker has heard of a link on which the peer sends, or of its end.
LEMMA RxHears ==
  ASSUME TypeOK, StageInv, LinkInv, rx_attach_sender \/ rx_detach
  PROVE  LinkInv'
<1>a. PICK f : f = Head(inbox)
  OBVIOUS
<1>b. PICK h : h = f.handle
  OBVIOUS
<1>1. Rx({ "ATTACH" }) \/ Rx({ "DETACH" })
  BY DEF rx_attach_sender, rx_detach
<1>2. /\ f \in Frame /\ (f.type = "ATTACH" \/ f.type = "DETACH") /\ f = inbox[1]
      /\ Alive /\ net = "open" /\ inbox # << >> /\ inbox' = Tail(inbox)
      /\ inbox \in Seq(Frame) /\ 1 \in 1 .. Len(inbox)
  BY <1>1, <1>a, RxTakes
<1>3. tables = "live" /\ ui # "loading"
  <2>1. Head(inbox).type \in { "ATTACH", "TRANSFER", "DISPOSITION", "DETACH", "END" }
    BY <1>2, <1>a
  <2> QED BY <1>2, <2>1, RxStage DEF Main
<1>4. PeerSeen /\ ComingOK /\ OrderedIn(outbox) /\ (\A g \in ToSet(outbox) : Leaves(g)) /\ NamesIn
      /\ NamesOut /\ FreshUnused /\ ~clash
  BY <1>3 DEF LinkInv, Linked, GoingOK
<1>5. Touches(f, h) /\ \A k : k # h => ~Touches(f, k)
  <2>1. f.type = "DETACH" \/ (f.type = "ATTACH" /\ f.role = "SENDER")
    BY <1>a, RxTakes DEF rx_attach_sender, rx_detach
  <2> QED BY <1>b, <2>1 DEF Touches
<1>6. h \in Handles /\ Short(h) = h /\ h \in Nat
  BY <1>b, <1>2, FrameHas, ShortIsSame DEF Handles
<1>7. Arrives(1)
  BY <1>2, <1>4 DEF ComingOK
<1>8. \A t : Sees(h, t, 0) <=> reverse_topic_name_map[h] = t
  BY SeesNow DEF Sees
<1>9. f \in ToSet(inbox) /\ ToSet(inbox') \subseteq ToSet(inbox)
  BY <1>2, FramesOf
<1>10. \A k : NoTouch(k) => k # h /\ NoTouch(k)'
  BY <1>5, <1>9 DEF NoTouch
<1>c. /\ UNCHANGED << outbox, pSub, pPub, pTopic, clash, tables, ui, topic_name_map_outgoing >>
  BY DEF rx_attach_sender, rx_detach, peerVars, amqpGuiVars
\* what the table then says of the handle is what the frame says
<1>11. /\ reverse_topic_name_map'[h] = f.topic
       /\ \A k \in Handles : k # h => reverse_topic_name_map'[k] = reverse_topic_name_map[k]
  <2>1. CASE rx_attach_sender
    <3>1. reverse_topic_name_map' = [ reverse_topic_name_map EXCEPT ![h] = f.topic ]
      BY <1>a, <1>b, <1>6, <2>1 DEF rx_attach_sender, amqp_add_link
    <3> QED BY <1>6, <3>1 DEF TypeOK, AmqpTimersTypeOK
  <2>2. CASE rx_detach
    <3>1. f.topic = NoTopic
      <4>1. f.type = "DETACH"
        BY <1>a, <2>2, RxTakes DEF rx_detach
      <4> QED BY <1>2, <1>7, <4>1 DEF Arrives
    <3>2. \/ reverse_topic_name_map[h] = NoTopic /\ reverse_topic_name_map' = reverse_topic_name_map
          \/ reverse_topic_name_map' = [ reverse_topic_name_map EXCEPT ![h] = NoTopic ]
      BY <1>a, <1>b, <1>6, <2>2 DEF rx_detach, amqp_remove_link, amqp_get_topic_name_from_map
    <3> QED BY <1>6, <3>1, <3>2 DEF TypeOK, AmqpTimersTypeOK
  <2> QED BY <2>1, <2>2
\* no name is lost that still has its handle
<1>12. \A u \in Topics :
         \/ topic_name_map'[u] = 0
         \/ topic_name_map'[u] = h /\ reverse_topic_name_map'[h] = u
         \/ topic_name_map'[u] = topic_name_map[u] /\ (topic_name_map[u] = h => reverse_topic_name_map'[h] = u)
  <2>1. CASE rx_attach_sender
    <3>1. topic_name_map' = [ topic_name_map EXCEPT ![f.topic] = h ]
      BY <1>a, <1>b, <1>6, <2>1 DEF rx_attach_sender, amqp_add_link
    <3>2. f.type = "ATTACH" /\ f.role = "SENDER"
      BY <1>a, <2>1, RxTakes DEF rx_attach_sender
    <3>3. /\ h # 0
          /\ \A t \in Topics : reverse_topic_name_map[h] = t => t = f.topic
      BY <1>2, <1>7, <1>8, <1>b, <3>2 DEF Arrives
    <3>4. \A u \in Topics : u # f.topic =>
            topic_name_map'[u] = topic_name_map[u] /\ topic_name_map[u] # h
      BY <1>4, <3>1, <3>3 DEF NamesIn, TypeOK, AmqpTimersTypeOK
    <3>5. \A u \in Topics : u = f.topic => topic_name_map'[u] = h
      BY <3>1 DEF TypeOK, AmqpTimersTypeOK
    <3> QED BY <1>11, <3>4, <3>5
  <2>2. CASE rx_detach
    <3> DEFINE t == reverse_topic_name_map[h]
    <3>1. \/ t = NoTopic /\ topic_name_map' = topic_name_map
          \/ t # NoTopic /\ topic_name_map' = [ topic_name_map EXCEPT ![t] = 0 ]
      BY <1>a, <1>b, <1>6, <2>2 DEF rx_detach, amqp_remove_link, amqp_get_topic_name_from_map
    <3>2. \A u \in Topics : topic_name_map'[u] = 0 \/ (topic_name_map'[u] = topic_name_map[u] /\ u # t)
      BY <3>1, AmqpTableBounds DEF TypeOK, AmqpTimersTypeOK
    <3>3. \A u \in Topics : u # t => topic_name_map[u] = 0 \/ topic_name_map[u] # h
      BY <1>4 DEF NamesIn
    <3> QED BY <3>2, <3>3
  <2> QED BY <2>1, <2>2
<1>13. /\ next_handle \in Nat /\ ServerHandle \in Nat /\ next_handle' \in Nat
       /\ next_handle' = next_handle \/ (next_handle' = h + 1 /\ h >= next_handle)
       /\ f.topic # NoTopic => next_handle' > h
  <2>1. next_handle \in Nat /\ ServerHandle \in Nat
    BY AmqpTableBounds, ShortIsSame DEF TypeOK, Handles
  <2>2. CASE rx_attach_sender
    BY <1>a, <1>b, <1>6, <2>1, <2>2 DEF rx_attach_sender, HandleAfter
  <2>3. CASE rx_detach
    <3>1. next_handle' = next_handle /\ f.type = "DETACH"
      BY <1>a, <2>3, RxTakes DEF rx_detach, counterVars
    <3>2. f.topic = NoTopic
      BY <1>2, <1>7, <3>1 DEF Arrives
    <3> QED BY <2>1, <3>1, <3>2
  <2> QED BY <2>2, <2>3
<1>14. PeerSeen' /\ ComingOK'
  <2>1. \A k \in Handles : reverse_topic_name_map'[k] =
          IF Touches(inbox[1], k) THEN inbox[1].topic ELSE reverse_topic_name_map[k]
    BY <1>2, <1>5, <1>11
  <2> QED BY <1>2, <1>4, <1>c, <2>1, RxSeen
<1>15. GoingOK'
  <2>1. ASSUME NEW g \in ToSet(outbox), g.type = "ATTACH" PROVE Leaves(g)'
    <3>1. Leaves(g) /\ Untouched(g.handle)
      BY <1>4, <2>1 DEF Leaves
    <3>2. g.handle # h /\ Untouched(g.handle)'
      BY <1>10, <1>c, <3>1 DEF Untouched
    <3>3. g.handle \in Handles
      <4>1. g \in Frame
        BY <2>1, FramesOf DEF TypeOK, AmqpTimersTypeOK
      <4> QED BY <4>1, FrameHas
    <3> QED BY <1>11, <3>1, <3>2, <3>3, <2>1 DEF Leaves
  <2> QED BY <1>4, <1>c, <2>1 DEF GoingOK, Leaves
<1>16. NamesIn'
  <2>1. \A u \in Topics : topic_name_map'[u] # 0 => reverse_topic_name_map'[topic_name_map'[u]] = u
    <3> TAKE u \in Topics
    <3>1. CASE topic_name_map'[u] = topic_name_map[u] /\ topic_name_map[u] # h /\ topic_name_map[u] # 0
      <4>1. topic_name_map[u] \in Handles /\ reverse_topic_name_map[topic_name_map[u]] = u
        BY <1>4, <3>1 DEF NamesIn, TypeOK, AmqpTimersTypeOK
      <4> QED BY <1>11, <3>1, <4>1
    <3> QED BY <1>12, <3>1
  <2> QED BY <2>1 DEF NamesIn
<1>17. NamesOut'
  <2>1. ASSUME NEW u \in Topics, topic_name_map_outgoing[u] # 0
        PROVE  SendsOn(topic_name_map_outgoing[u], u)'
    <3>0. PICK k : k = topic_name_map_outgoing[u]
      OBVIOUS
    <3>1. SendsOn(k, u) /\ k \in Handles
      BY <1>4, <2>1, <3>0 DEF NamesOut, TypeOK, AmqpTimersTypeOK
    <3>2. k # h /\ NoTouch(k)'
      BY <1>10, <3>1 DEF SendsOn
    <3>3. \A v \in Topics : topic_name_map'[v] # k
      BY <1>12, <2>1, <3>0, <3>1, <3>2 DEF SendsOn
    <3>4. SendsOn(k, u)'
      BY <1>11, <1>c, <3>1, <3>2, <3>3 DEF SendsOn
    <3>5. k = topic_name_map_outgoing'[u]
      BY <1>c, <3>0
    <3> QED BY <3>4, <3>5 DEF SendsOn
  <2> QED BY <1>c, <2>1 DEF NamesOut
<1>18. FreshUnused'
  <2> SUFFICES ASSUME ui = "main"
               PROVE  /\ \A k \in Handles \ {0} : InUse(k)' => k < next_handle' \/ k = ServerHandle
                      /\ next_handle' <= ServerHandle => reverse_topic_name_map'[ServerHandle] = NoTopic
    BY <1>c DEF FreshUnused
  <2>1. /\ \A k \in Handles \ {0} : InUse(k) => k < next_handle \/ k = ServerHandle
        /\ next_handle <= ServerHandle => reverse_topic_name_map[ServerHandle] = NoTopic
    BY <1>4 DEF FreshUnused
  <2>2. ASSUME NEW k \in Handles \ {0}, InUse(k)' PROVE InUse(k)
    <3>1. CASE k = h
      <4>1. ~NoTouch(h)
        BY <1>10
      <4> QED BY <3>1, <4>1 DEF InUse
    <3>2. CASE k # h
      <4>1. reverse_topic_name_map'[k] = reverse_topic_name_map[k]
        BY <1>11, <3>2
      <4>2. \A u \in Topics : topic_name_map'[u] = k => topic_name_map[u] = k
        BY <1>12, <2>2, <3>2
      <4>3. ~NoTouch(k)' => ~NoTouch(k)
        BY <1>10
      <4>4. (\E g \in ToSet(outbox) : HasHandle(g) /\ g.handle = k)'
              => \E g \in ToSet(outbox) : HasHandle(g) /\ g.handle = k
        BY <1>c
      <4> QED BY <1>c, <2>2, <4>1, <4>2, <4>3, <4>4 DEF InUse
    <3> QED BY <3>1, <3>2
  <2>3. \A k \in Handles : k \in Nat
    BY DEF Handles
  <2>4. ASSUME NEW k \in Handles \ {0}, InUse(k)' PROVE k < next_handle' \/ k = ServerHandle
    <3>1. k < next_handle \/ k = ServerHandle
      BY <2>1, <2>2, <2>4
    <3>2. k \in Nat
      BY <2>3
    <3> QED BY <1>6, <1>13, <3>1, <3>2
  <2>5. ASSUME next_handle' <= ServerHandle PROVE reverse_topic_name_map'[ServerHandle] = NoTopic
    <3>1. reverse_topic_name_map[ServerHandle] = NoTopic
      BY <1>6, <1>13, <2>1, <2>5
    <3>2. ServerHandle = h => f.topic = NoTopic
      BY <1>6, <1>13, <2>5
    <3> QED BY <1>11, <3>1, <3>2, ShortIsSame
  <2> QED BY <2>4, <2>5
<1>19. NothingYet'
  BY <1>3, <1>c DEF NothingYet
<1> QED BY <1>4, <1>c, <1>14, <1>15, <1>16, <1>17, <1>18, <1>19 DEF LinkInv, Linked

\* OPEN: the tables are new.
LEMMA OpenLinks ==
  ASSUME TypeOK, StageInv, LinkInv, rx_open
  PROVE  LinkInv'
<1>1. /\ Rx({ "OPEN" }) /\ EmptyTables /\ fire_all(<< Plain("BEGIN") >>)
      /\ UNCHANGED << pSub, pPub, clash, ui >>
  BY DEF rx_open, start_amqp_ping_timer, send_amqp_begin, amqp_encode_and_fire, peerVars, amqpGuiVars
<1>2. Alive /\ net = "open" /\ inbox # << >> /\ inbox' = Tail(inbox) /\ Head(inbox).type = "OPEN"
  BY <1>1, RxTakes
<1>3. Handshake /\ << outbox, inbox >> \in Exchange
  BY <1>2, RxStage
<1>4. outbox = << >> /\ inbox' = << >>
  <2>1. Head(inbox) # Verdict("PROTO", FALSE)
    BY <1>2, LoginTypes
  <2> QED BY <1>2, <1>3, <2>1, ExchangeHeads
<1>5. ToSet(outbox') = { Plain("BEGIN") } /\ OrderedIn(outbox') /\ ToSet(inbox') = {}
  <2>1. outbox' = << >> \o << Plain("BEGIN") >>
    BY <1>1, <1>2, <1>4, FireOpen
  <2>2. outbox' = << Plain("BEGIN") >>
    BY <2>1, LoginFrames, Short12
  <2> QED BY <1>4, <2>2, LoginFrames, OrderedOne DEF ToSet
<1>6. Plain("BEGIN").type = "BEGIN" /\ ui = "loading" /\ pSub = NoLinks /\ pPub = NoLinks
  BY <1>3, LoginTypes DEF Handshake
<1>7. Len(inbox') = 0
  BY <1>4
<1>8. reverse_topic_name_map' = [ h \in Handles |-> NoTopic ]
  BY <1>1 DEF EmptyTables
<1>9. PeerSeen'
  <2>1. \A h \in Handles : pSub'[h] = NoTopic
    BY <1>1, <1>6 DEF NoLinks
  <2>2. SeesIn(inbox', reverse_topic_name_map', ServerHandle, NoTopic, 0)
    BY <1>8, ShortIsSame, SeesNow
  <2> QED BY <1>7, <2>1, <2>2 DEF PeerSeen, Sees
<1>10. ComingOK'
  BY <1>7 DEF ComingOK
<1>11. GoingOK'
  BY <1>5, <1>6 DEF GoingOK, Leaves
<1>12. NamesIn' /\ NamesOut'
  BY <1>1 DEF EmptyTables, NamesIn, NamesOut
<1>13. FreshUnused'
  BY <1>1, <1>6 DEF FreshUnused
<1>14. NothingYet'
  BY <1>1, <1>5, <1>6 DEF NothingYet, EmptyTables, NoLinks, NoTouch
<1>15. ~clash'
  BY <1>1 DEF LinkInv
<1> QED BY <1>9, <1>10, <1>11, <1>12, <1>13, <1>14, <1>15 DEF LinkInv, Linked

\* BEGIN: every stored topic gets a link.
LEMMA BeginLinks ==
  ASSUME TypeOK, StageInv, LinkInv, rx_begin
  PROVE  LinkInv'
<1>a. PICK n : n = Len(StoredTopics)
  OBVIOUS
<1>b. PICK h0 : h0 = next_handle
  OBVIOUS
<1>c. PICK s : s = StoredTopics
  OBVIOUS
<1> DEFINE r == [ k \in 1 .. n |-> Attach("RECEIVER", h0 + k - 1, s[k]) ]
<1>1. /\ n \in Nat /\ h0 \in Nat /\ h0 >= 1 /\ h0 + n <= ServerHandle /\ ServerHandle <= MaxHandle
      /\ ServerHandle \in Nat
      /\ next_handle' = h0 + n
      /\ \A k \in 1 .. n : h0 + k - 1 \in Handles
      /\ \A k \in 1 .. n : topic_name_map'[s[k]] = h0 + k - 1
      /\ \A t \in Topics : t \notin Stored => topic_name_map'[t] = topic_name_map[t]
  BY <1>a, <1>b, <1>c, BeginHandles, ShortIsSame DEF Handles
<1>2. /\ r \in Seq(Frame) /\ Len(r) = n
      /\ \A k \in 1 .. n : r[k] = Attach("RECEIVER", h0 + k - 1, s[k])
      /\ fire_all(r)
  BY <1>a, <1>b, <1>c, BeginFrames
<1>3. /\ \A j \in 1 .. n : s[j] \in Topics /\ s[j] # NoTopic
      /\ \A t \in Stored : \E k \in 1 .. n : s[k] = t
  <2>1. \A j \in 1 .. n : s[j] \in Stored
    BY <1>a, <1>c, StoredList
  <2>2. \A t \in Stored : t \in Topics
    BY Zenon DEF Stored
  <2> QED BY <1>a, <1>c, <2>1, <2>2, StoredList, AmqpTableBounds
<1>4. /\ \A h \in Handles : reverse_topic_name_map'[h] =
           IF h \in h0 .. h0 + n - 1 THEN s[h - h0 + 1] ELSE reverse_topic_name_map[h]
      /\ ui' = "main"
      /\ UNCHANGED << topic_name_map_outgoing, tables, pSub, pPub, pTopic, clash >>
  BY <1>a, <1>b, <1>c DEF rx_begin, peerVars
<1>5. /\ Alive /\ net = "open" /\ inbox # << >> /\ inbox' = Tail(inbox) /\ Head(inbox).type = "BEGIN"
      /\ inbox[1] = Head(inbox) /\ inbox \in Seq(Frame) /\ outbox \in Seq(Frame)
  <2>1. Rx({ "BEGIN" })
    BY DEF rx_begin
  <2> QED BY <2>1, RxTakes DEF TypeOK, AmqpTimersTypeOK
<1>6. Begun /\ tables = "live"
  BY <1>5, RxStage
<1>7. PeerSeen /\ ComingOK /\ OrderedIn(outbox) /\ ~clash
      /\ reverse_topic_name_map = [ h \in Handles |-> NoTopic ]
      /\ topic_name_map = [ t \in Topics |-> 0 ]
      /\ topic_name_map_outgoing = [ t \in Topics |-> 0 ]
      /\ (\A h \in Handles \ {ServerHandle} : pSub[h] = NoTopic /\ NoTouch(h))
      /\ pPub = NoLinks
  BY <1>6 DEF LinkInv, Linked, GoingOK, NothingYet, Begun
<1> HIDE DEF r
<1>8. outbox' = outbox \o r
  BY <1>2, <1>5, FireOpen
<1>9. ToSet(inbox') \subseteq ToSet(inbox)
  BY <1>5, FramesOf
<1>10. \A h : NoTouch(h) => NoTouch(h)'
  BY <1>9, NoTouchLess
<1>11. \A f \in ToSet(outbox) : f.type = "PING"
  <2>1. OfTypes(outbox, { "PING" })
    BY <1>6 DEF Begun
  <2> QED BY <1>5, <2>1, FramesOf DEF OfTypes
\* what is put on q
<1>12. \A k \in 1 .. n : /\ r[k].type = "ATTACH" /\ r[k].role = "RECEIVER"
                         /\ r[k].handle = h0 + k - 1 /\ r[k].topic = s[k]
  BY <1>2, FrameFields
<1>13. ASSUME NEW f \in ToSet(r)
       PROVE  \E k \in 1 .. n : f = r[k] /\ f.handle = h0 + k - 1 /\ f.topic = s[k]
  BY <1>2, <1>12, FramesOf
<1>14. PeerSeen' /\ ComingOK'
  <2>1. ASSUME NEW h \in Handles, h \in h0 .. h0 + n - 1 PROVE Unused(h)
    <3>1. h # ServerHandle
      BY <1>1, <2>1
    <3> QED BY <1>7, <3>1 DEF Unused
  <2>2. \A h : ~Touches(inbox[1], h)
    BY <1>5 DEF Touches
  <2>3. \A h \in Handles :
          \/ reverse_topic_name_map'[h] =
               IF Touches(inbox[1], h) THEN inbox[1].topic ELSE reverse_topic_name_map[h]
          \/ Unused(h)
    BY <1>4, <2>1, <2>2
  <2> QED BY <1>4, <1>5, <1>7, <2>3, RxSeen
<1>15. OrderedIn(outbox')
  <2>1. OrderedIn(r)
    <3>1. ASSUME NEW j \in 1 .. Len(r), NEW k \in 1 .. Len(r), j < k PROVE r[j].handle # r[k].handle
      BY <1>1, <1>2, <1>12, <3>1
    <3> QED BY <3>1 DEF OrderedIn
  <2>2. \A f \in ToSet(outbox) : ~HasHandle(f)
    BY <1>11 DEF HasHandle
  <2> QED BY <1>2, <1>5, <1>7, <1>8, <2>1, <2>2, OrderedJoined
<1>16. ToSet(outbox') = ToSet(outbox) \cup ToSet(r)
  BY <1>2, <1>5, <1>8, FramesJoined
<1>17. ASSUME NEW k \in 1 .. n
       PROVE  /\ h0 + k - 1 \in Handles \ {0, ServerHandle} /\ h0 + k - 1 < h0 + n
              /\ reverse_topic_name_map'[h0 + k - 1] = s[k]
  <2>1. h0 + k - 1 \in Handles /\ h0 + k - 1 \in h0 .. h0 + n - 1 /\ (h0 + k - 1) - h0 + 1 = k
    BY <1>1
  <2> QED BY <1>1, <1>4, <2>1
<1>18. ASSUME NEW f \in ToSet(outbox') PROVE Leaves(f)'
  <2>1. CASE f \in ToSet(outbox)
    BY <1>11, <2>1 DEF Leaves
  <2>2. CASE f \in ToSet(r)
    <3>1. PICK k \in 1 .. n : f.handle = h0 + k - 1 /\ f.topic = s[k]
      BY <1>13, <2>2
    <3>2. f.handle \in Handles \ {0, ServerHandle} /\ reverse_topic_name_map'[f.handle] = s[k]
      BY <1>17, <3>1
    <3>3. pSub[f.handle] = NoTopic /\ pPub[f.handle] = NoTopic /\ NoTouch(f.handle)'
      BY <1>7, <1>10, <3>2 DEF NoLinks
    <3> QED BY <1>3, <1>4, <3>1, <3>2, <3>3 DEF Leaves, Untouched
  <2> QED BY <1>16, <1>18, <2>1, <2>2
<1>19. ASSUME NEW t \in Topics, topic_name_map'[t] # 0
       PROVE  \E k \in 1 .. n : s[k] = t /\ topic_name_map'[t] = h0 + k - 1
  BY <1>1, <1>3, <1>7, <1>19
<1>20. NamesIn'
  <2>1. ASSUME NEW t \in Topics, topic_name_map'[t] # 0
        PROVE  reverse_topic_name_map'[topic_name_map'[t]] = t
    BY <1>17, <1>19, <2>1
  <2> QED BY <2>1 DEF NamesIn
<1>21. NamesOut'
  BY <1>4, <1>7 DEF NamesOut
<1>22. FreshUnused'
  <2>1. ASSUME NEW h \in Handles \ {0}, InUse(h)' PROVE h < h0 + n \/ h = ServerHandle
    <3> SUFFICES ASSUME h # ServerHandle PROVE h < h0 + n
      OBVIOUS
    <3>1. pSub'[h] = NoTopic /\ pPub'[h] = NoTopic /\ NoTouch(h)'
      BY <1>4, <1>7, <1>10 DEF NoLinks
    <3>2. \A t \in Topics : topic_name_map_outgoing'[t] # h
      BY <1>4, <1>7
    <3>3. h \in Nat
      BY DEF Handles
    <3>4. CASE reverse_topic_name_map'[h] # NoTopic
      <4>1. h \in h0 .. h0 + n - 1
        BY <1>4, <1>7, <3>4
      <4> QED BY <1>1, <3>3, <4>1
    <3>5. CASE \E t \in Topics : topic_name_map'[t] = h
      BY <1>17, <1>19, <3>5
    <3>6. CASE \E f \in ToSet(outbox') : HasHandle(f) /\ f.handle = h
      <4>1. PICK f \in ToSet(r) : f.handle = h
        BY <1>11, <1>16, <3>6 DEF HasHandle
      <4> QED BY <1>13, <1>17, <4>1
    <3> QED BY <2>1, <3>1, <3>2, <3>4, <3>5, <3>6 DEF InUse
  <2>2. reverse_topic_name_map'[ServerHandle] = NoTopic
    <3>1. ServerHandle \in Handles /\ ServerHandle \notin h0 .. h0 + n - 1
      BY <1>1, ShortIsSame
    <3> QED BY <1>4, <1>7, <3>1
  <2> QED BY <1>1, <2>1, <2>2 DEF FreshUnused
<1>23. NothingYet'
  BY <1>4 DEF NothingYet
<1> QED BY <1>4, <1>7, <1>14, <1>15, <1>18, <1>20, <1>21, <1>22, <1>23 DEF LinkInv, Linked, GoingOK

\* The steps of the worker.
LEMMA WorkerLinks ==
  ASSUME TypeOK, StageInv, LinkInv, WorkerStep
  PROVE  LinkInv'
<1>1. CASE rx_outcome_refused
  <2>1. /\ Rx({ "OUTCOME" }) /\ ~Head(inbox).ok /\ UNCHANGED << tables, clash >>
    BY <1>1 DEF rx_outcome_refused, tableVars, peerVars
  <2>2. Alive /\ net = "open" /\ inbox # << >> /\ Head(inbox).type = "OUTCOME"
    BY <2>1, RxTakes
  <2>3. tables # "live"
    BY <2>1, <2>2, RxStage
  <2> QED BY <2>1, <2>3 DEF LinkInv
<1>2. CASE service_task_ends
  <2>1. tables' # "live" /\ clash' = clash
    BY <1>2 DEF service_task_ends, amqp_stop_all_timers
  <2> QED BY <2>1 DEF LinkInv
<1> QED BY <1>1, <1>2, RxLinks, RxHears, OpenLinks, BeginLinks DEF WorkerStep

-----------------------------------------------------------------------------
(* The link invariant: the timers and the peer.                            *)

LEMMA TimerLinks ==
  ASSUME TypeOK, StageInv, LinkInv, TimerStep
  PROVE  LinkInv'
<1>0. tables = "live" => net = "open" /\ Linked
  BY DEF StageInv, LiveIsServed, LinkInv
<1>a. ASSUME UNCHANGED << tables, clash, inbox, outbox, reverse_topic_name_map, topic_name_map,
                          topic_name_map_outgoing, pSub, pPub, pTopic, ui, next_handle, m_handler,
                          m_delivery_id >>
      PROVE  LinkInv'
  <2>1. Linked => Linked'
    BY <1>a, LinksSame
  <2> QED BY <1>a, <2>1 DEF LinkInv
\* a frame that is no ATTACH
<1>b. ASSUME NEW f \in Frame, ~HasHandle(f), fire_all(<< f >>),
             UNCHANGED << tables, clash, inbox, reverse_topic_name_map, topic_name_map,
                          topic_name_map_outgoing, pSub, pPub, pTopic, ui, next_handle, m_handler,
                          m_delivery_id >>
      PROVE  LinkInv'
  <2>1. CASE tables = "live"
    <3>1. PeerSeen /\ ComingOK
      BY <1>0, <2>1 DEF Linked
    <3>2. PeerSeen' /\ ComingOK'
      BY <1>b, <3>1, KeepSeen
    <3>3. << f >> \in Seq(Frame) /\ ToSet(<< f >>) = { f }
      BY OrderedOne
    <3>4. \A g \in ToSet(<< f >>) : ~HasHandle(g)
      BY <1>b, <3>3
    <3>5. outbox' = outbox \o << f >>
      BY <1>0, <1>b, <2>1, FireOpen
    <3>6. Linked'
      BY <1>0, <1>b, <2>1, <3>2, <3>3, <3>4, <3>5, FiresStay
    <3> QED BY <1>b, <3>6, <2>1 DEF LinkInv
  <2>2. CASE tables # "live"
    BY <1>b, <2>2 DEF LinkInv
  <2> QED BY <2>1, <2>2
<1>1. CASE Timer(amqp_connect_task)
  BY <1>a, <1>1 DEF Timer, amqp_connect_task, restOfClient, tableVars, peerVars, amqpGuiVars, counterVars
<1>2. CASE Timer(amqp_ping_task)
  <2>1. Plain("PING") \in Frame /\ ~HasHandle(Plain("PING"))
    BY LoginFrames, LoginTypes DEF HasHandle
  <2> QED BY <1>b, <1>2, <2>1
    DEF Timer, amqp_ping_task, amqp_encode_and_fire, restOfClient, tableVars, peerVars, amqpGuiVars, counterVars
<1>3. ASSUME NEW id \in Deliveries, Timer(amqp_message_resend_task(id)) PROVE LinkInv'
  BY <1>a, <1>3
  DEF Timer, amqp_message_resend_task, restOfClient, amqpNetVars, tableVars, peerVars, amqpGuiVars, counterVars
<1>4. CASE Timer(amqp_message_resend_fire)
  <2>1. hold # NoFrame /\ fire_all(<< hold >>)
    BY <1>4 DEF Timer, amqp_message_resend_fire, amqp_encode_and_fire
  <2>2. hold \in Frame /\ ~HasHandle(hold)
    BY <2>1 DEF TypeOK, AmqpTimersTypeOK, StageInv, OnlyTransfers, IsTransfer, HasHandle
  <2> QED BY <1>b, <1>4, <2>1, <2>2
    DEF Timer, amqp_message_resend_fire, restOfClient, tableVars, peerVars, amqpGuiVars, counterVars
<1> QED BY <1>1, <1>2, <1>3, <1>4 DEF TimerStep

\* The peer has read a frame, or has sent one of its own, that is about no link.
LEMMA PeerKeeps ==
  ASSUME TypeOK, Linked,
         outbox' = outbox \/ (outbox # << >> /\ outbox' = Tail(outbox)),
         inbox' = inbox \/ \E g \in Frame : /\ inbox' = inbox \o << g >>
                                            /\ g.type \notin { "TRANSFER", "ATTACH", "DETACH" },
         UNCHANGED << reverse_topic_name_map, topic_name_map, topic_name_map_outgoing,
                      pSub, pPub, pTopic, ui, next_handle, m_handler, m_delivery_id >>
  PROVE  Linked'
<1>1. PeerSeen /\ ComingOK /\ OrderedIn(outbox) /\ outbox \in Seq(Frame) /\ inbox \in Seq(Frame)
  BY DEF Linked, GoingOK, TypeOK, AmqpTimersTypeOK
<1>2. OrderedIn(outbox') /\ ToSet(outbox') \subseteq ToSet(outbox)
  <2>1. CASE outbox' = outbox
    BY <1>1, <2>1
  <2>2. CASE outbox # << >> /\ outbox' = Tail(outbox)
    BY <1>1, <2>2, OrderedTail, FramesOf
  <2> QED BY <2>1, <2>2
<1>3. CASE inbox' = inbox
  <2>1. PeerSeen' /\ ComingOK'
    BY <1>1, <1>3, KeepSeen
  <2>2. \A h : NoTouch(h) => NoTouch(h)'
    BY <1>3 DEF NoTouch
  <2> QED BY <1>2, <2>1, <2>2, LinksStay
<1>4. ASSUME NEW g \in Frame, inbox' = inbox \o << g >>, g.type \notin { "TRANSFER", "ATTACH", "DETACH" }
      PROVE  Linked'
  <2>1. \A h : ~Touches(g, h)
    BY <1>4 DEF Touches
  <2>2. PeerSeen' /\ ComingOK'
    BY <1>1, <1>4, <2>1, AddSeen
  <2>3. ToSet(inbox') = ToSet(inbox) \cup { g }
    BY <1>1, <1>4, FramesAdded
  <2>4. \A h : NoTouch(h) => NoTouch(h)'
    BY <2>1, <2>3, NoTouchMore
  <2> QED BY <1>2, <2>2, <2>4, LinksStay
<1> QED BY <1>3, <1>4

\* The peer has read an ATTACH or a DETACH and answers for the same handle.
LEMMA PeerAnswers ==
  ASSUME TypeOK, Linked, ui # "loading",
         outbox # << >>, outbox' = Tail(outbox), HasHandle(Head(outbox)),
         NEW g \in Frame, inbox' = inbox \o << g >>,
         \A h : Touches(g, h) => Moves(Head(outbox), h),
         \A h \in Handles \ { Head(outbox).handle } : pSub'[h] = pSub[h] /\ pPub'[h] = pPub[h],
         PeerSeen', ComingOK',
         UNCHANGED << reverse_topic_name_map, topic_name_map, topic_name_map_outgoing, ui, next_handle >>
  PROVE  Linked'
<1>a. PICK f : f = Head(outbox)
  OBVIOUS
<1>1. /\ OrderedIn(outbox) /\ (\A q \in ToSet(outbox) : Leaves(q)) /\ NamesIn /\ NamesOut /\ FreshUnused
      /\ outbox \in Seq(Frame) /\ inbox \in Seq(Frame)
  BY DEF Linked, GoingOK, TypeOK, AmqpTimersTypeOK
<1>2. /\ OrderedIn(outbox') /\ ToSet(outbox') \subseteq ToSet(outbox) /\ f \in ToSet(outbox)
      /\ \A q \in ToSet(outbox') : q.type = "ATTACH" => q.handle # f.handle
  BY <1>1, <1>a, OrderedTail, FramesOf
<1>3. ToSet(inbox') = ToSet(inbox) \cup { g }
  BY <1>1, FramesAdded
<1>4. \A h : NoTouch(h) /\ ~Touches(g, h) => NoTouch(h)'
  BY <1>3 DEF NoTouch
<1>5. \A h : Touches(g, h) => h = f.handle /\ Moves(f, h)
  BY <1>a DEF Moves
<1>6. ASSUME NEW q \in ToSet(outbox'), q.type = "ATTACH" PROVE Leaves(q)'
  <2>1. Leaves(q) /\ q.handle # f.handle /\ q \in Frame
    BY <1>1, <1>2, <1>6, FramesOf
  <2>2. q.handle \in Handles
    BY <2>1, FrameHas
  <2>3. Untouched(q.handle)
    BY <1>6, <2>1 DEF Leaves
  <2>4. NoTouch(q.handle)'
    BY <1>4, <1>5, <2>1, <2>3 DEF Untouched
  <2>5. Untouched(q.handle)'
    BY <1>a, <2>1, <2>2, <2>3, <2>4 DEF Untouched
  <2> QED BY <1>6, <2>1, <2>5 DEF Leaves
<1>7. GoingOK'
  BY <1>2, <1>6 DEF GoingOK, Leaves
<1>8. NamesIn'
  BY <1>1 DEF NamesIn
<1>9. ASSUME NEW u \in Topics, topic_name_map_outgoing[u] # 0
      PROVE  SendsOn(topic_name_map_outgoing[u], u)'
  <2>1. SendsOn(topic_name_map_outgoing[u], u)
    BY <1>1, <1>9 DEF NamesOut
  <2>2. ~Touches(g, topic_name_map_outgoing[u])
    BY <1>2, <1>5, <2>1 DEF SendsOn
  <2>3. NoTouch(topic_name_map_outgoing[u])'
    <3>1. PICK k : k = topic_name_map_outgoing[u]
      OBVIOUS
    <3>2. NoTouch(k)'
      BY <1>4, <2>1, <2>2, <3>1 DEF SendsOn
    <3> QED BY <3>1, <3>2 DEF NoTouch
  <2>4. \A q \in ToSet(outbox') : ~Moves(q, topic_name_map_outgoing[u])
    BY <1>2, <2>1 DEF SendsOn
  <2> QED BY <2>1, <2>3, <2>4 DEF SendsOn
<1>10. NamesOut'
  BY <1>9 DEF NamesOut
<1>11. FreshUnused'
  <2>1. InUse(f.handle)
    BY <1>2, <1>a DEF InUse
  <2>2. ASSUME NEW h \in Handles, InUse(h)' PROVE InUse(h)
    <3>1. CASE h = f.handle
      BY <2>1, <3>1
    <3>2. CASE h # f.handle
      <4>1. ~NoTouch(h)' => ~NoTouch(h)
        BY <1>4, <1>5, <3>2
      <4>2. pSub'[h] = pSub[h] /\ pPub'[h] = pPub[h]
        BY <1>a, <3>2
      <4> QED BY <1>2, <2>2, <4>1, <4>2 DEF InUse
    <3> QED BY <3>1, <3>2
  <2> QED BY <1>1, <2>2 DEF FreshUnused
<1>12. NothingYet'
  BY DEF NothingYet
<1> QED BY <1>7, <1>8, <1>10, <1>11, <1>12 DEF Linked

\* The steps of the peer.
LEMMA PeerLinks ==
  ASSUME TypeOK, StageInv, LinkInv, FiledInv, PeerStep
  PROVE  LinkInv'
<1>0. AttachNamed /\ inbox \in Seq(Frame) /\ outbox \in Seq(Frame) /\ Len(inbox) \in Nat
  BY DEF StageInv, TypeOK, AmqpTimersTypeOK
<1>a. ASSUME NEW A, Peer(A)
      PROVE  /\ Alive
             /\ UNCHANGED << tables, reverse_topic_name_map, topic_name_map, topic_name_map_outgoing,
                             m_handler, m_delivery_id, ui, next_handle >>
  BY <1>a DEF Peer, restOfClient, tableVars, amqpGuiVars, counterVars
<1>b. tables = "live" => Linked
  BY DEF LinkInv
\* a frame that is about no link
<1>c. ASSUME NEW A, Peer(A), UNCHANGED << pSub, pPub, pTopic, clash >>,
             outbox' = outbox \/ (outbox # << >> /\ outbox' = Tail(outbox)),
             inbox' = inbox \/ \E g \in Frame : /\ inbox' = inbox \o << g >>
                                                /\ g.type \notin { "TRANSFER", "ATTACH", "DETACH" }
      PROVE  LinkInv'
  <2>1. tables' = tables
    BY <1>a, <1>c
  <2>2. tables = "live" => Linked'
    BY <1>a, <1>b, <1>c, PeerKeeps
  <2> QED BY <1>c, <2>1, <2>2 DEF LinkInv
<1>1. ASSUME Peer(ReadLogIn) PROVE LinkInv'
  <2>1. UNCHANGED << pSub, pPub, pTopic, clash >>
    BY <1>1 DEF Peer, ReadLogIn
  <2>2. CASE Read("BEGIN") /\ Reply(<< Plain("BEGIN") >>)
    <3>1. outbox # << >> /\ outbox' = Tail(outbox)
      BY <2>2, ReadTakes
    <3>2. Plain("BEGIN") \in Frame /\ Plain("BEGIN").type \notin { "TRANSFER", "ATTACH", "DETACH" }
      BY LoginFrames, LoginTypes
    <3>3. inbox' = inbox \o << Plain("BEGIN") >>
      BY <2>2 DEF Reply
    <3> QED BY <1>1, <1>c, <2>1, <3>1, <3>2, <3>3
  <2>3. CASE \E type \in { "PROTO", "INIT", "OPEN" } : Read(type)
    <3>1. PICK type \in { "PROTO", "INIT", "OPEN" } : Read(type)
      BY <2>3
    <3>2. net = "open" /\ outbox # << >> /\ Head(outbox).type = type
      BY <3>1, ReadTakes
    <3>3. tables # "live"
      BY <1>a, <1>1, <3>1, <3>2, ReadStage
    <3>4. tables' = tables
      BY <1>1, <1>a
    <3> QED BY <2>1, <3>3, <3>4 DEF LinkInv
  <2> QED BY <1>1, <2>2, <2>3 DEF Peer, ReadLogIn
<1>2. ASSUME Peer(RefuseLogIn) PROVE LinkInv'
  <2>1. UNCHANGED << pSub, pPub, pTopic, clash >>
    BY <1>2 DEF Peer, RefuseLogIn
  <2>2. PICK type \in { "PROTO", "INIT", "OPEN" } : Read(type)
    BY <1>2 DEF Peer, RefuseLogIn
  <2>3. net = "open" /\ outbox # << >> /\ Head(outbox).type = type
    BY <2>2, ReadTakes
  <2>4. tables # "live"
    BY <1>a, <1>2, <2>2, <2>3, ReadStage
  <2>5. tables' = tables
    BY <1>2, <1>a
  <2> QED BY <2>1, <2>4, <2>5 DEF LinkInv
\* the frames about links
<1>d. ASSUME Alive, NEW type \in { "ATTACH", "DETACH" }, Read(type)
      PROVE  /\ tables = "live" /\ ui # "loading" /\ Linked
             /\ outbox # << >> /\ outbox' = Tail(outbox) /\ HasHandle(Head(outbox))
             /\ Head(outbox) \in Frame /\ Head(outbox).type = type /\ Head(outbox).handle \in Handles
             /\ Leaves(Head(outbox))
             /\ type = "ATTACH" => Head(outbox).topic \in Topics
  <2>1. /\ net = "open" /\ outbox # << >> /\ outbox' = Tail(outbox) /\ Head(outbox).type = type
        /\ Head(outbox) \in Frame /\ Head(outbox) = outbox[1] /\ 1 \in 1 .. Len(outbox)
    BY <1>d, ReadTakes
  <2>2. Head(outbox).handle \in Handles
    BY <2>1, FrameHas
  <2>3. Head(outbox).type \in UserTypes
    BY <2>1 DEF UserTypes
  <2>4. Main /\ tables = "live"
    BY <1>d, <2>1, <2>3, ReadStage
  <2>5. Linked /\ Leaves(Head(outbox))
    <3>1. Head(outbox) \in ToSet(outbox)
      BY <1>0, <2>1, FramesOf
    <3> QED BY <1>b, <2>4, <3>1 DEF Linked, GoingOK
  <2>6. type = "ATTACH" => Head(outbox).topic \in Topics
    BY <1>0, <2>1 DEF AttachNamed, Named
  <2> QED BY <2>1, <2>2, <2>4, <2>5, <2>6 DEF HasHandle, Main
<1>3. ASSUME Peer(ReadAttach) PROVE LinkInv'
  <2>a. PICK f : f = Head(outbox)
    OBVIOUS
  <2>b. PICK h : h = f.handle
    OBVIOUS
  <2>c. reverse_topic_name_map' = reverse_topic_name_map
    BY <1>3, <1>a
  <2>1. Read("ATTACH") /\ ReadAttach /\ UNCHANGED pTopic
    BY <1>3 DEF Peer, ReadAttach
  <2>2. /\ tables = "live" /\ ui # "loading" /\ Linked
        /\ outbox # << >> /\ outbox' = Tail(outbox) /\ HasHandle(f)
        /\ f \in Frame /\ f.type = "ATTACH" /\ h \in Handles
        /\ Leaves(f) /\ f.topic \in Topics
    BY <1>3, <1>a, <1>d, <2>1, <2>a, <2>b
  <2>3. /\ h # 0 /\ h # ServerHandle /\ f.topic # NoTopic /\ reverse_topic_name_map[h] = f.topic
        /\ pSub[h] = NoTopic /\ pPub[h] = NoTopic /\ NoTouch(h)
    BY <2>2, <2>b DEF Leaves, Untouched
  <2>4. ~clash'
    BY <2>1, <2>3, <2>a, <2>b DEF ReadAttach, Used, LinkInv
  <2>5. PeerSeen /\ ComingOK
    BY <2>2 DEF Linked
  <2>6. /\ \A role, t, k : Touches(Attach(role, h, t), k) <=> k = h /\ role = "SENDER"
        /\ Moves(f, h) <=> f.role = "RECEIVER"
    BY <2>2, <2>b, FrameFields DEF Touches, Moves
  <2>7. CASE f.role = "RECEIVER"
    <3>0. PICK g : g = Attach("SENDER", h, f.topic)
      OBVIOUS
    <3>1. g \in Frame /\ g.type = "ATTACH" /\ g.role = "SENDER" /\ g.handle = h /\ g.topic = f.topic
      BY <2>2, <3>0, FrameTyped, FrameFields
    <3>2. inbox' = inbox \o << g >> /\ pSub' = [ pSub EXCEPT ![h] = f.topic ] /\ pPub' = pPub
      BY <2>1, <2>7, <2>a, <2>b, <3>0 DEF ReadAttach, Reply
    <3>3. pSub'[h] = f.topic /\ \A k \in Handles \ {h} : pSub'[k] = pSub[k]
      BY <2>2, <3>2 DEF TypeOK, AmqpPeerTypeOK
    <3>4. \A k : Touches(g, k) <=> k = h
      BY <2>6, <3>0
    <3>5. \A t : Sees(h, t, Len(inbox)) <=> reverse_topic_name_map[h] = t
      <4>1. \A q \in ToSet(inbox) : ~Touches(q, h)
        BY <2>3 DEF NoTouch
      <4>2. Len(inbox) \in 0 .. Len(inbox)
        BY <1>0
      <4> QED BY <1>0, <4>1, <4>2, SeesTable DEF Sees
    <3>6. PeerSeen' /\ ComingOK'
      <4>1. \A k \in Handles : pSub'[k] = NoTopic \/ (pSub'[k] = pSub[k] /\ ~Touches(g, k))
                               \/ (Touches(g, k) /\ g.topic = pSub'[k])
        BY <3>1, <3>3, <3>4
      <4>2. pSub'[ServerHandle] = pSub[ServerHandle] /\ ~Touches(g, ServerHandle)
        BY <2>3, <3>3, <3>4, ShortIsSame
      <4>3. /\ g.handle # 0 /\ g.topic # NoTopic
            /\ \A t \in Topics : Sees(g.handle, t, Len(inbox)) => t = g.topic
        BY <2>3, <3>1, <3>5
      <4>4. reverse_topic_name_map' = reverse_topic_name_map /\ pTopic' = pTopic
        BY <2>1, <2>c
      <4> QED BY <2>5, <3>1, <3>2, <4>1, <4>2, <4>3, <4>4, AddSeen
    <3>7. \A k : Touches(g, k) => Moves(Head(outbox), k)
      BY <2>6, <2>7, <2>a, <3>4
    <3>8. \A k \in Handles \ { Head(outbox).handle } : pSub'[k] = pSub[k] /\ pPub'[k] = pPub[k]
      BY <2>a, <2>b, <3>2, <3>3
    <3>9. Linked'
      BY <1>3, <1>a, <2>2, <2>a, <3>1, <3>2, <3>6, <3>7, <3>8, PeerAnswers
    <3> QED BY <2>4, <3>9 DEF LinkInv
  <2>8. CASE f.role # "RECEIVER"
    <3>0. PICK g : g = Attach("RECEIVER", h, f.topic)
      OBVIOUS
    <3>1. g \in Frame /\ g.type = "ATTACH" /\ g.role = "RECEIVER"
      BY <2>2, <3>0, FrameTyped, FrameFields
    <3>2. inbox' = inbox \o << g >> /\ pPub' = [ pPub EXCEPT ![h] = f.topic ] /\ pSub' = pSub
      BY <2>1, <2>8, <2>a, <2>b, <3>0 DEF ReadAttach, Reply
    <3>3. \A k \in Handles \ {h} : pPub'[k] = pPub[k]
      BY <2>2, <3>2 DEF TypeOK, AmqpPeerTypeOK
    <3>4. \A k : ~Touches(g, k)
      BY <3>1 DEF Touches
    <3>6. PeerSeen' /\ ComingOK'
      <4>4. reverse_topic_name_map' = reverse_topic_name_map /\ pTopic' = pTopic
        BY <2>1, <2>c
      <4> QED BY <2>5, <3>1, <3>2, <3>4, <4>4, AddSeen
    <3>8. \A k \in Handles \ { Head(outbox).handle } : pSub'[k] = pSub[k] /\ pPub'[k] = pPub[k]
      BY <2>a, <2>b, <3>2, <3>3
    <3>9. Linked'
      BY <1>3, <1>a, <2>2, <2>a, <3>1, <3>2, <3>4, <3>6, <3>8, PeerAnswers
    <3> QED BY <2>4, <3>9 DEF LinkInv
  <2> QED BY <2>7, <2>8
<1>4. ASSUME Peer(ReadDetach) PROVE LinkInv'
  <2>a. PICK f : f = Head(outbox)
    OBVIOUS
  <2>b. PICK h : h = f.handle
    OBVIOUS
  <2>1. /\ Read("DETACH") /\ pSub' = [ pSub EXCEPT ![h] = NoTopic ] /\ Reply(<< Detach(h) >>)
        /\ UNCHANGED << pPub, clash, pTopic >>
    BY <1>4, <2>a, <2>b DEF Peer, ReadDetach
  <2>2. /\ tables = "live" /\ ui # "loading" /\ Linked
        /\ outbox # << >> /\ outbox' = Tail(outbox) /\ HasHandle(f)
        /\ f.type = "DETACH" /\ h \in Handles
    BY <1>4, <1>a, <1>d, <2>1, <2>a, <2>b
  <2>3. PICK g : g = Detach(h)
    OBVIOUS
  <2>4. g \in Frame /\ g.type = "DETACH" /\ g.handle = h /\ g.topic = NoTopic /\ inbox' = inbox \o << g >>
    BY <2>1, <2>2, <2>3, FrameTyped, FrameFields DEF Reply
  <2>5. (\A k : Touches(g, k) <=> k = h) /\ Moves(f, h)
    BY <2>2, <2>4, <2>b DEF Touches, Moves
  <2>6. pSub'[h] = NoTopic /\ \A k \in Handles \ {h} : pSub'[k] = pSub[k]
    BY <2>1, <2>2 DEF TypeOK, AmqpPeerTypeOK
  <2>7. PeerSeen' /\ ComingOK'
    <3>1. PeerSeen /\ ComingOK
      BY <2>2 DEF Linked
    <3>2. \A k \in Handles : pSub'[k] = NoTopic \/ (pSub'[k] = pSub[k] /\ ~Touches(g, k))
                             \/ (Touches(g, k) /\ g.topic = pSub'[k])
      BY <2>5, <2>6
    <3>3. (pSub'[ServerHandle] = pSub[ServerHandle] /\ ~Touches(g, ServerHandle))
           \/ (Touches(g, ServerHandle) /\ g.topic = pSub'[ServerHandle])
      BY <2>4, <2>5, <2>6, ShortIsSame
    <3>4. reverse_topic_name_map' = reverse_topic_name_map /\ pTopic' = pTopic
      BY <1>4, <1>a, <2>1
    <3> QED BY <2>4, <3>1, <3>2, <3>3, <3>4, AddSeen
  <2>8. \A k : Touches(g, k) => Moves(Head(outbox), k)
    BY <2>5, <2>a
  <2>9. \A k \in Handles \ { Head(outbox).handle } : pSub'[k] = pSub[k] /\ pPub'[k] = pPub[k]
    BY <2>1, <2>6, <2>a, <2>b
  <2>10. Linked'
    BY <1>4, <1>a, <2>2, <2>a, <2>4, <2>7, <2>8, <2>9, PeerAnswers
  <2> QED BY <2>1, <2>10 DEF LinkInv
<1>5. ASSUME Peer(ReadTransfer) PROVE LinkInv'
  <2>1. /\ Read("TRANSFER") /\ (inbox' = inbox \/ Reply(<< Disposition(Head(outbox).id) >>))
        /\ UNCHANGED << pSub, pPub, pTopic, clash >>
    BY <1>5 DEF Peer, ReadTransfer
  <2>2. outbox # << >> /\ outbox' = Tail(outbox)
    BY <2>1, ReadTakes
  <2>3. Disposition(Head(outbox).id) \in Frame /\ Disposition(Head(outbox).id).type = "DISPOSITION"
    BY <2>1, ReadTakes, FrameHas, FrameTyped, FrameFields
  <2>4. inbox' = inbox \/ \E g \in Frame : /\ inbox' = inbox \o << g >>
                                           /\ g.type \notin { "TRANSFER", "ATTACH", "DETACH" }
    BY <2>1, <2>3 DEF Reply
  <2> QED BY <1>5, <1>c, <2>1, <2>2, <2>4
<1>6. ASSUME Peer(ReadDisposition) PROVE LinkInv'
  <2>1. Read("DISPOSITION") /\ UNCHANGED << inbox, pSub, pPub, pTopic, clash >>
    BY <1>6 DEF Peer, ReadDisposition
  <2>2. outbox # << >> /\ outbox' = Tail(outbox)
    BY <2>1, ReadTakes
  <2> QED BY <1>6, <1>c, <2>1, <2>2
<1>7. ASSUME Peer(ReadPing) PROVE LinkInv'
  <2>1. Read("PING") /\ UNCHANGED << inbox, pSub, pPub, pTopic, clash >>
    BY <1>7 DEF Peer, ReadPing, peerVars
  <2>2. outbox # << >> /\ outbox' = Tail(outbox)
    BY <2>1, ReadTakes
  <2> QED BY <1>7, <1>c, <2>1, <2>2
<1>8. ASSUME Peer(ReadEnd) PROVE LinkInv'
  <2>1. PICK type \in { "END", "CLOSE" } : Read(type) /\ Reply(<< Plain(type) >>)
    BY <1>8 DEF Peer, ReadEnd
  <2>2. UNCHANGED << pSub, pPub, pTopic, clash >>
    BY <1>8 DEF Peer, ReadEnd
  <2>3. outbox # << >> /\ outbox' = Tail(outbox)
    BY <2>1, ReadTakes
  <2>4. Plain(type) \in Frame /\ Plain(type).type = type
    BY <2>1, LoginFrames, LoginTypes
  <2>5. \E g \in Frame : inbox' = inbox \o << g >> /\ g.type \notin { "TRANSFER", "ATTACH", "DETACH" }
    BY <2>1, <2>4 DEF Reply
  <2> QED BY <1>8, <1>c, <2>2, <2>3, <2>5
<1>e. ASSUME Alive, net = "open", pConn = "begun" PROVE tables = "live" /\ Linked
  BY <1>b, <1>e, MainStage
<1>9. ASSUME NEW t \in Topics, Peer(PeerAttaches(t)) PROVE LinkInv'
  <2>1. /\ net = "open" /\ pConn = "begun" /\ pSub[ServerHandle] = NoTopic
        /\ pSub' = [ pSub EXCEPT ![ServerHandle] = t ]
        /\ inbox' = inbox \o << Attach("SENDER", ServerHandle, t) >>
        /\ UNCHANGED << outbox, pPub, clash, pTopic >>
    BY <1>9 DEF Peer, PeerAttaches, Used, Reply
  <2>2. tables = "live" /\ Linked /\ PeerSeen /\ ComingOK /\ GoingOK /\ NamesIn /\ NamesOut
        /\ FreshUnused /\ NothingYet
    BY <1>9, <1>a, <1>e, <2>1 DEF Linked
  <2>a. PICK g : g = Attach("SENDER", ServerHandle, t)
    OBVIOUS
  <2>3. /\ g \in Frame /\ g.type = "ATTACH" /\ g.role = "SENDER" /\ g.handle = ServerHandle /\ g.topic = t
        /\ inbox' = inbox \o << g >> /\ t # NoTopic /\ ServerHandle # 0 /\ ServerHandle \in Handles
    BY <2>1, <2>a, FrameTyped, FrameFields, ShortIsSame, AmqpTableBounds
  <2>4. \A k : Touches(g, k) <=> k = ServerHandle
    BY <2>3 DEF Touches
  <2>5. pSub'[ServerHandle] = t /\ \A k \in Handles \ {ServerHandle} : pSub'[k] = pSub[k]
    BY <2>1, <2>3 DEF TypeOK, AmqpPeerTypeOK
  <2>6. \A u \in Topics : ~Sees(ServerHandle, u, Len(inbox))
    <3>1. Sees(ServerHandle, NoTopic, Len(inbox))
      BY <2>1, <2>2 DEF PeerSeen
    <3>2. ASSUME NEW u \in Topics, Sees(ServerHandle, u, Len(inbox)) PROVE FALSE
      <4>1. u = NoTopic
        BY <1>0, <3>1, <3>2, SeesOne DEF Sees
      <4> QED BY <4>1, AmqpTableBounds
    <3> QED BY <3>2, Zenon
  <2>7. PeerSeen' /\ ComingOK'
    <3>1. \A k \in Handles : pSub'[k] = NoTopic \/ (pSub'[k] = pSub[k] /\ ~Touches(g, k))
                             \/ (Touches(g, k) /\ g.topic = pSub'[k])
      BY <2>3, <2>4, <2>5
    <3>2. Touches(g, ServerHandle) /\ g.topic = pSub'[ServerHandle]
      BY <2>3, <2>4, <2>5
    <3>3. reverse_topic_name_map' = reverse_topic_name_map /\ pTopic' = pTopic
      BY <1>9, <1>a, <2>1
    <3> QED BY <2>2, <2>3, <2>6, <3>1, <3>2, <3>3, AddSeen
  <2>8. ToSet(inbox') = ToSet(inbox) \cup { g }
    BY <1>0, <2>3, FramesAdded
  <2>9. \A k : NoTouch(k) /\ k # ServerHandle => NoTouch(k)'
    BY <2>4, <2>8 DEF NoTouch
  <2>10. UNCHANGED << tables, reverse_topic_name_map, topic_name_map, topic_name_map_outgoing,
                      m_handler, m_delivery_id, ui, next_handle >>
    BY <1>9, <1>a
  <2>11. GoingOK'
    <3>1. ASSUME NEW q \in ToSet(outbox), q.type = "ATTACH" PROVE Leaves(q)'
      <4>1. Leaves(q) /\ q \in Frame
        BY <1>0, <2>2, <3>1, FramesOf DEF GoingOK
      <4>2. q.handle \in Handles \ {ServerHandle} /\ Untouched(q.handle)
        BY <3>1, <4>1, FrameHas DEF Leaves
      <4>3. Untouched(q.handle)'
        BY <2>1, <2>5, <2>9, <4>2 DEF Untouched
      <4> QED BY <2>10, <3>1, <4>1, <4>3 DEF Leaves
    <3> QED BY <2>1, <2>2, <3>1 DEF GoingOK, Leaves
  <2>12. NamesIn' /\ NamesOut'
    <3>1. ASSUME NEW u \in Topics, topic_name_map_outgoing[u] # 0
          PROVE  SendsOn(topic_name_map_outgoing[u], u)'
      <4>0. PICK k : k = topic_name_map_outgoing[u]
        OBVIOUS
      <4>1. SendsOn(k, u)
        BY <2>2, <3>1, <4>0 DEF NamesOut
      <4>2. SendsOn(k, u)'
        BY <2>1, <2>9, <2>10, <4>1 DEF SendsOn
      <4> QED BY <2>10, <4>0, <4>2 DEF SendsOn
    <3> QED BY <2>2, <2>10, <3>1 DEF NamesIn, NamesOut
  <2>13. FreshUnused'
    <3>1. ASSUME NEW k \in Handles, InUse(k)' PROVE InUse(k) \/ k = ServerHandle
      BY <2>1, <2>5, <2>9, <2>10, <3>1 DEF InUse
    <3> QED BY <2>2, <2>10, <3>1 DEF FreshUnused
  <2>14. NothingYet'
    BY <2>1, <2>2, <2>5, <2>9, <2>10 DEF NothingYet
  <2> QED BY <2>1, <2>7, <2>11, <2>12, <2>13, <2>14 DEF LinkInv, Linked
<1>10. ASSUME NEW i \in AmqpIncoming, NEW h \in Handles, Peer(PeerTransfers(i, h)) PROVE LinkInv'
  <2>1. /\ net = "open" /\ pConn = "begun" /\ pSub[h] # NoTopic /\ pIn[i] = "new"
        /\ pTopic' = [ pTopic EXCEPT ![i] = pSub[h] ]
        /\ UNCHANGED << outbox, pSub, pPub, clash >>
    BY <1>10 DEF Peer, PeerTransfers
  <2>a. PICK s \in BOOLEAN : Reply(<< Transfer(h, i, s, i) >>)
    BY <1>10 DEF Peer, PeerTransfers
  <2>b. PICK g : g = Transfer(h, i, s, i)
    OBVIOUS
  <2>2. tables = "live" /\ Linked /\ PeerSeen /\ ComingOK /\ OrderedIn(outbox)
    BY <1>10, <1>a, <1>e, <2>1 DEF Linked, GoingOK
  <2>3. g \in Frame /\ g.type = "TRANSFER" /\ g.handle = h /\ g.data = i /\ inbox' = inbox \o << g >>
    <3>1. i \in Deliveries
      BY AmqpPeerBounds
    <3> QED BY <2>a, <2>b, <3>1, FrameTyped, FrameFields DEF Reply
  <2>4. \A k : ~Touches(g, k)
    BY <2>3 DEF Touches
  <2>5. pTopic'[i] = pSub[h] /\ \A j \in AmqpIncoming \ {i} : pTopic'[j] = pTopic[j]
    BY <2>1 DEF TypeOK, AmqpPeerTypeOK
  <2>6. \A k \in 1 .. Len(inbox) :
          inbox[k].type = "TRANSFER" => pTopic'[inbox[k].data] = pTopic[inbox[k].data]
    <3> SUFFICES ASSUME NEW k \in 1 .. Len(inbox), inbox[k].type = "TRANSFER"
                 PROVE  pTopic'[inbox[k].data] = pTopic[inbox[k].data]
      OBVIOUS
    <3>1. inbox[k].data \in AmqpIncoming
      BY <2>2 DEF ComingOK, Arrives
    <3>2. inbox[k] \in ToSet(inbox)
      BY <1>0, FramesOf
    <3>3. pIn[inbox[k].data] # "new"
      BY <2>2, <3>2 DEF FiledInv
    <3> QED BY <2>1, <2>5, <3>1, <3>3
  <2>7. PeerSeen' /\ ComingOK'
    <3>1. g.data \in AmqpIncoming /\ pTopic'[g.data] # NoTopic /\ Sees(g.handle, pTopic'[g.data], Len(inbox))
      BY <2>1, <2>2, <2>3, <2>5 DEF PeerSeen
    <3>2. reverse_topic_name_map' = reverse_topic_name_map
      BY <1>10, <1>a
    <3> QED BY <2>1, <2>2, <2>3, <2>4, <2>6, <3>1, <3>2, AddSeen
  <2>8. ToSet(inbox') = ToSet(inbox) \cup { g }
    BY <1>0, <2>3, FramesAdded
  <2>9. \A k : NoTouch(k) => NoTouch(k)'
    BY <2>4, <2>8, NoTouchMore
  <2>10. Linked'
    <3>1. UNCHANGED << reverse_topic_name_map, topic_name_map, topic_name_map_outgoing, m_handler,
                       m_delivery_id, ui, next_handle >>
      BY <1>10, <1>a
    <3>2. OrderedIn(outbox') /\ \A f \in ToSet(outbox') : f \in ToSet(outbox)
      BY <2>1, <2>2
    <3> QED BY <2>1, <2>2, <2>7, <2>9, <3>1, <3>2, LinksStay
  <2> QED BY <2>1, <2>10 DEF LinkInv
<1>11. ASSUME Peer(PeerCloses) PROVE LinkInv'
  <2>1. UNCHANGED << inbox, outbox, pSub, pPub, pTopic, clash >>
    BY <1>11 DEF Peer, PeerCloses
  <2> QED BY <1>11, <1>c, <2>1
<1> QED
  BY <1>1, <1>2, <1>3, <1>4, <1>5, <1>6, <1>7, <1>8, <1>9, <1>10, <1>11
  DEF PeerStep, PeerReads, Peer

-----------------------------------------------------------------------------
(* What the peer has sent is filed under its topic.                        *)

\* Nothing is stored, and what is on its way was sent.
LEMMA FiledStay ==
  ASSUME FiledInv, fault' # "null_topic", UNCHANGED << received, pTopic >>,
         \A i \in AmqpIncoming : pIn'[i] = "new" => pIn[i] = "new",
         tables' = "live" =>
           \A f \in ToSet(inbox') : f.type = "TRANSFER" =>
             (tables = "live" /\ f \in ToSet(inbox) /\ pIn'[f.data] = pIn[f.data]) \/ pIn'[f.data] # "new"
  PROVE  FiledInv'
BY DEF FiledInv

\* The steps of the client.
LEMMA ClientFiled ==
  ASSUME TypeOK, StageInv, LinkInv, FiledInv, UserStep \/ GuiStep \/ WorkerStep \/ TimerStep
  PROVE  FiledInv'
<1>a. inbox \in Seq(Frame) /\ fault # "null_topic"
  BY DEF TypeOK, AmqpTimersTypeOK, FiledInv
<1>b. ASSUME fault' # "null_topic", UNCHANGED << received, peerVars, inbox, tables >>
      PROVE  FiledInv'
  BY <1>b, FiledStay DEF peerVars
<1>c. \A frames : fire_all(frames) \/ use_and_fire(frames) => fault' # "null_topic"
  BY <1>a DEF fire_all, use_and_fire
<1>d. ASSUME NEW types, Rx(types), fault' # "null_topic", UNCHANGED << received, peerVars, tables >>
      PROVE  FiledInv'
  <2>1. ToSet(inbox') \subseteq ToSet(inbox)
    BY <1>d, RxTakes, FramesOf
  <2> QED BY <1>d, <2>1, FiledStay DEF peerVars
<1>1. CASE LogIn
  <2>1. /\ net # "open" /\ UNCHANGED << fault, tables, received, pIn, pTopic >>
    BY <1>1 DEF LogIn, tableVars, storeVars
  <2>2. tables # "live"
    BY <2>1 DEF StageInv, LiveIsServed
  <2> QED BY <1>a, <2>1, <2>2, FiledStay
<1>2. CASE (\E t \in Topics : send_amqp_attach(t)) \/ (\E t \in Topics : send_amqp_detach(t))
  <2>1. (\E r : use_and_fire(r)) /\ UNCHANGED << received, peerVars, inbox, tables >>
    BY <1>2 DEF send_amqp_attach, send_amqp_detach, storeVars, tableVars
  <2> QED BY <1>b, <1>c, <2>1
<1>3. ASSUME NEW c \in Contents, NEW t \in Topics, NEW s \in UserSettled, send_amqp_transfer(c, t, s)
      PROVE  FiledInv'
  <2>1. UNCHANGED << received, peerVars, inbox, tables >>
    BY <1>3 DEF send_amqp_transfer, storeVars, tableVars
  <2>2. \E r : use_and_fire(r)
    BY <1>3 DEF send_amqp_transfer
  <2> QED BY <1>b, <1>c, <2>1, <2>2
<1>4. CASE log_out_handle \/ start_amqp_connect_timer
  BY <1>4, <1>a, <1>b DEF log_out_handle, start_amqp_connect_timer, amqpNetVars, tableVars, storeVars
<1>5. CASE start_amqp_connect_fire \/ send_amqp_end
  <2>1. (\E r : fire_all(r)) /\ UNCHANGED << received, peerVars, inbox, tables >>
    BY <1>5 DEF start_amqp_connect_fire, send_amqp_end, amqp_encode_and_fire, tableVars, storeVars
  <2> QED BY <1>b, <1>c, <2>1
<1>6. CASE rx_answered
  <2>1. /\ Rx({ "PROTO", "MECHANISMS", "END", "OUTCOME" }) /\ fire_all(AnswerTo(Head(inbox)))
        /\ UNCHANGED << received, peerVars, tables >>
    BY <1>6 DEF rx_answered, tableVars, storeVars
  <2> QED BY <1>c, <1>d, <2>1
<1>7. CASE rx_outcome_refused
  <2>1. Rx({ "OUTCOME" }) /\ UNCHANGED << fault, received, peerVars, tables >>
    BY <1>7 DEF rx_outcome_refused, tableVars, storeVars
  <2> QED BY <1>a, <1>d, <2>1
<1>8. CASE rx_open
  <2>1. Rx({ "OPEN" }) /\ fire_all(<< Plain("BEGIN") >>) /\ UNCHANGED << received, peerVars >>
    BY <1>8 DEF rx_open, send_amqp_begin, amqp_encode_and_fire, storeVars
  <2>2. Alive /\ net = "open" /\ inbox # << >> /\ inbox' = Tail(inbox) /\ Head(inbox).type = "OPEN"
    BY <2>1, RxTakes
  <2>3. << outbox, inbox >> \in Exchange /\ Head(inbox) # Verdict("PROTO", FALSE)
    BY <2>2, RxStage, LoginTypes
  <2>4. inbox' = << >>
    BY <2>2, <2>3, ExchangeHeads
  <2>5. ToSet(inbox') = {}
    BY <2>4 DEF ToSet
  <2> QED BY <1>c, <2>1, <2>5, FiledStay DEF peerVars
<1>9. CASE rx_begin
  <2>1. Rx({ "BEGIN" }) /\ UNCHANGED << received, peerVars, tables >>
    BY <1>9 DEF rx_begin
  <2>2. \E r : fire_all(r)
    BY <1>9, BeginFrames
  <2> QED BY <1>c, <1>d, <2>1, <2>2
<1>10. CASE rx_attach_receiver
  <2>1. Rx({ "ATTACH" }) /\ UNCHANGED << received, peerVars, tables >>
    BY <1>10 DEF rx_attach_receiver
  <2>2. UNCHANGED fault \/ \E f : fire_all(<< f >>)
    BY <1>10 DEF rx_attach_receiver, amqp_encode_and_fire
  <2> QED BY <1>a, <1>c, <1>d, <2>1, <2>2
<1>11. CASE rx_attach_sender \/ rx_detach
  <2>1. (Rx({ "ATTACH" }) \/ Rx({ "DETACH" })) /\ UNCHANGED << fault, received, peerVars, tables >>
    BY <1>11 DEF rx_attach_sender, rx_detach
  <2> QED BY <1>a, <1>d, <2>1
<1>12. CASE rx_disposition \/ rx_close
  <2>1. (Rx({ "DISPOSITION" }) \/ Rx({ "CLOSE" })) /\ UNCHANGED << fault, received, peerVars, tables >>
    BY <1>12 DEF rx_disposition, rx_close, tableVars, storeVars
  <2> QED BY <1>a, <1>d, <2>1
\* the message is on a handle whose topic the worker knows
<1>13. CASE rx_transfer
  <2>a. PICK f : f = Head(inbox)
    OBVIOUS
  <2>b. PICK t : t = amqp_get_topic_name_from_map(f.handle)
    OBVIOUS
  <2>1. /\ Rx({ "TRANSFER" }) /\ UNCHANGED << peerVars, tables >>
        /\ \/ t = NoTopic
           \/ /\ received' = [ received EXCEPT ![f.data] = @ \cup {t} ]
              /\ fire_all(IF f.settled THEN << >> ELSE << Disposition(f.id) >>)
    BY <1>13, <2>a, <2>b DEF rx_transfer, tableVars
  <2>2. /\ f \in Frame /\ f.type = "TRANSFER" /\ f = inbox[1] /\ 1 \in 1 .. Len(inbox)
        /\ Alive /\ net = "open" /\ inbox # << >> /\ inbox' = Tail(inbox)
    BY <2>1, <2>a, RxTakes
  <2>3. tables = "live"
    BY <2>2, <2>a, RxStage
  <2>4. Arrives(1)
    BY <2>2, <2>3 DEF LinkInv, Linked, ComingOK
  <2>5. f.data \in AmqpIncoming /\ pTopic[f.data] # NoTopic /\ Sees(f.handle, pTopic[f.data], 0)
    BY <2>2, <2>4 DEF Arrives
  <2>6. reverse_topic_name_map[f.handle] = pTopic[f.data]
    BY <2>5, SeesNow DEF Sees
  <2>7. t = pTopic[f.data]
    BY <2>2, <2>6, <2>b, FrameHas, ShortIsSame DEF amqp_get_topic_name_from_map
  <2>8. f \in ToSet(inbox) /\ ToSet(inbox') \subseteq ToSet(inbox)
    BY <1>a, <2>2, FramesOf
  <2>9. pIn[f.data] # "new"
    BY <2>2, <2>3, <2>8 DEF FiledInv
  <2>10. fault' # "null_topic" /\ received' = [ received EXCEPT ![f.data] = @ \cup {t} ]
    BY <1>c, <2>1, <2>5, <2>7
  <2>11. /\ received'[f.data] = received[f.data] \cup {t}
         /\ \A i \in AmqpIncoming \ {f.data} : received'[i] = received[i]
    BY <2>5, <2>10 DEF TypeOK
  <2>12. pIn' = pIn /\ pTopic' = pTopic
    BY <2>1 DEF peerVars
  <2>13. \A i \in AmqpIncoming : received'[i] \subseteq { pTopic'[i] }
    BY <2>7, <2>11, <2>12 DEF FiledInv
  <2>14. \A i \in AmqpIncoming : pIn'[i] = "new" => received'[i] = {}
    BY <2>9, <2>11, <2>12 DEF FiledInv
  <2>15. tables' = "live" => \A q \in ToSet(inbox') : q.type = "TRANSFER" => pIn'[q.data] # "new"
    BY <2>1, <2>8, <2>12 DEF FiledInv
  <2> QED BY <2>10, <2>13, <2>14, <2>15 DEF FiledInv
<1>14. CASE service_task_ends
  <2>1. /\ Alive /\ tables' # "live" /\ UNCHANGED << received, pIn, pTopic >>
        /\ fault' \in { "none", "freed_table" } \cup { fault }
    BY <1>14 DEF service_task_ends, amqp_stop_all_timers, storeVars
  <2> QED BY <1>a, <2>1, FiledStay
<1>15. CASE TimerStep
  <2>1. UNCHANGED << received, peerVars, inbox, tables >>
    BY <1>15
    DEF TimerStep, Timer, amqp_connect_task, amqp_ping_task, amqp_message_resend_task,
        amqp_message_resend_fire, restOfClient, storeVars, amqpNetVars, tableVars
  <2>2. UNCHANGED fault \/ \E f : fire_all(<< f >>)
    BY <1>15
    DEF TimerStep, Timer, amqp_connect_task, amqp_ping_task, amqp_message_resend_task,
        amqp_message_resend_fire, amqp_encode_and_fire
  <2> QED BY <1>a, <1>b, <1>c, <2>1, <2>2
<1> QED
  BY <1>1, <1>2, <1>3, <1>4, <1>5, <1>6, <1>7, <1>8, <1>9, <1>10, <1>11, <1>12, <1>13, <1>14, <1>15
  DEF UserStep, GuiStep, WorkerStep

\* The steps of the peer.
LEMMA PeerFiled ==
  ASSUME TypeOK, StageInv, LinkInv, FiledInv, PeerStep
  PROVE  FiledInv'
<1>a. inbox \in Seq(Frame) /\ outbox \in Seq(Frame) /\ fault # "null_topic"
  BY DEF TypeOK, AmqpTimersTypeOK, FiledInv
<1>b. UNCHANGED << fault, tables, received >>
  BY DEF PeerStep, Peer, restOfClient, tableVars, storeVars
<1>c. ASSUME UNCHANGED << pIn, pTopic >>,
             inbox' = inbox \/ \E g \in Frame : inbox' = inbox \o << g >> /\ g.type # "TRANSFER"
      PROVE  FiledInv'
  <2>1. \A f \in ToSet(inbox') : f \in ToSet(inbox) \/ f.type # "TRANSFER"
    <3>1. CASE inbox' = inbox
      BY <3>1
    <3>2. ASSUME NEW g \in Frame, inbox' = inbox \o << g >>, g.type # "TRANSFER"
          PROVE  \A f \in ToSet(inbox') : f \in ToSet(inbox) \/ f.type # "TRANSFER"
      <4>1. ToSet(inbox') = ToSet(inbox) \cup { g }
        BY <1>a, <3>2, FramesAdded
      <4> QED BY <3>2, <4>1
    <3> QED BY <1>c, <3>1, <3>2
  <2> QED BY <1>a, <1>b, <1>c, <2>1, FiledStay
<1>d. \A f \in ToSet(inbox) : (tables = "live" /\ f.type = "TRANSFER") => f.data \in AmqpIncoming
  BY <1>a, FramesOf DEF LinkInv, Linked, ComingOK, Arrives
<1>1. ASSUME ReadLogIn, Alive PROVE FiledInv'
  <2>1. UNCHANGED << pIn, pTopic >>
    BY <1>1 DEF ReadLogIn
  <2>2. CASE Reply(<< Verdict("PROTO", FALSE), Plain("MECHANISMS") >>) /\ Read("PROTO")
    <3>0. PICK r : r = << Verdict("PROTO", FALSE), Plain("MECHANISMS") >>
      OBVIOUS
    <3>1. r \in Seq(Frame) /\ ToSet(inbox') = ToSet(inbox) \cup ToSet(r)
      <4>1. r \in Seq(Frame)
        BY <3>0, LoginFrames, Short12
      <4> QED BY <1>a, <2>2, <3>0, <4>1, FramesJoined DEF Reply
    <3>2. \A f \in ToSet(r) : f = Verdict("PROTO", FALSE) \/ f = Plain("MECHANISMS")
      <4>1. Len(r) = 2 /\ r[1] = Verdict("PROTO", FALSE) /\ r[2] = Plain("MECHANISMS")
        BY <3>0
      <4>2. \A k \in 1 .. Len(r) : k = 1 \/ k = 2
        BY <4>1
      <4> QED BY <3>1, <4>1, <4>2, FramesOf
    <3>3. \A f \in ToSet(inbox') : f \in ToSet(inbox) \/ f.type # "TRANSFER"
      BY <3>1, <3>2, LoginTypes
    <3> QED BY <1>a, <1>b, <2>1, <3>3, FiledStay
  <2>3. CASE \E g \in { Verdict("PROTO", TRUE), Verdict("OUTCOME", TRUE), Plain("OPEN"), Plain("BEGIN") } :
               Reply(<< g >>)
    <3>1. PICK g \in { Verdict("PROTO", TRUE), Verdict("OUTCOME", TRUE), Plain("OPEN"), Plain("BEGIN") } :
            Reply(<< g >>)
      BY <2>3
    <3>2. g \in Frame /\ g.type # "TRANSFER"
      BY <3>1, LoginFrames, LoginTypes
    <3> QED BY <1>c, <2>1, <3>1, <3>2 DEF Reply
  <2> QED BY <1>1, <2>2, <2>3 DEF ReadLogIn
<1>2. ASSUME RefuseLogIn PROVE FiledInv'
  <2>1. PICK g \in { Verdict("OUTCOME", FALSE), Plain("CLOSE") } : Reply(<< g >>)
    BY <1>2 DEF RefuseLogIn
  <2>2. g \in Frame /\ g.type # "TRANSFER"
    BY <2>1, LoginFrames, LoginTypes
  <2> QED BY <1>2, <1>c, <2>1, <2>2 DEF Reply, RefuseLogIn
<1>3. ASSUME ReadAttach PROVE FiledInv'
  <2>a. PICK f : f = Head(outbox)
    OBVIOUS
  <2>1. /\ Read("ATTACH") /\ UNCHANGED << pIn, pTopic >>
        /\ \E role \in { "SENDER", "RECEIVER" } : Reply(<< Attach(role, f.handle, f.topic) >>)
    BY <1>3, <2>a DEF ReadAttach
  <2>2. f \in Frame /\ f.type = "ATTACH" /\ f = outbox[1] /\ 1 \in 1 .. Len(outbox)
    BY <2>1, <2>a, ReadTakes
  <2>3. f.handle \in Handles /\ f.topic \in Topics
    BY <2>2, FrameHas DEF StageInv, AttachNamed, Named
  <2>4. \A role \in { "SENDER", "RECEIVER" } :
          Attach(role, f.handle, f.topic) \in Frame /\ Attach(role, f.handle, f.topic).type = "ATTACH"
    BY <2>3, FrameTyped, FrameFields
  <2> QED BY <1>c, <2>1, <2>4 DEF Reply
<1>4. ASSUME ReadDetach PROVE FiledInv'
  <2>a. PICK h : h = Head(outbox).handle
    OBVIOUS
  <2>1. Read("DETACH") /\ Reply(<< Detach(h) >>) /\ UNCHANGED << pIn, pTopic >>
    BY <1>4, <2>a DEF ReadDetach
  <2>2. h \in Handles
    BY <2>1, <2>a, ReadTakes, FrameHas
  <2>3. Detach(h) \in Frame /\ Detach(h).type = "DETACH"
    BY <2>2, FrameTyped, FrameFields
  <2> QED BY <1>c, <2>1, <2>3 DEF Reply
<1>5. ASSUME ReadTransfer PROVE FiledInv'
  <2>a. PICK id : id = Head(outbox).id
    OBVIOUS
  <2>1. Read("TRANSFER") /\ (inbox' = inbox \/ Reply(<< Disposition(id) >>)) /\ UNCHANGED << pIn, pTopic >>
    BY <1>5, <2>a DEF ReadTransfer
  <2>2. id \in Deliveries
    BY <2>1, <2>a, ReadTakes, FrameHas
  <2>3. Disposition(id) \in Frame /\ Disposition(id).type = "DISPOSITION"
    BY <2>2, FrameTyped, FrameFields
  <2> QED BY <1>c, <2>1, <2>3 DEF Reply
<1>6. ASSUME ReadDisposition PROVE FiledInv'
  <2>1. /\ UNCHANGED << inbox, pTopic >>
        /\ pIn' = [ i \in AmqpIncoming |-> IF i = Head(outbox).id THEN "accepted" ELSE pIn[i] ]
    BY <1>6 DEF ReadDisposition
  <2>2. \A i \in AmqpIncoming : pIn'[i] = "accepted" \/ pIn'[i] = pIn[i]
    BY <2>1
  <2>3. \A f \in ToSet(inbox) : (tables = "live" /\ f.type = "TRANSFER") => pIn'[f.data] # "new"
    <3> SUFFICES ASSUME NEW f \in ToSet(inbox), tables = "live", f.type = "TRANSFER" PROVE pIn'[f.data] # "new"
      OBVIOUS
    <3>1. pIn[f.data] # "new"
      BY DEF FiledInv
    <3> QED BY <1>d, <2>2, <3>1
  <2> QED BY <1>a, <1>b, <2>1, <2>2, <2>3, FiledStay
<1>7. ASSUME ReadPing PROVE FiledInv'
  BY <1>7, <1>c DEF ReadPing, peerVars
<1>8. ASSUME ReadEnd PROVE FiledInv'
  <2>1. PICK type \in { "END", "CLOSE" } : Reply(<< Plain(type) >>)
    BY <1>8 DEF ReadEnd
  <2>2. Plain(type) \in Frame /\ Plain(type).type # "TRANSFER"
    BY <2>1, LoginFrames, LoginTypes
  <2> QED BY <1>8, <1>c, <2>1, <2>2 DEF Reply, ReadEnd
<1>9. ASSUME NEW t \in Topics, PeerAttaches(t) PROVE FiledInv'
  <2>1. Attach("SENDER", ServerHandle, t) \in Frame /\ Attach("SENDER", ServerHandle, t).type = "ATTACH"
    BY FrameTyped, FrameFields, ShortIsSame
  <2> QED BY <1>9, <1>c, <2>1 DEF PeerAttaches, Reply
<1>10. ASSUME NEW i \in AmqpIncoming, NEW h \in Handles, PeerTransfers(i, h) PROVE FiledInv'
  <2>1. /\ pIn[i] = "new" /\ pIn' = [ pIn EXCEPT ![i] = "sent" ]
        /\ pTopic' = [ pTopic EXCEPT ![i] = pSub[h] ]
    BY <1>10 DEF PeerTransfers
  <2>2. PICK s \in BOOLEAN : Reply(<< Transfer(h, i, s, i) >>)
    BY <1>10 DEF PeerTransfers
  <2>3. i \in Deliveries
    BY AmqpPeerBounds
  <2>4. Transfer(h, i, s, i) \in Frame /\ Transfer(h, i, s, i).data = i
    BY <2>3, FrameTyped, FrameFields
  <2>5. ToSet(inbox') = ToSet(inbox) \cup { Transfer(h, i, s, i) }
    BY <1>a, <2>2, <2>4, FramesAdded DEF Reply
  <2>6. /\ pIn'[i] = "sent" /\ \A j \in AmqpIncoming \ {i} : pIn'[j] = pIn[j] /\ pTopic'[j] = pTopic[j]
    BY <2>1 DEF TypeOK, AmqpPeerTypeOK
  <2>7. received[i] = {}
    BY <2>1 DEF FiledInv
  <2>8. \A j \in AmqpIncoming : received'[j] \subseteq { pTopic'[j] }
    BY <1>b, <2>6, <2>7 DEF FiledInv
  <2>9. \A j \in AmqpIncoming : pIn'[j] = "new" => received'[j] = {}
    BY <1>b, <2>6 DEF FiledInv
  <2>10. tables' = "live" => \A f \in ToSet(inbox') : f.type = "TRANSFER" => pIn'[f.data] # "new"
    <3>1. \A f \in ToSet(inbox) : (tables = "live" /\ f.type = "TRANSFER") =>
            f.data \in AmqpIncoming /\ pIn[f.data] # "new"
      BY <1>d DEF FiledInv
    <3> QED BY <1>b, <2>4, <2>5, <2>6, <3>1
  <2> QED BY <1>a, <1>b, <2>8, <2>9, <2>10 DEF FiledInv
<1>11. ASSUME PeerCloses PROVE FiledInv'
  BY <1>11, <1>c DEF PeerCloses
<1> QED
  BY <1>1, <1>2, <1>3, <1>4, <1>5, <1>6, <1>7, <1>8, <1>9, <1>10, <1>11
  DEF PeerStep, PeerReads, Peer

-----------------------------------------------------------------------------
(* The links and the messages of the peer are right.                       *)

LEMMA LinksInductive ==
  /\ Init => LinkInv /\ FiledInv
  /\ TypeOK /\ StageInv /\ LinkInv /\ FiledInv /\ [Next]_vars => LinkInv' /\ FiledInv'
<1>1. Init => LinkInv /\ FiledInv
  BY DEF Init, AmqpTimersInit, AmqpPeerInit, LinkInv, FiledInv
<1>2. TypeOK /\ StageInv /\ LinkInv /\ FiledInv /\ Next => LinkInv' /\ FiledInv'
  BY UserLinks, WorkerLinks, TimerLinks, PeerLinks, ClientFiled, PeerFiled DEF Next
<1>3. TypeOK /\ LinkInv /\ FiledInv /\ UNCHANGED vars => LinkInv' /\ FiledInv'
  <2> SUFFICES ASSUME TypeOK, LinkInv, FiledInv, UNCHANGED vars PROVE LinkInv' /\ FiledInv'
    OBVIOUS
  <2>1. UNCHANGED << fault, amqpNetVars, tableVars, peerVars, amqpGuiVars, counterVars, storeVars >>
    BY DEF vars
  <2>2. Linked => Linked'
    BY <2>1, LinksSame DEF amqpNetVars, tableVars, peerVars, amqpGuiVars, counterVars
  <2> QED BY <2>1, <2>2 DEF LinkInv, FiledInv, amqpNetVars, tableVars, peerVars, storeVars
<1> QED BY <1>1, <1>2, <1>3

THEOREM AmqpLinksHold == Spec => [](TypeOK /\ StageInv /\ LinkInv /\ FiledInv)
<1>1. Init => TypeOK /\ StageInv
  BY InitTypes, InitStages
<1> QED BY <1>1, LinksInductive, AmqpStagesHold, PTL DEF Spec

\* The tables of names and of handles are inverse, whatever attaches and detaches
\* of client and peer were answered in between, and no handle is attached twice.
THEOREM LinkTablesAgreeHolds == Spec => []LinkTablesAgree
<1>1. TypeOK /\ LinkInv => LinkTablesAgree
  BY DEF LinkInv, Linked, NamesIn, NamesOut, SendsOn, LinkTablesAgree
<1> QED BY <1>1, AmqpLinksHold, PTL

\* A message of the peer is filed under the topic it was sent on, and under no
\* other.
THEOREM AmqpIncomingFiledHolds == Spec => []AmqpIncomingFiled
<1>1. FiledInv => AmqpIncomingFiled
  BY DEF FiledInv, AmqpIncomingFiled
<1> QED BY <1>1, AmqpLinksHold, PTL

-----------------------------------------------------------------------------
(* The topic list: how its rows change.                                    *)

\* The rows stay, and the main window does not come up.
LEMMA RowsKept ==
  ASSUME RowsInv, rows' = rows,
         (ui' = "main" /\ gui' # "disc_fire") => (ui = "main" /\ gui # "disc_fire")
  PROVE  RowsInv'
BY DEF RowsInv

\* The steps of the user.
LEMMA UserRows ==
  ASSUME TypeOK, RowsInv, UserStep
  PROVE  RowsInv'
<1>1. CASE LogIn
  BY <1>1, RowsKept DEF LogIn, storeVars
<1>2. CASE (\E t \in Topics : send_amqp_attach(t)) \/ (\E t \in Topics : send_amqp_detach(t))
  BY <1>2, RowsKept DEF send_amqp_attach, send_amqp_detach, storeVars, Button, Gui
<1>3. CASE \E c \in Contents, t \in Topics, s \in UserSettled : send_amqp_transfer(c, t, s)
  BY <1>3, RowsKept DEF send_amqp_transfer, storeVars, Button, Gui
<1>4. CASE log_out_handle
  <2>1. gui' = "disc_fire"
    BY <1>4 DEF log_out_handle, Gui
  <2>2. rows' = [ list |-> rows.list, db |-> [ t \in Topics |-> 0 ] ] \/ rows' = rows
    BY <1>4 DEF log_out_handle
  <2>3. \A t \in Topics : rows.list[t] \in Nat
    BY DEF TypeOK, Rows
  <2>4. CASE rows' = [ list |-> rows.list, db |-> [ t \in Topics |-> 0 ] ]
    BY <2>1, <2>3, <2>4 DEF RowsInv
  <2> QED BY <2>1, <2>2, <2>4, RowsKept
<1> QED BY <1>1, <1>2, <1>3, <1>4 DEF UserStep

\* BEGIN: the stored topics are shown.
LEMMA BeginRows ==
  ASSUME TypeOK, RowsInv, rx_begin
  PROVE  /\ RowsInv'
         /\ \A t \in Topics : rows'.list[t] > 0 => t \in Stored
<1>1. rows' = topics_from_db(rows) /\ rows \in Rows
  BY DEF rx_begin, TypeOK
<1>2. ASSUME NEW t \in Topics
      PROVE  rows'.list[t] = rows.db[t] /\ rows'.db[t] = rows.db[t] /\ rows.db[t] \in { 0, 1 }
  <2>1. rows.db[t] \in Nat /\ rows.list[t] \in Nat
    BY <1>1 DEF Rows
  <2>2. rows.db[t] <= 1
    BY <2>1 DEF RowsInv
  <2> QED BY <1>1, <2>1, <2>2, ShownFromDb
<1>3. RowsInv'
  BY <1>2 DEF RowsInv
<1>4. \A t \in Topics : rows'.list[t] > 0 => t \in Stored
  BY <1>1, <1>2 DEF Stored
<1> QED BY <1>3, <1>4

\* The peer's ATTACH: the topic is listed and stored.
LEMMA AttachRows ==
  ASSUME TypeOK, RowsInv, rx_attach_sender
  PROVE  /\ RowsInv'
         /\ \A t \in Topics : rows'.list[t] > 0 => rows.list[t] > 0 \/ t = Head(inbox).topic
<1>a. PICK f : f = Head(inbox)
  OBVIOUS
<1>1. /\ UNCHANGED << ui, gui >>
      /\ \/ rows' = rows
         \/ rows' = save_topic_to_db(add_topics_to_list_box(rows, f.topic), f.topic)
  BY <1>a DEF rx_attach_sender, amqpGuiVars
<1>2. CASE rows' = rows
  BY <1>1, <1>2, RowsKept
<1>3. CASE rows' = save_topic_to_db(add_topics_to_list_box(rows, f.topic), f.topic)
  <2>1. ASSUME NEW t \in Topics
        PROVE  /\ rows'.db[t] <= rows'.list[t] /\ rows'.list[t] <= 1
               /\ (ui = "main" /\ gui # "disc_fire") => rows'.list[t] = rows'.db[t]
               /\ rows'.list[t] > 0 => rows.list[t] > 0 \/ t = f.topic
    <3>1. rows \in Rows /\ rows.list[t] \in Nat /\ rows.db[t] \in Nat
      BY DEF TypeOK, Rows
    <3>2. rows.db[t] <= rows.list[t] /\ rows.list[t] <= 1
      BY DEF RowsInv
    <3>3. (ui = "main" /\ gui # "disc_fire") => rows.list[t] = rows.db[t]
      BY DEF RowsInv
    <3>4. IF t = f.topic
          THEN rows'.list[t] = 1 /\ rows'.db[t] = IF rows.list[t] # 0 THEN 1 ELSE rows.db[t] + 1
          ELSE rows'.list[t] = rows.list[t] /\ rows'.db[t] = rows.db[t]
      BY <1>3, <3>1, <3>2, RowsSaved
    <3>5. CASE t = f.topic
      <4>1. rows'.list[t] = 1 /\ rows'.db[t] = 1
        BY <3>1, <3>2, <3>4, <3>5
      <4> QED BY <3>5, <4>1
    <3>6. CASE t # f.topic
      BY <3>1, <3>2, <3>3, <3>4, <3>6
    <3> QED BY <3>5, <3>6
  <2> QED BY <1>1, <1>a, <2>1 DEF RowsInv
<1> QED BY <1>1, <1>2, <1>3

\* The peer's DETACH: the topic is gone from the list and from the table.
LEMMA DetachRows ==
  ASSUME TypeOK, RowsInv, NEW x, rows' = unsubscribed(rows, x), UNCHANGED << ui, gui >>
  PROVE  /\ RowsInv'
         /\ \A t \in Topics : rows'.list[t] > 0 => rows.list[t] > 0 /\ t # x
<1>1. ASSUME NEW t \in Topics
      PROVE  /\ rows'.db[t] <= rows'.list[t] /\ rows'.list[t] <= 1
             /\ (ui = "main" /\ gui # "disc_fire") => rows'.list[t] = rows'.db[t]
             /\ rows'.list[t] > 0 => rows.list[t] > 0 /\ t # x
  <2>1. rows \in Rows /\ rows.list[t] \in Nat /\ rows.db[t] \in Nat
    BY DEF TypeOK, Rows
  <2>2. rows.db[t] <= rows.list[t] /\ rows.list[t] <= 1
    BY DEF RowsInv
  <2>3. (ui = "main" /\ gui # "disc_fire") => rows.list[t] = rows.db[t]
    BY DEF RowsInv
  <2>4. IF t = x THEN rows'.list[t] = 0 /\ rows'.db[t] = 0
        ELSE rows'.list[t] = rows.list[t] /\ rows'.db[t] = rows.db[t]
    BY <2>1, <2>2, RowsUnsubscribed
  <2> QED BY <2>1, <2>2, <2>3, <2>4
<1> QED BY <1>1 DEF RowsInv

\* The steps of the window, the worker, the timers and the peer.
LEMMA OtherRows ==
  ASSUME TypeOK, RowsInv, GuiStep \/ WorkerStep \/ TimerStep \/ PeerStep
  PROVE  RowsInv'
<1>1. CASE start_amqp_connect_fire
  <2>1. UNCHANGED << rows, ui >> /\ gui = "conn_fire"
    BY <1>1 DEF start_amqp_connect_fire, storeVars, Gui
  <2> QED BY <2>1, RowsKept
<1>8. CASE start_amqp_connect_timer
  <2>1. UNCHANGED << rows, ui >> /\ gui = "conn_timer"
    BY <1>8 DEF start_amqp_connect_timer, storeVars, Gui
  <2> QED BY <2>1, RowsKept
<1>2. CASE send_amqp_end
  <2>1. UNCHANGED rows /\ ui' = "accounts"
    BY <1>2 DEF send_amqp_end, storeVars
  <2> QED BY <2>1, RowsKept
<1>3. CASE \/ rx_answered \/ rx_open \/ rx_attach_receiver \/ rx_transfer \/ rx_disposition
           \/ service_task_ends
  <2>1. UNCHANGED << rows, ui, gui >>
    BY <1>3 DEF rx_answered, rx_open, rx_attach_receiver, rx_transfer, rx_disposition,
                service_task_ends, storeVars, amqpGuiVars
  <2> QED BY <2>1, RowsKept
<1>4. CASE rx_outcome_refused \/ rx_close
  <2>1. UNCHANGED << rows, gui >> /\ (ui' = ui \/ ui' = "accounts")
    BY <1>4 DEF rx_outcome_refused, rx_close, connection_unsuccessful, storeVars
  <2> QED BY <2>1, RowsKept
<1>5. CASE rx_begin \/ rx_attach_sender
  BY <1>5, BeginRows, AttachRows
<1>6. CASE rx_detach
  <2>1. /\ UNCHANGED << ui, gui >>
        /\ rows' = rows \/ rows' = unsubscribed(rows, amqp_get_topic_name_from_map(Head(inbox).handle))
    BY <1>6 DEF rx_detach, amqpGuiVars
  <2> QED BY <2>1, RowsKept, DetachRows
<1>7. CASE TimerStep \/ PeerStep
  <2>1. UNCHANGED << rows, ui, gui >>
    BY <1>7 DEF TimerStep, PeerStep, Timer, Peer, restOfClient, storeVars, amqpGuiVars
  <2> QED BY <2>1, RowsKept
<1> QED BY <1>1, <1>2, <1>3, <1>4, <1>5, <1>6, <1>7, <1>8 DEF GuiStep, WorkerStep

-----------------------------------------------------------------------------
(* The topic list: a listed topic has a link, or will have one.            *)

\* A DETACH on its way, when a frame is taken or added.
LEMMA DetachTail ==
  ASSUME NEW s \in Seq(Frame), s # << >>, NEW h, NEW k \in Nat, k >= 1,
         DetachIn(s, h, k), k > 1 \/ ~(s[1].type = "DETACH" /\ s[1].handle = h)
  PROVE  DetachIn(Tail(s), h, IF k > 1 THEN k - 1 ELSE 1)
<1>1. PICK j \in k .. Len(s) : s[j].type = "DETACH" /\ s[j].handle = h
  BY DEF DetachIn
<1>2. /\ Len(Tail(s)) = Len(s) - 1 /\ Len(s) \in Nat
      /\ \A i \in 1 .. Len(s) - 1 : Tail(s)[i] = s[i + 1]
  BY Taken
<1>3. j # 1
  BY <1>1
<1>4. /\ j - 1 \in (IF k > 1 THEN k - 1 ELSE 1) .. Len(Tail(s))
      /\ j - 1 \in 1 .. Len(s) - 1 /\ (j - 1) + 1 = j
  BY <1>1, <1>2, <1>3
<1>5. Tail(s)[j - 1] = s[j]
  BY <1>2, <1>4
<1> QED BY <1>1, <1>4, <1>5 DEF DetachIn

LEMMA DetachAdded ==
  ASSUME NEW s \in Seq(Frame), NEW f \in Frame, NEW h, NEW k \in Nat, k >= 1
  PROVE  /\ DetachIn(s, h, k) => DetachIn(s \o << f >>, h, k)
         /\ (f.type = "DETACH" /\ f.handle = h /\ k <= Len(s) + 1) => DetachIn(s \o << f >>, h, k)
<1> DEFINE r == s \o << f >>
<1>1. /\ Len(r) = Len(s) + 1 /\ Len(s) \in Nat
      /\ \A i \in 1 .. Len(s) : r[i] = s[i]
      /\ r[Len(s) + 1] = f
  BY Added
<1> HIDE DEF r
<1>3. ASSUME DetachIn(s, h, k) PROVE DetachIn(r, h, k)
  <2>1. PICK j \in k .. Len(s) : s[j].type = "DETACH" /\ s[j].handle = h
    BY <1>3 DEF DetachIn
  <2>2. j \in 1 .. Len(s) /\ j \in k .. Len(r)
    BY <1>1, <1>3, <2>1
  <2> QED BY <1>1, <2>1, <2>2 DEF DetachIn
<1>4. ASSUME f.type = "DETACH", f.handle = h, k <= Len(s) + 1 PROVE DetachIn(r, h, k)
  <2>1. Len(r) \in k .. Len(r)
    BY <1>1, <1>4
  <2> QED BY <1>1, <1>4, <2>1 DEF DetachIn
<1> QED BY <1>3, <1>4 DEF r

\* Frames are put on q, or taken that are no ATTACH; rows may go.
LEMMA ListedStay ==
  ASSUME Listed, UNCHANGED << inbox, pSub >>,
         \A f \in ToSet(outbox) : f.type = "ATTACH" => f \in ToSet(outbox'),
         ui' # "loading" => ui # "loading",
         \A t \in Topics : rows'.list[t] > 0 => rows.list[t] > 0 /\ topic_name_map'[t] = topic_name_map[t]
  PROVE  Listed'
<1>1. \A k \in 1 .. Len(inbox') : Announced(k)'
  BY DEF Listed, Announced
<1>2. ASSUME ui' # "loading", NEW t \in Topics, rows'.list[t] > 0 PROVE LinkComes(t)'
  <2>1. LinkComes(t) /\ topic_name_map'[t] = topic_name_map[t]
    BY <1>2 DEF Listed
  <2>2. Attach("RECEIVER", topic_name_map[t], t).type = "ATTACH"
    BY FrameFields
  <2> QED BY <2>1, <2>2 DEF LinkComes
<1> QED BY <1>1, <1>2 DEF Listed

\* The worker takes a frame: a topic with a row keeps its handle, of which the
\* frame is no DETACH, or the frame is the ATTACH that gives it one.
LEMMA RxListed ==
  ASSUME TypeOK, Listed, ComingOK, NEW types, Rx(types), pSub' = pSub, ui # "loading",
         ToSet(outbox) \subseteq ToSet(outbox'),
         \A t \in Topics : rows'.list[t] > 0 =>
           \/ /\ rows.list[t] > 0 /\ topic_name_map'[t] = topic_name_map[t]
              /\ ~(Head(inbox).type = "DETACH" /\ Head(inbox).handle = topic_name_map[t])
           \/ /\ Head(inbox).type = "ATTACH" /\ Head(inbox).role = "SENDER"
              /\ Head(inbox).topic = t /\ Head(inbox).handle = topic_name_map'[t]
  PROVE  Listed'
<1>1. /\ inbox \in Seq(Frame) /\ inbox # << >> /\ inbox' = Tail(inbox) /\ Head(inbox) = inbox[1]
      /\ Len(inbox) \in Nat /\ Len(inbox) >= 1 /\ Len(inbox') = Len(inbox) - 1
      /\ \A k \in 1 .. Len(inbox') : inbox'[k] = inbox[k + 1]
  BY RxTakes
<1>2. ASSUME NEW k \in 1 .. Len(inbox') PROVE Announced(k)'
  <2>1. /\ k + 1 \in 1 .. Len(inbox) /\ inbox'[k] = inbox[k + 1]
        /\ (k + 1) + 1 \in Nat /\ (k + 1) + 1 > 1 /\ ((k + 1) + 1) - 1 = k + 1
    BY <1>1
  <2>2. Announced(k + 1)
    BY <2>1 DEF Listed
  <2>3. DetachIn(inbox, inbox'[k].handle, (k + 1) + 1) => DetachIn(inbox', inbox'[k].handle, k + 1)
    BY <1>1, <2>1, DetachTail
  <2> QED BY <2>1, <2>2, <2>3 DEF Announced
<1>3. ASSUME NEW t \in Topics, rows'.list[t] > 0 PROVE LinkComes(t)'
  <2>1. CASE /\ rows.list[t] > 0 /\ topic_name_map'[t] = topic_name_map[t]
             /\ ~(Head(inbox).type = "DETACH" /\ Head(inbox).handle = topic_name_map[t])
    <3>1. LinkComes(t)
      BY <2>1 DEF Listed
    <3>2. DetachIn(inbox, topic_name_map[t], 1) => DetachIn(inbox', topic_name_map[t], 1)
      BY <1>1, <2>1, DetachTail
    <3> QED BY <2>1, <3>1, <3>2 DEF LinkComes
  <2>2. CASE /\ Head(inbox).type = "ATTACH" /\ Head(inbox).role = "SENDER"
             /\ Head(inbox).topic = t /\ Head(inbox).handle = topic_name_map'[t]
    <3>1. 1 \in 1 .. Len(inbox) /\ inbox[1] = Head(inbox) /\ 1 + 1 \in Nat /\ 1 + 1 > 1 /\ (1 + 1) - 1 = 1
      BY <1>1
    <3>2. Announced(1) /\ Arrives(1)
      BY <3>1 DEF Listed, ComingOK
    <3>3. topic_name_map'[t] # 0
      BY <2>2, <3>1, <3>2 DEF Arrives
    <3>4. pSub[topic_name_map'[t]] = t \/ DetachIn(inbox, topic_name_map'[t], 1 + 1)
      BY <2>2, <3>1, <3>2 DEF Announced
    <3>5. DetachIn(inbox, topic_name_map'[t], 1 + 1) => DetachIn(inbox', topic_name_map'[t], 1)
      BY <1>1, <3>1, DetachTail
    <3> QED BY <3>3, <3>4, <3>5 DEF LinkComes
  <2> QED BY <1>3, <2>1, <2>2
<1> QED BY <1>2, <1>3 DEF Listed

\* The peer sends a frame: it takes a link away with a DETACH only.
LEMMA AddListed ==
  ASSUME TypeOK, Listed, ComingOK, NEW g \in Frame, inbox' = inbox \o << g >>,
         UNCHANGED << ui, rows, topic_name_map >>,
         \A h \in Handles : pSub'[h] = pSub[h] \/ pSub[h] = NoTopic \/ (g.type = "DETACH" /\ g.handle = h),
         (g.type = "ATTACH" /\ g.role = "SENDER") => pSub'[g.handle] = g.topic,
         \A f \in ToSet(outbox) :
           (f.type = "ATTACH" /\ f.role = "RECEIVER") => f \in ToSet(outbox') \/ pSub'[f.handle] = f.topic
  PROVE  Listed'
<1>1. /\ inbox \in Seq(Frame) /\ Len(inbox) \in Nat /\ Len(inbox') = Len(inbox) + 1
      /\ \A k \in 1 .. Len(inbox) : inbox'[k] = inbox[k] /\ inbox[k] \in Frame
      /\ inbox'[Len(inbox) + 1] = g
  BY Added DEF TypeOK, AmqpTimersTypeOK
<1>2. \A h, k \in Nat : k >= 1 =>
        /\ DetachIn(inbox, h, k) => DetachIn(inbox', h, k)
        /\ (g.type = "DETACH" /\ g.handle = h /\ k <= Len(inbox) + 1) => DetachIn(inbox', h, k)
  BY <1>1, DetachAdded
<1>3. Handles \subseteq Nat
  BY AmqpTableBounds DEF Handles
<1>4. ASSUME NEW k \in 1 .. Len(inbox') PROVE Announced(k)'
  <2>1. CASE k \in 1 .. Len(inbox)
    <3> DEFINE f == inbox[k]
    <3>1. inbox'[k] = f /\ k + 1 \in Nat /\ k + 1 >= 1 /\ k + 1 <= Len(inbox) + 1 /\ f.handle \in Handles
      BY <1>1, <2>1, FrameHas
    <3>2. Announced(k) /\ Arrives(k)
      BY <2>1 DEF Listed, ComingOK
    <3>3. SUFFICES ASSUME f.type = "ATTACH", f.role = "SENDER"
                   PROVE  pSub'[f.handle] = f.topic \/ DetachIn(inbox', f.handle, k + 1)
      BY <3>1 DEF Announced
    <3>4. f.topic # NoTopic /\ (pSub[f.handle] = f.topic \/ DetachIn(inbox, f.handle, k + 1))
      BY <3>2, <3>3 DEF Announced, Arrives
    <3> HIDE DEF f
    <3> QED BY <1>2, <1>3, <3>1, <3>4
  <2>2. CASE k = Len(inbox) + 1
    BY <1>1, <2>2 DEF Announced
  <2> QED BY <1>1, <2>1, <2>2
<1>5. ASSUME ui' # "loading", NEW t \in Topics, rows'.list[t] > 0 PROVE LinkComes(t)'
  <2> DEFINE h == topic_name_map[t]
  <2>1. LinkComes(t) /\ topic_name_map'[t] = h
    BY <1>5 DEF Listed
  <2>2. h \in Handles /\ h \in Nat /\ t # NoTopic
    BY <1>3, AmqpTableBounds DEF TypeOK, AmqpTimersTypeOK
  <2>3. /\ Attach("RECEIVER", h, t).type = "ATTACH" /\ Attach("RECEIVER", h, t).role = "RECEIVER"
        /\ Attach("RECEIVER", h, t).handle = h /\ Attach("RECEIVER", h, t).topic = t
    BY FrameFields
  <2>4. h # 0 /\ (pSub[h] = t \/ DetachIn(inbox, h, 1) \/ Attach("RECEIVER", h, t) \in ToSet(outbox))
    BY <2>1 DEF LinkComes
  <2> HIDE DEF h
  <2>5. 1 \in Nat /\ 1 >= 1 /\ 1 <= Len(inbox) + 1
    BY <1>1
  <2>6. pSub'[h] = t \/ DetachIn(inbox', h, 1) \/ Attach("RECEIVER", h, t) \in ToSet(outbox')
    <3>1. CASE pSub[h] = t
      BY <1>2, <2>2, <2>5, <3>1
    <3>2. CASE DetachIn(inbox, h, 1)
      BY <1>2, <2>2, <2>5, <3>2
    <3>3. CASE Attach("RECEIVER", h, t) \in ToSet(outbox)
      BY <2>3, <3>3
    <3> QED BY <2>4, <3>1, <3>2, <3>3
  <2> QED BY <2>1, <2>4, <2>6 DEF LinkComes
<1> QED BY <1>4, <1>5 DEF Listed

\* What is put on q leaves there what was on it.
LEMMA FireGrows ==
  ASSUME NEW r \in Seq(Frame), outbox \in Seq(Frame), fire_all(r) \/ use_and_fire(r)
  PROVE  ToSet(outbox) \subseteq ToSet(outbox')
<1>1. outbox' = outbox \o r \/ outbox' = outbox
  BY DEF fire_all, use_and_fire
<1>2. ToSet(outbox \o r) = ToSet(outbox) \cup ToSet(r)
  BY FramesJoined
<1> QED BY <1>1, <1>2

\* A step that leaves the tables and the peer's frames alone.
LEMMA ListedInvStay ==
  ASSUME ListedInv, UNCHANGED << inbox, pSub, tables, topic_name_map >>,
         ToSet(outbox) \subseteq ToSet(outbox'),
         ui' # "loading" => ui # "loading",
         rows'.list = rows.list
  PROVE  ListedInv'
<1>1. Listed => Listed'
  BY ListedStay
<1> QED BY <1>1 DEF ListedInv

\* The steps of the user and of the window.
LEMMA UserListed ==
  ASSUME TypeOK, StageInv, RowsInv, ListedInv, UserStep \/ GuiStep
  PROVE  ListedInv'
<1>a. outbox \in Seq(Frame) /\ << >> \in Seq(Frame)
  BY Short12 DEF TypeOK, AmqpTimersTypeOK
<1>b. ASSUME NEW f \in Frame PROVE << f >> \in Seq(Frame)
  BY <1>b, Short12
<1>1. CASE LogIn
  <2>1. net # "open" /\ tables' = tables
    BY <1>1 DEF LogIn, tableVars
  <2>2. tables # "live"
    BY <2>1 DEF StageInv, LiveIsServed
  <2> QED BY <2>1, <2>2 DEF ListedInv
\* a topic that is not listed
<1>2. ASSUME NEW t \in Topics, send_amqp_attach(t) PROVE ListedInv'
  <2>a. PICK f : f = Attach("RECEIVER", next_handle, t)
    OBVIOUS
  <2>1. /\ Button /\ rows.db[t] = 0 /\ FreshHandle /\ amqp_add_link(next_handle, t) /\ use_and_fire(<< f >>)
        /\ UNCHANGED << inbox, pSub, tables, ui, rows >>
    BY <1>2, <2>a DEF send_amqp_attach, peerVars, storeVars
  <2>2. ui = "main" /\ gui = "idle"
    BY <2>1 DEF Button, Gui
  <2>3. rows.list[t] = 0
    BY <2>1, <2>2 DEF RowsInv
  <2>4. \A u \in Topics : rows'.list[u] > 0 => rows.list[u] > 0 /\ topic_name_map'[u] = topic_name_map[u]
    <3>1. \A u \in Topics : u # t => topic_name_map'[u] = topic_name_map[u]
      BY <2>1 DEF amqp_add_link, TypeOK, AmqpTimersTypeOK
    <3> QED BY <2>1, <2>3, <3>1
  <2>5. ToSet(outbox) \subseteq ToSet(outbox')
    <3>1. next_handle \in Handles
      BY <2>1, AmqpTableBounds DEF FreshHandle, TypeOK, Handles
    <3>2. << f >> \in Seq(Frame)
      BY <1>b, <2>a, <3>1, FrameTyped
    <3> QED BY <1>a, <2>1, <3>2, FireGrows
  <2>6. Listed => Listed'
    BY <2>1, <2>4, <2>5, ListedStay
  <2> QED BY <2>1, <2>6 DEF ListedInv
<1>3. ASSUME NEW t \in Topics, send_amqp_detach(t) PROVE ListedInv'
  <2>a. PICK h : h = topic_name_map[t]
    OBVIOUS
  <2>1. /\ use_and_fire(IF h = 0 THEN << >> ELSE << Detach(h) >>)
        /\ UNCHANGED << inbox, pSub, tables, topic_name_map, ui, rows >>
    BY <1>3, <2>a DEF send_amqp_detach, amqp_get_handler_from_map, tableVars, peerVars, storeVars
  <2>2. << Detach(h) >> \in Seq(Frame)
    <3>1. h \in Handles
      BY <2>a DEF TypeOK, AmqpTimersTypeOK
    <3> QED BY <1>b, <3>1, FrameTyped
  <2>3. (IF h = 0 THEN << >> ELSE << Detach(h) >>) \in Seq(Frame)
    BY <1>a, <2>2
  <2>4. ToSet(outbox) \subseteq ToSet(outbox')
    BY <1>a, <2>1, <2>3, FireGrows
  <2> QED BY <2>1, <2>4, ListedInvStay
<1>4. ASSUME NEW c \in Contents, NEW t \in Topics, NEW s \in UserSettled, send_amqp_transfer(c, t, s)
      PROVE  ListedInv'
  <2>a. PICK h : h = topic_name_map_outgoing[t]
    OBVIOUS
  <2>1. /\ packet_id_counter <= MaxDelivery
        /\ \/ h # 0 /\ use_and_fire(<< Transfer(IF h # 0 THEN h ELSE next_handle, packet_id_counter, s, c) >>)
              /\ UNCHANGED tableVars
           \/ /\ FreshHandle /\ use_and_fire(<< Attach("SENDER", next_handle, t) >>)
              /\ UNCHANGED << topic_name_map, tables >>
        /\ UNCHANGED << inbox, pSub, ui, rows >>
    BY <1>4, <2>a DEF send_amqp_transfer, amqp_get_handler_from_map_outgoing, peerVars, storeVars
  <2>2. h \in Handles /\ packet_id_counter \in Deliveries /\ s \in BOOLEAN
    BY <2>1, <2>a, AmqpTableBounds, AmqpClientBounds DEF TypeOK, AmqpTimersTypeOK, Deliveries
  <2>3. ToSet(outbox) \subseteq ToSet(outbox') /\ UNCHANGED << topic_name_map, tables >>
    <3>1. CASE /\ h # 0 /\ UNCHANGED tableVars
               /\ use_and_fire(<< Transfer(IF h # 0 THEN h ELSE next_handle, packet_id_counter, s, c) >>)
      <4>1. << Transfer(h, packet_id_counter, s, c) >> \in Seq(Frame)
        BY <1>b, <2>2, FrameTyped
      <4>2. use_and_fire(<< Transfer(h, packet_id_counter, s, c) >>)
        BY <3>1
      <4> QED BY <1>a, <3>1, <4>1, <4>2, FireGrows DEF tableVars
    <3>2. CASE /\ FreshHandle /\ use_and_fire(<< Attach("SENDER", next_handle, t) >>)
               /\ UNCHANGED << topic_name_map, tables >>
      <4>1. next_handle \in Handles
        BY <3>2, AmqpTableBounds DEF FreshHandle, TypeOK, Handles
      <4>2. << Attach("SENDER", next_handle, t) >> \in Seq(Frame)
        BY <1>b, <4>1, FrameTyped
      <4> QED BY <1>a, <3>2, <4>2, FireGrows
    <3> QED BY <2>1, <3>1, <3>2
  <2> QED BY <2>1, <2>3, ListedInvStay
<1>5. CASE log_out_handle
  <2>1. UNCHANGED << inbox, outbox, pSub, tables, topic_name_map, ui >> /\ rows'.list = rows.list
    BY <1>5 DEF log_out_handle, amqpNetVars, tableVars, peerVars
  <2> QED BY <2>1, ListedInvStay
<1>6. CASE start_amqp_connect_timer
  <2>1. UNCHANGED << inbox, outbox, pSub, tables, topic_name_map, ui, rows >>
    BY <1>6 DEF start_amqp_connect_timer, amqpNetVars, tableVars, peerVars, storeVars
  <2> QED BY <2>1, ListedInvStay
<1>7. CASE start_amqp_connect_fire \/ send_amqp_end
  <2>1. /\ fire_all(<< Verdict("PROTO", FALSE) >>) \/ fire_all(<< Plain("END") >>)
        /\ UNCHANGED << inbox, pSub, tables, topic_name_map, rows >>
        /\ ui' = ui \/ gui = "disc_fire"
    BY <1>7 DEF start_amqp_connect_fire, send_amqp_end, amqp_encode_and_fire, Gui, tableVars, peerVars, storeVars
  <2>2. << Verdict("PROTO", FALSE) >> \in Seq(Frame) /\ << Plain("END") >> \in Seq(Frame)
    BY <1>b, LoginFrames
  <2>3. ToSet(outbox) \subseteq ToSet(outbox')
    BY <1>a, <2>1, <2>2, FireGrows
  <2>4. ui' # "loading" => ui # "loading"
    BY <2>1 DEF StageInv, LogOutInMain
  <2> QED BY <2>1, <2>3, <2>4, ListedInvStay
<1> QED BY <1>1, <1>2, <1>3, <1>4, <1>5, <1>6, <1>7 DEF UserStep, GuiStep

\* The timers.
LEMMA TimerListed ==
  ASSUME TypeOK, ListedInv, TimerStep
  PROVE  ListedInv'
<1>a. outbox \in Seq(Frame) /\ hold \in Frame
  BY DEF TypeOK, AmqpTimersTypeOK
<1>1. UNCHANGED << inbox, pSub, tables, topic_name_map, ui, rows >>
  BY DEF TimerStep, Timer, restOfClient, peerVars, amqpGuiVars, storeVars, amqp_connect_task, amqp_ping_task,
         amqp_message_resend_task, amqp_message_resend_fire, tableVars, amqpNetVars
<1>2. outbox' = outbox \/ fire_all(<< Plain("PING") >>) \/ fire_all(<< hold >>)
  BY DEF TimerStep, Timer, amqp_connect_task, amqp_ping_task, amqp_message_resend_task,
         amqp_message_resend_fire, amqp_encode_and_fire, amqpNetVars
<1>3. << Plain("PING") >> \in Seq(Frame) /\ << hold >> \in Seq(Frame)
  BY <1>a, LoginFrames, Short12
<1>4. ToSet(outbox) \subseteq ToSet(outbox')
  BY <1>a, <1>2, <1>3, FireGrows
<1> QED BY <1>1, <1>4, ListedInvStay

\* The worker in the main window: no link is changed.
LEMMA RxListedStay ==
  ASSUME TypeOK, StageInv, LinkInv, ListedInv,
         rx_answered \/ rx_attach_receiver \/ rx_transfer \/ rx_disposition \/ rx_close
  PROVE  ListedInv'
<1>a. outbox \in Seq(Frame) /\ << >> \in Seq(Frame)
  BY Short12 DEF TypeOK, AmqpTimersTypeOK
<1>b. ASSUME NEW f \in Frame PROVE << f >> \in Seq(Frame)
  BY <1>b, Short12
<1>c. ASSUME NEW types, Rx(types), "DETACH" \notin types,
             UNCHANGED << pSub, tables, topic_name_map, rows >>,
             tables = "live" => ui # "loading",
             ToSet(outbox) \subseteq ToSet(outbox')
      PROVE  ListedInv'
  <2>1. CASE tables = "live"
    <3>1. Head(inbox).type # "DETACH"
      BY <1>c, RxTakes
    <3>2. Listed /\ ComingOK
      BY <2>1 DEF ListedInv, LinkInv, Linked
    <3>3. Listed'
      BY <1>c, <2>1, <3>1, <3>2, RxListed
    <3> QED BY <3>3 DEF ListedInv
  <2>2. CASE tables # "live"
    BY <1>c, <2>2 DEF ListedInv
  <2> QED BY <2>1, <2>2
\* the frames of the main window come when it is up
<1>d. ASSUME NEW types, Rx(types),
             Head(inbox).type \in { "ATTACH", "TRANSFER", "DISPOSITION", "DETACH", "END", "CLOSE" }
      PROVE  tables = "live" => ui # "loading"
  <2>1. Alive /\ net = "open" /\ inbox # << >>
    BY <1>d, RxTakes
  <2> QED BY <1>d, <2>1, RxStage DEF Main
<1>1. CASE rx_answered
  <2>1. /\ Rx({ "PROTO", "MECHANISMS", "END", "OUTCOME" })
        /\ Head(inbox).type = "OUTCOME" => Head(inbox).ok
        /\ fire_all(AnswerTo(Head(inbox)))
        /\ UNCHANGED << tables, topic_name_map, pSub, rows >>
    BY <1>1 DEF rx_answered, tableVars, peerVars, storeVars
  <2>2. Alive /\ net = "open" /\ inbox # << >> /\ Head(inbox).type \in { "PROTO", "MECHANISMS", "END", "OUTCOME" }
    BY <2>1, RxTakes
  <2>3. CASE Head(inbox).type = "END"
    <3>1. AnswerTo(Head(inbox)) = << Plain("CLOSE") >>
      BY <2>3 DEF AnswerTo
    <3>2. << Plain("CLOSE") >> \in Seq(Frame)
      BY <1>b, LoginFrames
    <3>3. ToSet(outbox) \subseteq ToSet(outbox')
      BY <1>a, <2>1, <3>1, <3>2, FireGrows
    <3> QED BY <1>c, <1>d, <2>1, <2>3, <3>3
  <2>4. CASE Head(inbox).type # "END"
    <3>1. tables # "live"
      BY <2>1, <2>2, <2>4, RxStage
    <3> QED BY <2>1, <3>1 DEF ListedInv
  <2> QED BY <2>3, <2>4
<1>2. CASE rx_attach_receiver
  <2> DEFINE h == amqp_get_handler_from_map_outgoing(Head(inbox).topic)
             f == amqp_get_message_from_map_by_handler(h)
  <2>1. /\ Rx({ "ATTACH" })
        /\ UNCHANGED outbox \/ fire_all(<< f >>)
        /\ UNCHANGED << tables, topic_name_map, pSub, rows >>
    BY <1>2 DEF rx_attach_receiver, amqp_encode_and_fire, peerVars
  <2>2. Head(inbox).type = "ATTACH" /\ Head(inbox) = inbox[1] /\ 1 \in 1 .. Len(inbox)
    BY <2>1, RxTakes
  <2>3. Head(inbox).topic \in Topics
    BY <2>2 DEF StageInv, AttachNamed, Named
  <2>4. h \in Handles
    BY <2>3 DEF TypeOK, AmqpTimersTypeOK, amqp_get_handler_from_map_outgoing
  <2>5. f \in Frame
    BY <2>4, ShortIsSame DEF TypeOK, AmqpTimersTypeOK, amqp_get_message_from_map_by_handler
  <2> HIDE DEF h, f
  <2>6. << f >> \in Seq(Frame)
    BY <1>b, <2>5
  <2>7. ToSet(outbox) \subseteq ToSet(outbox')
    BY <1>a, <2>1, <2>6, FireGrows
  <2> QED BY <1>c, <1>d, <2>1, <2>2, <2>7
<1>3. CASE rx_transfer
  <2>a. PICK f : f = Head(inbox)
    OBVIOUS
  <2>1. /\ Rx({ "TRANSFER" })
        /\ UNCHANGED outbox \/ fire_all(IF f.settled THEN << >> ELSE << Disposition(f.id) >>)
        /\ UNCHANGED << tables, topic_name_map, pSub, rows >>
    BY <1>3, <2>a DEF rx_transfer, tableVars, peerVars
  <2>2. f.type = "TRANSFER" /\ f \in Frame
    BY <2>1, <2>a, RxTakes
  <2>3. Disposition(f.id) \in Frame
    BY <2>2, FrameHas, FrameTyped
  <2>4. (IF f.settled THEN << >> ELSE << Disposition(f.id) >>) \in Seq(Frame)
    BY <1>a, <1>b, <2>3
  <2>5. ToSet(outbox) \subseteq ToSet(outbox')
    BY <1>a, <2>1, <2>4, FireGrows
  <2> QED BY <1>c, <1>d, <2>1, <2>2, <2>5, <2>a
<1>4. CASE rx_disposition
  <2>1. Rx({ "DISPOSITION" }) /\ UNCHANGED << outbox, tables, topic_name_map, pSub, rows >>
    BY <1>4 DEF rx_disposition, peerVars
  <2>2. Head(inbox).type = "DISPOSITION"
    BY <2>1, RxTakes
  <2> QED BY <1>c, <1>d, <2>1, <2>2
<1>5. CASE rx_close
  <2>1. Rx({ "CLOSE" }) /\ UNCHANGED << outbox, tables, topic_name_map, pSub, rows >>
    BY <1>5 DEF rx_close, tableVars, peerVars, storeVars
  <2>2. Head(inbox).type = "CLOSE"
    BY <2>1, RxTakes
  <2> QED BY <1>c, <1>d, <2>1, <2>2
<1> QED BY <1>1, <1>2, <1>3, <1>4, <1>5

\* BEGIN: a topic is listed if it is stored, and its ATTACH is on q.
LEMMA BeginListed ==
  ASSUME TypeOK, StageInv, LinkInv, RowsInv, ListedInv, rx_begin
  PROVE  ListedInv'
<1>a. PICK n : n = Len(StoredTopics)
  OBVIOUS
<1>b. PICK s : s = StoredTopics
  OBVIOUS
<1>c. PICK h0 : h0 = next_handle
  OBVIOUS
<1> DEFINE r == [ k \in 1 .. n |-> Attach("RECEIVER", h0 + k - 1, s[k]) ]
<1>1. /\ Rx({ "BEGIN" }) /\ UNCHANGED << pSub, tables >>
  BY DEF rx_begin, peerVars
<1>2. /\ inbox \in Seq(Frame) /\ inbox # << >> /\ inbox' = Tail(inbox) /\ Head(inbox).type = "BEGIN"
      /\ Alive /\ net = "open" /\ outbox \in Seq(Frame)
      /\ Len(inbox) \in Nat /\ Len(inbox') = Len(inbox) - 1
      /\ \A k \in 1 .. Len(inbox') : inbox'[k] = inbox[k + 1]
  BY <1>1, RxTakes DEF TypeOK, AmqpTimersTypeOK
<1>3. tables = "live"
  BY <1>2, RxStage
<1>4. Listed
  BY <1>3 DEF ListedInv
<1>5. /\ r \in Seq(Frame) /\ Len(r) = n
      /\ \A k \in 1 .. n : r[k] = Attach("RECEIVER", h0 + k - 1, s[k])
      /\ fire_all(r)
  BY <1>a, <1>b, <1>c, BeginFrames
<1>6. /\ n \in Nat /\ h0 \in Nat /\ h0 >= 1
      /\ \A k \in 1 .. n : topic_name_map'[s[k]] = h0 + k - 1
  BY <1>a, <1>b, <1>c, BeginHandles
<1> HIDE DEF r
<1>7. ToSet(r) \subseteq ToSet(outbox')
  <2>1. outbox' = outbox \o r
    BY <1>2, <1>5, FireOpen
  <2> QED BY <1>2, <1>5, <2>1, FramesJoined
<1>8. ASSUME NEW k \in 1 .. Len(inbox') PROVE Announced(k)'
  <2>1. /\ k + 1 \in 1 .. Len(inbox) /\ inbox'[k] = inbox[k + 1]
        /\ (k + 1) + 1 \in Nat /\ (k + 1) + 1 > 1 /\ ((k + 1) + 1) - 1 = k + 1
    BY <1>2
  <2>2. Announced(k + 1)
    BY <1>4, <2>1 DEF Listed
  <2>3. DetachIn(inbox, inbox'[k].handle, (k + 1) + 1) => DetachIn(inbox', inbox'[k].handle, k + 1)
    BY <1>2, <2>1, DetachTail
  <2> QED BY <1>1, <2>1, <2>2, <2>3 DEF Announced
<1>9. ASSUME NEW t \in Topics, rows'.list[t] > 0 PROVE LinkComes(t)'
  <2>1. t \in Stored
    BY <1>9, BeginRows
  <2>2. PICK k \in 1 .. n : s[k] = t
    BY <1>a, <1>b, <2>1, StoredList
  <2>3. topic_name_map'[t] = h0 + k - 1 /\ h0 + k - 1 # 0
    BY <1>6, <2>2
  <2>4. Attach("RECEIVER", h0 + k - 1, t) \in ToSet(outbox')
    BY <1>5, <1>7, <2>2, FramesOf
  <2> QED BY <2>3, <2>4 DEF LinkComes
<1> QED BY <1>8, <1>9 DEF ListedInv, Listed

\* ATTACH and DETACH of the peer.
LEMMA RxHearsListed ==
  ASSUME TypeOK, StageInv, LinkInv, RowsInv, ListedInv, rx_attach_sender \/ rx_detach
  PROVE  ListedInv'
<1>a. PICK f : f = Head(inbox)
  OBVIOUS
<1>b. PICK h : h = f.handle
  OBVIOUS
<1>c. PICK x : x = amqp_get_topic_name_from_map(h)
  OBVIOUS
<1>1. Rx({ "ATTACH" }) \/ Rx({ "DETACH" })
  BY DEF rx_attach_sender, rx_detach
<1>2. /\ f \in Frame /\ (f.type = "ATTACH" \/ f.type = "DETACH") /\ f = inbox[1]
      /\ Alive /\ net = "open" /\ inbox # << >> /\ 1 \in 1 .. Len(inbox)
  BY <1>1, <1>a, RxTakes
<1>3. tables = "live" /\ ui # "loading"
  <2>1. Head(inbox).type \in { "ATTACH", "TRANSFER", "DISPOSITION", "DETACH", "END" }
    BY <1>2, <1>a
  <2> QED BY <1>2, <2>1, RxStage DEF Main
<1>4. Listed /\ ComingOK /\ NamesIn
  BY <1>3 DEF ListedInv, LinkInv, Linked
<1>5. UNCHANGED << outbox, pSub, tables, ui, gui >>
  BY DEF rx_attach_sender, rx_detach, peerVars, amqpGuiVars
<1>6. h \in Handles /\ Short(h) = h /\ x = reverse_topic_name_map[h]
  <2>1. h \in Handles
    BY <1>b, <1>2, FrameHas
  <2> QED BY <1>c, <2>1, ShortIsSame DEF amqp_get_topic_name_from_map
<1>7. CASE rx_attach_sender
  <2>a. /\ Rx({ "ATTACH" }) /\ f.role = "SENDER"
        /\ topic_name_map' = [ topic_name_map EXCEPT ![f.topic] = Short(h) ]
    BY <1>7, <1>a, <1>b DEF rx_attach_sender, amqp_add_link
  <2>b. f.type = "ATTACH"
    BY <1>a, <2>a, RxTakes
  <2>1. /\ Rx({ "ATTACH" }) /\ f.type = "ATTACH" /\ f.role = "SENDER"
        /\ topic_name_map' = [ topic_name_map EXCEPT ![f.topic] = h ]
    BY <1>6, <2>a, <2>b
  <2>2. f.topic \in Topics
    BY <1>2, <2>1 DEF StageInv, AttachNamed, Named
  <2>3. topic_name_map'[f.topic] = h /\ \A u \in Topics : u # f.topic => topic_name_map'[u] = topic_name_map[u]
    BY <2>1, <2>2 DEF TypeOK, AmqpTimersTypeOK
  <2>4. \A t \in Topics : rows'.list[t] > 0 => rows.list[t] > 0 \/ t = f.topic
    BY <1>7, <1>a, AttachRows
  <2>5. \A t \in Topics : rows'.list[t] > 0 =>
          \/ /\ rows.list[t] > 0 /\ topic_name_map'[t] = topic_name_map[t]
             /\ ~(f.type = "DETACH" /\ f.handle = topic_name_map[t])
          \/ f.type = "ATTACH" /\ f.role = "SENDER" /\ f.topic = t /\ f.handle = topic_name_map'[t]
    BY <1>b, <2>1, <2>3, <2>4
  <2>6. Listed'
    BY <1>3, <1>4, <1>5, <1>a, <2>1, <2>5, RxListed
  <2> QED BY <2>6 DEF ListedInv
<1>8. CASE rx_detach
  <2>1. /\ Rx({ "DETACH" })
        /\ IF x = NoTopic THEN UNCHANGED << rows, topic_name_map >>
           ELSE rows' = unsubscribed(rows, x) /\ topic_name_map' = [ topic_name_map EXCEPT ![x] = 0 ]
    BY <1>8, <1>a, <1>b, <1>c DEF rx_detach, amqp_remove_link
  <2>2. \A t \in Topics : topic_name_map[t] = h => topic_name_map[t] = 0 \/ t = x
    BY <1>4, <1>6 DEF NamesIn
  <2>3. \A t \in Topics : rows.list[t] > 0 => topic_name_map[t] # 0
    BY <1>3, <1>4 DEF Listed, LinkComes
  <2>4. \A t \in Topics : rows'.list[t] > 0 =>
          rows.list[t] > 0 /\ topic_name_map'[t] = topic_name_map[t] /\ t # x
    <3>1. CASE x = NoTopic
      BY <2>1, <3>1, AmqpTableBounds
    <3>2. CASE x # NoTopic
      <4>1. \A t \in Topics : rows'.list[t] > 0 => rows.list[t] > 0 /\ t # x
        BY <1>5, <2>1, <3>2, DetachRows
      <4>2. \A t \in Topics : t # x => topic_name_map'[t] = topic_name_map[t]
        BY <2>1, <3>2 DEF TypeOK, AmqpTimersTypeOK
      <4> QED BY <4>1, <4>2
    <3> QED BY <3>1, <3>2
  <2>5. \A t \in Topics : rows'.list[t] > 0 =>
          /\ rows.list[t] > 0 /\ topic_name_map'[t] = topic_name_map[t]
          /\ ~(f.type = "DETACH" /\ f.handle = topic_name_map[t])
    BY <1>b, <2>2, <2>3, <2>4
  <2>6. Listed'
    BY <1>3, <1>4, <1>5, <1>a, <2>1, <2>5, RxListed
  <2> QED BY <2>6 DEF ListedInv
<1> QED BY <1>7, <1>8

LEMMA WorkerListed ==
  ASSUME TypeOK, StageInv, LinkInv, RowsInv, ListedInv, WorkerStep
  PROVE  ListedInv'
<1>1. CASE rx_outcome_refused
  <2>1. /\ Rx({ "OUTCOME" }) /\ ~Head(inbox).ok /\ tables' = tables
    BY <1>1 DEF rx_outcome_refused, tableVars
  <2>2. Alive /\ net = "open" /\ inbox # << >> /\ Head(inbox).type = "OUTCOME"
    BY <2>1, RxTakes
  <2>3. tables # "live"
    BY <2>1, <2>2, RxStage
  <2> QED BY <2>1, <2>3 DEF ListedInv
<1>2. CASE service_task_ends
  <2>1. tables' # "live"
    BY <1>2 DEF service_task_ends, amqp_stop_all_timers
  <2> QED BY <2>1 DEF ListedInv
<1>3. CASE rx_open
  <2>1. Rx({ "OPEN" }) /\ ui' = ui
    BY <1>3 DEF rx_open, amqpGuiVars
  <2>2. Alive /\ net = "open" /\ inbox # << >> /\ inbox' = Tail(inbox) /\ Head(inbox).type = "OPEN"
    BY <2>1, RxTakes
  <2>3. Handshake /\ << outbox, inbox >> \in Exchange /\ Head(inbox) # Verdict("PROTO", FALSE)
    BY <2>2, RxStage, LoginTypes
  <2>4. inbox' = << >> /\ ui' = "loading"
    BY <2>1, <2>2, <2>3, ExchangeHeads DEF Handshake
  <2>5. Len(inbox') = 0
    BY <2>4
  <2> QED BY <2>4, <2>5 DEF ListedInv, Listed
<1> QED BY <1>1, <1>2, <1>3, RxListedStay, BeginListed, RxHearsListed DEF WorkerStep

\* The frames of the peer.
LEMMA PeerListed ==
  ASSUME TypeOK, StageInv, LinkInv, ListedInv, PeerStep
  PROVE  ListedInv'
<1>0. AttachNamed /\ outbox \in Seq(Frame) /\ inbox \in Seq(Frame)
  BY DEF StageInv, TypeOK, AmqpTimersTypeOK
<1>a. ASSUME NEW A, Peer(A)
      PROVE  Alive /\ UNCHANGED << tables, topic_name_map, ui, rows >>
  BY <1>a DEF Peer, restOfClient, tableVars, amqpGuiVars, storeVars
<1>b. tables = "live" => Listed /\ ComingOK
  BY DEF ListedInv, LinkInv, Linked
\* a frame that is about no link
<1>c. ASSUME NEW A, Peer(A), pSub' = pSub,
             outbox' = outbox \/ (outbox # << >> /\ outbox' = Tail(outbox) /\ Head(outbox).type # "ATTACH"),
             inbox' = inbox \/ \E g \in Frame : inbox' = inbox \o << g >> /\ g.type # "ATTACH"
      PROVE  ListedInv'
  <2>1. \A f \in ToSet(outbox) : f.type = "ATTACH" => f \in ToSet(outbox')
    BY <1>0, <1>c, FramesOf
  <2>2. CASE tables = "live"
    <3>1. CASE inbox' = inbox
      BY <1>a, <1>b, <1>c, <2>1, <2>2, <3>1, ListedStay DEF ListedInv
    <3>2. CASE \E g \in Frame : inbox' = inbox \o << g >> /\ g.type # "ATTACH"
      <4>1. PICK g \in Frame : inbox' = inbox \o << g >> /\ g.type # "ATTACH"
        BY <3>2
      <4>2. Listed'
        BY <1>a, <1>b, <1>c, <2>1, <2>2, <4>1, AddListed
      <4> QED BY <4>2 DEF ListedInv
    <3> QED BY <1>c, <3>1, <3>2
  <2>3. CASE tables # "live"
    BY <1>a, <1>c, <2>3 DEF ListedInv
  <2> QED BY <2>2, <2>3
<1>1. ASSUME Peer(ReadLogIn) PROVE ListedInv'
  <2>1. pSub' = pSub
    BY <1>1 DEF Peer, ReadLogIn
  <2>2. CASE Read("BEGIN") /\ Reply(<< Plain("BEGIN") >>)
    <3>1. outbox # << >> /\ outbox' = Tail(outbox) /\ Head(outbox).type # "ATTACH"
      BY <2>2, ReadTakes
    <3>2. Plain("BEGIN") \in Frame /\ Plain("BEGIN").type # "ATTACH"
      BY LoginFrames, LoginTypes
    <3>3. inbox' = inbox \o << Plain("BEGIN") >>
      BY <2>2 DEF Reply
    <3> QED BY <1>1, <1>c, <2>1, <3>1, <3>2, <3>3
  <2>3. CASE \E type \in { "PROTO", "INIT", "OPEN" } : Read(type)
    <3>1. PICK type \in { "PROTO", "INIT", "OPEN" } : Read(type)
      BY <2>3
    <3>2. net = "open" /\ outbox # << >> /\ Head(outbox).type = type
      BY <3>1, ReadTakes
    <3>3. tables # "live"
      BY <1>a, <1>1, <3>1, <3>2, ReadStage
    <3> QED BY <1>1, <1>a, <3>3 DEF ListedInv
  <2> QED BY <1>1, <2>2, <2>3 DEF Peer, ReadLogIn
<1>2. ASSUME Peer(RefuseLogIn) PROVE ListedInv'
  <2>2. PICK type \in { "PROTO", "INIT", "OPEN" } : Read(type)
    BY <1>2 DEF Peer, RefuseLogIn
  <2>3. net = "open" /\ outbox # << >> /\ Head(outbox).type = type
    BY <2>2, ReadTakes
  <2>4. tables # "live"
    BY <1>a, <1>2, <2>2, <2>3, ReadStage
  <2> QED BY <1>2, <1>a, <2>4 DEF ListedInv
<1>3. ASSUME Peer(ReadAttach) PROVE ListedInv'
  <2>a. PICK f : f = Head(outbox)
    OBVIOUS
  <2>b. PICK h : h = f.handle
    OBVIOUS
  <2>1. Read("ATTACH") /\ ReadAttach
    BY <1>3 DEF Peer, ReadAttach
  <2>2. /\ Alive /\ net = "open" /\ outbox # << >> /\ outbox' = Tail(outbox) /\ f.type = "ATTACH" /\ f \in Frame
        /\ f = outbox[1] /\ 1 \in 1 .. Len(outbox)
    <3>1. Alive
      BY <1>3, <1>a
    <3>2. Len(outbox) \in Nat /\ Len(outbox) >= 1
      BY <2>1, ReadTakes
    <3> QED BY <2>1, <2>a, <3>1, <3>2, ReadTakes
  <2>3. Main /\ tables = "live"
    BY <2>2, <2>a, ReadStage DEF UserTypes
  <2>4. h \in Handles /\ f.topic \in Topics /\ f \in ToSet(outbox)
        /\ \A q \in ToSet(outbox) : q = f \/ q \in ToSet(outbox')
    BY <1>0, <2>2, <2>a, <2>b, FrameHas, FramesOf DEF AttachNamed, Named
  <2>5. pSub[h] = NoTopic
    BY <2>2, <2>3, <2>4, <2>b DEF LinkInv, Linked, GoingOK, Leaves, Untouched
  <2>6. CASE f.role = "RECEIVER"
    <3>0. PICK g : g = Attach("SENDER", h, f.topic)
      OBVIOUS
    <3>1. g \in Frame /\ g.type = "ATTACH" /\ g.role = "SENDER" /\ g.handle = h /\ g.topic = f.topic
      BY <2>4, <3>0, FrameTyped, FrameFields
    <3>2. inbox' = inbox \o << g >> /\ pSub' = [ pSub EXCEPT ![h] = f.topic ]
      BY <2>1, <2>6, <2>a, <2>b, <3>0 DEF ReadAttach, Reply
    <3>3. pSub'[h] = f.topic /\ \A k \in Handles : k # h => pSub'[k] = pSub[k]
      BY <2>4, <3>2 DEF TypeOK, AmqpPeerTypeOK
    <3>4. \A k \in Handles : pSub'[k] = pSub[k] \/ pSub[k] = NoTopic
      BY <2>5, <3>3
    <3>5. \A q \in ToSet(outbox) : q \in ToSet(outbox') \/ pSub'[q.handle] = q.topic
      BY <2>4, <2>b, <3>3
    <3>6. Listed'
      BY <1>3, <1>a, <1>b, <2>3, <3>1, <3>2, <3>3, <3>4, <3>5, AddListed
    <3> QED BY <3>6 DEF ListedInv
  <2>7. CASE f.role # "RECEIVER"
    <3>0. PICK g : g = Attach("RECEIVER", h, f.topic)
      OBVIOUS
    <3>1. g \in Frame /\ g.type = "ATTACH" /\ g.role = "RECEIVER"
      BY <2>4, <3>0, FrameTyped, FrameFields
    <3>2. inbox' = inbox \o << g >> /\ pSub' = pSub
      BY <2>1, <2>7, <2>a, <2>b, <3>0 DEF ReadAttach, Reply
    <3>3. \A q \in ToSet(outbox) : q.role = "RECEIVER" => q \in ToSet(outbox')
      BY <2>4, <2>7
    <3>4. Listed'
      BY <1>3, <1>a, <1>b, <2>3, <3>1, <3>2, <3>3, AddListed
    <3> QED BY <3>4 DEF ListedInv
  <2> QED BY <2>6, <2>7
<1>4. ASSUME Peer(ReadDetach) PROVE ListedInv'
  <2>a. PICK f : f = Head(outbox)
    OBVIOUS
  <2>b. PICK h : h = f.handle
    OBVIOUS
  <2>1. /\ Read("DETACH") /\ pSub' = [ pSub EXCEPT ![h] = NoTopic ] /\ Reply(<< Detach(h) >>)
    BY <1>4, <2>a, <2>b DEF Peer, ReadDetach
  <2>2. Alive /\ net = "open" /\ outbox # << >> /\ outbox' = Tail(outbox) /\ f.type = "DETACH" /\ f \in Frame
    BY <1>4, <1>a, <2>1, <2>a, ReadTakes
  <2>3. tables = "live"
    BY <2>2, <2>a, ReadStage DEF UserTypes
  <2>4. h \in Handles /\ \A q \in ToSet(outbox) : q.type = "ATTACH" => q \in ToSet(outbox')
    BY <1>0, <2>2, <2>a, <2>b, FrameHas, FramesOf
  <2>5. PICK g : g = Detach(h)
    OBVIOUS
  <2>6. g \in Frame /\ g.type = "DETACH" /\ g.handle = h /\ inbox' = inbox \o << g >>
    BY <2>1, <2>4, <2>5, FrameTyped, FrameFields DEF Reply
  <2>7. \A k \in Handles : pSub'[k] = pSub[k] \/ k = h
    BY <2>1 DEF TypeOK, AmqpPeerTypeOK
  <2>8. Listed'
    BY <1>4, <1>a, <1>b, <2>3, <2>4, <2>6, <2>7, AddListed
  <2> QED BY <2>8 DEF ListedInv
<1>5. ASSUME Peer(ReadTransfer) PROVE ListedInv'
  <2>1. /\ Read("TRANSFER") /\ (inbox' = inbox \/ Reply(<< Disposition(Head(outbox).id) >>))
        /\ pSub' = pSub
    BY <1>5 DEF Peer, ReadTransfer
  <2>2. outbox # << >> /\ outbox' = Tail(outbox) /\ Head(outbox).type # "ATTACH"
    BY <2>1, ReadTakes
  <2>3. Disposition(Head(outbox).id) \in Frame /\ Disposition(Head(outbox).id).type = "DISPOSITION"
    BY <2>1, ReadTakes, FrameHas, FrameTyped, FrameFields
  <2>4. inbox' = inbox \/ \E g \in Frame : inbox' = inbox \o << g >> /\ g.type # "ATTACH"
    BY <2>1, <2>3 DEF Reply
  <2> QED BY <1>5, <1>c, <2>1, <2>2, <2>4
<1>6. ASSUME Peer(ReadDisposition) \/ Peer(ReadPing) PROVE ListedInv'
  <2>1. (Read("DISPOSITION") \/ Read("PING")) /\ UNCHANGED << inbox, pSub >>
    BY <1>6 DEF Peer, ReadDisposition, ReadPing, peerVars
  <2>2. outbox # << >> /\ outbox' = Tail(outbox) /\ Head(outbox).type # "ATTACH"
    BY <2>1, ReadTakes
  <2> QED BY <1>6, <1>c, <2>1, <2>2
<1>7. ASSUME Peer(ReadEnd) PROVE ListedInv'
  <2>1. PICK type \in { "END", "CLOSE" } : Read(type) /\ Reply(<< Plain(type) >>)
    BY <1>7 DEF Peer, ReadEnd
  <2>2. pSub' = pSub
    BY <1>7 DEF Peer, ReadEnd
  <2>3. outbox # << >> /\ outbox' = Tail(outbox) /\ Head(outbox).type # "ATTACH"
    BY <2>1, ReadTakes
  <2>4. Plain(type) \in Frame /\ Plain(type).type # "ATTACH"
    BY <2>1, LoginFrames, LoginTypes
  <2>5. \E g \in Frame : inbox' = inbox \o << g >> /\ g.type # "ATTACH"
    BY <2>1, <2>4 DEF Reply
  <2> QED BY <1>7, <1>c, <2>2, <2>3, <2>5
<1>8. ASSUME NEW t \in Topics, Peer(PeerAttaches(t)) PROVE ListedInv'
  <2>1. /\ net = "open" /\ pConn = "begun" /\ pSub[ServerHandle] = NoTopic
        /\ pSub' = [ pSub EXCEPT ![ServerHandle] = t ]
        /\ inbox' = inbox \o << Attach("SENDER", ServerHandle, t) >>
        /\ outbox' = outbox
    BY <1>8 DEF Peer, PeerAttaches, Used, Reply
  <2>2. tables = "live"
    BY <1>8, <1>a, <2>1, MainStage
  <2>3. PICK g : g = Attach("SENDER", ServerHandle, t)
    OBVIOUS
  <2>4. g \in Frame /\ g.handle = ServerHandle /\ g.topic = t
    BY <2>3, FrameTyped, FrameFields, ShortIsSame
  <2>5. pSub'[ServerHandle] = t /\ \A k \in Handles : pSub'[k] = pSub[k] \/ pSub[k] = NoTopic
    BY <2>1, ShortIsSame DEF TypeOK, AmqpPeerTypeOK
  <2>6. Listed'
    BY <1>8, <1>a, <1>b, <2>1, <2>2, <2>3, <2>4, <2>5, AddListed
  <2> QED BY <2>6 DEF ListedInv
<1>9. ASSUME NEW i \in AmqpIncoming, NEW h \in Handles, Peer(PeerTransfers(i, h)) PROVE ListedInv'
  <2>1. PICK s \in BOOLEAN : Reply(<< Transfer(h, i, s, i) >>)
    BY <1>9 DEF Peer, PeerTransfers
  <2>2. UNCHANGED << outbox, pSub >>
    BY <1>9 DEF Peer, PeerTransfers
  <2>3. i \in Deliveries
    BY AmqpPeerBounds
  <2>4. Transfer(h, i, s, i) \in Frame /\ Transfer(h, i, s, i).type = "TRANSFER"
    BY <2>3, FrameTyped, FrameFields
  <2>5. \E g \in Frame : inbox' = inbox \o << g >> /\ g.type # "ATTACH"
    BY <2>1, <2>4 DEF Reply
  <2> QED BY <1>9, <1>c, <2>2, <2>5
<1>10. ASSUME Peer(PeerCloses) PROVE ListedInv'
  BY <1>10, <1>c DEF Peer, PeerCloses
<1>11. Peer(PeerReads) => \/ Peer(ReadLogIn) \/ Peer(RefuseLogIn) \/ Peer(ReadAttach) \/ Peer(ReadDetach)
                          \/ Peer(ReadTransfer) \/ Peer(ReadDisposition) \/ Peer(ReadPing) \/ Peer(ReadEnd)
  BY DEF Peer, PeerReads
<1> QED BY <1>1, <1>2, <1>3, <1>4, <1>5, <1>6, <1>7, <1>8, <1>9, <1>10, <1>11 DEF PeerStep

-----------------------------------------------------------------------------
(* The list and the table agree, and every listed topic has its link.      *)

LEMMA ListInductive ==
  /\ Init => RowsInv /\ ListedInv
  /\ TypeOK /\ StageInv /\ LinkInv /\ RowsInv /\ ListedInv /\ [Next]_vars => RowsInv' /\ ListedInv'
<1>1. Init => RowsInv /\ ListedInv
  BY DEF Init, AmqpTimersInit, RowsInv, NoRows, ListedInv
<1>2. TypeOK /\ StageInv /\ LinkInv /\ RowsInv /\ ListedInv /\ Next => RowsInv' /\ ListedInv'
  BY UserRows, OtherRows, UserListed, WorkerListed, TimerListed, PeerListed DEF Next
<1>3. RowsInv /\ ListedInv /\ UNCHANGED vars => RowsInv' /\ ListedInv'
  <2> SUFFICES ASSUME RowsInv, ListedInv, UNCHANGED vars PROVE RowsInv' /\ ListedInv'
    OBVIOUS
  <2>1. UNCHANGED << inbox, outbox, pSub, tables, topic_name_map, ui, gui, rows >>
    BY DEF vars, amqpNetVars, tableVars, peerVars, amqpGuiVars, storeVars
  <2>2. RowsInv'
    BY <2>1, RowsKept
  <2>3. ListedInv'
    BY <2>1, ListedInvStay
  <2> QED BY <2>2, <2>3
<1> QED BY <1>1, <1>2, <1>3

THEOREM AmqpListsHold == Spec => [](TypeOK /\ StageInv /\ LinkInv /\ RowsInv /\ ListedInv)
<1>1. Init => TypeOK /\ StageInv
  BY InitTypes, InitStages
<1> QED BY <1>1, ListInductive, AmqpLinksHold, PTL DEF Spec

\* The list box and the topic table show the same topics, each once; a listed
\* topic has a link on which the peer sends when nothing is in flight.
THEOREM ListedIsLinkedHolds == Spec => []ListedIsLinked
<1>1. TypeOK /\ RowsInv /\ ListedInv => ListedIsLinked
  <2> SUFFICES ASSUME TypeOK, RowsInv, ListedInv PROVE ListedIsLinked
    OBVIOUS
  <2>1. (ui = "main" /\ gui = "idle") => \A t \in Topics : rows.list[t] = rows.db[t] /\ rows.db[t] <= 1
    <3> SUFFICES ASSUME ui = "main", gui = "idle", NEW t \in Topics
                 PROVE  rows.list[t] = rows.db[t] /\ rows.db[t] <= 1
      BY Zenon
    <3>1. rows.list[t] \in Nat /\ rows.db[t] \in Nat
      BY DEF TypeOK, Rows
    <3>2. rows.db[t] <= rows.list[t] /\ rows.list[t] <= 1 /\ rows.list[t] = rows.db[t]
      BY DEF RowsInv
    <3> QED BY <3>1, <3>2
  <2>2. ASSUME Settled, NEW t \in Topics, rows.list[t] > 0 PROVE \E h \in Handles : pSub[h] = t
    <3>1. LinkComes(t) /\ inbox = << >> /\ outbox = << >>
      BY <2>2 DEF ListedInv, Listed, Settled, InSession
    <3>2. Len(inbox) = 0
      BY <3>1
    <3>3. ~DetachIn(inbox, topic_name_map[t], 1)
      BY <3>2 DEF DetachIn
    <3>4. ToSet(outbox) = {}
      BY <3>1 DEF ToSet
    <3>5. pSub[topic_name_map[t]] = t
      BY <3>1, <3>3, <3>4 DEF LinkComes
    <3>6. topic_name_map[t] \in Handles
      BY DEF TypeOK, AmqpTimersTypeOK
    <3> QED BY <3>5, <3>6
  <2> QED BY <2>1, <2>2 DEF ListedIsLinked
<1> QED BY <1>1, AmqpListsHold, PTL

-----------------------------------------------------------------------------
(* The messages of the user: what is published.                            *)

\* A transfer of the session is the one of its content and of its delivery id.
LEMMA MineOne ==
  ASSUME OwnIds, NEW f, NEW g, Mine(f), Mine(g), f.id = g.id \/ f.data = g.data
  PROVE  f = g
<1>1. /\ f.data \in Contents /\ published[f.data].frame = f /\ Ours(f.data)
      /\ g.data \in Contents /\ published[g.data].frame = g /\ Ours(g.data)
  BY DEF Mine, Ours
<1>2. f.data = g.data
  BY <1>1 DEF OwnIds
<1> QED BY <1>1, <1>2

\* A transfer of the session is a published one.
LEMMA MineOurs ==
  ASSUME NEW f, Mine(f) PROVE f.data \in Contents /\ Ours(f.data) /\ published[f.data].frame = f
BY DEF Mine, Ours

\* What the session published is a transfer of it.
LEMMA OursMine ==
  ASSUME TypeOK, PublishedInv, session > 0, NEW c \in Contents, Ours(c)
  PROVE  Mine(published[c].frame) /\ published[c].frame \in Frame /\ published[c].frame.type = "TRANSFER"
         /\ ~published[c].frame.settled /\ published[c].frame.data = c
<1>1. published[c] \in [ frame : Frame, session : 0 .. MaxSessions ]
  BY DEF TypeOK
<1>2. published[c] = [ frame |-> published[c].frame, session |-> published[c].session ]
  BY <1>1
<1>3. published[c] # NotPublished
  BY DEF Ours, NotPublished
<1>4. /\ published[c].frame.type = "TRANSFER" /\ published[c].frame.data = c
      /\ ~published[c].frame.settled
  BY <1>3 DEF PublishedInv
<1>5. published[c].session = session /\ published[c].frame \in Frame
  BY <1>1 DEF Ours
<1> QED BY <1>2, <1>4, <1>5 DEF Mine

\* Nothing is published.
LEMMA PublishedStay ==
  ASSUME PublishedInv, Alive, UNCHANGED << published, session >>,
         \A c \in Contents : published[c] = NotPublished => saved'[c] = saved[c],
         net' # "closed" => net # "closed",
         ui' = "loading" => ui = "loading",
         ui' # "accounts" => ui # "accounts"
  PROVE  PublishedInv'
BY DEF PublishedInv, Ours

\* The transfers stay where they are, or reach the peer.
LEMMA StoreStay ==
  ASSUME PublishedInv, StoreInv, Alive, UNCHANGED << published, session >>,
         net' = "open" => net = "open",
         hold' \in { hold, NoFrame } \/ Mine(hold'),
         \A f \in ToSet(outbox') : f.type = "TRANSFER" => f \in ToSet(outbox) \/ Mine(f),
         ui' = "main" => \/ ui = "loading"
                         \/ ui = "main" /\ packet_id_counter' = packet_id_counter
                            /\ \A h \in Handles : h < next_handle => h < next_handle',
         TypeOK,
         tables' = "live" =>
           /\ tables = "live" /\ UNCHANGED << m_handler, m_delivery_id >>
           /\ \A c \in Contents : delivered[c] > 0 => delivered'[c] > 0
           /\ \A f \in ToSet(outbox) : f.type = "TRANSFER" => f \in ToSet(outbox') \/ delivered'[f.data] > 0
  PROVE  StoreInv'
<1> SUFFICES ASSUME net' = "open"
             PROVE  /\ HoldMine' /\ QueueMine' /\ OwnIds' /\ BelowNext'
                    /\ tables' = "live" => TablesMine' /\ AllKept'
  BY DEF StoreInv
<1>0. /\ HoldMine /\ QueueMine /\ OwnIds /\ BelowNext
      /\ tables = "live" => TablesMine /\ AllKept
  BY DEF StoreInv
<1>1. \A f : Mine(f)' <=> Mine(f)
  BY DEF Mine
<1>2. HoldMine'
  BY <1>0 DEF HoldMine, Mine
<1>3. QueueMine'
  BY <1>0, <1>1 DEF QueueMine, Mine
<1>4. OwnIds'
  BY <1>0 DEF OwnIds, Ours
<1>5. BelowNext'
  <2> SUFFICES ASSUME ui' = "main", NEW c \in Contents, Ours(c)
               PROVE  published[c].frame.id < packet_id_counter' /\ published[c].frame.handle < next_handle'
    BY DEF BelowNext, Ours
  <2>1. ui # "loading"
    BY DEF PublishedInv
  <2>2. published[c].frame.id < packet_id_counter /\ published[c].frame.handle < next_handle
    BY <1>0, <2>1 DEF BelowNext
  <2>3. published[c].frame.handle \in Handles
    BY FrameHas DEF TypeOK
  <2> QED BY <2>1, <2>2, <2>3
<1>6. ASSUME tables' = "live" PROVE TablesMine' /\ AllKept'
  <2>1. TablesMine /\ AllKept /\ UNCHANGED << m_handler, m_delivery_id >>
    BY <1>0, <1>6
  <2>2. TablesMine'
    BY <2>1 DEF TablesMine, Mine
  <2>3. ASSUME NEW c \in Contents, Ours(c) PROVE Kept(c)'
    <3>1. Kept(c)
      BY <2>1, <2>3 DEF AllKept
    <3>2. session > 0
      BY DEF PublishedInv
    <3>3. published[c].frame.type = "TRANSFER" /\ published[c].frame.data = c
      BY <2>3, <3>2, OursMine
    <3> QED BY <1>6, <2>1, <3>1, <3>3 DEF Kept
  <2> QED BY <2>2, <2>3 DEF AllKept, Ours
<1> QED BY <1>2, <1>3, <1>4, <1>5, <1>6

\* Nothing is saved, and what is confirmed was delivered.
LEMMA SavedStay ==
  ASSUME PublishedInv, SavedInv, Alive, UNCHANGED << published, session, saved >>,
         \A c \in Contents : delivered[c] > 0 => delivered'[c] > 0,
         tables' = "live" =>
           /\ tables = "live" /\ UNCHANGED << m_handler, m_delivery_id >>
           /\ \A f \in ToSet(inbox') : f \in ToSet(inbox) \/ f.type # "DISPOSITION" \/ Confirms(f)'
           /\ ui' = "main" => \/ ui = "main" /\ packet_id_counter' = packet_id_counter
                              \/ \A f \in ToSet(inbox') : f.type # "DISPOSITION"
  PROVE  SavedInv'
<1>1. SavedOnce'
  BY DEF SavedInv, SavedOnce
<1>2. ASSUME tables' = "live" PROVE WaitsUnsaved' /\ \A f \in ToSet(inbox') : Confirms(f)'
  <2>1. WaitsUnsaved /\ \A f \in ToSet(inbox) : Confirms(f)
    BY <1>2 DEF SavedInv
  <2>2. WaitsUnsaved'
    BY <1>2, <2>1 DEF WaitsUnsaved
  <2>3. ASSUME NEW f \in ToSet(inbox'), f.type = "DISPOSITION" PROVE Confirms(f)'
    <3>1. CASE f \in ToSet(inbox)
      <4>1. Confirms(f)
        BY <2>1, <3>1
      <4> QED BY <1>2, <2>3, <4>1 DEF Confirms, Ours
    <3>2. CASE f \notin ToSet(inbox)
      BY <1>2, <2>3, <3>2
    <3> QED BY <3>1, <3>2
  <2> QED BY <2>2, <2>3 DEF Confirms
<1> QED BY <1>1, <1>2 DEF SavedInv

\* Most steps: the transfers stay in their tables, nothing is saved, and the
\* frames that come and go are no new dispositions.
LEMMA MessagesStay ==
  ASSUME TypeOK, MessageInv, Alive,
         UNCHANGED << published, session, saved, m_handler, m_delivery_id, tables, delivered, net >>,
         hold' \in { hold, NoFrame } \/ Mine(hold'),
         \A f \in ToSet(outbox') : f.type = "TRANSFER" => f \in ToSet(outbox) \/ Mine(f),
         \A f \in ToSet(outbox) : f.type = "TRANSFER" => f \in ToSet(outbox'),
         \A f \in ToSet(inbox') : f \in ToSet(inbox) \/ f.type # "DISPOSITION",
         \/ ui' = "accounts"
         \/ ui' = ui /\ (ui = "main" =>
                           /\ packet_id_counter' = packet_id_counter
                           /\ \A h \in Handles : h < next_handle => h < next_handle')
         \/ ui = "loading" /\ ui' = "main" /\ \A f \in ToSet(inbox') : f.type # "DISPOSITION"
  PROVE  MessageInv'
<1>1. PublishedInv'
  BY PublishedStay DEF MessageInv
<1>2. StoreInv'
  BY StoreStay DEF MessageInv
<1>3. SavedInv'
  BY SavedStay DEF MessageInv
<1> QED BY <1>1, <1>2, <1>3 DEF MessageInv

\* What fires adds is in q.
LEMMA FiredSet ==
  ASSUME NEW s \in Seq(Frame), NEW r \in Seq(Frame)
  PROVE  ToSet(s \o r) = ToSet(s) \cup ToSet(r)
<1>1. /\ s \o r \in Seq(Frame) /\ Len(s \o r) = Len(s) + Len(r) /\ Len(s) \in Nat /\ Len(r) \in Nat
      /\ \A k \in 1 .. Len(s) : (s \o r)[k] = s[k]
      /\ \A k \in 1 .. Len(r) : (s \o r)[Len(s) + k] = r[k]
  BY Joined
<1>2. ToSet(s) \subseteq ToSet(s \o r)
  <2> SUFFICES ASSUME NEW f \in ToSet(s) PROVE f \in ToSet(s \o r)
    OBVIOUS
  <2>1. PICK k \in 1 .. Len(s) : s[k] = f
    BY FramesOf
  <2>2. k \in 1 .. Len(s \o r) /\ (s \o r)[k] = f
    BY <1>1, <2>1
  <2> QED BY <1>1, <2>2, FramesOf
<1>3. ToSet(r) \subseteq ToSet(s \o r)
  <2> SUFFICES ASSUME NEW f \in ToSet(r) PROVE f \in ToSet(s \o r)
    OBVIOUS
  <2>1. PICK k \in 1 .. Len(r) : r[k] = f
    BY FramesOf
  <2>2. Len(s) + k \in 1 .. Len(s \o r) /\ (s \o r)[Len(s) + k] = f
    BY <1>1, <2>1
  <2> QED BY <1>1, <2>2, FramesOf
<1>4. ToSet(s \o r) \subseteq ToSet(s) \cup ToSet(r)
  <2> SUFFICES ASSUME NEW f \in ToSet(s \o r) PROVE f \in ToSet(s) \cup ToSet(r)
    OBVIOUS
  <2>1. PICK k \in 1 .. Len(s \o r) : (s \o r)[k] = f
    BY <1>1, FramesOf
  <2>2. CASE k <= Len(s)
    <3>1. k \in 1 .. Len(s) /\ s[k] = f
      BY <1>1, <2>1, <2>2
    <3> QED BY <3>1, FramesOf
  <2>3. CASE ~(k <= Len(s))
    <3>1. k - Len(s) \in 1 .. Len(r) /\ Len(s) + (k - Len(s)) = k
      BY <1>1, <2>1, <2>3
    <3>2. r[k - Len(s)] = f
      BY <1>1, <2>1, <3>1
    <3> QED BY <3>1, <3>2, FramesOf
  <2> QED BY <2>2, <2>3
<1> QED BY <1>2, <1>3, <1>4

\* Fires of transfers that are known, or of none.
LEMMA FiresMessages ==
  ASSUME TypeOK, MessageInv, Alive, NEW r \in Seq(Frame), fire_all(r) \/ use_and_fire(r) \/ outbox' = outbox,
         \A f \in ToSet(r) : f.type = "TRANSFER" => Mine(f),
         UNCHANGED << published, session, saved, m_handler, m_delivery_id, tables, delivered, net >>,
         hold' \in { hold, NoFrame },
         ToSet(inbox') \subseteq ToSet(inbox),
         \/ ui' = "accounts"
         \/ ui' = ui /\ (ui = "main" =>
                           /\ packet_id_counter' = packet_id_counter
                           /\ \A h \in Handles : h < next_handle => h < next_handle')
  PROVE  MessageInv'
<1>1. outbox \in Seq(Frame)
  BY DEF TypeOK, AmqpTimersTypeOK
<1>2. outbox' = outbox \/ outbox' = outbox \o r
  BY DEF fire_all, use_and_fire
<1>3. \A f \in ToSet(outbox') : f.type = "TRANSFER" => f \in ToSet(outbox) \/ Mine(f)
  BY <1>1, <1>2, FiredSet
<1>4. \A f \in ToSet(outbox) : f \in ToSet(outbox')
  BY <1>1, <1>2, FiredSet
<1> QED BY <1>3, <1>4, MessagesStay

\* A new session: no transfer is of it yet.
LEMMA LogInMessages ==
  ASSUME TypeOK, StageInv, MessageInv, LogIn
  PROVE  MessageInv'
<1>1. /\ session' = session + 1 /\ ui' = "loading" /\ net # "open" /\ hold = NoFrame
      /\ outbox' = << >> /\ inbox' = << >>
      /\ UNCHANGED << published, saved, delivered, hold, tables >>
  BY DEF LogIn, tableVars, threadVars, storeVars
<1>2. session \in Nat /\ \A c \in Contents : published[c].session \in Nat
  BY DEF TypeOK
<1>3. \A c \in Contents : published[c].session <= session
  <2>1. NotPublished.session = 0
    BY DEF NotPublished
  <2> QED BY <1>2, <2>1 DEF MessageInv, PublishedInv
<1>4. \A c \in Contents : ~Ours(c)'
  BY <1>1, <1>2, <1>3 DEF Ours
<1>5. PublishedInv'
  <2>1. session' > 0
    BY <1>1, <1>2
  <2>2. ASSUME NEW c \in Contents
        PROVE  \/ published'[c] = NotPublished /\ saved'[c] = 0
               \/ /\ published'[c].session > 0 /\ published'[c].session <= session'
                  /\ published'[c].frame.type = "TRANSFER" /\ published'[c].frame.data = c
                  /\ ~published'[c].frame.settled
    <3>1. published'[c] = published[c] /\ saved'[c] = saved[c]
      BY <1>1
    <3>2. published[c].session <= session'
      BY <1>1, <1>2, <1>3
    <3>3. CASE published[c] = NotPublished
      BY <3>1, <3>3 DEF MessageInv, PublishedInv, NotPublished
    <3>4. CASE published[c] # NotPublished
      BY <3>1, <3>2, <3>4 DEF MessageInv, PublishedInv
    <3> QED BY <3>3, <3>4
  <2> QED BY <1>4, <2>1, <2>2 DEF PublishedInv
<1>6. tables' # "live"
  BY <1>1 DEF StageInv, LiveIsServed
<1>7. StoreInv'
  <2>1. ToSet(outbox') = {}
    BY <1>1 DEF ToSet
  <2> QED BY <1>1, <1>4, <1>6, <2>1 DEF StoreInv, HoldMine, QueueMine, OwnIds, BelowNext
<1>8. SavedInv'
  BY <1>1, <1>6 DEF MessageInv, SavedInv, SavedOnce
<1> QED BY <1>5, <1>7, <1>8 DEF MessageInv

\* What is about the transfers of the session when one more is published.
LEMMA OneMore ==
  ASSUME TypeOK, PublishedInv, session > 0, session' = session,
         NEW c \in Contents, published[c] = NotPublished, NEW f \in Frame, f.data = c,
         published' = [ published EXCEPT ![c] = [ frame |-> f, session |-> session ] ]
  PROVE  /\ \A g : Mine(g) => Mine(g)'
         /\ Mine(f)' /\ Ours(c)' /\ ~Ours(c)
         /\ published'[c].frame = f /\ published'[c].session = session
         /\ \A d \in Contents : d # c => published'[d] = published[d] /\ (Ours(d)' <=> Ours(d))
<1>1. published'[c] = [ frame |-> f, session |-> session ]
  BY DEF TypeOK
<1>2. \A d \in Contents : d # c => published'[d] = published[d]
  BY DEF TypeOK
<1>3. ~Ours(c)
  BY DEF Ours, NotPublished, TypeOK
<1>4. published'[c].frame = f /\ published'[c].session = session
  BY <1>1
<1>5. ASSUME NEW g, Mine(g) PROVE Mine(g)'
  <2>1. g.data \in Contents /\ g.data # c
    BY <1>3, <1>5 DEF Mine, Ours
  <2> QED BY <1>2, <1>5, <2>1 DEF Mine
<1> QED BY <1>1, <1>2, <1>3, <1>4, <1>5 DEF Mine, Ours

LEMMA PublishMessages ==
  ASSUME TypeOK, StageInv, LinkInv, MessageInv,
         NEW c \in Contents, NEW t \in Topics, NEW s \in UserSettled, send_amqp_transfer(c, t, s)
  PROVE  MessageInv'
<1> DEFINE h == topic_name_map_outgoing[t]
<1>a. PICK f : f = Transfer(IF h # 0 THEN h ELSE next_handle, packet_id_counter, s, c)
  OBVIOUS
<1>b. PICK n : n = next_handle
  OBVIOUS
<1>c. PICK p : p = packet_id_counter
  OBVIOUS
<1>1. /\ Alive /\ ui = "main" /\ gui = "idle"
      /\ published[c] = NotPublished
      /\ p <= MaxDelivery /\ packet_id_counter' = p + 1
      /\ published' = [ published EXCEPT ![c] = [ frame |-> f, session |-> session ] ]
      /\ UNCHANGED << net, inbox, hold, delivered, ui, session, saved, tables, m_delivery_id >>
  BY <1>a, <1>c DEF send_amqp_transfer, Button, Gui, amqp_get_handler_from_map_outgoing, threadVars, peerVars,
         storeVars, tableVars
<1>2. \/ /\ h # 0 /\ use_and_fire(<< f >>) /\ UNCHANGED << next_handle, m_handler >>
      \/ /\ h = 0 /\ FreshHandle /\ next_handle' = n + 1
         /\ m_handler' = [ m_handler EXCEPT ![Short(f.handle)] = f ]
         /\ use_and_fire(<< Attach("SENDER", n, t) >>)
  BY <1>a, <1>b DEF send_amqp_transfer, amqp_get_handler_from_map_outgoing, tableVars, with_message_by_handler
<1>3. p \in Deliveries /\ n \in Nat /\ n \in 1 .. MaxHandle + 1 /\ p \in Nat /\ h \in Handles /\ MaxHandle \in Nat
  BY <1>1, <1>b, <1>c, AmqpTableBounds DEF TypeOK, AmqpTimersTypeOK, Deliveries
<1>4. h # 0 \/ n \in Handles
  BY <1>2, <1>3, <1>b DEF FreshHandle, Handles
<1>5. /\ f \in Frame /\ f.type = "TRANSFER" /\ f.id = p /\ ~f.settled /\ f.data = c
      /\ f.handle = IF h # 0 THEN h ELSE n
  <2>1. s = FALSE
    BY AmqpQosOne
  <2>a. PICK k : k = IF h # 0 THEN h ELSE n
    OBVIOUS
  <2>2. k \in Handles /\ f = Transfer(k, p, FALSE, c)
    BY <1>3, <1>4, <1>a, <1>b, <1>c, <2>1, <2>a
  <2>3. f \in Frame
    BY <1>3, <2>2, FrameTyped
  <2>4. f.type = "TRANSFER" /\ f.id = p /\ f.data = c /\ f.handle = k
    BY <2>2 DEF Transfer, Plain
  <2>5. ~f.settled
    BY <2>2 DEF Transfer, Plain
  <2> QED BY <2>3, <2>4, <2>5, <2>a
<1>6. PublishedInv /\ StoreInv /\ SavedInv /\ session > 0
  BY <1>1 DEF MessageInv, PublishedInv
<1>7. /\ \A g : Mine(g) => Mine(g)'
      /\ Mine(f)' /\ Ours(c)' /\ ~Ours(c)
      /\ published'[c].frame = f /\ published'[c].session = session
      /\ \A d \in Contents : d # c => published'[d] = published[d] /\ (Ours(d)' <=> Ours(d))
  BY <1>1, <1>5, <1>6, OneMore
<1>8. PublishedInv'
  <2>1. ASSUME NEW d \in Contents
        PROVE  \/ published'[d] = NotPublished /\ saved'[d] = 0
               \/ /\ published'[d].session > 0 /\ published'[d].session <= session'
                  /\ published'[d].frame.type = "TRANSFER" /\ published'[d].frame.data = d
                  /\ ~published'[d].frame.settled
    <3>1. CASE d = c
      <4>1. session \in Nat
        BY DEF TypeOK
      <4> QED BY <1>1, <1>5, <1>6, <1>7, <3>1, <4>1
    <3>2. CASE d # c
      BY <1>1, <1>6, <1>7, <3>2 DEF PublishedInv
    <3> QED BY <3>1, <3>2
  <2>2. session' > 0 /\ ui' # "loading"
    BY <1>1, <1>6
  <2> QED BY <2>1, <2>2 DEF PublishedInv
<1>9. CASE net # "open"
  <2>1. tables' # "live" /\ net' # "open"
    BY <1>1, <1>9 DEF StageInv, LiveIsServed
  <2>2. SavedInv'
    BY <1>1, <1>6, <2>1 DEF SavedInv, SavedOnce
  <2> QED BY <1>8, <2>1, <2>2 DEF MessageInv, StoreInv
<1>10. CASE net = "open"
  <2>1. tables = "live" /\ tables' = "live" /\ net' = "open"
    BY <1>1, <1>10, MainStage
  <2>2. HoldMine /\ QueueMine /\ OwnIds /\ BelowNext /\ TablesMine /\ AllKept /\ SavedOnce /\ WaitsUnsaved
        /\ (\A g \in ToSet(inbox) : Confirms(g)) /\ Linked
    BY <1>10, <1>6, <2>1 DEF StoreInv, SavedInv, LinkInv
  <2>a. PICK r : r = IF h # 0 THEN << f >> ELSE << Attach("SENDER", n, t) >>
    OBVIOUS
  <2>b. /\ r \in Seq(Frame)
        /\ \A g \in ToSet(r) : g.type = "TRANSFER" => g = f
        /\ h # 0 => f \in ToSet(r)
    <3>1. CASE h # 0
      <4>1. r = << f >>
        BY <2>a, <3>1
      <4> QED BY <1>5, <4>1, OrderedOne
    <3>2. CASE h = 0
      <4>1. n \in Handles /\ r = << Attach("SENDER", n, t) >>
        BY <1>4, <2>a, <3>2
      <4>2. Attach("SENDER", n, t) \in Frame /\ Attach("SENDER", n, t).type = "ATTACH"
        BY <4>1, FrameTyped, FrameFields
      <4> QED BY <3>2, <4>1, <4>2, OrderedOne
    <3> QED BY <3>1, <3>2
  <2>3. outbox' = outbox \o r
    <3>1. use_and_fire(r)
      BY <1>2, <2>a
    <3> QED BY <1>10, <2>1, <3>1, FireOpen
  <2>4. ToSet(outbox') = ToSet(outbox) \cup ToSet(r)
    BY <2>3, <2>b, FiredSet DEF TypeOK, AmqpTimersTypeOK
  <2>5. \A d \in Contents : Ours(d) => published[d].frame.id < p /\ published[d].frame.handle < n
    BY <1>1, <1>b, <1>c, <2>2 DEF BelowNext
  <2>6. h # 0 => h < n
    <3> SUFFICES ASSUME h # 0 PROVE h < n
      OBVIOUS
    <3>1. SendsOn(h, t)
      BY <2>2 DEF Linked, NamesOut
    <3>2. h # ServerHandle
      BY <3>1 DEF SendsOn
    <3>3. InUse(h)
      BY DEF InUse
    <3> QED BY <1>1, <1>3, <1>b, <2>2, <3>2, <3>3 DEF Linked, FreshUnused
  <2>7. f.handle < next_handle' /\ n <= next_handle' /\ next_handle' \in Nat
    BY <1>2, <1>3, <1>5, <1>b, <2>6
  <2>8. HoldMine'
    <3>1. HoldMine /\ hold' = hold
      BY <1>1, <2>2
    <3>2. CASE hold = NoFrame
      BY <3>1, <3>2 DEF HoldMine
    <3>3. CASE Mine(hold)
      BY <1>7, <3>1, <3>3 DEF HoldMine, Mine
    <3> QED BY <3>1, <3>2, <3>3 DEF HoldMine
  <2>9. QueueMine'
    <3> SUFFICES ASSUME NEW g \in ToSet(outbox'), g.type = "TRANSFER" PROVE Mine(g)'
      BY DEF QueueMine, Mine
    <3>1. Mine(g) \/ g = f
      BY <2>2, <2>4, <2>b DEF QueueMine
    <3> QED BY <1>7, <3>1
  <2>10. OwnIds'
    <3> SUFFICES ASSUME NEW d \in Contents, NEW e \in Contents, Ours(d)', Ours(e)',
                        published'[d].frame.id = published'[e].frame.id
                 PROVE  d = e
      BY DEF OwnIds
    <3>0. ASSUME NEW x \in Contents, x # c, Ours(x)' PROVE published'[x].frame.id # p
      <4>1. published'[x] = published[x] /\ published[x].frame.id < p
        BY <1>7, <2>5, <3>0
      <4>2. published[x].frame.id \in Deliveries
        BY FrameHas DEF TypeOK
      <4> QED BY <1>3, <4>1, <4>2 DEF Deliveries
    <3>1. CASE d # c /\ e # c
      BY <1>7, <2>2, <3>1 DEF OwnIds
    <3>2. CASE d = c \/ e = c
      BY <1>5, <1>7, <3>0, <3>2
    <3> QED BY <3>1, <3>2
  <2>11. BelowNext'
    <3> SUFFICES ASSUME NEW d \in Contents, Ours(d)'
                 PROVE  published'[d].frame.id < packet_id_counter' /\ published'[d].frame.handle < next_handle'
      BY DEF BelowNext
    <3>1. CASE d = c
      BY <1>1, <1>3, <1>5, <1>7, <2>7, <3>1
    <3>2. CASE d # c
      <4>1. published'[d] = published[d] /\ published[d].frame.id < p /\ published[d].frame.handle < n
        BY <1>7, <2>5, <3>2
      <4>2. published[d].frame.id \in Nat /\ published[d].frame.handle \in Nat
        BY FrameHas DEF TypeOK, Deliveries, Handles
      <4> QED BY <1>1, <1>3, <2>7, <4>1, <4>2
    <3> QED BY <3>1, <3>2
  <2>12. \A k \in Handles : m_handler'[k] = m_handler[k] \/ (h = 0 /\ k = n /\ m_handler'[k] = f)
    <3>1. CASE h # 0
      BY <1>2, <3>1
    <3>2. CASE h = 0
      <4>1. Short(f.handle) = n
        BY <1>4, <1>5, <3>2, ShortIsSame
      <4> QED BY <1>2, <3>2, <4>1 DEF TypeOK, AmqpTimersTypeOK
    <3> QED BY <3>1, <3>2
  <2>13. h = 0 => m_handler'[n] = f
    <3> SUFFICES ASSUME h = 0 PROVE m_handler'[n] = f
      OBVIOUS
    <3>1. Short(f.handle) = n /\ n \in Handles
      BY <1>4, <1>5, ShortIsSame
    <3> QED BY <1>2, <3>1 DEF TypeOK, AmqpTimersTypeOK
  <2>14. TablesMine'
    <3>1. ASSUME NEW k \in Handles, m_handler'[k] # NoFrame
          PROVE  Mine(m_handler[k])' /\ m_handler'[k].handle = k
      <4>1. CASE m_handler'[k] = m_handler[k]
        <5>1. Mine(m_handler[k]) /\ m_handler[k].handle = k
          BY <2>2, <3>1, <4>1 DEF TablesMine
        <5> QED BY <1>7, <4>1, <5>1 DEF Mine
      <4>2. CASE h = 0 /\ k = n /\ m_handler'[k] = f
        BY <1>5, <1>7, <4>2 DEF Mine
      <4> QED BY <2>12, <4>1, <4>2
    <3>2. ASSUME NEW id \in Deliveries, m_delivery_id'[id] # NoFrame
          PROVE  Mine(m_delivery_id[id])' /\ m_delivery_id'[id].id = id
      <4>1. Mine(m_delivery_id[id]) /\ m_delivery_id[id].id = id /\ m_delivery_id'[id] = m_delivery_id[id]
        BY <1>1, <2>2, <3>2 DEF TablesMine
      <4> QED BY <1>7, <4>1 DEF Mine
    <3> QED BY <3>1, <3>2 DEF TablesMine
  <2>15. AllKept'
    <3> SUFFICES ASSUME NEW d \in Contents, Ours(d)' PROVE Kept(d)'
      BY DEF AllKept
    <3>1. CASE d = c
      <4>1. published'[d].frame = f
        BY <1>7, <3>1
      <4>2. CASE h = 0
        BY <1>5, <2>13, <4>1, <4>2 DEF Kept
      <4>3. CASE h # 0
        BY <2>4, <2>b, <4>1, <4>3 DEF Kept
      <4> QED BY <4>2, <4>3
    <3>2. CASE d # c
      <4>1. Kept(d) /\ published'[d] = published[d] /\ published[d].frame.handle < n
        BY <1>7, <2>2, <2>5, <3>2 DEF AllKept
      <4>2. published[d].frame.handle \in Handles /\ published[d].frame.handle \in Nat
        BY FrameHas DEF TypeOK, Handles
      <4>3. m_handler'[published[d].frame.handle] = m_handler[published[d].frame.handle]
        BY <1>3, <2>12, <4>1, <4>2
      <4> QED BY <1>1, <2>4, <4>1, <4>3 DEF Kept
    <3> QED BY <3>1, <3>2
  <2>16. WaitsUnsaved'
    <3>1. ASSUME NEW k \in Handles, m_handler'[k] # NoFrame
          PROVE  saved'[m_handler'[k].data] = 0 /\ m_delivery_id'[m_handler'[k].id] = NoFrame
      <4>1. CASE m_handler'[k] = m_handler[k]
        BY <1>1, <2>2, <3>1, <4>1 DEF WaitsUnsaved
      <4>2. CASE m_handler'[k] = f
        <5>1. saved[c] = 0
          <6>1. NotPublished.session = 0
            BY DEF NotPublished
          <6> QED BY <1>1, <1>6, <6>1 DEF PublishedInv
        <5>2. m_delivery_id[p] = NoFrame
          <6> SUFFICES ASSUME m_delivery_id[p] # NoFrame PROVE FALSE
            OBVIOUS
          <6>1. Mine(m_delivery_id[p]) /\ m_delivery_id[p].id = p
            BY <1>3, <2>2 DEF TablesMine
          <6>2. /\ m_delivery_id[p].data \in Contents /\ Ours(m_delivery_id[p].data)
                /\ published[m_delivery_id[p].data].frame = m_delivery_id[p]
            BY <6>1, MineOurs
          <6>3. p < p
            BY <2>5, <6>1, <6>2
          <6> QED BY <1>3, <6>3
        <5> QED BY <1>1, <1>5, <4>2, <5>1, <5>2
      <4> QED BY <2>12, <4>1, <4>2
    <3> QED BY <1>1, <2>2, <3>1 DEF WaitsUnsaved
  <2>17. ASSUME NEW g \in ToSet(inbox), g.type = "DISPOSITION" PROVE Confirms(g)'
    <3>1. Confirms(g)
      BY <2>2, <2>17
    <3>2. g.id < p
      BY <1>1, <1>c, <2>17, <3>1 DEF Confirms
    <3>3. g.id \in Nat
      <4>1. g \in Frame
        BY FramesOf DEF TypeOK, AmqpTimersTypeOK
      <4> QED BY <4>1, FrameHas DEF Deliveries
    <3>4. g.id < packet_id_counter'
      BY <1>1, <1>3, <3>2, <3>3
    <3>5. ASSUME NEW d \in Contents, Ours(d)', published'[d].frame.id = g.id PROVE delivered'[d] > 0
      <4>1. d # c
        BY <1>3, <1>5, <1>7, <3>2, <3>3, <3>5
      <4> QED BY <1>1, <1>7, <2>17, <3>1, <3>5, <4>1 DEF Confirms
    <3> QED BY <3>4, <3>5 DEF Confirms
  <2>18. SavedInv'
    <3>1. SavedOnce'
      BY <1>1, <2>2 DEF SavedOnce
    <3>2. \A g \in ToSet(inbox') : Confirms(g)'
      BY <1>1, <2>17 DEF Confirms
    <3> QED BY <2>16, <3>1, <3>2 DEF SavedInv
  <2>19. StoreInv'
    BY <2>8, <2>9, <2>10, <2>11, <2>14, <2>15 DEF StoreInv
  <2> QED BY <1>8, <2>18, <2>19 DEF MessageInv
<1> QED BY <1>9, <1>10

\* Log in, buttons and log out.
LEMMA UserMessages ==
  ASSUME TypeOK, StageInv, LinkInv, MessageInv, UserStep \/ GuiStep
  PROVE  MessageInv'
<1>a. << >> \in Seq(Frame) /\ ToSet(<< >>) = {}
  BY DEF ToSet
<1>b. ASSUME NEW f \in Frame, f.type # "TRANSFER"
      PROVE  << f >> \in Seq(Frame) /\ \A g \in ToSet(<< f >>) : g.type # "TRANSFER"
  BY <1>b, OrderedOne
<1>1. ASSUME NEW t \in Topics, send_amqp_attach(t) PROVE MessageInv'
  <2>a. PICK n : n = next_handle
    OBVIOUS
  <2>1. /\ Alive /\ FreshHandle /\ next_handle' = n + 1 /\ use_and_fire(<< Attach("RECEIVER", n, t) >>)
        /\ UNCHANGED << published, session, saved, m_handler, m_delivery_id, tables, delivered, net,
                        hold, inbox, ui, packet_id_counter >>
    BY <1>1, <2>a DEF send_amqp_attach, Button, Gui, threadVars, peerVars, storeVars
  <2>2. n \in Handles /\ n \in Nat
    BY <2>1, <2>a, AmqpTableBounds DEF FreshHandle, TypeOK, Handles
  <2>3. \A h \in Handles : h < next_handle => h < next_handle'
    BY <2>1, <2>2, <2>a DEF Handles
  <2>4. Attach("RECEIVER", n, t) \in Frame /\ Attach("RECEIVER", n, t).type # "TRANSFER"
    BY <2>2, FrameTyped, FrameFields
  <2> QED BY <1>b, <2>1, <2>3, <2>4, FiresMessages
<1>2. ASSUME NEW t \in Topics, send_amqp_detach(t) PROVE MessageInv'
  <2>a. PICK h : h = topic_name_map[t]
    OBVIOUS
  <2>b. PICK r : r = IF h = 0 THEN << >> ELSE << Detach(h) >>
    OBVIOUS
  <2>1. /\ Alive /\ use_and_fire(r)
        /\ UNCHANGED << published, session, saved, m_handler, m_delivery_id, tables, delivered, net,
                        hold, inbox, ui, packet_id_counter, next_handle >>
    BY <1>2, <2>a, <2>b DEF send_amqp_detach, Button, Gui, threadVars, peerVars, storeVars, tableVars, counterVars,
         amqp_get_handler_from_map
  <2>2. h \in Handles
    BY <2>a DEF TypeOK, AmqpTimersTypeOK
  <2>3. Detach(h) \in Frame /\ Detach(h).type # "TRANSFER"
    BY <2>2, FrameTyped, FrameFields
  <2>4. r \in Seq(Frame) /\ \A g \in ToSet(r) : g.type # "TRANSFER"
    BY <1>a, <1>b, <2>3, <2>b
  <2> QED BY <2>1, <2>4, FiresMessages
<1>3. ASSUME log_out_handle \/ start_amqp_connect_timer PROVE MessageInv'
  <2>1. /\ Alive
        /\ UNCHANGED << published, session, saved, m_handler, m_delivery_id, tables, delivered, net,
                        hold, inbox, outbox, ui, packet_id_counter, next_handle >>
    BY <1>3 DEF log_out_handle, start_amqp_connect_timer, Gui, threadVars, peerVars, tableVars, counterVars,
         amqpNetVars, storeVars, amqp_start_connect_timer
  <2> QED BY <1>a, <2>1, FiresMessages
<1>4. ASSUME start_amqp_connect_fire PROVE MessageInv'
  <2>1. /\ Alive /\ fire_all(<< Verdict("PROTO", FALSE) >>)
        /\ UNCHANGED << published, session, saved, m_handler, m_delivery_id, tables, delivered, net,
                        hold, inbox, ui, packet_id_counter, next_handle >>
    BY <1>4 DEF start_amqp_connect_fire, amqp_encode_and_fire, Gui, threadVars, peerVars, tableVars, counterVars,
         storeVars
  <2> QED BY <1>b, <2>1, LoginFrames, LoginTypes, FiresMessages
<1>5. ASSUME send_amqp_end PROVE MessageInv'
  <2>1. /\ Alive /\ fire_all(<< Plain("END") >>) /\ ui' = "accounts"
        /\ UNCHANGED << published, session, saved, m_handler, m_delivery_id, tables, delivered, net,
                        hold, inbox >>
    BY <1>5 DEF send_amqp_end, amqp_encode_and_fire, Gui, threadVars, peerVars, tableVars, storeVars
  <2> QED BY <1>b, <2>1, LoginFrames, LoginTypes, FiresMessages
<1>6. ASSUME UserStep PROVE MessageInv'
  BY <1>1, <1>2, <1>3, <1>6, LogInMessages, PublishMessages DEF UserStep
<1>7. ASSUME GuiStep PROVE MessageInv'
  BY <1>3, <1>4, <1>5, <1>7 DEF GuiStep
<1> QED BY <1>6, <1>7

\* The resend pass: a stored transfer is fired again.
LEMMA TimerMessages ==
  ASSUME TypeOK, StageInv, MessageInv, TimerStep
  PROVE  MessageInv'
<1>a. /\ Alive
      /\ UNCHANGED << published, session, saved, delivered, ui, packet_id_counter, next_handle >>
  BY DEF TimerStep, Timer, restOfClient, peerVars, amqpGuiVars, counterVars, storeVars
<1>b. << >> \in Seq(Frame) /\ ToSet(<< >>) = {}
  BY DEF ToSet
<1>1. ASSUME Timer(amqp_connect_task) PROVE MessageInv'
  <2>1. UNCHANGED << m_handler, m_delivery_id, tables, net, hold, inbox, outbox >>
    BY <1>1 DEF Timer, amqp_connect_task, tableVars
  <2> QED BY <1>a, <1>b, <2>1, FiresMessages
<1>2. ASSUME Timer(amqp_ping_task) PROVE MessageInv'
  <2>1. /\ fire_all(<< Plain("PING") >>)
        /\ UNCHANGED << m_handler, m_delivery_id, tables, net, hold, inbox >>
    BY <1>2 DEF Timer, amqp_ping_task, amqp_encode_and_fire, tableVars, threadVars
  <2>2. << Plain("PING") >> \in Seq(Frame) /\ \A g \in ToSet(<< Plain("PING") >>) : g.type # "TRANSFER"
    BY LoginFrames, LoginTypes, OrderedOne
  <2> QED BY <1>a, <2>1, <2>2, FiresMessages
<1>3. ASSUME NEW id \in Deliveries, Timer(amqp_message_resend_task(id)) PROVE MessageInv'
  <2>1. /\ thread["messager"] = "running" /\ m_delivery_id[id] # NoFrame /\ hold' = m_delivery_id[id]
        /\ UNCHANGED << m_handler, m_delivery_id, tables, net, inbox, outbox >>
    BY <1>3 DEF Timer, amqp_message_resend_task, amqpNetVars, tableVars
  <2>2. net = "open"
    BY <2>1 DEF StageInv, SendersServed
  <2>3. tables = "live"
    BY <1>a, <2>1, <2>2, MainStage
  <2>4. Mine(m_delivery_id[id])
    BY <2>1, <2>2, <2>3 DEF MessageInv, StoreInv, TablesMine
  <2>5. Mine(hold')
    BY <2>1, <2>4
  <2> QED BY <1>a, <2>1, <2>5, MessagesStay
<1>4. ASSUME Timer(amqp_message_resend_fire) PROVE MessageInv'
  <2>1. /\ hold # NoFrame /\ fire_all(<< hold >>) /\ hold' = NoFrame
        /\ UNCHANGED << m_handler, m_delivery_id, tables, net, inbox >>
    BY <1>4 DEF Timer, amqp_message_resend_fire, amqp_encode_and_fire, tableVars
  <2>2. << hold >> \in Seq(Frame) /\ ToSet(<< hold >>) = { hold } /\ << hold >> # << >>
    BY OrderedOne, Short12 DEF TypeOK, AmqpTimersTypeOK
  <2>3. CASE net = "open"
    <3>1. Mine(hold)
      BY <2>1, <2>3 DEF MessageInv, StoreInv, HoldMine
    <3>2. \A f \in ToSet(<< hold >>) : Mine(f)
      BY <2>2, <3>1
    <3> QED BY <1>a, <2>1, <2>2, <3>2, FiresMessages
  <2>4. CASE net # "open"
    <3>1. outbox' = outbox
      BY <2>1, <2>2, <2>4, FireDead
    <3> QED BY <1>a, <1>b, <2>1, <3>1, FiresMessages
  <2> QED BY <2>3, <2>4
<1> QED BY <1>1, <1>2, <1>3, <1>4 DEF TimerStep

-----------------------------------------------------------------------------
(* The messages of the user: what the worker does with them.               *)

\* Frames that are about no transfer.
LEMMA RxMessagesStay ==
  ASSUME TypeOK, StageInv, MessageInv,
         rx_answered \/ rx_outcome_refused \/ rx_attach_sender \/ rx_transfer \/ rx_detach \/ rx_close
  PROVE  MessageInv'
<1>a. << >> \in Seq(Frame) /\ ToSet(<< >>) = {}
  BY DEF ToSet
<1>b. ASSUME NEW f \in Frame, f.type # "TRANSFER"
      PROVE  << f >> \in Seq(Frame) /\ \A g \in ToSet(<< f >>) : g.type # "TRANSFER"
  BY <1>b, OrderedOne
<1>c. ASSUME NEW types, Rx(types) PROVE Alive /\ ToSet(inbox') \subseteq ToSet(inbox)
  BY <1>c, RxTakes, FramesOf
<1>1. CASE rx_answered
  <2>1. /\ Rx({ "PROTO", "MECHANISMS", "END", "OUTCOME" })
        /\ Head(inbox).type = "OUTCOME" => Head(inbox).ok
        /\ fire_all(AnswerTo(Head(inbox)))
        /\ UNCHANGED << published, session, saved, m_handler, m_delivery_id, tables, delivered, net,
                        hold, ui, packet_id_counter, next_handle >>
    BY <1>1 DEF rx_answered, tableVars, threadVars, peerVars, amqpGuiVars, counterVars, storeVars
  <2>2. Head(inbox).type \in { "PROTO", "MECHANISMS", "END", "OUTCOME" } /\ Head(inbox) \in Frame
    BY <2>1, RxTakes
  <2>3. AnswerTo(Head(inbox)) \in { << >>, << Plain("OPEN") >>, << Plain("INIT") >>,
                                    << Verdict("PROTO", TRUE) >>, << Plain("CLOSE") >> }
    BY <2>2, FrameHas DEF AnswerTo
  <2>4. /\ AnswerTo(Head(inbox)) \in Seq(Frame)
        /\ \A g \in ToSet(AnswerTo(Head(inbox))) : g.type # "TRANSFER"
    BY <1>a, <1>b, <2>3, LoginFrames, LoginTypes
  <2> QED BY <1>c, <2>1, <2>4, FiresMessages
<1>2. CASE rx_outcome_refused
  <2>1. /\ Rx({ "OUTCOME" }) /\ ui' = "accounts"
        /\ UNCHANGED << published, session, saved, m_handler, m_delivery_id, tables, delivered, net,
                        hold, outbox >>
    BY <1>2 DEF rx_outcome_refused, connection_unsuccessful, tableVars, threadVars, peerVars, storeVars
  <2> QED BY <1>a, <1>c, <2>1, FiresMessages
<1>3. CASE rx_attach_sender
  <2>a. PICK k : k = Head(inbox).handle
    OBVIOUS
  <2>1. /\ Rx({ "ATTACH" }) /\ next_handle' = HandleAfter(k)
        /\ UNCHANGED << published, session, saved, m_handler, m_delivery_id, tables, delivered, net,
                        hold, outbox, ui, packet_id_counter >>
    BY <1>3, <2>a DEF rx_attach_sender, threadVars, peerVars, amqpGuiVars
  <2>2. k \in Nat /\ next_handle \in Nat
    BY <2>1, <2>a, RxTakes, FrameHas, AmqpTableBounds DEF Handles, TypeOK
  <2>3. \A h \in Handles : h < next_handle => h < next_handle'
    BY <2>1, <2>2 DEF Handles, HandleAfter
  <2> QED BY <1>a, <1>c, <2>1, <2>3, FiresMessages
<1>4. CASE rx_transfer
  <2>a. PICK f : f = Head(inbox)
    OBVIOUS
  <2>b. PICK r : r = IF f.settled THEN << >> ELSE << Disposition(f.id) >>
    OBVIOUS
  <2>1. /\ Rx({ "TRANSFER" })
        /\ outbox' = outbox \/ fire_all(r)
        /\ UNCHANGED << published, session, saved, m_handler, m_delivery_id, tables, delivered, net,
                        hold, ui, packet_id_counter, next_handle >>
    BY <1>4, <2>a, <2>b DEF rx_transfer, tableVars, threadVars, peerVars, amqpGuiVars, counterVars
  <2>2. f \in Frame
    BY <2>1, <2>a, RxTakes
  <2>3. Disposition(f.id) \in Frame /\ Disposition(f.id).type # "TRANSFER"
    BY <2>2, FrameHas, FrameTyped, FrameFields
  <2>4. r \in Seq(Frame) /\ \A g \in ToSet(r) : g.type # "TRANSFER"
    BY <1>a, <1>b, <2>3, <2>b
  <2> QED BY <1>c, <2>1, <2>4, FiresMessages
<1>5. CASE rx_detach
  <2>1. /\ Rx({ "DETACH" })
        /\ UNCHANGED << published, session, saved, m_handler, m_delivery_id, tables, delivered, net,
                        hold, outbox, ui, packet_id_counter, next_handle >>
    BY <1>5 DEF rx_detach, threadVars, peerVars, amqpGuiVars, counterVars
  <2> QED BY <1>a, <1>c, <2>1, FiresMessages
<1>6. CASE rx_close
  <2>1. /\ Rx({ "CLOSE" }) /\ ui' \in { ui, "accounts" }
        /\ UNCHANGED << published, session, saved, m_handler, m_delivery_id, tables, delivered, net,
                        hold, outbox, packet_id_counter, next_handle >>
    BY <1>6 DEF rx_close, connection_unsuccessful, tableVars, threadVars, peerVars, storeVars
  <2> QED BY <1>a, <1>c, <2>1, FiresMessages
<1> QED BY <1>1, <1>2, <1>3, <1>4, <1>5, <1>6

\* The tables are made, the main window comes, the worker ends.
LEMMA SessionMessages ==
  ASSUME TypeOK, StageInv, MessageInv, rx_open \/ rx_begin \/ service_task_ends
  PROVE  MessageInv'
<1>a. PublishedInv /\ StoreInv /\ SavedInv
  BY DEF MessageInv
<1>1. CASE rx_open
  <2>1. /\ Rx({ "OPEN" }) /\ fire_all(<< Plain("BEGIN") >>) /\ EmptyTables
        /\ UNCHANGED << published, session, saved, delivered, net, hold, ui >>
    BY <1>1 DEF rx_open, send_amqp_begin, amqp_encode_and_fire, start_amqp_ping_timer, peerVars, amqpGuiVars,
         storeVars, stop_connect_and_start_ping
  <2>2. Alive /\ net = "open" /\ inbox # << >> /\ inbox' = Tail(inbox) /\ Head(inbox).type = "OPEN"
    BY <2>1, RxTakes
  <2>3. Handshake /\ << outbox, inbox >> \in Exchange /\ Head(inbox) # Verdict("PROTO", FALSE)
    BY <2>2, RxStage, LoginTypes
  <2>4. inbox' = << >> /\ outbox = << >> /\ ui = "loading"
    BY <2>1, <2>2, <2>3, ExchangeHeads DEF Handshake
  <2>5. outbox' = << Plain("BEGIN") >>
    <3>1. outbox' = << >> \o << Plain("BEGIN") >>
      BY <2>1, <2>2, <2>4 DEF fire_all
    <3> QED BY <3>1, Short12, LoginFrames
  <2>6. ToSet(inbox') = {} /\ \A f \in ToSet(outbox') : f.type # "TRANSFER"
    <3>1. ToSet(<< >>) = {}
      BY DEF ToSet
    <3> QED BY <2>4, <2>5, <3>1, OrderedOne, LoginFrames, LoginTypes
  <2>7. PublishedInv'
    BY <1>a, <2>1, <2>2, PublishedStay
  <2>8. \A c \in Contents : ~Ours(c)'
    BY <1>a, <2>1, <2>2, <2>4 DEF PublishedInv, Ours
  <2>9. /\ \A h \in Handles : m_handler'[h] = NoFrame
        /\ \A id \in Deliveries : m_delivery_id'[id] = NoFrame
    BY <2>1 DEF EmptyTables, NoTransfers
  <2>10. HoldMine'
    BY <1>a, <2>1, <2>2 DEF StoreInv, HoldMine, Mine
  <2>11. StoreInv'
    BY <2>6, <2>8, <2>9, <2>10 DEF StoreInv, QueueMine, OwnIds, BelowNext, TablesMine, AllKept
  <2>12. SavedInv'
    <3>1. SavedOnce'
      BY <1>a, <2>1 DEF SavedInv, SavedOnce
    <3> QED BY <2>6, <2>9, <3>1 DEF SavedInv, WaitsUnsaved
  <2> QED BY <2>7, <2>11, <2>12 DEF MessageInv
<1>2. CASE rx_begin
  <2>a. PICK r : r = [ k \in 1 .. Len(StoredTopics) |-> Attach("RECEIVER", next_handle + k - 1, StoredTopics[k]) ]
    OBVIOUS
  <2>1. /\ Rx({ "BEGIN" }) /\ ui' = "main"
        /\ UNCHANGED << published, session, saved, m_handler, m_delivery_id, tables, delivered, net, hold >>
    BY <1>2 DEF rx_begin, amqp_start_message_timer, peerVars
  <2>2. Alive /\ net = "open" /\ inbox # << >> /\ inbox' = Tail(inbox) /\ Head(inbox).type = "BEGIN"
        /\ inbox \in Seq(Frame) /\ inbox' \in Seq(Frame)
    BY <2>1, RxTakes
  <2>3. Begun
    BY <2>2, RxStage
  <2>4. \A f \in ToSet(inbox') : f.type # "DISPOSITION"
    <3>1. \A k \in 1 .. Len(inbox') : inbox'[k].type \in { "ATTACH", "TRANSFER" }
      BY <2>2, <2>3 DEF Begun, OfTypes
    <3> QED BY <2>2, <3>1, FramesOf
  <2>5. /\ r \in Seq(Frame) /\ fire_all(r)
        /\ \A k \in 1 .. Len(r) : r[k] = Attach("RECEIVER", next_handle + k - 1, StoredTopics[k])
    BY <1>2, <2>a, BeginFrames
  <2>6. \A f \in ToSet(r) : f.type # "TRANSFER"
    <3>1. \A k \in 1 .. Len(r) : r[k].type = "ATTACH"
      BY <2>5, FrameFields
    <3> QED BY <2>5, <3>1, FramesOf
  <2>7. outbox' = outbox \o r /\ outbox \in Seq(Frame)
    BY <2>2, <2>5 DEF fire_all, TypeOK, AmqpTimersTypeOK
  <2>8. ToSet(outbox') = ToSet(outbox) \cup ToSet(r)
    BY <2>5, <2>7, FiredSet
  <2>9. ui = "loading"
    BY <2>3 DEF Begun
  <2> QED BY <2>1, <2>2, <2>4, <2>6, <2>8, <2>9, MessagesStay
<1>3. CASE service_task_ends
  <2>1. /\ Alive /\ net = "open" /\ net' = "down" /\ tables' # "live"
        /\ UNCHANGED << published, session, saved, delivered, ui >>
    BY <1>3 DEF service_task_ends, amqp_stop_all_timers, amqpGuiVars, storeVars
  <2>2. PublishedInv'
    BY <1>a, <2>1, PublishedStay
  <2>3. SavedInv'
    BY <1>a, <2>1 DEF SavedInv, SavedOnce
  <2> QED BY <2>1, <2>2, <2>3 DEF MessageInv, StoreInv
<1> QED BY <1>1, <1>2, <1>3

\* The waiting transfer is fired, and waits for its disposition.
LEMMA AttachMessages ==
  ASSUME TypeOK, StageInv, MessageInv, rx_attach_receiver
  PROVE  MessageInv'
<1>a. PICK h : h = topic_name_map_outgoing[Head(inbox).topic]
  OBVIOUS
<1>b. PICK f : f = m_handler[Short(h)]
  OBVIOUS
<1>1. /\ Rx({ "ATTACH" })
      /\ UNCHANGED << net, tables, hold, delivered, published, session, ui, packet_id_counter, next_handle >>
      /\ \/ UNCHANGED << outbox, m_handler, m_delivery_id, saved >>
         \/ /\ f # NoFrame /\ fire_all(<< f >>)
            /\ m_handler' = [ m_handler EXCEPT ![Short(h)] = NoFrame ]
            /\ IF f.settled THEN save_message(f.data) /\ UNCHANGED m_delivery_id
               ELSE m_delivery_id' = [ m_delivery_id EXCEPT ![Short(f.id)] = f ] /\ UNCHANGED saved
  BY <1>a, <1>b DEF rx_attach_receiver, amqp_get_handler_from_map_outgoing, amqp_get_message_from_map_by_handler,
     amqp_encode_and_fire, without_message_handler, with_message_by_delivery_id, threadVars, peerVars, amqpGuiVars,
     counterVars
<1>2. /\ Alive /\ net = "open" /\ inbox # << >> /\ inbox' = Tail(inbox) /\ Head(inbox).type = "ATTACH"
      /\ Head(inbox) = inbox[1] /\ 1 \in 1 .. Len(inbox) /\ inbox \in Seq(Frame)
  BY <1>1, RxTakes
<1>3. tables = "live" /\ Main
  BY <1>2, RxStage
<1>4. ToSet(inbox') \subseteq ToSet(inbox)
  BY <1>2, FramesOf
<1>5. CASE UNCHANGED << outbox, m_handler, m_delivery_id, saved >>
  <2>1. << >> \in Seq(Frame) /\ ToSet(<< >>) = {}
    BY DEF ToSet
  <2> QED BY <1>1, <1>2, <1>4, <1>5, <2>1, FiresMessages
<1>6. CASE ~UNCHANGED << outbox, m_handler, m_delivery_id, saved >>
  <2>1. h \in Handles /\ Short(h) = h
    <3>1. Head(inbox).topic \in Topics
      BY <1>2 DEF StageInv, AttachNamed, Named
    <3> QED BY <1>a, <3>1, ShortIsSame DEF TypeOK, AmqpTimersTypeOK
  <2>2. HoldMine /\ QueueMine /\ OwnIds /\ BelowNext /\ TablesMine /\ AllKept /\ SavedOnce /\ WaitsUnsaved
        /\ (\A g \in ToSet(inbox) : Confirms(g)) /\ PublishedInv /\ session > 0
    BY <1>2, <1>3 DEF MessageInv, PublishedInv, StoreInv, SavedInv
  <2>3. f = m_handler[h] /\ f # NoFrame /\ Mine(f) /\ f.handle = h /\ f \in Frame
    BY <1>1, <1>6, <1>b, <2>1, <2>2 DEF TablesMine, TypeOK, AmqpTimersTypeOK
  <2>4. f.data \in Contents /\ Ours(f.data) /\ published[f.data].frame = f
    BY <2>3, MineOurs
  <2>5. f.type = "TRANSFER" /\ ~f.settled
    BY <2>2, <2>4, OursMine
  <2>6. f.id \in Deliveries /\ Short(f.id) = f.id
    BY <2>3, FrameHas, ShortIsSame
  <2>7. /\ fire_all(<< f >>) /\ UNCHANGED saved
        /\ m_handler' = [ m_handler EXCEPT ![h] = NoFrame ]
        /\ m_delivery_id' = [ m_delivery_id EXCEPT ![f.id] = f ]
    BY <1>1, <1>6, <2>1, <2>5, <2>6
  <2>8. /\ m_handler'[h] = NoFrame /\ m_delivery_id'[f.id] = f
        /\ \A k \in Handles : k # h => m_handler'[k] = m_handler[k]
        /\ \A id \in Deliveries : id # f.id => m_delivery_id'[id] = m_delivery_id[id]
    BY <2>1, <2>6, <2>7 DEF TypeOK, AmqpTimersTypeOK
  <2>9. ToSet(outbox') = ToSet(outbox) \cup { f }
    <3>1. outbox' = outbox \o << f >>
      BY <1>2, <2>7 DEF fire_all
    <3>2. << f >> \in Seq(Frame) /\ ToSet(<< f >>) = { f } /\ outbox \in Seq(Frame)
      BY <2>3, OrderedOne DEF TypeOK, AmqpTimersTypeOK
    <3> QED BY <3>1, <3>2, FiredSet
  <2>10. \A g : Mine(g)' <=> Mine(g)
    BY <1>1 DEF Mine
  <2>11. PublishedInv'
    BY <1>1, <1>2, <2>2, <2>7, PublishedStay
  <2>12. HoldMine' /\ QueueMine'
    <3>1. HoldMine'
      BY <1>1, <2>2 DEF HoldMine, Mine
    <3>2. QueueMine'
      <4> SUFFICES ASSUME NEW g \in ToSet(outbox'), g.type = "TRANSFER" PROVE Mine(g)'
        BY DEF QueueMine, Mine
      <4>1. Mine(g)
        BY <2>2, <2>3, <2>9 DEF QueueMine
      <4> QED BY <2>10, <4>1
    <3> QED BY <3>1, <3>2
  <2>13. OwnIds' /\ BelowNext'
    BY <1>1, <2>2 DEF OwnIds, BelowNext, Ours
  <2>14. TablesMine'
    <3>1. ASSUME NEW k \in Handles, m_handler'[k] # NoFrame
          PROVE  Mine(m_handler'[k]) /\ m_handler'[k].handle = k
      <4>1. m_handler'[k] = m_handler[k]
        BY <2>8, <3>1
      <4> QED BY <2>2, <3>1, <4>1 DEF TablesMine
    <3>2. ASSUME NEW id \in Deliveries, m_delivery_id'[id] # NoFrame
          PROVE  Mine(m_delivery_id'[id]) /\ m_delivery_id'[id].id = id
      <4>1. CASE id = f.id
        BY <2>3, <2>8, <4>1
      <4>2. CASE id # f.id
        <5>1. m_delivery_id'[id] = m_delivery_id[id]
          BY <2>8, <4>2
        <5> QED BY <2>2, <3>2, <5>1 DEF TablesMine
      <4> QED BY <4>1, <4>2
    <3> QED BY <1>1, <3>1, <3>2 DEF TablesMine, Mine
  <2>15. AllKept'
    <3> SUFFICES ASSUME NEW d \in Contents, Ours(d) PROVE Kept(d)'
      BY <1>1 DEF AllKept, Ours
    <3>a. PICK g : g = published[d].frame
      OBVIOUS
    <3>1. Mine(g) /\ g \in Frame /\ published'[d].frame = g
      BY <1>1, <2>2, <3>a, OursMine
    <3>2. g.handle \in Handles /\ g.id \in Deliveries
      BY <3>1, FrameHas
    <3>3. m_handler[g.handle] = g \/ m_delivery_id[g.id] = g \/ g \in ToSet(outbox) \/ delivered[d] > 0
      BY <2>2, <3>a DEF AllKept, Kept
    <3>4. CASE m_handler[g.handle] = g
      <4>1. CASE g.handle = h
        BY <2>3, <2>8, <3>1, <3>4, <4>1 DEF Kept
      <4>2. CASE g.handle # h
        BY <2>8, <3>1, <3>2, <3>4, <4>2 DEF Kept
      <4> QED BY <4>1, <4>2
    <3>5. CASE m_delivery_id[g.id] = g
      <4>1. CASE g.id = f.id
        <5>1. g = f
          BY <2>2, <2>3, <3>1, <4>1, MineOne
        <5> QED BY <2>8, <3>1, <5>1 DEF Kept
      <4>2. CASE g.id # f.id
        BY <2>8, <3>1, <3>2, <3>5, <4>2 DEF Kept
      <4> QED BY <4>1, <4>2
    <3>6. CASE g \in ToSet(outbox) \/ delivered[d] > 0
      BY <1>1, <2>9, <3>1, <3>6 DEF Kept
    <3> QED BY <3>3, <3>4, <3>5, <3>6
  <2>16. WaitsUnsaved'
    <3>1. ASSUME NEW k \in Handles, m_handler'[k] # NoFrame
          PROVE  saved'[m_handler'[k].data] = 0 /\ m_delivery_id'[m_handler'[k].id] = NoFrame
      <4>a. PICK g : g = m_handler[k]
        OBVIOUS
      <4>1. m_handler'[k] = g /\ k # h /\ g # NoFrame
        BY <2>8, <3>1, <4>a
      <4>2. Mine(g) /\ g.handle = k /\ saved[g.data] = 0 /\ m_delivery_id[g.id] = NoFrame /\ g \in Frame
        BY <2>2, <4>1, <4>a DEF TablesMine, WaitsUnsaved, TypeOK, AmqpTimersTypeOK
      <4>3. g.id # f.id
        <5>1. g.handle # f.handle
          BY <2>3, <4>1, <4>2
        <5> QED BY <2>2, <2>3, <4>2, <5>1, MineOne
      <4>4. g.id \in Deliveries
        BY <4>2, FrameHas
      <4> QED BY <2>7, <2>8, <4>1, <4>2, <4>3, <4>4
    <3>2. ASSUME NEW id \in Deliveries, m_delivery_id'[id] # NoFrame
          PROVE  saved'[m_delivery_id'[id].data] = 0
      <4>1. CASE id = f.id
        <5>1. saved[f.data] = 0
          BY <2>1, <2>2, <2>3 DEF WaitsUnsaved
        <5> QED BY <2>7, <2>8, <4>1, <5>1
      <4>2. CASE id # f.id
        <5>1. m_delivery_id'[id] = m_delivery_id[id]
          BY <2>8, <4>2
        <5> QED BY <2>2, <2>7, <3>2, <5>1 DEF WaitsUnsaved
      <4> QED BY <4>1, <4>2
    <3> QED BY <3>1, <3>2 DEF WaitsUnsaved
  <2>17. SavedInv'
    <3>1. SavedOnce'
      BY <1>1, <2>2, <2>7 DEF SavedOnce
    <3>2. \A g \in ToSet(inbox') : Confirms(g)'
      BY <1>1, <1>4, <2>2 DEF Confirms, Ours
    <3> QED BY <2>16, <3>1, <3>2 DEF SavedInv
  <2>18. StoreInv'
    BY <2>12, <2>13, <2>14, <2>15 DEF StoreInv
  <2> QED BY <2>11, <2>17, <2>18 DEF MessageInv
<1> QED BY <1>5, <1>6

\* The peer has confirmed a transfer: it goes from the table to the history.
LEMMA DispositionMessages ==
  ASSUME TypeOK, StageInv, MessageInv, rx_disposition
  PROVE  MessageInv'
<1>a. PICK i : i = Head(inbox).id
  OBVIOUS
<1>b. PICK f : f = m_delivery_id[Short(i)]
  OBVIOUS
<1>1. /\ Rx({ "DISPOSITION" })
      /\ UNCHANGED << net, tables, hold, delivered, published, session, ui, packet_id_counter, next_handle,
                      outbox, m_handler >>
      /\ \/ UNCHANGED << m_delivery_id, saved >>
         \/ /\ f # NoFrame /\ save_message(f.data)
            /\ m_delivery_id' = [ m_delivery_id EXCEPT ![Short(i)] = NoFrame ]
  BY <1>a, <1>b DEF rx_disposition, amqp_get_message_from_map_by_delivery_id, without_message_delivery_id,
     threadVars, peerVars, amqpGuiVars, counterVars
<1>2. /\ Alive /\ net = "open" /\ inbox # << >> /\ inbox' = Tail(inbox) /\ Head(inbox).type = "DISPOSITION"
      /\ Head(inbox) \in Frame /\ inbox \in Seq(Frame)
  BY <1>1, RxTakes
<1>3. tables = "live" /\ Main
  BY <1>2, RxStage
<1>4. ToSet(inbox') \subseteq ToSet(inbox) /\ Head(inbox) \in ToSet(inbox)
  BY <1>2, FramesOf
<1>5. CASE UNCHANGED << m_delivery_id, saved >>
  <2>1. << >> \in Seq(Frame) /\ ToSet(<< >>) = {}
    BY DEF ToSet
  <2> QED BY <1>1, <1>2, <1>4, <1>5, <2>1, FiresMessages
<1>6. CASE ~UNCHANGED << m_delivery_id, saved >>
  <2>1. i \in Deliveries /\ Short(i) = i
    BY <1>2, <1>a, FrameHas, ShortIsSame
  <2>2. HoldMine /\ QueueMine /\ OwnIds /\ BelowNext /\ TablesMine /\ AllKept /\ SavedOnce /\ WaitsUnsaved
        /\ (\A g \in ToSet(inbox) : Confirms(g)) /\ PublishedInv /\ session > 0
    BY <1>2, <1>3 DEF MessageInv, PublishedInv, StoreInv, SavedInv
  <2>3. f = m_delivery_id[i] /\ f # NoFrame /\ Mine(f) /\ f.id = i /\ f \in Frame
    BY <1>1, <1>6, <1>b, <2>1, <2>2 DEF TablesMine, TypeOK, AmqpTimersTypeOK
  <2>a. PICK c : c = f.data
    OBVIOUS
  <2>4. c \in Contents /\ Ours(c) /\ published[c].frame = f
    BY <2>3, <2>a, MineOurs
  <2>5. saved[c] = 0 /\ delivered[c] > 0
    <3>1. saved[c] = 0
      BY <2>1, <2>2, <2>3, <2>a DEF WaitsUnsaved
    <3>2. Confirms(Head(inbox))
      BY <1>4, <2>2
    <3> QED BY <1>2, <1>a, <2>3, <2>4, <3>1, <3>2 DEF Confirms
  <2>6. /\ m_delivery_id' = [ m_delivery_id EXCEPT ![i] = NoFrame ]
        /\ saved'[c] = 1 /\ \A d \in Contents : d # c => saved'[d] = saved[d]
    <3>1. saved' = [ saved EXCEPT ![c] = @ + 1 ] /\ m_delivery_id' = [ m_delivery_id EXCEPT ![i] = NoFrame ]
      BY <1>1, <1>6, <2>1, <2>a DEF save_message
    <3> QED BY <2>4, <2>5, <3>1 DEF TypeOK
  <2>7. /\ m_delivery_id'[i] = NoFrame
        /\ \A id \in Deliveries : id # i => m_delivery_id'[id] = m_delivery_id[id]
    BY <2>1, <2>6 DEF TypeOK, AmqpTimersTypeOK
  <2>8. PublishedInv'
    <3>1. published[c] # NotPublished
      BY <2>2, <2>4 DEF Ours, NotPublished
    <3>2. \A d \in Contents : published[d] = NotPublished => saved'[d] = saved[d]
      BY <2>6, <3>1
    <3> QED BY <1>1, <1>2, <2>2, <3>2, PublishedStay
  <2>9. HoldMine' /\ QueueMine' /\ OwnIds' /\ BelowNext'
    BY <1>1, <2>2 DEF HoldMine, QueueMine, Mine, OwnIds, BelowNext, Ours
  <2>10. ASSUME NEW id \in Deliveries, m_delivery_id'[id] # NoFrame
         PROVE  id # i /\ m_delivery_id'[id] = m_delivery_id[id] /\ m_delivery_id[id] # NoFrame
    BY <2>7, <2>10
  <2>11. TablesMine'
    <3>1. ASSUME NEW id \in Deliveries, m_delivery_id'[id] # NoFrame
          PROVE  Mine(m_delivery_id'[id]) /\ m_delivery_id'[id].id = id
      BY <2>2, <2>10, <3>1 DEF TablesMine
    <3>2. ASSUME NEW k \in Handles, m_handler'[k] # NoFrame
          PROVE  Mine(m_handler'[k]) /\ m_handler'[k].handle = k
      BY <1>1, <2>2, <3>2 DEF TablesMine
    <3> QED BY <1>1, <3>1, <3>2 DEF TablesMine, Mine
  <2>12. AllKept'
    <3> SUFFICES ASSUME NEW d \in Contents, Ours(d) PROVE Kept(d)'
      BY <1>1 DEF AllKept, Ours
    <3>a. PICK g : g = published[d].frame
      OBVIOUS
    <3>1. Mine(g) /\ g \in Frame /\ published'[d].frame = g /\ g.data = d
      BY <1>1, <2>2, <3>a, OursMine
    <3>2. g.id \in Deliveries
      BY <3>1, FrameHas
    <3>3. m_handler[g.handle] = g \/ m_delivery_id[g.id] = g \/ g \in ToSet(outbox) \/ delivered[d] > 0
      BY <2>2, <3>a DEF AllKept, Kept
    <3>4. CASE m_delivery_id[g.id] = g
      <4>1. CASE g.id = i
        <5>1. g = f
          BY <2>3, <3>4, <4>1
        <5>2. delivered'[d] > 0
          BY <1>1, <2>5, <2>a, <3>1, <5>1
        <5> QED BY <5>2 DEF Kept
      <4>2. CASE g.id # i
        BY <2>7, <3>1, <3>2, <3>4, <4>2 DEF Kept
      <4> QED BY <4>1, <4>2
    <3>5. CASE m_handler[g.handle] = g \/ g \in ToSet(outbox) \/ delivered[d] > 0
      BY <1>1, <3>1, <3>5 DEF Kept
    <3> QED BY <3>3, <3>4, <3>5
  <2>13. WaitsUnsaved'
    <3>1. ASSUME NEW k \in Handles, m_handler'[k] # NoFrame
          PROVE  saved'[m_handler'[k].data] = 0 /\ m_delivery_id'[m_handler'[k].id] = NoFrame
      <4>a. PICK g : g = m_handler[k]
        OBVIOUS
      <4>1. m_handler'[k] = g /\ g # NoFrame
        BY <1>1, <3>1, <4>a
      <4>2. Mine(g) /\ saved[g.data] = 0 /\ m_delivery_id[g.id] = NoFrame /\ g \in Frame
        BY <2>2, <4>1, <4>a DEF TablesMine, WaitsUnsaved, TypeOK, AmqpTimersTypeOK
      <4>3. g # f
        BY <2>3, <4>2
      <4>4. g.data \in Contents /\ g.data # c
        BY <2>2, <2>3, <2>a, <4>2, <4>3, MineOne, MineOurs
      <4>5. g.id \in Deliveries
        BY <4>2, FrameHas
      <4> QED BY <2>6, <2>7, <4>1, <4>2, <4>4, <4>5
    <3>2. ASSUME NEW id \in Deliveries, m_delivery_id'[id] # NoFrame
          PROVE  saved'[m_delivery_id'[id].data] = 0
      <4>a. PICK g : g = m_delivery_id[id]
        OBVIOUS
      <4>1. id # i /\ m_delivery_id'[id] = g /\ g # NoFrame
        BY <2>10, <3>2, <4>a
      <4>2. Mine(g) /\ g.id = id /\ saved[g.data] = 0
        BY <2>2, <4>1, <4>a DEF TablesMine, WaitsUnsaved
      <4>3. g # f
        BY <2>3, <4>1, <4>2
      <4>4. g.data \in Contents /\ g.data # c
        BY <2>2, <2>3, <2>a, <4>2, <4>3, MineOne, MineOurs
      <4> QED BY <2>6, <4>1, <4>2, <4>4
    <3> QED BY <3>1, <3>2 DEF WaitsUnsaved
  <2>14. SavedInv'
    <3>1. SavedOnce'
      <4> SUFFICES ASSUME NEW d \in Contents PROVE saved'[d] <= 1 /\ (saved'[d] = 1 => delivered'[d] > 0)
        BY DEF SavedOnce
      <4>1. CASE d = c
        BY <1>1, <2>5, <2>6, <4>1
      <4>2. CASE d # c
        BY <1>1, <2>2, <2>6, <4>2 DEF SavedOnce
      <4> QED BY <4>1, <4>2
    <3>2. \A g \in ToSet(inbox') : Confirms(g)'
      BY <1>1, <1>4, <2>2 DEF Confirms, Ours
    <3> QED BY <2>13, <3>1, <3>2 DEF SavedInv
  <2>15. StoreInv'
    BY <2>9, <2>11, <2>12 DEF StoreInv
  <2> QED BY <2>8, <2>14, <2>15 DEF MessageInv
<1> QED BY <1>5, <1>6

\* The peer takes a transfer, and confirms it.
LEMMA PeerMessages ==
  ASSUME TypeOK, StageInv, MessageInv, PeerStep
  PROVE  MessageInv'
<1>0. outbox \in Seq(Frame) /\ inbox \in Seq(Frame)
  BY DEF TypeOK, AmqpTimersTypeOK
<1>a. ASSUME NEW A, Peer(A)
      PROVE  Alive /\ UNCHANGED << published, session, saved, m_handler, m_delivery_id, tables, net, hold, ui,
                                   packet_id_counter, next_handle >>
  BY <1>a DEF Peer, restOfClient, tableVars, threadVars, amqpGuiVars, storeVars, counterVars
<1>b. ASSUME NEW g \in Frame, Reply(<< g >>)
      PROVE  ToSet(inbox') = ToSet(inbox) \cup { g }
  <2>1. << g >> \in Seq(Frame) /\ ToSet(<< g >>) = { g } /\ inbox' = inbox \o << g >>
    BY <1>b, OrderedOne DEF Reply
  <2> QED BY <1>0, <2>1, FiredSet
\* a frame that is no transfer, and an answer that is no disposition
<1>c. ASSUME NEW A, Peer(A), delivered' = delivered,
             outbox' = outbox \/ (outbox # << >> /\ outbox' = Tail(outbox) /\ Head(outbox).type # "TRANSFER"),
             \A f \in ToSet(inbox') : f \in ToSet(inbox) \/ f.type # "DISPOSITION"
      PROVE  MessageInv'
  <2>1. \A f \in ToSet(outbox) : f.type = "TRANSFER" => f \in ToSet(outbox')
    BY <1>0, <1>c, FramesOf
  <2>2. ToSet(outbox') \subseteq ToSet(outbox)
    BY <1>0, <1>c, FramesOf
  <2> QED BY <1>a, <1>c, <2>1, <2>2, MessagesStay
<1>d. ASSUME NEW type, Read(type), type # "TRANSFER"
      PROVE  outbox # << >> /\ outbox' = Tail(outbox) /\ Head(outbox).type # "TRANSFER"
  BY <1>d, ReadTakes
<1>1. ASSUME Peer(ReadLogIn) PROVE MessageInv'
  <2>1. delivered' = delivered
    BY <1>1 DEF Peer, ReadLogIn
  <2>2. PICK type \in { "PROTO", "INIT", "OPEN", "BEGIN" } : Read(type)
    BY <1>1 DEF Peer, ReadLogIn
  <2>3. PICK r \in { << Verdict("PROTO", TRUE) >>, << Verdict("PROTO", FALSE), Plain("MECHANISMS") >>,
                     << Verdict("OUTCOME", TRUE) >>, << Plain("OPEN") >>, << Plain("BEGIN") >> } : Reply(r)
    BY <1>1 DEF Peer, ReadLogIn
  <2>4. r \in Seq(Frame) /\ \A f \in ToSet(r) : f.type # "DISPOSITION"
    <3>1. ASSUME NEW f \in Frame, f.type # "DISPOSITION"
          PROVE  << f >> \in Seq(Frame) /\ \A g \in ToSet(<< f >>) : g.type # "DISPOSITION"
      BY <3>1, OrderedOne
    <3>2. CASE r = << Verdict("PROTO", FALSE), Plain("MECHANISMS") >>
      <4>1. r \in Seq(Frame)
        BY <3>2, Short12, LoginFrames
      <4>2. \A k \in 1 .. Len(r) : r[k].type \in { "PROTO", "MECHANISMS" }
        <5>1. PICK x, y : x = Verdict("PROTO", FALSE) /\ y = Plain("MECHANISMS")
          OBVIOUS
        <5>2. r = << x, y >> /\ x.type = "PROTO" /\ y.type = "MECHANISMS"
          BY <3>2, <5>1, LoginTypes
        <5>3. Len(r) = 2 /\ r[1] = x /\ r[2] = y
          BY <5>2
        <5>4. \A k \in 1 .. Len(r) : k = 1 \/ k = 2
          BY <5>3
        <5> QED BY <5>2, <5>3, <5>4
      <4> QED BY <4>1, <4>2, FramesOf
    <3>3. CASE r # << Verdict("PROTO", FALSE), Plain("MECHANISMS") >>
      BY <2>3, <3>1, <3>3, LoginFrames, LoginTypes
    <3> QED BY <3>2, <3>3
  <2>5. ToSet(inbox') = ToSet(inbox) \cup ToSet(r)
    BY <1>0, <2>3, <2>4, FiredSet DEF Reply
  <2> QED BY <1>1, <1>c, <1>d, <2>1, <2>2, <2>4, <2>5
<1>2. ASSUME Peer(RefuseLogIn) PROVE MessageInv'
  <2>1. delivered' = delivered
    BY <1>2 DEF Peer, RefuseLogIn
  <2>2. PICK type \in { "INIT", "OPEN" } : Read(type)
    BY <1>2 DEF Peer, RefuseLogIn
  <2>3. PICK g : g \in { Verdict("OUTCOME", FALSE), Plain("CLOSE") } /\ Reply(<< g >>)
    BY <1>2 DEF Peer, RefuseLogIn
  <2>4. g \in Frame /\ g.type # "DISPOSITION"
    BY <2>3, LoginFrames, LoginTypes
  <2> QED BY <1>2, <1>b, <1>c, <1>d, <2>1, <2>2, <2>3, <2>4
<1>3. ASSUME Peer(ReadAttach) PROVE MessageInv'
  <2>1. Read("ATTACH") /\ delivered' = delivered
    BY <1>3 DEF Peer, ReadAttach
  <2>a. PICK f : f = Head(outbox)
    OBVIOUS
  <2>2. f \in Frame /\ f.type = "ATTACH" /\ f = outbox[1] /\ 1 \in 1 .. Len(outbox)
    BY <2>1, <2>a, ReadTakes
  <2>3. f.handle \in Handles /\ f.topic \in Topics
    BY <2>2, FrameHas DEF StageInv, AttachNamed, Named
  <2>4. PICK role \in { "SENDER", "RECEIVER" } : Reply(<< Attach(role, f.handle, f.topic) >>)
    BY <1>3, <2>a DEF Peer, ReadAttach
  <2>5. Attach(role, f.handle, f.topic) \in Frame /\ Attach(role, f.handle, f.topic).type # "DISPOSITION"
    BY <2>3, FrameTyped, FrameFields
  <2> QED BY <1>3, <1>b, <1>c, <1>d, <2>1, <2>4, <2>5
<1>4. ASSUME Peer(ReadDetach) PROVE MessageInv'
  <2>1. Read("DETACH") /\ delivered' = delivered /\ Reply(<< Detach(Head(outbox).handle) >>)
    BY <1>4 DEF Peer, ReadDetach
  <2>2. Detach(Head(outbox).handle) \in Frame /\ Detach(Head(outbox).handle).type # "DISPOSITION"
    BY <2>1, ReadTakes, FrameHas, FrameTyped, FrameFields
  <2> QED BY <1>4, <1>b, <1>c, <1>d, <2>1, <2>2
<1>5. ASSUME Peer(ReadTransfer) PROVE MessageInv'
  <2>a. PICK g : g = Head(outbox)
    OBVIOUS
  <2>1. /\ Read("TRANSFER") /\ delivered' = [ delivered EXCEPT ![g.data] = @ + 1 ]
        /\ IF g.settled THEN UNCHANGED inbox ELSE Reply(<< Disposition(g.id) >>)
    BY <1>5, <2>a DEF Peer, ReadTransfer
  <2>2. Alive /\ net = "open" /\ outbox # << >> /\ outbox' = Tail(outbox) /\ g.type = "TRANSFER" /\ g \in Frame
    BY <1>5, <1>a, <2>1, <2>a, ReadTakes
  <2>3. tables = "live"
    BY <2>2, <2>a, ReadStage DEF UserTypes
  <2>4. HoldMine /\ QueueMine /\ OwnIds /\ BelowNext /\ PublishedInv /\ session > 0
    BY <2>2 DEF MessageInv, PublishedInv, StoreInv
  <2>5. g \in ToSet(outbox) /\ \A q \in ToSet(outbox) : q = g \/ q \in ToSet(outbox')
    BY <1>0, <2>2, <2>a, FramesOf
  <2>6. ToSet(outbox') \subseteq ToSet(outbox)
    BY <1>0, <2>2, FramesOf
  <2>7. Mine(g)
    BY <2>2, <2>4, <2>5 DEF QueueMine
  <2>8. g.data \in Contents /\ Ours(g.data) /\ published[g.data].frame = g
    BY <2>7, MineOurs
  <2>9. ~g.settled
    BY <2>4, <2>8, OursMine
  <2>b. PICK a : a = Disposition(g.id)
    OBVIOUS
  <2>10. a \in Frame /\ a.type = "DISPOSITION" /\ a.id = g.id
    BY <2>2, <2>b, FrameHas, FrameTyped, FrameFields
  <2>11. ToSet(inbox') = ToSet(inbox) \cup { a }
    BY <1>b, <2>1, <2>9, <2>10, <2>b
  <2>12. delivered'[g.data] > 0 /\ \A c \in Contents : delivered[c] > 0 => delivered'[c] > 0
    <3>1. delivered[g.data] \in Nat /\ delivered'[g.data] = delivered[g.data] + 1
      BY <2>1, <2>8 DEF TypeOK, AmqpPeerTypeOK
    <3>2. \A c \in Contents : c # g.data => delivered'[c] = delivered[c]
      BY <2>1 DEF TypeOK, AmqpPeerTypeOK
    <3> QED BY <3>1, <3>2
  <2>13. UNCHANGED << published, session, saved, m_handler, m_delivery_id, tables, net, hold, ui,
                      packet_id_counter, next_handle >>
    BY <1>5, <1>a
  <2>14. PublishedInv'
    BY <2>2, <2>4, <2>13, PublishedStay
  <2>15. StoreInv'
    <3>1. \A f \in ToSet(outbox) : f.type = "TRANSFER" => f \in ToSet(outbox') \/ delivered'[f.data] > 0
      BY <2>5, <2>12
    <3>2. \A h \in Handles : h < next_handle => h < next_handle'
      BY <2>13
    <3>3. ui' = "main" => ui = "main"
      BY <2>13
    <3>4. StoreInv
      BY DEF MessageInv
    <3> QED BY <2>2, <2>3, <2>4, <2>6, <2>12, <2>13, <3>1, <3>2, <3>3, <3>4, StoreStay
  <2>16. Confirms(a)'
    <3>1. ui' = "main" => a.id < packet_id_counter'
      BY <2>4, <2>8, <2>10, <2>13 DEF BelowNext
    <3>2. ASSUME NEW c \in Contents, Ours(c)', published'[c].frame.id = a.id PROVE delivered'[c] > 0
      <4>1. Ours(c) /\ published[c].frame.id = published[g.data].frame.id
        BY <2>8, <2>10, <2>13, <3>2 DEF Ours
      <4>2. c = g.data
        BY <2>4, <2>8, <4>1 DEF OwnIds
      <4> QED BY <2>12, <4>2
    <3> QED BY <3>1, <3>2 DEF Confirms
  <2>17. SavedInv'
    <3>1. \A f \in ToSet(inbox') : f \in ToSet(inbox) \/ f.type # "DISPOSITION" \/ Confirms(f)'
      BY <2>11, <2>16 DEF Confirms
    <3>2. SavedInv
      BY DEF MessageInv
    <3> QED BY <2>2, <2>3, <2>4, <2>12, <2>13, <3>1, <3>2, SavedStay
  <2> QED BY <2>14, <2>15, <2>17 DEF MessageInv
<1>6. ASSUME Peer(ReadDisposition) \/ Peer(ReadPing) PROVE MessageInv'
  <2>1. (Read("DISPOSITION") \/ Read("PING")) /\ UNCHANGED << inbox, delivered >>
    BY <1>6 DEF Peer, ReadDisposition, ReadPing, peerVars
  <2> QED BY <1>6, <1>c, <1>d, <2>1
<1>7. ASSUME Peer(ReadEnd) PROVE MessageInv'
  <2>1. PICK type \in { "END", "CLOSE" } : Read(type) /\ Reply(<< Plain(type) >>)
    BY <1>7 DEF Peer, ReadEnd
  <2>2. delivered' = delivered
    BY <1>7 DEF Peer, ReadEnd
  <2>3. Plain(type) \in Frame /\ Plain(type).type # "DISPOSITION"
    BY <2>1, LoginFrames, LoginTypes
  <2> QED BY <1>7, <1>b, <1>c, <1>d, <2>1, <2>2, <2>3
<1>8. ASSUME NEW t \in Topics, Peer(PeerAttaches(t)) PROVE MessageInv'
  <2>1. UNCHANGED << outbox, delivered >> /\ Reply(<< Attach("SENDER", ServerHandle, t) >>)
    BY <1>8 DEF Peer, PeerAttaches
  <2>2. Attach("SENDER", ServerHandle, t) \in Frame /\ Attach("SENDER", ServerHandle, t).type # "DISPOSITION"
    BY FrameTyped, FrameFields, ShortIsSame
  <2> QED BY <1>8, <1>b, <1>c, <2>1, <2>2
<1>9. ASSUME NEW i \in AmqpIncoming, NEW h \in Handles, Peer(PeerTransfers(i, h)) PROVE MessageInv'
  <2>1. PICK s \in BOOLEAN : Reply(<< Transfer(h, i, s, i) >>)
    BY <1>9 DEF Peer, PeerTransfers
  <2>2. UNCHANGED << outbox, delivered >> /\ i \in Deliveries
    BY <1>9, AmqpPeerBounds DEF Peer, PeerTransfers
  <2>3. Transfer(h, i, s, i) \in Frame /\ Transfer(h, i, s, i).type # "DISPOSITION"
    BY <2>2, FrameTyped, FrameFields
  <2> QED BY <1>9, <1>b, <1>c, <2>1, <2>2, <2>3
<1>10. ASSUME Peer(PeerCloses) PROVE MessageInv'
  <2>1. UNCHANGED << outbox, inbox, delivered >>
    BY <1>10 DEF Peer, PeerCloses
  <2> QED BY <1>10, <1>c, <2>1
<1>11. Peer(PeerReads) => \/ Peer(ReadLogIn) \/ Peer(RefuseLogIn) \/ Peer(ReadAttach) \/ Peer(ReadDetach)
                          \/ Peer(ReadTransfer) \/ Peer(ReadDisposition) \/ Peer(ReadPing) \/ Peer(ReadEnd)
  BY DEF Peer, PeerReads
<1> QED BY <1>1, <1>2, <1>3, <1>4, <1>5, <1>6, <1>7, <1>8, <1>9, <1>10, <1>11 DEF PeerStep

-----------------------------------------------------------------------------
(* A message is stored until the peer has it, and is saved once.           *)

LEMMA MessagesInductive ==
  /\ Init => MessageInv
  /\ TypeOK /\ StageInv /\ LinkInv /\ MessageInv /\ [Next]_vars => MessageInv'
<1>1. Init => MessageInv
  <2> SUFFICES ASSUME Init PROVE MessageInv
    OBVIOUS
  <2>1. /\ net = "closed" /\ ui = "accounts" /\ tables = "null"
        /\ \A c \in Contents : published[c] = NotPublished /\ saved[c] = 0
    BY DEF Init, AmqpTimersInit
  <2>2. PublishedInv /\ StoreInv
    BY <2>1 DEF PublishedInv, StoreInv
  <2>3. SavedInv
    BY <2>1 DEF SavedInv, SavedOnce
  <2> QED BY <2>2, <2>3 DEF MessageInv
<1>2. TypeOK /\ StageInv /\ LinkInv /\ MessageInv /\ WorkerStep => MessageInv'
  BY RxMessagesStay, SessionMessages, AttachMessages, DispositionMessages DEF WorkerStep
<1>3. TypeOK /\ StageInv /\ LinkInv /\ MessageInv /\ Next => MessageInv'
  BY <1>2, UserMessages, TimerMessages, PeerMessages DEF Next
<1>4. MessageInv /\ UNCHANGED vars => MessageInv'
  <2> SUFFICES ASSUME MessageInv, UNCHANGED vars PROVE MessageInv'
    OBVIOUS
  <2>1. UNCHANGED << published, session, saved, m_handler, m_delivery_id, tables, delivered, net, hold, outbox,
                     inbox, ui, packet_id_counter, next_handle, fault >>
    BY DEF vars, amqpNetVars, tableVars, threadVars, peerVars, amqpGuiVars, storeVars, counterVars
  <2>2. PublishedInv'
    BY <2>1 DEF MessageInv, PublishedInv, Ours, Alive
  <2>3. HoldMine' = HoldMine /\ QueueMine' = QueueMine /\ OwnIds' = OwnIds /\ BelowNext' = BelowNext
    BY <2>1 DEF HoldMine, QueueMine, OwnIds, BelowNext, Mine, Ours
  <2>4. TablesMine' = TablesMine /\ AllKept' = AllKept
    BY <2>1 DEF TablesMine, AllKept, Mine, Ours, Kept
  <2>5. StoreInv'
    BY <2>1, <2>3, <2>4 DEF MessageInv, StoreInv
  <2>6. SavedInv'
    BY <2>1 DEF MessageInv, SavedInv, SavedOnce, WaitsUnsaved, Confirms, Ours
  <2> QED BY <2>2, <2>5, <2>6 DEF MessageInv
<1> QED BY <1>1, <1>3, <1>4

THEOREM AmqpMessagesHold == Spec => [](TypeOK /\ StageInv /\ LinkInv /\ MessageInv)
<1>1. Init => TypeOK /\ StageInv
  BY InitTypes, InitStages
<1> QED BY <1>1, MessagesInductive, AmqpLinksHold, PTL DEF Spec

\* A message the user published waits for its link or for its disposition, is in
\* q or with the peer as long as the session lasts; the history shows it once,
\* and only if the peer has it.
THEOREM AmqpSavedOnceOrStoredHolds == Spec => []AmqpSavedOnceOrStored
<1>1. TypeOK /\ MessageInv => AmqpSavedOnceOrStored
  <2> SUFFICES ASSUME TypeOK, MessageInv, NEW c \in Contents
               PROVE  /\ saved[c] <= 1 /\ (saved[c] = 1 => delivered[c] > 0)
                      /\ (InSession /\ published[c].session = session) =>
                           \/ m_handler[published[c].frame.handle] = published[c].frame
                           \/ m_delivery_id[published[c].frame.id] = published[c].frame
                           \/ ~NotQueued(published[c].frame)
                           \/ delivered[c] > 0
    BY Zenon DEF AmqpSavedOnceOrStored
  <2>1. saved[c] <= 1 /\ (saved[c] = 1 => delivered[c] > 0)
    BY DEF MessageInv, SavedInv, SavedOnce
  <2>2. ASSUME InSession, published[c].session = session
        PROVE  \/ m_handler[published[c].frame.handle] = published[c].frame
               \/ m_delivery_id[published[c].frame.id] = published[c].frame
               \/ ~NotQueued(published[c].frame)
               \/ delivered[c] > 0
    <3>1. Kept(c)
      BY <2>2 DEF InSession, MessageInv, StoreInv, AllKept, Ours
    <3>2. published[c].frame \in ToSet(outbox) => ~NotQueued(published[c].frame)
      BY FramesOf DEF NotQueued, TypeOK, AmqpTimersTypeOK
    <3> QED BY <3>1, <3>2 DEF Kept
  <2> QED BY <2>1, <2>2
<1> QED BY <1>1, AmqpMessagesHold, PTL
-----------------------------------------------------------------------------
(* AmqpClient implements Publishing.                                       *)

\* The contents that have reached the peer.
Reached == { c \in Contents : delivered[c] > 0 }

\* Without a session nothing waits.
EmptyInv ==
  (tables # "live" /\ Alive) =>
    m_handler = NoTransfers(Handles) /\ m_delivery_id = NoTransfers(Deliveries)

\* A content is kept by one of the two tables.
LEMMA KeptIn ==
  ASSUME NEW c \in Contents
  PROVE  c \in KeptContents <=>
           \/ \E h \in Handles : m_handler[h].type = "TRANSFER" /\ m_handler[h].data = c
           \/ \E id \in Deliveries : m_delivery_id[id].type = "TRANSFER" /\ m_delivery_id[id].data = c
BY DEF KeptContents

LEMMA KeptSame ==
  UNCHANGED << m_handler, m_delivery_id >> => KeptContents' = KeptContents
BY DEF KeptContents

LEMMA NoFramesKept ==
  (m_handler = NoTransfers(Handles) /\ m_delivery_id = NoTransfers(Deliveries)) => KeptContents = {}
<1>1. NoFrame.type = "NONE"
  BY LoginTypes DEF NoFrame, Plain
<1> QED BY <1>1 DEF KeptContents, NoTransfers

LEMMA PromiseStutters ==
  ASSUME UNCHANGED << published, saved, KeptContents, Reached, tables >>
  PROVE  UNCHANGED Promise!publishingVars
BY DEF Promise!publishingVars, Published, Reached

\* Most steps leave the promise alone.
LEMMA PromiseSame ==
  ASSUME UNCHANGED << published, saved, delivered, tables, m_handler, m_delivery_id >>
  PROVE  UNCHANGED Promise!publishingVars
BY KeptSame, PromiseStutters DEF Reached

\* A step that stores a transfer is one of a session.
LEMMA EmptyStep ==
  ASSUME TypeOK, StageInv, EmptyInv, Next
  PROVE  EmptyInv'
<1>1. CASE UNCHANGED << m_handler, m_delivery_id, tables >>
  <2>1. Alive
    BY DEF Next, UserStep, GuiStep, WorkerStep, TimerStep, PeerStep, LogIn, send_amqp_attach, send_amqp_detach,
       send_amqp_transfer, log_out_handle, Button, Gui, start_amqp_connect_fire, start_amqp_connect_timer,
       send_amqp_end, Timer, Peer, Rx, rx_answered, rx_outcome_refused, rx_open, rx_begin, rx_attach_receiver,
       rx_attach_sender, rx_transfer, rx_disposition, rx_detach, rx_close, service_task_ends
  <2> QED BY <1>1, <2>1 DEF EmptyInv
<1>2. CASE rx_open \/ service_task_ends
  BY <1>2 DEF rx_open, start_amqp_ping_timer, service_task_ends, amqp_stop_all_timers, EmptyTables, EmptyInv
<1>3. CASE rx_attach_receiver \/ rx_disposition
  <2>1. Rx({ "ATTACH" }) \/ Rx({ "DISPOSITION" })
    BY <1>3 DEF rx_attach_receiver, rx_disposition
  <2>2. tables = "live" /\ tables' = tables
    BY <1>3, <2>1, RxTakes, RxStage DEF rx_attach_receiver, rx_disposition
  <2> QED BY <2>2 DEF EmptyInv
<1>4. ASSUME NEW c \in Contents, NEW t \in Topics, NEW s \in UserSettled, send_amqp_transfer(c, t, s)
      PROVE  EmptyInv'
  <2>1. Alive /\ ui = "main" /\ UNCHANGED net
    BY <1>4 DEF send_amqp_transfer, Button, Gui
  <2>2. PICK f : use_and_fire(<< f >>)
    BY <1>4 DEF send_amqp_transfer
  <2>3. CASE net = "open"
    BY <1>4, <2>1, <2>3, MainStage DEF send_amqp_transfer, tableVars, EmptyInv
  <2>4. CASE net # "open"
    <3>1. << f >> # << >>
      BY Short12
    <3>2. fault' # "none"
      BY <2>2, <2>4, <3>1 DEF use_and_fire, fire_all
    <3> QED BY <3>2 DEF EmptyInv, Alive
  <2> QED BY <2>3, <2>4
<1>5. \/ UNCHANGED << m_handler, m_delivery_id, tables >>
      \/ rx_open \/ service_task_ends \/ rx_attach_receiver \/ rx_disposition
      \/ \E c \in Contents, t \in Topics, s \in UserSettled : send_amqp_transfer(c, t, s)
  BY DEF Next, UserStep, GuiStep, WorkerStep, TimerStep, PeerStep, LogIn, send_amqp_attach, send_amqp_detach,
     log_out_handle, start_amqp_connect_fire, start_amqp_connect_timer, send_amqp_end, Timer, Peer, rx_answered,
     rx_outcome_refused, rx_begin, rx_attach_sender, rx_transfer, rx_detach, rx_close, tableVars,
     amqp_connect_task, amqp_ping_task, amqp_message_resend_task, amqp_message_resend_fire
<1> QED BY <1>1, <1>2, <1>3, <1>4, <1>5

\* A published transfer waits for its link, or is sent on a link that is there.
LEMMA PromisePublishes ==
  ASSUME TypeOK, StageInv, LinkInv, MessageInv, EmptyInv,
         NEW c \in Contents, NEW t \in Topics, NEW s \in UserSettled, send_amqp_transfer(c, t, s)
  PROVE  Promise!PublishingNext
<1> DEFINE h == topic_name_map_outgoing[t]
<1>a. PICK f : f = Transfer(IF h # 0 THEN h ELSE next_handle, packet_id_counter, s, c)
  OBVIOUS
<1>b. PICK n : n = next_handle
  OBVIOUS
<1>1. /\ Alive /\ ui = "main" /\ published[c] = NotPublished
      /\ published' = [ published EXCEPT ![c] = [ frame |-> f, session |-> session ] ]
      /\ UNCHANGED << saved, delivered, tables, m_delivery_id >>
  BY <1>a DEF send_amqp_transfer, Button, Gui, amqp_get_handler_from_map_outgoing, peerVars, storeVars, tableVars
<1>2. \/ h # 0 /\ UNCHANGED m_handler
      \/ h = 0 /\ FreshHandle /\ m_handler' = [ m_handler EXCEPT ![Short(f.handle)] = f ]
  BY <1>a DEF send_amqp_transfer, amqp_get_handler_from_map_outgoing, tableVars, with_message_by_handler
<1>3. f.type = "TRANSFER" /\ f.data = c /\ (h = 0 => f.handle = n)
  BY <1>a, <1>b, FrameFields DEF Transfer, Plain
<1>4. Published' = Published \cup {c} /\ c \notin Published
  <2>1. session > 0
    BY <1>1 DEF MessageInv, PublishedInv
  <2>2. published'[c] # NotPublished
    BY <1>1, <2>1 DEF NotPublished, TypeOK
  <2>3. \A d \in Contents : d # c => published'[d] = published[d]
    BY <1>1 DEF TypeOK
  <2> QED BY <1>1, <2>2, <2>3 DEF Published
<1>5. KeptContents' \in { KeptContents \cup {c}, KeptContents }
  <2>1. CASE h # 0
    BY <1>1, <1>2, <2>1, KeptSame
  <2>2. CASE h = 0
    <3>1. n \in Handles /\ Short(n) = n /\ f.handle = n
      <4>1. n \in Handles
        BY <1>2, <1>b, <2>2, AmqpTableBounds DEF FreshHandle, TypeOK, Handles
      <4> QED BY <1>3, <2>2, <4>1, ShortIsSame
    <3>2. m_handler[n] = NoFrame
      <4>1. CASE net = "open"
        <5>1. TablesMine /\ BelowNext /\ session > 0
          BY <1>1, <4>1, MainStage DEF MessageInv, StoreInv, PublishedInv
        <5>2. SUFFICES ASSUME m_handler[n] # NoFrame PROVE FALSE
          OBVIOUS
        <5>a. PICK g : g = m_handler[n]
          OBVIOUS
        <5>3. Mine(g) /\ g.handle = n
          BY <3>1, <5>1, <5>2, <5>a DEF TablesMine
        <5>4. Ours(g.data) /\ g.data \in Contents /\ published[g.data].frame.handle = n
          BY <5>3, MineOurs
        <5>5. n < n
          BY <1>1, <1>b, <5>1, <5>4 DEF BelowNext
        <5> QED BY <1>b, <5>5 DEF TypeOK
      <4>2. CASE net # "open"
        <5>1. tables # "live"
          BY <4>2 DEF StageInv, LiveIsServed
        <5> QED BY <1>1, <3>1, <5>1 DEF EmptyInv, NoTransfers
      <4> QED BY <4>1, <4>2
    <3>3. /\ m_handler'[n] = f
          /\ \A k \in Handles : k # n => m_handler'[k] = m_handler[k]
      BY <1>2, <2>2, <3>1 DEF TypeOK, AmqpTimersTypeOK
    <3>4. NoFrame.type # "TRANSFER"
      BY DEF NoFrame, Plain
    <3>5. ASSUME NEW d \in Contents
          PROVE  (\E k \in Handles : m_handler'[k].type = "TRANSFER" /\ m_handler'[k].data = d)
                 <=> d = c \/ \E k \in Handles : m_handler[k].type = "TRANSFER" /\ m_handler[k].data = d
      BY <1>3, <3>1, <3>2, <3>3, <3>4
    <3>6. KeptContents' = KeptContents \cup {c}
      <4>1. \A d \in Contents : d \in KeptContents' <=> d = c \/ d \in KeptContents
        BY <1>1, <3>5 DEF KeptContents
      <4> QED BY <4>1 DEF KeptContents
    <3> QED BY <3>6
  <2> QED BY <2>1, <2>2
<1>6. Promise!Publish(c)
  BY <1>1, <1>4, <1>5 DEF Promise!Publish
<1> QED BY <1>6 DEF Promise!PublishingNext

\* The worker: a transfer goes from one table to the other, or into the history.
LEMMA PromiseAttaches ==
  ASSUME TypeOK, StageInv, MessageInv, rx_attach_receiver
  PROVE  UNCHANGED Promise!publishingVars
<1>a. PICK h : h = topic_name_map_outgoing[Head(inbox).topic]
  OBVIOUS
<1>b. PICK f : f = m_handler[Short(h)]
  OBVIOUS
<1>1. /\ Rx({ "ATTACH" }) /\ UNCHANGED << net, tables, delivered, published >>
      /\ \/ UNCHANGED << m_handler, m_delivery_id, saved >>
         \/ /\ f # NoFrame
            /\ m_handler' = [ m_handler EXCEPT ![Short(h)] = NoFrame ]
            /\ IF f.settled THEN save_message(f.data) /\ UNCHANGED m_delivery_id
               ELSE m_delivery_id' = [ m_delivery_id EXCEPT ![Short(f.id)] = f ] /\ UNCHANGED saved
  BY <1>a, <1>b DEF rx_attach_receiver, amqp_get_handler_from_map_outgoing, amqp_get_message_from_map_by_handler,
     amqp_encode_and_fire, without_message_handler, with_message_by_delivery_id, threadVars, peerVars, amqpGuiVars,
     counterVars
<1>2. CASE UNCHANGED << m_handler, m_delivery_id, saved >>
  BY <1>1, <1>2, PromiseSame
<1>3. CASE ~UNCHANGED << m_handler, m_delivery_id, saved >>
  <2>1. /\ Alive /\ net = "open" /\ Head(inbox).type = "ATTACH" /\ tables = "live"
        /\ Head(inbox) = inbox[1] /\ 1 \in 1 .. Len(inbox)
    BY <1>1, RxTakes, RxStage
  <2>2. h \in Handles /\ Short(h) = h
    <3>1. Head(inbox).topic \in Topics
      BY <2>1 DEF StageInv, AttachNamed, Named
    <3> QED BY <1>a, <3>1, ShortIsSame DEF TypeOK, AmqpTimersTypeOK
  <2>3. TablesMine /\ WaitsUnsaved /\ PublishedInv /\ session > 0
    BY <2>1 DEF MessageInv, PublishedInv, StoreInv, SavedInv
  <2>4. f = m_handler[h] /\ f # NoFrame /\ Mine(f) /\ f \in Frame
    BY <1>1, <1>3, <1>b, <2>2, <2>3 DEF TablesMine, TypeOK, AmqpTimersTypeOK
  <2>5. f.type = "TRANSFER" /\ ~f.settled
    BY <2>3, <2>4, MineOurs, OursMine
  <2>6. f.id \in Deliveries /\ Short(f.id) = f.id /\ m_delivery_id[f.id] = NoFrame
    BY <2>2, <2>3, <2>4, FrameHas, ShortIsSame DEF WaitsUnsaved
  <2>7. /\ UNCHANGED saved /\ m_handler'[h] = NoFrame /\ m_delivery_id'[f.id] = f
        /\ \A k \in Handles : k # h => m_handler'[k] = m_handler[k]
        /\ \A id \in Deliveries : id # f.id => m_delivery_id'[id] = m_delivery_id[id]
    BY <1>1, <1>3, <2>2, <2>5, <2>6 DEF TypeOK, AmqpTimersTypeOK
  <2>8. NoFrame.type # "TRANSFER"
    BY DEF NoFrame, Plain
  <2>9. ASSUME NEW c \in Contents PROVE c \in KeptContents' <=> c \in KeptContents
    <3>1. c \in KeptContents' <=>
            \/ \E k \in Handles : m_handler'[k].type = "TRANSFER" /\ m_handler'[k].data = c
            \/ \E id \in Deliveries : m_delivery_id'[id].type = "TRANSFER" /\ m_delivery_id'[id].data = c
      BY DEF KeptContents
    <3>2. CASE f.data = c
      BY <2>2, <2>4, <2>5, <2>6, <2>7, <3>1, <3>2, KeptIn
    <3>3. CASE f.data # c
      <4>1. (\E k \in Handles : m_handler'[k].type = "TRANSFER" /\ m_handler'[k].data = c)
            <=> \E k \in Handles : m_handler[k].type = "TRANSFER" /\ m_handler[k].data = c
        BY <2>4, <2>7, <2>8, <3>3
      <4>2. (\E id \in Deliveries : m_delivery_id'[id].type = "TRANSFER" /\ m_delivery_id'[id].data = c)
            <=> \E id \in Deliveries : m_delivery_id[id].type = "TRANSFER" /\ m_delivery_id[id].data = c
        BY <2>6, <2>7, <2>8, <3>3
      <4> QED BY <3>1, <4>1, <4>2, KeptIn
    <3> QED BY <3>2, <3>3
  <2>10. KeptContents' = KeptContents
    BY <2>9 DEF KeptContents
  <2> QED BY <1>1, <2>7, <2>10, PromiseStutters DEF Reached
<1> QED BY <1>2, <1>3

LEMMA PromiseSaves ==
  ASSUME TypeOK, StageInv, MessageInv, rx_disposition
  PROVE  Promise!PublishingNext \/ UNCHANGED Promise!publishingVars
<1>a. PICK i : i = Head(inbox).id
  OBVIOUS
<1>b. PICK f : f = m_delivery_id[Short(i)]
  OBVIOUS
<1>1. /\ Rx({ "DISPOSITION" }) /\ UNCHANGED << tables, delivered, published, m_handler >>
      /\ \/ UNCHANGED << m_delivery_id, saved >>
         \/ /\ f # NoFrame /\ save_message(f.data)
            /\ m_delivery_id' = [ m_delivery_id EXCEPT ![Short(i)] = NoFrame ]
  BY <1>a, <1>b DEF rx_disposition, amqp_get_message_from_map_by_delivery_id, without_message_delivery_id,
     threadVars, peerVars, amqpGuiVars, counterVars
<1>2. CASE UNCHANGED << m_delivery_id, saved >>
  BY <1>1, <1>2, PromiseSame
<1>3. CASE ~UNCHANGED << m_delivery_id, saved >>
  <2>0. /\ net = "open" /\ Head(inbox).type = "DISPOSITION" /\ Head(inbox) \in Frame
        /\ Head(inbox) \in ToSet(inbox) /\ tables = "live"
    BY <1>1, RxTakes, RxStage, FramesOf
  <2>1. i \in Deliveries /\ Short(i) = i
    BY <2>0, <1>a, FrameHas, ShortIsSame
  <2>2. OwnIds /\ TablesMine /\ WaitsUnsaved /\ Confirms(Head(inbox)) /\ PublishedInv /\ session > 0
    BY <2>0 DEF MessageInv, PublishedInv, StoreInv, SavedInv
  <2>3. f = m_delivery_id[i] /\ f # NoFrame /\ Mine(f) /\ f.id = i
    BY <1>1, <1>3, <1>b, <2>1, <2>2 DEF TablesMine
  <2>a. PICK c : c = f.data
    OBVIOUS
  <2>4. c \in Contents /\ Ours(c) /\ published[c].frame = f /\ f.type = "TRANSFER"
    BY <2>2, <2>3, <2>a, MineOurs, OursMine
  <2>5. saved[c] = 0 /\ delivered[c] > 0
    <3>1. saved[c] = 0
      BY <2>1, <2>2, <2>3, <2>a DEF WaitsUnsaved
    <3> QED BY <2>0, <1>a, <2>2, <2>3, <2>4, <3>1 DEF Confirms
  <2>6. saved' = [ saved EXCEPT ![c] = 1 ]
    <3>1. saved' = [ saved EXCEPT ![c] = @ + 1 ]
      BY <1>1, <1>3, <2>a DEF save_message
    <3> QED BY <2>4, <2>5, <3>1 DEF TypeOK
  <2>7. /\ m_delivery_id'[i] = NoFrame
        /\ \A id \in Deliveries : id # i => m_delivery_id'[id] = m_delivery_id[id]
    BY <1>1, <1>3, <2>1 DEF TypeOK, AmqpTimersTypeOK
  <2>8. NoFrame.type # "TRANSFER"
    BY DEF NoFrame, Plain
  \* no other entry of the tables is about the content
  <2>9. ASSUME NEW id \in Deliveries, id # i, m_delivery_id[id].type = "TRANSFER"
        PROVE  m_delivery_id[id].data # c
    <3>1. Mine(m_delivery_id[id]) /\ m_delivery_id[id].id = id
      BY <2>2, <2>8, <2>9 DEF TablesMine
    <3> QED BY <2>2, <2>3, <2>9, <2>a, <3>1, MineOne
  <2>10. ASSUME NEW h \in Handles, m_handler[h].type = "TRANSFER"
         PROVE  m_handler[h].data # c
    <3>1. m_handler[h] # NoFrame /\ Mine(m_handler[h])
      BY <2>2, <2>8, <2>10 DEF TablesMine
    <3>2. m_delivery_id[m_handler[h].id] = NoFrame
      BY <2>2, <3>1 DEF WaitsUnsaved
    <3>3. m_handler[h].data = c => m_handler[h] = f
      BY <2>2, <2>3, <2>a, <3>1, MineOne
    <3> QED BY <2>3, <3>2, <3>3
  <2>11. ASSUME NEW d \in Contents PROVE d \in KeptContents' <=> d \in KeptContents /\ d # c
    <3>1. d \in KeptContents' <=>
            \/ \E k \in Handles : m_handler[k].type = "TRANSFER" /\ m_handler[k].data = d
            \/ \E id \in Deliveries : m_delivery_id'[id].type = "TRANSFER" /\ m_delivery_id'[id].data = d
      BY <1>1 DEF KeptContents
    <3>2. CASE d = c
      BY <2>7, <2>8, <2>9, <2>10, <3>1, <3>2
    <3>3. CASE d # c
      <4>1. (\E id \in Deliveries : m_delivery_id'[id].type = "TRANSFER" /\ m_delivery_id'[id].data = d)
            <=> \E id \in Deliveries : m_delivery_id[id].type = "TRANSFER" /\ m_delivery_id[id].data = d
        BY <2>3, <2>7, <2>8, <2>a, <3>3
      <4> QED BY <3>1, <3>3, <4>1, KeptIn
    <3> QED BY <3>2, <3>3
  <2>12. KeptContents' = KeptContents \ {c}
    BY <2>11 DEF KeptContents
  <2>13. c \in KeptContents
    BY <2>1, <2>3, <2>4, <2>a, KeptIn
  <2>14. Promise!Save(c)
    BY <1>1, <2>5, <2>6, <2>12, <2>13 DEF Promise!Save, Published
  <2> QED BY <2>4, <2>14 DEF Promise!PublishingNext
<1> QED BY <1>2, <1>3

\* OPEN begins a session of the promise, the end of the worker ends it.
LEMMA PromiseSessions ==
  ASSUME TypeOK, StageInv, rx_open \/ service_task_ends
  PROVE  Promise!PublishingNext
<1>1. EmptyTables /\ UNCHANGED << published, saved, delivered >>
  BY DEF rx_open, start_amqp_ping_timer, service_task_ends, amqp_stop_all_timers, peerVars, amqpGuiVars, storeVars
<1>2. KeptContents' = {}
  <2>1. /\ \A h \in Handles : m_handler'[h].type = "NONE"
        /\ \A id \in Deliveries : m_delivery_id'[id].type = "NONE"
    BY <1>1 DEF EmptyTables, NoTransfers, NoFrame, Plain
  <2> QED BY <2>1 DEF KeptContents
<1>3. UNCHANGED << Published, Reached >>
  BY <1>1 DEF Published, Reached
<1>4. CASE rx_open
  <2>1. Rx({ "OPEN" }) /\ tables' = "live"
    BY <1>4 DEF rx_open, start_amqp_ping_timer
  <2>2. tables # "live"
    BY <2>1, RxTakes, RxStage
  <2>3. Promise!Begin
    BY <1>1, <1>2, <1>3, <2>1, <2>2 DEF Promise!Begin, Reached
  <2> QED BY <2>3 DEF Promise!PublishingNext
<1>5. CASE service_task_ends
  <2>1. tables' # "live"
    BY <1>5 DEF service_task_ends, amqp_stop_all_timers
  <2>2. Promise!End
    BY <1>1, <1>2, <1>3, <2>1 DEF Promise!End, Reached
  <2> QED BY <2>2 DEF Promise!PublishingNext
<1> QED BY <1>4, <1>5

\* The peer passes on what the user has published.
LEMMA PromisePeer ==
  ASSUME TypeOK, StageInv, MessageInv, PeerStep
  PROVE  Promise!PublishingNext \/ UNCHANGED Promise!publishingVars
<1>1. UNCHANGED << published, saved, tables, m_handler, m_delivery_id >>
  BY DEF PeerStep, Peer, tableVars, restOfClient, amqpGuiVars, storeVars
<1>2. CASE Peer(ReadTransfer)
  <2>a. PICK f : f = Head(outbox)
    OBVIOUS
  <2>1. /\ Read("TRANSFER") /\ net = "open"
        /\ delivered' = [ delivered EXCEPT ![f.data] = @ + 1 ]
    BY <1>2, <2>a DEF Peer, ReadTransfer, Read
  <2>2. f.type = "TRANSFER" /\ f \in ToSet(outbox)
    BY <2>1, <2>a, ReadTakes, FramesOf DEF TypeOK, AmqpTimersTypeOK
  <2>3. Mine(f)
    BY <2>1, <2>2 DEF MessageInv, StoreInv, QueueMine
  <2>b. PICK c : c = f.data
    OBVIOUS
  <2>4. c \in Contents /\ c \in Published
    <3>1. c \in Contents /\ Ours(c)
      BY <2>3, <2>b, MineOurs
    <3>2. session > 0
      BY <2>1 DEF MessageInv, PublishedInv
    <3>3. published[c] # NotPublished
      BY <3>1, <3>2 DEF Ours, NotPublished
    <3> QED BY <3>1, <3>3 DEF Published
  <2>5. Reached' = Reached \cup {c}
    BY <2>1, <2>4, <2>b DEF Reached, TypeOK, AmqpPeerTypeOK
  <2>6. UNCHANGED << Published, KeptContents >>
    BY <1>1, KeptSame DEF Published
  <2>7. Promise!PassOn(c)
    BY <1>1, <2>4, <2>5, <2>6 DEF Promise!PassOn, Reached
  <2> QED BY <2>4, <2>7 DEF Promise!PublishingNext
<1>3. CASE ~Peer(ReadTransfer)
  <2>1. delivered' = delivered
    BY <1>3 DEF PeerStep, Peer, PeerReads, ReadLogIn, RefuseLogIn, ReadAttach, ReadDetach, ReadDisposition, ReadPing,
       ReadEnd, PeerAttaches, PeerTransfers, PeerCloses, peerVars
  <2> QED BY <1>1, <2>1, PromiseSame
<1> QED BY <1>2, <1>3

\* The client keeps the promise of Publishing: a transfer leaves the tables
\* together with its way into the history, once and after the peer has it, or
\* with the tables when the session ends.
THEOREM AmqpKeepsPromiseHolds == Spec => AmqpKeepsPromise
<1>1. Init => Promise!PublishingInit /\ EmptyInv
  <2> SUFFICES ASSUME Init PROVE Promise!PublishingInit /\ EmptyInv
    OBVIOUS
  <2>1. /\ published = [ c \in Contents |-> NotPublished ] /\ saved = [ c \in Contents |-> 0 ]
        /\ delivered = [ c \in Contents |-> 0 ] /\ tables = "null"
        /\ m_handler = NoTransfers(Handles) /\ m_delivery_id = NoTransfers(Deliveries)
    BY DEF Init, AmqpTimersInit, AmqpPeerInit
  <2>2. Published = {} /\ Reached = {} /\ KeptContents = {}
    BY <2>1, NoFramesKept DEF Published, Reached
  <2> QED BY <2>1, <2>2 DEF Promise!PublishingInit, EmptyInv, Reached
<1>2. TypeOK /\ StageInv /\ EmptyInv /\ [Next]_vars => EmptyInv'
  <2>1. EmptyInv /\ UNCHANGED vars => EmptyInv'
    BY DEF vars, tableVars, EmptyInv, Alive
  <2> QED BY <2>1, EmptyStep
<1>3. TypeOK /\ StageInv /\ LinkInv /\ MessageInv /\ EmptyInv /\ [Next]_vars
        => [Promise!PublishingNext]_(Promise!publishingVars)
  <2> SUFFICES ASSUME TypeOK, StageInv, LinkInv, MessageInv, EmptyInv, [Next]_vars
               PROVE  Promise!PublishingNext \/ UNCHANGED Promise!publishingVars
    OBVIOUS
  <2>1. CASE \/ LogIn \/ log_out_handle \/ GuiStep \/ TimerStep \/ UNCHANGED vars
             \/ \E t \in Topics : send_amqp_attach(t) \/ send_amqp_detach(t)
    <3>1. UNCHANGED << published, saved, delivered, tables, m_handler, m_delivery_id >>
      BY <2>1 DEF LogIn, log_out_handle, GuiStep, start_amqp_connect_fire, start_amqp_connect_timer, send_amqp_end,
         TimerStep, Timer, amqp_connect_task, amqp_ping_task, amqp_message_resend_task, amqp_message_resend_fire,
         send_amqp_attach, send_amqp_detach, vars, tableVars, peerVars, restOfClient, amqpGuiVars, storeVars
    <3> QED BY <3>1, PromiseSame
  <2>2. CASE \/ rx_answered \/ rx_outcome_refused \/ rx_begin \/ rx_attach_sender \/ rx_transfer
             \/ rx_detach \/ rx_close
    <3>1. UNCHANGED << published, saved, delivered, tables, m_handler, m_delivery_id >>
      BY <2>2 DEF rx_answered, rx_outcome_refused, rx_begin, rx_attach_sender, rx_transfer, rx_detach, rx_close,
         tableVars, peerVars, amqpGuiVars, storeVars
    <3> QED BY <3>1, PromiseSame
  <2>3. CASE WorkerStep
    BY <2>2, <2>3, PromiseAttaches, PromiseSaves, PromiseSessions DEF WorkerStep
  <2>4. CASE UserStep
    BY <2>1, <2>4, PromisePublishes DEF UserStep
  <2> QED BY <2>1, <2>3, <2>4, PromisePeer DEF Next
<1> QED BY <1>1, <1>2, <1>3, AmqpMessagesHold, PTL DEF Spec, AmqpKeepsPromise, Promise!PublishingSpec
=============================================================================
