------------------------------ MODULE AmqpPeer ------------------------------
(***************************************************************************)
(* The AMQP broker, external: what amqp/amqp_client.c expects of it.  It   *)
(* answers each frame in turn, uses the handle of the client for both      *)
(* directions of a link, may refuse a log in at the SASL outcome or with a *)
(* CLOSE, may open a link of its own (with a handle above the client's)    *)
(* and may close the connection.                                           *)
(***************************************************************************)
EXTENDS AmqpTimers

CONSTANTS
  ServerHandle,     \* handle of the peer's own link
  PeerMayRefuse, PeerMayClose,
  InboxBound        \* bound on frames in flight to the client
ASSUME AmqpPeerBounds ==
  /\ ServerHandle \in Handles \ {0} /\ InboxBound \in Nat
  /\ AmqpIncoming \subseteq Deliveries      \* the delivery ids of the peer
  /\ {PeerMayRefuse, PeerMayClose} \subseteq BOOLEAN

VARIABLES
  pConn,        \* "none", "sasl", "begun", "refused", "ended", "closed"
  pSub,         \* links on which the peer sends: handle -> topic
  pPub,         \* links on which the client sends
  clash,        \* history: a handle was attached twice
  delivered,    \* times each content arrived
  pIn,          \* per message of the peer: "new", "sent", "accepted"
  pTopic        \* history: the topic each was sent on

peerVars == << pConn, pSub, pPub, clash, delivered, pIn, pTopic >>

NoLinks == [ h \in Handles |-> NoTopic ]

AmqpPeerTypeOK ==
  /\ pConn \in { "none", "sasl", "begun", "refused", "ended", "closed" }
  /\ pSub \in [ Handles -> Topics \cup {NoTopic} ]
  /\ pPub \in [ Handles -> Topics \cup {NoTopic} ]
  /\ clash \in BOOLEAN
  /\ delivered \in [ Contents -> Nat ]
  /\ pIn \in [ AmqpIncoming -> { "new", "sent", "accepted" } ]
  /\ pTopic \in [ AmqpIncoming -> Topics \cup {NoTopic} ]

AmqpPeerInit ==
  /\ pConn = "none"
  /\ pSub = NoLinks /\ pPub = NoLinks
  /\ clash = FALSE
  /\ delivered = [ c \in Contents |-> 0 ]
  /\ pIn = [ i \in AmqpIncoming |-> "new" ]
  /\ pTopic = [ i \in AmqpIncoming |-> NoTopic ]

NewLink == pConn' = "sasl" /\ pSub' = NoLinks /\ pPub' = NoLinks

Read(type) ==
  /\ net = "open"
  /\ pConn \in { "sasl", "begun", "refused", "ended" }
  /\ outbox # << >> /\ Head(outbox).type = type
  /\ outbox' = Tail(outbox)

Reply(frames) ==
  /\ Len(inbox) < InboxBound
  /\ inbox' = inbox \o frames

\* PROTO, INIT, OPEN, BEGIN: the steps of a log in
ReadLogIn ==
  /\ \/ /\ Read("PROTO")
        /\ Reply(IF Head(outbox).ok THEN << Verdict("PROTO", TRUE) >>
                 ELSE << Verdict("PROTO", FALSE), Plain("MECHANISMS") >>)
        /\ UNCHANGED pConn
     \/ Read("INIT") /\ Reply(<< Verdict("OUTCOME", TRUE) >>) /\ UNCHANGED pConn
     \/ Read("OPEN") /\ Reply(<< Plain("OPEN") >>) /\ UNCHANGED pConn
     \/ Read("BEGIN") /\ Reply(<< Plain("BEGIN") >>) /\ pConn' = "begun"
  /\ UNCHANGED << pSub, pPub, clash, delivered, pIn, pTopic >>

RefuseLogIn ==
  /\ PeerMayRefuse
  /\ \/ Read("INIT") /\ Reply(<< Verdict("OUTCOME", FALSE) >>)
     \/ Read("OPEN") /\ Reply(<< Plain("CLOSE") >>)
  /\ pConn' = "refused"
  /\ UNCHANGED << pSub, pPub, clash, delivered, pIn, pTopic >>

Used(h) == pSub[h] # NoTopic \/ pPub[h] # NoTopic

ReadAttach ==
  /\ Read("ATTACH")
  /\ LET f == Head(outbox)
     IN  /\ clash' = (clash \/ Used(f.handle))
         /\ IF f.role = "RECEIVER"
            THEN /\ pSub' = [ pSub EXCEPT ![f.handle] = f.topic ]
                 /\ Reply(<< Attach("SENDER", f.handle, f.topic) >>)
                 /\ UNCHANGED pPub
            ELSE /\ pPub' = [ pPub EXCEPT ![f.handle] = f.topic ]
                 /\ Reply(<< Attach("RECEIVER", f.handle, f.topic) >>)
                 /\ UNCHANGED pSub
  /\ UNCHANGED << pConn, delivered, pIn, pTopic >>

ReadDetach ==
  /\ Read("DETACH")
  /\ pSub' = [ pSub EXCEPT ![Head(outbox).handle] = NoTopic ]
  /\ Reply(<< Detach(Head(outbox).handle) >>)
  /\ UNCHANGED << pConn, pPub, clash, delivered, pIn, pTopic >>

ReadTransfer ==
  /\ Read("TRANSFER")
  /\ delivered' = [ delivered EXCEPT ![Head(outbox).data] = @ + 1 ]
  /\ IF Head(outbox).settled THEN UNCHANGED inbox ELSE Reply(<< Disposition(Head(outbox).id) >>)
  /\ UNCHANGED << pConn, pSub, pPub, clash, pIn, pTopic >>

\* a disposition of the client: the delivery ids of the peer are its messages
ReadDisposition ==
  /\ Read("DISPOSITION")
  /\ pIn' = [ i \in AmqpIncoming |-> IF i = Head(outbox).id THEN "accepted" ELSE pIn[i] ]
  /\ UNCHANGED << inbox, pConn, pSub, pPub, clash, delivered, pTopic >>

ReadPing == Read("PING") /\ UNCHANGED << inbox, peerVars >>

\* END is answered by END, CLOSE by CLOSE
ReadEnd ==
  /\ \E type \in { "END", "CLOSE" } : Read(type) /\ Reply(<< Plain(type) >>)
  /\ pConn' = "ended"
  /\ UNCHANGED << pSub, pPub, clash, delivered, pIn, pTopic >>

PeerReads == \/ ReadLogIn \/ RefuseLogIn \/ ReadAttach \/ ReadDetach \/ ReadTransfer
             \/ ReadDisposition \/ ReadPing \/ ReadEnd

PeerAttaches(t) ==
  /\ net = "open" /\ pConn = "begun" /\ ~Used(ServerHandle)
  /\ pSub' = [ pSub EXCEPT ![ServerHandle] = t ]
  /\ Reply(<< Attach("SENDER", ServerHandle, t) >>)
  /\ UNCHANGED << outbox, pConn, pPub, clash, delivered, pIn, pTopic >>

PeerTransfers(i, h) ==
  /\ net = "open" /\ pConn = "begun" /\ pSub[h] # NoTopic /\ pIn[i] = "new"
  /\ pIn' = [ pIn EXCEPT ![i] = "sent" ]
  /\ pTopic' = [ pTopic EXCEPT ![i] = pSub[h] ]
  /\ \E settled \in BOOLEAN : Reply(<< Transfer(h, i, settled, i) >>)
  /\ UNCHANGED << outbox, pConn, pSub, pPub, clash, delivered >>

PeerCloses ==
  /\ PeerMayClose \/ pConn = "refused"
  /\ net = "open" /\ pConn \in { "sasl", "begun", "refused" }
  /\ pConn' = "closed"
  /\ UNCHANGED << outbox, inbox, pSub, pPub, clash, delivered, pIn, pTopic >>
=============================================================================
