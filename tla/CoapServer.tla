----------------------------- MODULE CoapServer -----------------------------
(***************************************************************************)
(* The peer of the CoAP client and the network between them, from how      *)
(* coap_client.c uses them (external).  A message that was received before *)
(* is answered as before and acts once.  The server numbers its own        *)
(* messages by itself, so the same numbers may occur.  Losses are bounded. *)
(***************************************************************************)
EXTENDS CoapTimers

CONSTANTS
  MaxLosses,        \* bound on lost datagrams
  SocketMayFail,    \* an ICMP error may close the UDP stream
  ServerPing,       \* codes of the messages without topic that the server may send
  Rejected,         \* codes that the server may refuse
  NonConfirmable    \* those of Incoming that are sent as NON
ASSUME CoapServerBounds ==
  /\ MaxLosses \in Nat
  /\ SocketMayFail \in BOOLEAN
  /\ ServerPing \subseteq { "PUT", "EMPTY" }
  /\ Rejected \subseteq { "GET", "PUT" }
  /\ NonConfirmable \subseteq Incoming

VARIABLES
  sSubs,       \* topics the server sends to this client
  sAnswer,     \* the answer each client message has had
  sIn,         \* topic of each message the server has sent, or None
  sAcked,      \* those that the client has acknowledged
  delivered,   \* how often each content went to the subscribers
  losses

serverVars == << sSubs, sAnswer, sIn, sAcked, delivered, losses >>

CoapServerTypeOK ==
  /\ sSubs \subseteq Topics
  /\ sAnswer \in [ CoapIds -> CoapMessage ]
  /\ sIn \in [ Incoming -> Topics \cup {None} ]
  /\ sAcked \subseteq Incoming
  /\ delivered \in [ Contents -> Nat ]
  /\ losses \in 0 .. MaxLosses

CoapServerInit ==
  /\ sSubs = {} /\ sAcked = {}
  /\ sAnswer = NoMessages
  /\ sIn = [ i \in Incoming |-> None ]
  /\ delivered = [ c \in Contents |-> 0 ]
  /\ losses = 0

Reply(m) == toClient' = IF net = "open" THEN toClient \cup {m} ELSE toClient

ReadPing(m) ==
  /\ m = CoapPing
  /\ Reply(CoapAck(m, TRUE))
  /\ UNCHANGED serverVars

\* m has its first answer and acts, or is answered as before
Answer(m, r, effect) ==
  IF sAnswer[m.id] # CoapNoMsg
  THEN Reply(sAnswer[m.id]) /\ UNCHANGED << sAnswer, sSubs, delivered >>
  ELSE Reply(r) /\ sAnswer' = [ sAnswer EXCEPT ![m.id] = r ] /\ effect

\* the answer to a GET carries its OBSERVE option
ReadObserve(m) ==
  /\ m.code = "GET"
  /\ Answer(m, [ CoapAck(m, TRUE) EXCEPT !.observe = m.observe ],
            /\ sSubs' = IF m.observe = "register" THEN sSubs \cup {m.topic}
                                                 ELSE sSubs \ {m.topic}
            /\ UNCHANGED delivered)
  /\ UNCHANGED << sIn, sAcked, losses >>

ReadPut(m) ==
  /\ m.type = "CON" /\ m.code = "PUT" /\ m.topic # None
  /\ Answer(m, CoapAck(m, TRUE),
            delivered' = [ delivered EXCEPT ![m.content] = @ + 1 ] /\ UNCHANGED sSubs)
  /\ UNCHANGED << sIn, sAcked, losses >>

\* an error in the acknowledgement, an answer without OBSERVE, or a RESET
Refusals(m) ==
  { CoapAck(m, FALSE), [ CoapNoMsg EXCEPT !.type = "RST", !.code = "EMPTY", !.id = m.id ] }
  \cup IF m.code = "GET" THEN { CoapAck(m, TRUE) } ELSE {}

Reject(m) ==
  /\ m.type = "CON" /\ m.topic # None /\ m.code \in Rejected
  /\ sAnswer[m.id] = CoapNoMsg
  /\ \E r \in Refusals(m) : Answer(m, r, UNCHANGED << sSubs, delivered >>)
  /\ UNCHANGED << sIn, sAcked, losses >>

ReadAck(m) ==
  /\ m.type = "ACK"
  /\ sAcked' = IF m.id \in Incoming /\ sIn[m.id] # None /\ m.code = "PUT"
               THEN sAcked \cup {m.id} ELSE sAcked
  /\ UNCHANGED << toClient, sSubs, sAnswer, sIn, delivered, losses >>

ServerReads(i) ==
  \E m \in toServer :
    /\ m.id = i
    /\ toServer' = toServer \ {m}
    /\ ReadPing(m) \/ ReadObserve(m) \/ ReadPut(m) \/ Reject(m) \/ ReadAck(m)
    /\ UNCHANGED << fault, net, is_stop >>

\* a message for a topic the client observes; a CON is repeated until its ACK
ServerPublishes(i) ==
  /\ \E t \in Topics :
       /\ \/ sIn[i] = None /\ t \in sSubs
          \/ sIn[i] = t /\ i \notin NonConfirmable \cup sAcked
       /\ sIn' = [ sIn EXCEPT ![i] = t ]
       /\ Reply([ Put(i, t, None) EXCEPT !.type = IF i \in NonConfirmable THEN "NON" ELSE "CON" ])
  /\ UNCHANGED << fault, net, is_stop, toServer, sSubs, sAnswer, sAcked, delivered, losses >>

\* the server looks whether the client is there
ServerPings ==
  /\ \E code \in ServerPing : Reply([ CoapPing EXCEPT !.code = code ])
  /\ UNCHANGED << fault, net, is_stop, toServer, serverVars >>

LoseDatagram ==
  /\ losses < MaxLosses
  /\ losses' = losses + 1
  /\ \/ \E m \in toServer : toServer' = toServer \ {m} /\ UNCHANGED toClient
     \/ \E m \in toClient : toClient' = toClient \ {m} /\ UNCHANGED toServer
  /\ UNCHANGED << fault, net, is_stop, sSubs, sAnswer, sIn, sAcked, delivered >>

LoseSocket ==
  /\ SocketMayFail /\ ~Secure
  /\ net = "open"
  /\ is_stop' = TRUE
  /\ UNCHANGED << fault, net, toServer, toClient, serverVars >>
=============================================================================
