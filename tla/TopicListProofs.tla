-------------------------- MODULE TopicListProofs --------------------------
(***************************************************************************)
(* What the operations of TopicList make of the row counts, for every set  *)
(* of topics.  The protocol clients' proofs rest on these lemmas.          *)
(***************************************************************************)
EXTENDS TopicList, TLAPS

-----------------------------------------------------------------------------
(* Counts.                                                                 *)

\* One row less where there is one, or one more.
LEMMA CountDown ==
  ASSUME NEW S, NEW f \in [ S -> Nat ], NEW t, f[t] # 0
  PROVE  [ f EXCEPT ![t] = @ - 1 ] \in [ S -> Nat ]
<1>1. CASE t \in S
  BY <1>1
<1>2. CASE t \notin S
  BY <1>2
<1> QED BY <1>1, <1>2

LEMMA CountUp ==
  ASSUME NEW S, NEW f \in [ S -> Nat ], NEW t
  PROVE  [ f EXCEPT ![t] = @ + 1 ] \in [ S -> Nat ]
<1>1. CASE t \in S
  BY <1>1
<1>2. CASE t \notin S
  BY <1>2
<1> QED BY <1>1, <1>2

\* The topic list operations keep row counts.
LEMMA RowTypes ==
  ASSUME NEW r \in Rows, NEW t
  PROVE  /\ topics_from_db(r) \in Rows
         /\ remove_topic_from_db(r, t) \in Rows
         /\ remove_topic_from_list_box(r, t) \in Rows
         /\ add_topics_to_list_box(r, t) \in Rows
         /\ save_topic_to_db(r, t) \in Rows
<1>1. r.list \in [ Topics -> Nat ] /\ r.db \in [ Topics -> Nat ]
  BY DEF Rows
<1>2. topics_from_db(r) \in Rows
  BY DEF topics_from_db, Rows
<1>3. remove_topic_from_db(r, t) \in Rows
  BY <1>1 DEF remove_topic_from_db, Rows
<1> DEFINE u == remove_topic_from_list_box(r, t)
<1>4. u \in Rows
  <2>1. CASE r.list[t] = 0
    BY <2>1 DEF remove_topic_from_list_box
  <2>2. CASE r.list[t] # 0
    <3>1. [ r.list EXCEPT ![t] = @ - 1 ] \in [ Topics -> Nat ]
      BY <1>1, <2>2, CountDown
    <3> QED BY <1>1, <2>2, <3>1 DEF remove_topic_from_list_box, Rows
  <2> QED BY <2>1, <2>2
<1>5. add_topics_to_list_box(r, t) \in Rows
  <2> HIDE DEF u
  <2>1. [ u.list EXCEPT ![t] = @ + 1 ] \in [ Topics -> Nat ]
    BY <1>4, CountUp DEF Rows
  <2> QED BY <1>4, <2>1 DEF add_topics_to_list_box, Rows, u
<1>6. save_topic_to_db(r, t) \in Rows
  <2>1. [ r.db EXCEPT ![t] = @ + 1 ] \in [ Topics -> Nat ]
    BY <1>1, CountUp
  <2> QED BY <1>1, <2>1 DEF save_topic_to_db, Rows
<1> QED BY <1>2, <1>3, <1>4, <1>5, <1>6

-----------------------------------------------------------------------------
(* Rows of one topic, when none has two in the list box.                   *)

\* Opening the main window shows one row per stored topic.
LEMMA ShownFromDb ==
  ASSUME NEW r \in Rows, NEW t \in Topics, r.db[t] <= 1
  PROVE  topics_from_db(r).list[t] = r.db[t] /\ topics_from_db(r).db[t] = r.db[t]
<1>1. r.db[t] \in { 0, 1 }
  BY DEF Rows
<1>2. /\ topics_from_db(r).list[t] = IF r.db[t] = 0 THEN 0 ELSE 1
      /\ topics_from_db(r).db[t] = IF r.db[t] > 1 THEN 0 ELSE r.db[t]
  BY DEF topics_from_db
<1> QED BY <1>1, <1>2

\* Removing a topic from the list box empties its table rows only if it was listed.
LEMMA RowRemoved ==
  ASSUME NEW r \in Rows, NEW x, NEW t \in Topics, r.list[t] <= 1
  PROVE  LET u == remove_topic_from_list_box(r, x)
         IN  /\ u.list[t] = IF t = x THEN 0 ELSE r.list[t]
             /\ u.db[t] = IF t = x /\ r.list[t] # 0 THEN 0 ELSE r.db[t]
<1>1. r.list \in [ Topics -> Nat ] /\ r.db \in [ Topics -> Nat ]
  BY DEF Rows
<1>2. CASE r.list[x] = 0
  BY <1>1, <1>2 DEF remove_topic_from_list_box
<1>3. CASE r.list[x] # 0
  <2>1. /\ remove_topic_from_list_box(r, x).list = [ r.list EXCEPT ![x] = @ - 1 ]
        /\ remove_topic_from_list_box(r, x).db = [ r.db EXCEPT ![x] = 0 ]
    BY <1>3 DEF remove_topic_from_list_box
  <2> QED BY <1>1, <1>3, <2>1
<1> QED BY <1>2, <1>3

\* An unsubscribed topic is gone in both places, and no other.
LEMMA RowsUnsubscribed ==
  ASSUME NEW r \in Rows, NEW x, NEW t \in Topics, r.list[t] <= 1
  PROVE  /\ unsubscribed(r, x) \in Rows
         /\ IF t = x THEN unsubscribed(r, x).list[t] = 0 /\ unsubscribed(r, x).db[t] = 0
            ELSE unsubscribed(r, x).list[t] = r.list[t] /\ unsubscribed(r, x).db[t] = r.db[t]
<1> DEFINE u == remove_topic_from_list_box(r, x)
<1>1. u \in Rows
  BY RowTypes
<1>2. /\ u.list[t] = IF t = x THEN 0 ELSE r.list[t]
      /\ t # x => u.db[t] = r.db[t]
  BY RowRemoved
<1> HIDE DEF u
<1>3. unsubscribed(r, x) = [ list |-> u.list, db |-> [ u.db EXCEPT ![x] = 0 ] ]
  BY DEF unsubscribed, remove_topic_from_db, u
<1>4. unsubscribed(r, x) \in Rows
  <2>1. u.list \in [ Topics -> Nat ] /\ [ u.db EXCEPT ![x] = 0 ] \in [ Topics -> Nat ]
    BY <1>1 DEF Rows
  <2> QED BY <1>3, <2>1 DEF Rows
<1> QED BY <1>1, <1>2, <1>3, <1>4 DEF Rows

\* A topic that is listed and saved has one row in the list box, and one more in
\* the table than the removal of its old row has left.
LEMMA RowsSaved ==
  ASSUME NEW r \in Rows, NEW x, NEW t \in Topics, r.list[t] <= 1
  PROVE  LET s == save_topic_to_db(add_topics_to_list_box(r, x), x)
         IN  /\ s \in Rows
             /\ IF t = x THEN /\ s.list[t] = 1
                              /\ s.db[t] = IF r.list[t] # 0 THEN 1 ELSE r.db[t] + 1
                ELSE s.list[t] = r.list[t] /\ s.db[t] = r.db[t]
<1> DEFINE u == remove_topic_from_list_box(r, x)
<1>1. u.list \in [ Topics -> Nat ] /\ u.db \in [ Topics -> Nat ]
  BY RowTypes DEF Rows
<1>2. /\ u.list[t] = IF t = x THEN 0 ELSE r.list[t]
      /\ u.db[t] = IF t = x /\ r.list[t] # 0 THEN 0 ELSE r.db[t]
  BY RowRemoved
<1> HIDE DEF u
<1>3. save_topic_to_db(add_topics_to_list_box(r, x), x) =
        [ list |-> [ u.list EXCEPT ![x] = @ + 1 ], db |-> [ u.db EXCEPT ![x] = @ + 1 ] ]
  BY DEF save_topic_to_db, add_topics_to_list_box, u
<1>4. save_topic_to_db(add_topics_to_list_box(r, x), x) \in Rows
  <2>1. [ u.list EXCEPT ![x] = @ + 1 ] \in [ Topics -> Nat ]
    BY <1>1, CountUp
  <2>2. [ u.db EXCEPT ![x] = @ + 1 ] \in [ Topics -> Nat ]
    BY <1>1, CountUp
  <2> QED BY <1>3, <2>1, <2>2 DEF Rows
<1> QED BY <1>1, <1>2, <1>3, <1>4
=============================================================================
