--------------------------- MODULE MailSyncProofs ---------------------------
(* Proofs about MailSync, for every mailbox, window, bound and set of faults. *)
EXTENDS MailSync, SequenceTheorems, FiniteSetTheorems, TLAPS

-----------------------------------------------------------------------------
(* Types *)

LEMMA Constructors ==
  /\ NoRecord \in Record /\ NoReply \in Reply /\ Idle \in Handler
  /\ \A k \in Key : next_sync_key(k) \in Key
BY BoundAssumption DEF NoRecord, Record, NoReply, Reply, Idle, Handler, PCs, Key,
                       Command, next_sync_key

\* An answer leaves every handler well formed.
LEMMA AnswerType ==
  ASSUME NEW r \in Reqs, h \in [Reqs -> Handler], NEW rep \in Reply, Answer(r, rep)
  PROVE  h' \in [Reqs -> Handler]
<1>1. [h[r] EXCEPT !.pc = "reply", !.reply = rep] \in Handler
  BY DEF Handler, PCs
<1>2. h' = [h EXCEPT ![r] = [h[r] EXCEPT !.pc = "reply", !.reply = rep]]
  BY DEF Answer
<1>3. QED
  BY <1>1, <1>2

LEMMA RefuseType ==
  ASSUME NEW r \in Reqs, h \in [Reqs -> Handler], NEW s \in {3, 5}, Refuse(r, s)
  PROVE  h' \in [Reqs -> Handler]
<1>1. [NoReply EXCEPT !.status = s, !.key = h[r].key] \in Reply
  BY Constructors DEF NoReply, Reply, Handler
<1>2. QED
  BY <1>1, AnswerType DEF Refuse

LEMMA CheckKeyType ==
  ASSUME NEW r \in Reqs, h \in [Reqs -> Handler], NEW rec \in Record, CheckKey(r, rec)
  PROVE  h' \in [Reqs -> Handler]
<1>1. CASE Refuse(r, 3)
  BY <1>1, RefuseType
<1>2. CASE h' = [h EXCEPT ![r].pc = "commands", ![r].prev = rec]
  <2>1. [h[r] EXCEPT !.pc = "commands", !.prev = rec] \in Handler
    BY DEF Handler, PCs
  <2>2. h' = [h EXCEPT ![r] = [h[r] EXCEPT !.pc = "commands", !.prev = rec]]
    BY <1>2
  <2>3. QED
    BY <2>1, <2>2
<1>3. QED
  BY <1>1, <1>2 DEF CheckKey

\* Every operation keeps the variables in their types.
LEMMA TypeStep == TypeOK /\ [Next]_vars => TypeOK'
<1> SUFFICES ASSUME TypeOK, [Next]_vars PROVE TypeOK'
  OBVIOUS
<1> USE DEF TypeOK, server, device
<1>1. ASSUME NEW r \in Reqs, Load(r) PROVE TypeOK'
  BY <1>1, CheckKeyType DEF Load
<1>2. ASSUME NEW r \in Reqs, LoadFails(r) PROVE TypeOK'
  BY <1>2, CheckKeyType, Constructors DEF LoadFails
<1>3. ASSUME NEW r \in Reqs, h[r].todo # <<>>, NextCommand(r)
      PROVE  h' \in [Reqs -> Handler] /\ Head(h[r].todo) \in Command
  <2>1. h[r].todo \in Seq(Command)
    BY DEF Handler
  <2>2. Tail(h[r].todo) \in Seq(Command) /\ Head(h[r].todo) \in Command
    BY <1>3, <2>1, HeadTailProperties
  <2>3. [h[r] EXCEPT !.todo = Tail(h[r].todo), !.applied = TRUE] \in Handler
    BY <2>2 DEF Handler
  <2>4. h' = [h EXCEPT ![r] = [h[r] EXCEPT !.todo = Tail(h[r].todo), !.applied = TRUE]]
    BY <1>3 DEF NextCommand
  <2>5. QED
    BY <2>2, <2>3, <2>4
<1>4. ASSUME NEW r \in Reqs, ApplyCommand(r) PROVE TypeOK'
  BY <1>3, <1>4 DEF ApplyCommand, EmailSet, NoteAway, Command
<1>5. ASSUME NEW r \in Reqs, CommandRejected(r) PROVE TypeOK'
  BY <1>3, <1>5 DEF CommandRejected
<1>6. ASSUME NEW r \in Reqs, JmapFails(r) PROVE TypeOK'
  BY <1>6, RefuseType DEF JmapFails
<1>7. ASSUME NEW r \in Reqs, QueryWindow(r) PROVE TypeOK'
  <2>1. Newest(inbox) \subseteq Msgs
    BY DEF Newest
  <2>2. HasMore(inbox) \in BOOLEAN
    BY DEF HasMore
  <2>3. \A pc \in {"put", "confirm"} :
          [h[r] EXCEPT !.pc = pc, !.page = Newest(inbox), !.more = HasMore(inbox)] \in Handler
    BY <2>1, <2>2, ZenonT(60) DEF Handler, PCs
  <2>4. \E pc \in {"put", "confirm"} :
          h' = [h EXCEPT ![r] = [h[r] EXCEPT !.pc = pc, !.page = Newest(inbox),
                                            !.more = HasMore(inbox)]]
    BY <1>7 DEF QueryWindow
  <2>5. QED
    BY <1>7, <2>3, <2>4 DEF QueryWindow
<1>8. ASSUME NEW r \in Reqs, ConfirmMissing(r) PROVE TypeOK'
  <2> DEFINE dels == to_remove(candidate_missing(h[r].prev, h[r].key, h[r].page), inbox)
  <2>1. dels \subseteq Msgs
    BY DEF candidate_missing, to_remove, Handler, Record
  <2>2. [h[r] EXCEPT !.pc = "put", !.removed = dels] \in Handler
    BY <2>1, ZenonT(60) DEF Handler, PCs
  <2>3. h' = [h EXCEPT ![r] = [h[r] EXCEPT !.pc = "put", !.removed = dels]]
    BY <1>8 DEF ConfirmMissing
  <2>4. QED
    BY <1>8, <2>2, <2>3 DEF ConfirmMissing
<1>9. ASSUME NEW r \in Reqs, ConfirmFails(r) PROVE TypeOK'
  <2>1. [h[r] EXCEPT !.pc = "put"] \in Handler
    BY ZenonT(60) DEF Handler, PCs
  <2>2. h' = [h EXCEPT ![r] = [h[r] EXCEPT !.pc = "put"]]
    BY <1>9 DEF ConfirmFails
  <2>3. QED
    BY <1>9, <2>1, <2>2 DEF ConfirmFails
<1>10. ASSUME NEW r \in Reqs, PutChanges(r) PROVE TypeOK'
  <2> DEFINE adds == emails_to_send(h[r].prev, h[r].key, h[r].page)
             dels == h[r].removed
             newKey == new_sync_key(h[r].key, adds, dels, h[r].applied)
             rep == [status |-> 1, key |-> newKey, adds |-> adds, dels |-> dels,
                     more |-> h[r].key = 0 /\ h[r].more]
  <2>1. h[r] \in Handler
    OBVIOUS
  <2>2. adds \subseteq Msgs /\ dels \subseteq Msgs
    BY <2>1 DEF emails_to_send, Handler, Record
  <2>3. newKey \in Key
    BY <2>1, Constructors DEF new_sync_key, Handler
  <2>4. rep \in Reply
    BY <2>1, <2>2, <2>3 DEF Reply, Handler
  <2>5. h' \in [Reqs -> Handler]
    BY <1>10, <2>4, AnswerType DEF PutChanges
  <2>6. stored' \in Record
    BY <1>10, <2>1, <2>3 DEF PutChanges, seen_ids, Record, Handler
  <2>7. QED
    BY <1>10, <2>1, <2>5, <2>6 DEF PutChanges, Handler, Record
<1>11. ASSUME NEW r \in Reqs, NEW k \in Key, AnswerNoChanges(r, k)
       PROVE  h' \in [Reqs -> Handler]
  <2>1. [NoReply EXCEPT !.status = 1, !.key = k] \in Reply
    BY Constructors DEF NoReply, Reply
  <2>2. QED
    BY <1>11, <2>1, AnswerType DEF AnswerNoChanges
<1>12. ASSUME NEW r \in Reqs, PutNoChanges(r) PROVE TypeOK'
  <2>1. h[r].key \in Key /\ h[r].prev.seen \subseteq Msgs
    BY DEF Handler, Record
  <2>2. QED
    BY <1>11, <1>12, <2>1, Constructors DEF PutNoChanges, Record
<1>13. ASSUME NEW r \in Reqs, SkipPut(r) PROVE TypeOK'
  <2>1. h[r].key \in Key
    BY DEF Handler
  <2>2. QED
    BY <1>11, <1>13, <2>1 DEF SkipPut
<1>14. ASSUME NEW r \in Reqs, PutFails(r) PROVE TypeOK'
  BY <1>14, RefuseType DEF PutFails
<1>15. ASSUME NEW r \in Reqs, Discard(r) PROVE TypeOK'
  BY <1>15, Constructors DEF Discard, Finish
<1>16. ASSUME NEW r \in Reqs, Drop(r) PROVE TypeOK'
  BY <1>16, Constructors DEF Drop, Finish
<1>17. ASSUME NEW r \in Reqs, Receive(r) PROVE TypeOK'
  <2>1. h[r].reply \in Reply /\ h[r].cmds \in Seq(Command)
    BY DEF Handler
  <2>2. SubSeq(pending, Len(h[r].cmds) + 1, Len(pending)) \in Seq(Command)
    <3>1. Len(h[r].cmds) + 1 \in 1 .. Len(h[r].cmds) + 1 /\ Len(pending) \in Nat
      BY <2>1, LenProperties
    <3>2. \A i \in Len(h[r].cmds) + 1 .. Len(pending) : pending[i] \in Command
      BY <2>1, <3>1, LenProperties, ElementOfSeq
    <3>3. QED
      BY <3>1, <3>2, SubSeqProperties
  <2>3. h' \in [Reqs -> Handler] /\ away' \in [Reqs -> SUBSET Msgs]
    BY <1>17, Constructors DEF Receive, Finish
  <2>4. h[r].reply.key \in Key /\ h[r].reply.adds \subseteq Msgs /\ 0 \in Key
    BY <2>1, BoundAssumption DEF Reply, Key
  <2>5. has' \subseteq Msgs /\ told' \subseteq Msgs /\ ckey' \in Key
    BY <1>17, <2>4 DEF Receive
  <2>6. pending' \in Seq(Command)
    <3> DEFINE rest == SubSeq(pending, Len(h[r].cmds) + 1, Len(pending))
    <3>1. rest \in Seq(Command) /\ <<>> \in Seq(Command)
      BY <2>2
    <3>2. pending' = rest \/ pending' = <<>> \/ pending' = pending
      BY <1>17 DEF Receive
    <3> HIDE DEF rest
    <3>3. QED
      BY <3>1, <3>2
  <2>7. QED
    BY <1>17, <2>3, <2>5, <2>6, ReqsAssumption DEF Receive
<1>18. ASSUME NEW r \in Reqs, NEW get \in GetChanges, SendSync(r, get) PROVE TypeOK'
  <2> DEFINE new == [Idle EXCEPT !.pc = "load", !.key = ckey, !.get = get,
                                 !.cmds = pending, !.todo = pending]
  <2>1. new \in Handler
    BY Constructors, OptsAssumption DEF Handler, Idle, PCs
  <2>2. h' = [h EXCEPT ![r] = new]
    BY <1>18 DEF SendSync
  <2>3. QED
    BY <1>18, <2>1, <2>2 DEF SendSync
<1>19. CASE Restart
  BY <1>19, Constructors DEF Restart
<1>20. CASE Timeout
  BY <1>20 DEF Timeout
<1>21. CASE Reset
  BY <1>21, Constructors DEF Reset, NoRecord, Record
<1>22. CASE UserActs
  BY <1>22, OptsAssumption DEF UserActs, Command
<1>23. ASSUME NEW m \in Msgs, Enter(m) PROVE TypeOK'
  BY <1>23 DEF Enter
<1>24. ASSUME NEW m \in Msgs, Leave(m) PROVE TypeOK'
  BY <1>24 DEF Leave, NoteAway
<1>25. CASE UNCHANGED vars
  BY <1>25 DEF vars
<1>26. QED
  BY <1>1, <1>2, <1>4, <1>5, <1>6, <1>7, <1>8, <1>9, <1>10, <1>12, <1>13, <1>14,
     <1>15, <1>16, <1>17, <1>18, <1>19, <1>20, <1>21, <1>22, <1>23, <1>24, <1>25
     DEF Next, Work, Fail, Exchange

\* Whatever happens, every variable keeps its type.
THEOREM TypeCorrect == Spec => []TypeOK
<1>1. Init => TypeOK
  BY Constructors DEF Init, TypeOK, NoRecord, Record, Key
<1>2. QED
  BY <1>1, TypeStep, PTL DEF Spec

-----------------------------------------------------------------------------
(* What the steps do to a handler *)

\* The slots of the other handlers.
Others(r) == \A q \in Reqs \ {r} : h'[q] = h[q]

LEMMA AnswerEffect ==
  ASSUME NEW r \in Reqs, h \in [Reqs -> Handler], NEW rep, Answer(r, rep)
  PROVE  /\ Others(r)
         /\ h'[r].pc = "reply" /\ h'[r].reply = rep
         /\ h'[r].cmds = h[r].cmds /\ h'[r].todo = h[r].todo
         /\ h'[r].key = h[r].key /\ h'[r].prev = h[r].prev
         /\ h'[r].removed = h[r].removed
<1>1. h' = [h EXCEPT ![r] = [h[r] EXCEPT !.pc = "reply", !.reply = rep]]
  BY DEF Answer
<1>2. h'[r] = [h[r] EXCEPT !.pc = "reply", !.reply = rep]
  BY <1>1
<1>3. h[r] \in Handler
  OBVIOUS
<1>4. QED
  BY <1>1, <1>2, <1>3 DEF Others, Handler

LEMMA RefuseEffect ==
  ASSUME NEW r \in Reqs, h \in [Reqs -> Handler], NEW s, Refuse(r, s)
  PROVE  /\ Others(r)
         /\ h'[r].pc = "reply" /\ h'[r].reply.status = s
         /\ h'[r].reply.adds = {} /\ h'[r].reply.dels = {}
         /\ h'[r].cmds = h[r].cmds /\ h'[r].todo = h[r].todo
         /\ h'[r].key = h[r].key /\ h'[r].prev = h[r].prev
         /\ h'[r].removed = h[r].removed
<1> DEFINE rep == [NoReply EXCEPT !.status = s, !.key = h[r].key]
<1>1. rep.status = s /\ rep.adds = {} /\ rep.dels = {}
  BY DEF NoReply
<1>2. Answer(r, rep)
  BY DEF Refuse
<1> HIDE DEF rep
<1>3. QED
  BY <1>1, <1>2, AnswerEffect

LEMMA CheckKeyEffect ==
  ASSUME NEW r \in Reqs, h \in [Reqs -> Handler], NEW rec, CheckKey(r, rec)
  PROVE  /\ Others(r)
         /\ h'[r].key = h[r].key /\ h'[r].removed = h[r].removed
         /\ h'[r].cmds = h[r].cmds /\ h'[r].todo = h[r].todo
         /\ \/ /\ h'[r].pc = "commands" /\ h'[r].prev = rec
               /\ h[r].key = 0 \/ h[r].key = rec.key
               /\ h'[r].reply = h[r].reply
            \/ /\ h'[r].pc = "reply" /\ h'[r].reply.status = 3
               /\ h'[r].reply.adds = {} /\ h'[r].reply.dels = {}
<1>1. CASE Refuse(r, 3)
  BY <1>1, RefuseEffect
<1>2. CASE /\ h[r].key = 0 \/ h[r].key = rec.key
           /\ h' = [h EXCEPT ![r].pc = "commands", ![r].prev = rec]
  <2>1. h' = [h EXCEPT ![r] = [h[r] EXCEPT !.pc = "commands", !.prev = rec]]
    BY <1>2
  <2>2. h'[r] = [h[r] EXCEPT !.pc = "commands", !.prev = rec]
    BY <2>1
  <2>3. h[r] \in Handler
    OBVIOUS
  <2>4. QED
    BY <1>2, <2>1, <2>2, <2>3 DEF Others, Handler
<1>3. QED
  BY <1>1, <1>2 DEF CheckKey

LEMMA NextCommandEffect ==
  ASSUME NEW r \in Reqs, h \in [Reqs -> Handler], NextCommand(r)
  PROVE  /\ Others(r)
         /\ h'[r].cmds = h[r].cmds /\ h'[r].todo = Tail(h[r].todo)
         /\ h'[r].pc = h[r].pc /\ h'[r].key = h[r].key /\ h'[r].prev = h[r].prev
         /\ h'[r].removed = h[r].removed /\ h'[r].reply = h[r].reply
<1> DEFINE new == [h[r] EXCEPT !.todo = Tail(h[r].todo), !.applied = TRUE]
<1>1. h' = [h EXCEPT ![r] = new]
  BY DEF NextCommand
<1>2. h[r] \in Handler
  OBVIOUS
<1>3. QED
  BY <1>1, <1>2 DEF Others, Handler

LEMMA QueryEffect ==
  ASSUME NEW r \in Reqs, h \in [Reqs -> Handler], QueryWindow(r)
  PROVE  /\ Others(r)
         /\ h'[r].cmds = h[r].cmds /\ h'[r].todo = h[r].todo
         /\ h'[r].pc \in {"put", "confirm"} /\ h'[r].page = Newest(inbox)
         /\ h'[r].key = h[r].key /\ h'[r].prev = h[r].prev
         /\ h'[r].removed = h[r].removed /\ h'[r].reply = h[r].reply
<1>1. PICK pc \in {"put", "confirm"} :
        h' = [h EXCEPT ![r] = [h[r] EXCEPT !.pc = pc, !.page = Newest(inbox),
                                          !.more = HasMore(inbox)]]
  BY DEF QueryWindow
<1>2. h[r] \in Handler
  OBVIOUS
<1>3. QED
  BY <1>1, <1>2 DEF Others, Handler

LEMMA ConfirmEffect ==
  ASSUME NEW r \in Reqs, h \in [Reqs -> Handler], ConfirmMissing(r) \/ ConfirmFails(r)
  PROVE  /\ Others(r)
         /\ h'[r].cmds = h[r].cmds /\ h'[r].todo = h[r].todo
         /\ h'[r].pc = "put" /\ h'[r].page = h[r].page
         /\ h'[r].key = h[r].key /\ h'[r].prev = h[r].prev
         /\ h'[r].reply = h[r].reply
         /\ \/ h'[r].removed = h[r].removed
            \/ h'[r].removed = candidate_missing(h[r].prev, h[r].key, h[r].page) \ inbox
<1> DEFINE dels == candidate_missing(h[r].prev, h[r].key, h[r].page) \ inbox
<1>1. h[r] \in Handler
  OBVIOUS
<1>2. CASE h' = [h EXCEPT ![r] = [h[r] EXCEPT !.pc = "put", !.removed = dels]]
  BY <1>1, <1>2 DEF Others, Handler
<1>3. CASE h' = [h EXCEPT ![r] = [h[r] EXCEPT !.pc = "put"]]
  BY <1>1, <1>3 DEF Others, Handler
<1>4. QED
  BY <1>2, <1>3 DEF ConfirmMissing, ConfirmFails, to_remove

LEMMA FinishEffect ==
  ASSUME NEW r \in Reqs, TypeOK, Finish(r)
  PROVE  /\ Others(r) /\ h'[r] = Idle
         /\ \A q \in Reqs \ {r} : away'[q] = away[q]
         /\ away'[r] = {}
BY DEF Finish, Others, TypeOK

\* A new request starts a handler with nothing but the request.
LEMMA SendEffect ==
  ASSUME NEW r \in Reqs, NEW get, h \in [Reqs -> Handler], SendSync(r, get)
  PROVE  /\ Others(r)
         /\ h'[r].pc = "load" /\ h'[r].key = ckey
         /\ h'[r].cmds = pending /\ h'[r].todo = pending
         /\ h'[r].removed = {} /\ h'[r].reply = NoReply
<1> DEFINE new == [Idle EXCEPT !.pc = "load", !.key = ckey, !.get = get,
                               !.cmds = pending, !.todo = pending]
<1>1. h' = [h EXCEPT ![r] = new]
  BY DEF SendSync
<1>2. new.pc = "load" /\ new.key = ckey /\ new.removed = {} /\ new.reply = NoReply
  BY DEF Idle
<1>3. new.cmds = pending /\ new.todo = pending
  BY DEF Idle
<1> HIDE DEF new
<1>4. QED
  BY <1>1, <1>2, <1>3 DEF Others

-----------------------------------------------------------------------------
(* No false Deletes *)

\* A message outside the mailbox is noted by every running handler.
LEMMA AwayStep == TypeOK /\ AwayInv /\ [Next]_vars => AwayInv'
<1> SUFFICES ASSUME TypeOK, AwayInv, [Next]_vars, NEW q \in Reqs
             PROVE  AwayNoted(q)'
  BY DEF AwayInv
<1> USE DEF server, device
<1>1. /\ AwayNoted(q) /\ inbox \subseteq Msgs
      /\ \A r \in Reqs : AwayNoted(r)
      /\ h \in [Reqs -> Handler] /\ away \in [Reqs -> SUBSET Msgs]
  BY DEF AwayInv, TypeOK
<1>2. ASSUME NEW r \in Reqs, Others(r), UNCHANGED <<inbox, away>>,
             h[r].pc # "idle",
             h'[r].removed = h[r].removed \/ h'[r].removed \subseteq Msgs \ inbox,
             \/ h'[r].reply.dels = {} \/ h'[r].reply.dels = h[r].reply.dels
             \/ h'[r].reply.dels = h[r].removed
      PROVE  AwayNoted(q)'
  BY <1>1, <1>2 DEF Others, AwayNoted
<1>3. ASSUME NEW r \in Reqs, Load(r) \/ LoadFails(r) PROVE AwayNoted(q)'
  <2>1. PICK rec : CheckKey(r, rec)
    BY <1>3 DEF Load, LoadFails
  <2>2. QED
    BY <1>1, <1>2, <1>3, <2>1, CheckKeyEffect DEF Load, LoadFails
<1>4. ASSUME NEW r \in Reqs, ApplyCommand(r) PROVE AwayNoted(q)'
  BY <1>1, <1>4, NextCommandEffect DEF ApplyCommand, EmailSet, NoteAway, Others, AwayNoted
<1>5. ASSUME NEW r \in Reqs, CommandRejected(r) PROVE AwayNoted(q)'
  BY <1>1, <1>2, <1>5, NextCommandEffect DEF CommandRejected
<1>6. ASSUME NEW r \in Reqs, JmapFails(r) \/ PutFails(r) PROVE AwayNoted(q)'
  BY <1>1, <1>2, <1>6, RefuseEffect DEF JmapFails, PutFails, NoChanges
<1>7. ASSUME NEW r \in Reqs, QueryWindow(r) PROVE AwayNoted(q)'
  BY <1>1, <1>2, <1>7, QueryEffect DEF QueryWindow
<1>8. ASSUME NEW r \in Reqs, ConfirmMissing(r) \/ ConfirmFails(r) PROVE AwayNoted(q)'
  <2>1. candidate_missing(h[r].prev, h[r].key, h[r].page) \subseteq Msgs
    BY <1>1 DEF candidate_missing, Handler, Record
  <2>2. /\ Others(r) /\ h'[r].reply = h[r].reply
        /\ h'[r].removed = h[r].removed \/ h'[r].removed \subseteq Msgs \ inbox
    BY <1>1, <1>8, <2>1, ConfirmEffect
  <2>3. h[r].pc # "idle" /\ UNCHANGED <<inbox, away>>
    BY <1>8 DEF ConfirmMissing, ConfirmFails
  <2>4. QED
    BY <1>2, <2>2, <2>3
<1>9. ASSUME NEW r \in Reqs, PutChanges(r) PROVE AwayNoted(q)'
  BY <1>1, <1>2, <1>9, AnswerEffect DEF PutChanges
<1>10. ASSUME NEW r \in Reqs, PutNoChanges(r) \/ SkipPut(r) PROVE AwayNoted(q)'
  <2>1. PICK k : AnswerNoChanges(r, k)
    BY <1>10 DEF PutNoChanges, SkipPut
  <2>2. [NoReply EXCEPT !.status = 1, !.key = k].dels = {}
    BY DEF NoReply
  <2>3. Others(r) /\ h'[r].reply.dels = {} /\ h'[r].removed = h[r].removed
    BY <1>1, <2>1, <2>2, AnswerEffect DEF AnswerNoChanges
  <2>4. h[r].pc # "idle" /\ UNCHANGED <<inbox, away>>
    BY <1>10 DEF PutNoChanges, SkipPut, NoChanges
  <2>5. QED
    BY <1>2, <2>3, <2>4
<1>11. ASSUME NEW r \in Reqs, Finish(r), UNCHANGED inbox PROVE AwayNoted(q)'
  <2>1. Idle.pc = "idle" /\ Idle.removed = {} /\ Idle.reply.dels = {}
    BY DEF Idle, NoReply
  <2>2. QED
    BY <1>1, <1>11, <2>1, FinishEffect DEF Others, AwayNoted
<1>12. ASSUME NEW r \in Reqs, NEW get \in GetChanges, SendSync(r, get) PROVE AwayNoted(q)'
  <2>1. /\ Others(r) /\ h'[r].removed = {} /\ h'[r].reply.dels = {}
    BY <1>1, <1>12, SendEffect DEF NoReply
  <2>2. inbox' = inbox /\ away' = [away EXCEPT ![r] = Msgs \ inbox]
    BY <1>12 DEF SendSync
  <2>3. QED
    BY <1>1, <2>1, <2>2 DEF Others, AwayNoted
<1>13. CASE Restart
  BY <1>1, <1>13 DEF Restart, Idle, NoReply, AwayNoted
<1>14. ASSUME NEW m \in Msgs, Leave(m) PROVE AwayNoted(q)'
  BY <1>1, <1>14 DEF Leave, NoteAway, AwayNoted
<1>15. ASSUME NEW m \in Msgs, Enter(m) PROVE AwayNoted(q)'
  BY <1>1, <1>15 DEF Enter, AwayNoted
<1>16. CASE Timeout \/ Reset \/ UserActs \/ UNCHANGED vars
  BY <1>1, <1>16 DEF Timeout, Reset, UserActs, vars, AwayNoted
<1>17. QED
  BY <1>3, <1>4, <1>5, <1>6, <1>7, <1>8, <1>9, <1>10, <1>11, <1>12, <1>13, <1>14, <1>15,
     <1>16 DEF Next, Work, Fail, Exchange, Discard, Drop, Receive

\* A Delete in an answer names only messages that were outside the mailbox
\* while the request was handled, for any number of requests in flight.
THEOREM DeletesAreReal == Spec => []NoFalseDelete
<1>1. Init => AwayInv
  BY DEF Init, AwayInv, AwayNoted, Idle, NoReply
<1>2. AwayInv => NoFalseDelete
  BY DEF AwayInv, AwayNoted, NoFalseDelete
<1>3. QED
  BY <1>1, <1>2, AwayStep, TypeCorrect, PTL DEF Spec

-----------------------------------------------------------------------------
(* Acknowledged Deletes *)

\* A Delete leaves the list of commands only when it is done.
LEMMA DeletesStep ==
  ASSUME "reject" \notin Faults
  PROVE  TypeOK /\ DeletesInv /\ [Next]_vars => DeletesInv'
<1> SUFFICES ASSUME TypeOK, DeletesInv, [Next]_vars, NEW q \in Reqs
             PROVE  DeletesInHand(q)'
  BY DEF DeletesInv
<1> USE DEF server, device
<1>1. /\ \A r \in Reqs : DeletesInHand(r)
      /\ h \in [Reqs -> Handler]
  BY DEF DeletesInv, TypeOK
<1>2. ASSUME NEW r \in Reqs, Others(r), destroyed' = destroyed,
             h'[r].cmds = h[r].cmds, h'[r].todo = h[r].todo,
             \/ h[r].todo = <<>>
             \/ h'[r].pc = "commands"
             \/ h'[r].pc = "reply" /\ h'[r].reply.status # 1
      PROVE  DeletesInHand(q)'
  BY <1>1, <1>2 DEF Others, DeletesInHand
<1>3. ASSUME NEW r \in Reqs, Load(r) \/ LoadFails(r) PROVE DeletesInHand(q)'
  <2>1. PICK rec : CheckKey(r, rec)
    BY <1>3 DEF Load, LoadFails
  <2>2. QED
    BY <1>1, <1>2, <1>3, <2>1, CheckKeyEffect DEF Load, LoadFails
<1>4. ASSUME NEW r \in Reqs, ApplyCommand(r) PROVE DeletesInHand(q)'
  <2>1. /\ Others(r) /\ h'[r].cmds = h[r].cmds /\ h'[r].pc = "commands"
        /\ h'[r].todo = Tail(h[r].todo) /\ h[r].todo # <<>>
    BY <1>1, <1>4, NextCommandEffect DEF ApplyCommand
  <2>2. /\ destroyed \subseteq destroyed'
        /\ Head(h[r].todo).op = "Delete" => Head(h[r].todo).id \in destroyed'
    BY <1>4 DEF ApplyCommand, EmailSet
  <2>3. CASE q # r
    BY <1>1, <2>1, <2>2, <2>3 DEF Others, DeletesInHand
  <2>4. CASE q = r
    <3>1. h[r].todo \in Seq(Command)
      BY <1>1 DEF Handler
    <3>2. ASSUME NEW j \in DOMAIN h[r].todo, j # 1
          PROVE  j - 1 \in DOMAIN Tail(h[r].todo) /\ Tail(h[r].todo)[j - 1] = h[r].todo[j]
      BY <3>1, <3>2, <2>1, HeadTailProperties
    <3>3. ASSUME NEW i \in DOMAIN h[r].cmds, h[r].cmds[i].op = "Delete"
          PROVE  \/ h[r].cmds[i].id \in destroyed'
                 \/ \E j \in DOMAIN Tail(h[r].todo) : Tail(h[r].todo)[j] = h[r].cmds[i]
      <4>1. CASE h[r].cmds[i].id \in destroyed
        BY <2>2, <4>1
      <4>2. CASE \E j \in DOMAIN h[r].todo : h[r].todo[j] = h[r].cmds[i]
        <5>1. PICK j \in DOMAIN h[r].todo : h[r].todo[j] = h[r].cmds[i]
          BY <4>2
        <5>2. CASE j = 1
          BY <2>2, <3>1, <3>3, <5>1, <5>2
        <5>3. CASE j # 1
          BY <3>2, <5>1, <5>3
        <5>4. QED
          BY <5>2, <5>3
      <4>3. QED
        BY <1>1, <3>3, <4>1, <4>2 DEF DeletesInHand
    <3>4. QED
      BY <2>1, <2>4, <3>3 DEF DeletesInHand
  <2>5. QED
    BY <2>3, <2>4
<1>5. ASSUME NEW r \in Reqs, JmapFails(r) \/ PutFails(r) PROVE DeletesInHand(q)'
  BY <1>1, <1>2, <1>5, RefuseEffect DEF JmapFails, PutFails
<1>6. ASSUME NEW r \in Reqs, QueryWindow(r) PROVE DeletesInHand(q)'
  BY <1>1, <1>2, <1>6, QueryEffect DEF QueryWindow
<1>7. ASSUME NEW r \in Reqs, ConfirmMissing(r) \/ ConfirmFails(r) PROVE DeletesInHand(q)'
  <2>1. h[r].todo = <<>> /\ UNCHANGED destroyed
    BY <1>1, <1>7 DEF ConfirmMissing, ConfirmFails, DeletesInHand
  <2>2. QED
    BY <1>1, <1>2, <1>7, <2>1, ConfirmEffect
<1>8. ASSUME NEW r \in Reqs, PutChanges(r) PROVE DeletesInHand(q)'
  <2>1. h[r].todo = <<>> /\ UNCHANGED destroyed
    BY <1>1, <1>8 DEF PutChanges, DeletesInHand
  <2>2. QED
    BY <1>1, <1>2, <1>8, <2>1, AnswerEffect DEF PutChanges
<1>9. ASSUME NEW r \in Reqs, PutNoChanges(r) \/ SkipPut(r) PROVE DeletesInHand(q)'
  <2>1. PICK k : AnswerNoChanges(r, k)
    BY <1>9 DEF PutNoChanges, SkipPut
  <2>2. h[r].todo = <<>> /\ UNCHANGED destroyed
    BY <1>9 DEF PutNoChanges, SkipPut, NoChanges
  <2>3. QED
    BY <1>1, <1>2, <2>1, <2>2, AnswerEffect DEF AnswerNoChanges
<1>10. ASSUME NEW r \in Reqs, Finish(r), UNCHANGED destroyed PROVE DeletesInHand(q)'
  <2>1. Idle.pc = "idle" /\ Idle.cmds = <<>>
    BY DEF Idle
  <2>2. QED
    BY <1>1, <1>10, <2>1, FinishEffect DEF Others, DeletesInHand
<1>11. ASSUME NEW r \in Reqs, NEW get \in GetChanges, SendSync(r, get)
       PROVE  DeletesInHand(q)'
  <2>1. /\ Others(r) /\ UNCHANGED destroyed
        /\ h'[r].pc = "load" /\ h'[r].cmds = h'[r].todo
    BY <1>1, <1>11, SendEffect DEF SendSync
  <2>2. CASE q = r
    BY <2>1, <2>2 DEF DeletesInHand
  <2>3. CASE q # r
    BY <1>1, <2>1, <2>3 DEF Others, DeletesInHand
  <2>4. QED
    BY <2>2, <2>3
<1>12. CASE Restart
  BY <1>1, <1>12 DEF Restart, Idle, DeletesInHand
<1>13. ASSUME NEW m \in Msgs, Enter(m) \/ Leave(m) PROVE DeletesInHand(q)'
  BY <1>1, <1>13 DEF Enter, Leave, DeletesInHand
<1>14. CASE Timeout \/ Reset \/ UserActs \/ UNCHANGED vars
  BY <1>1, <1>14 DEF Timeout, Reset, UserActs, vars, DeletesInHand
<1>15. QED
  BY <1>3, <1>4, <1>5, <1>6, <1>7, <1>8, <1>9, <1>10, <1>11, <1>12, <1>13, <1>14
     DEF Next, Work, Fail, Exchange, CommandRejected, Discard, Drop, Receive

\* Unless the mail server refuses them one by one, the Deletes of a request are
\* done when it is acknowledged, for any number of requests in flight.
THEOREM AcknowledgedDeletesAreDone ==
  ASSUME "reject" \notin Faults
  PROVE  Spec => []AckedDeletesDone
<1>1. Init => DeletesInv
  BY DEF Init, DeletesInv, DeletesInHand, Idle
<1>2. DeletesInv => AckedDeletesDone
  BY DEF DeletesInv, DeletesInHand, AckedDeletesDone
<1>3. QED
  BY <1>1, <1>2, DeletesStep, TypeCorrect, PTL DEF Spec

-----------------------------------------------------------------------------
(* Initial Syncs *)

\* A mailbox within the window is listed whole.
LEMMA NewestIsAll ==
  ASSUME NEW S \in SUBSET Msgs, ~HasMore(S)
  PROVE  Newest(S) = S
<1>1. IsFiniteSet(S) /\ Cardinality(S) \in Nat
  BY MsgsAssumption, FS_Subset, FS_CardinalityType
<1>2. Cardinality(S) <= Window
  BY <1>1, BoundAssumption DEF HasMore
<1>3. ASSUME NEW m \in S PROVE Cardinality({n \in S : n > m}) < Window
  <2> DEFINE newer == {n \in S : n > m}
  <2>1. newer \subseteq S \ {m} /\ m \in Nat
    BY MsgsAssumption
  <2>2. IsFiniteSet(S \ {m}) /\ Cardinality(S \ {m}) = Cardinality(S) - 1
    BY <1>1, FS_RemoveElement
  <2>3. Cardinality(newer) <= Cardinality(S \ {m}) /\ Cardinality(newer) \in Nat
    BY <2>1, <2>2, FS_Subset, FS_CardinalityType
  <2>4. QED
    BY <1>1, <1>2, <2>2, <2>3, BoundAssumption
<1>4. QED
  BY <1>3 DEF Newest

\* What a step leaves of slot q, as far as PageCovers looks at it.
SamePage(q) ==
  /\ h'[q].key = h[q].key /\ h'[q].get = h[q].get /\ h'[q].page = h[q].page
  /\ h'[q].more = h[q].more /\ h'[q].reply = h[q].reply /\ away[q] \subseteq away'[q]

LEMMA SamePageKeeps ==
  ASSUME NEW q \in Reqs, PageCovers(q), SamePage(q),
         \/ h'[q].pc = h[q].pc
         \/ h'[q].pc \in {"load", "commands"}
         \/ h'[q].pc = "put" /\ h[q].pc = "confirm"
  PROVE  PageCovers(q)'
BY DEF PageCovers, SamePage

\* The messages outside the mailbox, and so those not on a whole page, are noted.
LEMMA PageStep == TypeOK /\ AwayInv /\ PageInv /\ [Next]_vars => PageInv'
<1> SUFFICES ASSUME TypeOK, AwayInv, PageInv, [Next]_vars, NEW q \in Reqs
             PROVE  PageCovers(q)'
  BY DEF PageInv
<1> USE DEF server, device
<1>1. /\ PageCovers(q) /\ inbox \subseteq Msgs
      /\ h[q] \in Handler /\ h \in [Reqs -> Handler] /\ away \in [Reqs -> SUBSET Msgs]
      /\ \A r \in Reqs : h[r].pc # "idle" => (Msgs \ inbox) \subseteq away[r]
  BY DEF AwayInv, AwayNoted, PageInv, TypeOK
<1>2. ASSUME NEW r \in Reqs, q # r, Others(r), away'[q] = away[q] PROVE PageCovers(q)'
  BY <1>1, <1>2 DEF Others, PageCovers
<1>3. ASSUME NEW r \in Reqs, NEW s \in {3, 5}, Refuse(r, s), away' = away PROVE PageCovers(q)'
  BY <1>1, <1>2, <1>3, RefuseEffect DEF PageCovers
<1>4. ASSUME NEW r \in Reqs, Load(r) \/ LoadFails(r) PROVE PageCovers(q)'
  <2>1. PICK rec : CheckKey(r, rec)
    BY <1>4 DEF Load, LoadFails
  <2>2. QED
    BY <1>1, <1>2, <1>4, <2>1, CheckKeyEffect DEF Load, LoadFails, PageCovers
<1>5. ASSUME NEW r \in Reqs, ApplyCommand(r) PROVE PageCovers(q)'
  <2>1. Others(r) /\ h'[r].pc = "commands"
    BY <1>1, <1>5, NextCommandEffect DEF ApplyCommand
  <2>2. away[q] \subseteq away'[q]
    BY <1>1, <1>5 DEF ApplyCommand, EmailSet, NoteAway
  <2>3. QED
    BY <1>1, <2>1, <2>2 DEF Others, PageCovers
<1>6. ASSUME NEW r \in Reqs, CommandRejected(r) PROVE PageCovers(q)'
  BY <1>1, <1>2, <1>6, NextCommandEffect DEF CommandRejected, PageCovers
<1>7. ASSUME NEW r \in Reqs, JmapFails(r) \/ PutFails(r) PROVE PageCovers(q)'
  BY <1>3, <1>7 DEF JmapFails, PutFails
<1>8. ASSUME NEW r \in Reqs, QueryWindow(r) PROVE PageCovers(q)'
  <2>1. PICK pc \in {"put", "confirm"} :
          h' = [h EXCEPT ![r] = [h[r] EXCEPT !.pc = pc, !.page = Newest(inbox),
                                            !.more = HasMore(inbox)]]
    BY <1>8 DEF QueryWindow
  <2>2. away' = away /\ (Msgs \ inbox) \subseteq away[r]
    BY <1>1, <1>8 DEF QueryWindow
  <2>3. Others(r)
    BY <1>1, <2>1 DEF Others
  <2>4. CASE q = r
    <3>1. /\ h'[r].pc \in {"put", "confirm"}
          /\ h'[r].page = Newest(inbox) /\ h'[r].more = HasMore(inbox)
      BY <1>1, <2>1 DEF Handler
    <3>2. ~HasMore(inbox) => Newest(inbox) = inbox
      BY <1>1, NewestIsAll
    <3>3. QED
      BY <2>2, <2>4, <3>1, <3>2 DEF PageCovers
  <2>5. QED
    BY <1>2, <2>2, <2>3, <2>4
<1>9. ASSUME NEW r \in Reqs, ConfirmMissing(r) \/ ConfirmFails(r) PROVE PageCovers(q)'
  <2>1. /\ Others(r) /\ away' = away /\ h[r].pc = "confirm"
        /\ h'[r].pc = "put"
    BY <1>1, <1>9, ConfirmEffect DEF ConfirmMissing, ConfirmFails
  <2>2. CASE q = r
    <3>1. SamePage(q)
      BY <1>1, <1>9, <2>1, <2>2 DEF ConfirmMissing, ConfirmFails, SamePage, Handler
    <3>2. QED
      BY <1>1, <2>1, <2>2, <3>1, SamePageKeeps
  <2>3. QED
    BY <1>2, <2>1, <2>2
<1>10. ASSUME NEW r \in Reqs, PutChanges(r) PROVE PageCovers(q)'
  <2>1. PICK rep : /\ Answer(r, rep)
                   /\ rep.adds = emails_to_send(h[r].prev, h[r].key, h[r].page)
                   /\ rep.more = (h[r].key = 0 /\ h[r].more)
    BY <1>10 DEF PutChanges
  <2>2. /\ Others(r) /\ away' = away /\ h[r].pc = "put"
        /\ h'[r].pc = "reply" /\ h'[r].reply = rep /\ h'[r].key = h[r].key
    BY <1>1, <1>10, <2>1, AnswerEffect DEF PutChanges
  <2>3. h[r].key = 0 => rep.adds = h[r].page /\ (h[r].more => rep.more)
    BY <2>1 DEF emails_to_send
  <2>4. CASE q = r
    BY <1>1, <2>2, <2>3, <2>4 DEF PageCovers
  <2>5. QED
    BY <1>2, <2>2, <2>4
<1>11. ASSUME NEW r \in Reqs, PutNoChanges(r) \/ SkipPut(r) PROVE PageCovers(q)'
  <2>1. PICK rep : Answer(r, rep)
    BY <1>11 DEF PutNoChanges, SkipPut, AnswerNoChanges
  <2>2. /\ Others(r) /\ away' = away /\ h'[r].pc = "reply"
        /\ ~h[r].get
    BY <1>1, <1>11, <2>1, AnswerEffect DEF PutNoChanges, SkipPut, NoChanges
  <2>3. h'[r].get = h[r].get
    BY <1>1, <2>1 DEF Answer, Handler
  <2>4. QED
    BY <1>2, <2>2, <2>3 DEF PageCovers
<1>12. ASSUME NEW r \in Reqs, Finish(r) PROVE PageCovers(q)'
  <2>1. Idle.pc = "idle"
    BY DEF Idle
  <2>2. QED
    BY <1>2, <1>12, <2>1, FinishEffect DEF PageCovers
<1>13. ASSUME NEW r \in Reqs, NEW get \in GetChanges, SendSync(r, get) PROVE PageCovers(q)'
  <2>1. Others(r) /\ h'[r].pc = "load"
    BY <1>1, <1>13, SendEffect
  <2>2. q # r => away'[q] = away[q]
    BY <1>1, <1>13 DEF SendSync
  <2>3. QED
    BY <1>2, <2>1, <2>2 DEF PageCovers
<1>14. CASE Restart
  BY <1>14 DEF Restart, Idle, PageCovers
<1>15. ASSUME NEW m \in Msgs, Leave(m) PROVE PageCovers(q)'
  BY <1>1, <1>15 DEF Leave, NoteAway, PageCovers
<1>16. CASE Timeout \/ Reset \/ UserActs \/ UNCHANGED vars \/ \E m \in Msgs : Enter(m)
  BY <1>1, <1>16 DEF Timeout, Reset, UserActs, Enter, vars, PageCovers
<1>17. QED
  BY <1>4, <1>5, <1>6, <1>7, <1>8, <1>9, <1>10, <1>11, <1>12, <1>13, <1>14, <1>15,
     <1>16 DEF Next, Work, Fail, Exchange, Discard, Drop, Receive

\* An answer to an initial Sync without MoreAvailable holds every message that was
\* in the mailbox all along, for any number of requests in flight.
THEOREM FirstSyncIsComplete == Spec => []FirstSyncComplete
<1>1. Init => AwayInv /\ PageInv
  BY DEF Init, AwayInv, AwayNoted, PageInv, PageCovers, Idle, NoReply
<1>2. PageInv => FirstSyncComplete
  BY DEF PageInv, PageCovers, FirstSyncComplete
<1>3. QED
  BY <1>1, <1>2, AwayStep, PageStep, TypeCorrect, PTL DEF Spec

-----------------------------------------------------------------------------
(* One request at a time *)

OneRequest == \A p, q \in Reqs : p = q

\* What SerialInv says of a slot.
SlotInv(r) ==
  /\ WorksForDevice(r) /\ HoldsRecord(r) /\ LeadsToStored(r) /\ RefusalsAreEmpty(r)
  /\ h[r].pc = "reply" /\ waiting = r => h[r].reply.adds \cap has = {}

DeviceInv == FreshIsEmpty /\ DeviceTracked /\ NothingHidden

LEMMA SerialParts == SerialInv <=> TypeOK /\ DeviceInv /\ \A r \in Reqs : SlotInv(r)
BY DEF SerialInv, DeviceInv, SlotInv, NoReplayedAdds

\* An answer without changes preserves the invariant when nothing else moves.
LEMMA RefusalKeepsSlot ==
  ASSUME NEW r \in Reqs, TypeOK, DeviceInv, SlotInv(r), NEW s \in {3, 5}, Refuse(r, s),
         h[r].pc # "idle", UNCHANGED <<stored, device, told, carried>>
  PROVE  SlotInv(r)'
<1>1. h \in [Reqs -> Handler]
  BY DEF TypeOK
<1>2. /\ h'[r].pc = "reply" /\ h'[r].reply.status # 1
      /\ h'[r].reply.adds = {} /\ h'[r].reply.dels = {} /\ h'[r].key = h[r].key
  BY <1>1, RefuseEffect
<1>3. QED
  BY <1>2 DEF SlotInv, WorksForDevice, HoldsRecord, LeadsToStored, RefusalsAreEmpty, device

\* A step between two calls of a handler that keeps its record preserves it too.
LEMMA WorkKeepsSlot ==
  ASSUME NEW r \in Reqs, SlotInv(r), UNCHANGED <<stored, device, told, carried>>,
         h[r].pc \in {"load", "commands", "confirm", "put"},
         h'[r].pc \in {"commands", "confirm", "put"},
         h'[r].key = h[r].key, h'[r].reply = h[r].reply,
         \/ h'[r].prev = h[r].prev /\ h[r].pc # "load"
         \/ h'[r].prev = stored /\ h[r].key \in {0, stored.key}
         \/ h'[r].prev = NoRecord /\ h[r].key = 0
  PROVE  SlotInv(r)'
BY DEF SlotInv, WorksForDevice, HoldsRecord, LeadsToStored, RefusalsAreEmpty, device

\* Below the largest SyncKey the successor is a new key.
LEMMA NextKeyFacts ==
  ASSUME NEW k \in Key, k < MaxKey
  PROVE  next_sync_key(k) = k + 1 /\ next_sync_key(k) # k /\ next_sync_key(k) # 0
BY BoundAssumption DEF next_sync_key, Key

\* What a handler about to answer knows.
LEMMA ReadyToAnswer ==
  ASSUME NEW r \in Reqs, TypeOK, DeviceInv, SlotInv(r),
         h[r].pc \in {"commands", "confirm", "put"}
  PROVE  /\ h[r].key \in Key /\ h[r].key < MaxKey
         /\ ckey = h[r].key \/ (ckey = 0 /\ waiting # r)
         /\ h[r].key # 0 => h[r].prev = stored /\ stored.key = h[r].key
         /\ ckey = 0 => has = {} /\ told = {}
         /\ ckey # 0 => has \subseteq h[r].prev.seen
                        /\ h[r].prev.seen \subseteq told \cup carried
<1>1. h[r] \in Handler
  BY DEF TypeOK
<1>2. h[r].key \in Key
  BY <1>1 DEF Handler
<1>3. h[r].key # 0 => h[r].prev = stored /\ stored.key = h[r].key
  BY DEF SlotInv, HoldsRecord
<1>4. h[r].key < MaxKey /\ (ckey = h[r].key \/ (ckey = 0 /\ waiting # r))
  BY DEF SlotInv, WorksForDevice
<1>5. ckey # 0 => InSync /\ h[r].prev = stored
  BY <1>3, <1>4 DEF InSync
<1>6. QED
  BY <1>2, <1>3, <1>4, <1>5 DEF DeviceInv, FreshIsEmpty, DeviceTracked, NothingHidden

LEMMA PutChangesKeeps ==
  ASSUME NEW r \in Reqs, TypeOK, DeviceInv, SlotInv(r), PutChanges(r)
  PROVE  DeviceInv' /\ SlotInv(r)'
<1> DEFINE adds == emails_to_send(h[r].prev, h[r].key, h[r].page)
           dels == h[r].removed
           newKey == new_sync_key(h[r].key, adds, dels, h[r].applied)
           seen == seen_ids(h[r].prev, h[r].page, dels)
           rep == [status |-> 1, key |-> newKey, adds |-> adds, dels |-> dels,
                   more |-> h[r].key = 0 /\ h[r].more]
<1>1. /\ h[r].key \in Key /\ h[r].key < MaxKey
      /\ ckey = h[r].key \/ (ckey = 0 /\ waiting # r)
      /\ h[r].key # 0 => h[r].prev = stored /\ stored.key = h[r].key
      /\ ckey = 0 => has = {} /\ told = {}
      /\ ckey # 0 => has \subseteq h[r].prev.seen
                     /\ h[r].prev.seen \subseteq told \cup carried
  BY ReadyToAnswer DEF PutChanges
<1>2. /\ h'[r].pc = "reply" /\ h'[r].reply = rep /\ h'[r].key = h[r].key
      /\ stored' = [key |-> newKey, seen |-> seen]
      /\ carried' = IF h[r].key = 0 THEN h[r].prev.seen \ h[r].page ELSE carried
      /\ has' = has /\ ckey' = ckey /\ waiting' = waiting /\ told' = told
  BY AnswerEffect DEF PutChanges, TypeOK, device
<1>3. \/ newKey = h[r].key + 1 /\ newKey # h[r].key /\ newKey # 0
      \/ newKey = h[r].key /\ newKey # 0 /\ adds = {} /\ dels = {}
  BY <1>1, NextKeyFacts DEF new_sync_key
<1>4. adds = IF h[r].key = 0 THEN h[r].page ELSE h[r].page \ h[r].prev.seen
  BY DEF emails_to_send
<1>5. seen = (h[r].prev.seen \cup h[r].page) \ dels
  BY DEF seen_ids
<1>6. rep.status = 1 /\ rep.key = newKey /\ rep.adds = adds /\ rep.dels = dels
  OBVIOUS
<1>7. stored'.key = newKey /\ stored'.seen = seen
  BY <1>2
<1>8. waiting = r =>
        /\ (has \cup adds) \ dels \subseteq seen
        /\ seen \subseteq told \cup adds \cup carried'
        /\ adds \cap has = {}
  BY <1>1, <1>2, <1>4, <1>5
<1> HIDE DEF adds, dels, newKey, seen, rep
<1>9. InSync' => InSync /\ stored'.seen = stored.seen /\ carried' = carried
  <2>1. CASE newKey = h[r].key + 1 /\ newKey # h[r].key /\ newKey # 0
    BY <1>1, <1>2, <1>7, <2>1 DEF InSync
  <2>2. CASE newKey = h[r].key /\ newKey # 0 /\ adds = {} /\ dels = {}
    BY <1>1, <1>2, <1>4, <1>5, <1>7, <2>2 DEF InSync
  <2>3. QED
    BY <1>3, <2>1, <2>2
<1>10. DeviceInv'
  BY <1>2, <1>9 DEF DeviceInv, FreshIsEmpty, DeviceTracked, NothingHidden
<1>11. SlotInv(r)'
  BY <1>1, <1>2, <1>3, <1>6, <1>7, <1>8
     DEF SlotInv, WorksForDevice, HoldsRecord, LeadsToStored, RefusalsAreEmpty
<1>12. QED
  BY <1>10, <1>11

LEMMA AnswerNoChangesEffect ==
  ASSUME NEW r \in Reqs, TypeOK, NEW k \in Key, AnswerNoChanges(r, k)
  PROVE  /\ h'[r].pc = "reply" /\ h'[r].key = h[r].key
         /\ h'[r].reply.status = 1 /\ h'[r].reply.key = k
         /\ h'[r].reply.adds = {} /\ h'[r].reply.dels = {}
<1> DEFINE rep == [NoReply EXCEPT !.status = 1, !.key = k]
<1>1. rep.status = 1 /\ rep.key = k /\ rep.adds = {} /\ rep.dels = {}
  BY DEF NoReply
<1>2. Answer(r, rep)
  BY DEF AnswerNoChanges
<1> HIDE DEF rep
<1>3. QED
  BY <1>1, <1>2, AnswerEffect DEF TypeOK

LEMMA NoChangesKeeps ==
  ASSUME NEW r \in Reqs, TypeOK, DeviceInv, SlotInv(r), PutNoChanges(r) \/ SkipPut(r)
  PROVE  DeviceInv' /\ SlotInv(r)'
<1>1. /\ h[r].key \in Key /\ h[r].key < MaxKey
      /\ ckey = h[r].key \/ (ckey = 0 /\ waiting # r)
      /\ h[r].key # 0 => h[r].prev = stored /\ stored.key = h[r].key
      /\ ckey = 0 => has = {} /\ told = {}
      /\ ckey # 0 => has \subseteq h[r].prev.seen
                     /\ h[r].prev.seen \subseteq told \cup carried
  BY ReadyToAnswer DEF PutNoChanges, SkipPut, NoChanges
<1>2. UNCHANGED <<has, ckey, waiting, told>>
  BY DEF PutNoChanges, SkipPut, device
<1>3. CASE PutNoChanges(r)
  <2> DEFINE key == next_sync_key(h[r].key)
  <2>1. key = h[r].key + 1 /\ key # h[r].key /\ key # 0 /\ key \in Key
    BY <1>1, NextKeyFacts, Constructors
  <2>2. /\ stored' = [key |-> key, seen |-> h[r].prev.seen]
        /\ carried' = IF h[r].key = 0 THEN h[r].prev.seen ELSE carried
        /\ AnswerNoChanges(r, key)
    BY <1>3 DEF PutNoChanges
  <2> HIDE DEF key
  <2>3. /\ h'[r].pc = "reply" /\ h'[r].key = h[r].key
        /\ h'[r].reply.status = 1 /\ h'[r].reply.key = key
        /\ h'[r].reply.adds = {} /\ h'[r].reply.dels = {}
    BY <2>1, <2>2, AnswerNoChangesEffect
  <2>4. stored'.key = key /\ stored'.seen = h[r].prev.seen
    BY <2>2
  <2>5. ~InSync'
    BY <1>1, <1>2, <2>1, <2>4 DEF InSync
  <2>6. waiting = r => has \subseteq h[r].prev.seen
                       /\ h[r].prev.seen \subseteq told \cup carried'
    BY <1>1, <2>2
  <2>7. QED
    BY <1>1, <1>2, <2>1, <2>3, <2>4, <2>5, <2>6
       DEF DeviceInv, FreshIsEmpty, DeviceTracked, NothingHidden, SlotInv,
           WorksForDevice, HoldsRecord, LeadsToStored, RefusalsAreEmpty
<1>4. CASE SkipPut(r)
  <2>1. h[r].key # 0 /\ AnswerNoChanges(r, h[r].key) /\ UNCHANGED <<stored, carried>>
    BY <1>4 DEF SkipPut, Advance
  <2>2. /\ h'[r].pc = "reply" /\ h'[r].key = h[r].key
        /\ h'[r].reply.status = 1 /\ h'[r].reply.key = h[r].key
        /\ h'[r].reply.adds = {} /\ h'[r].reply.dels = {}
    BY <1>1, <2>1, AnswerNoChangesEffect
  <2>3. QED
    BY <1>1, <1>2, <2>1, <2>2
       DEF DeviceInv, FreshIsEmpty, DeviceTracked, NothingHidden, InSync, SlotInv,
           WorksForDevice, HoldsRecord, LeadsToStored, RefusalsAreEmpty
<1>5. QED
  BY <1>3, <1>4

LEMMA ReceiveKeeps ==
  ASSUME NEW r \in Reqs, TypeOK, DeviceInv, SlotInv(r), Receive(r)
  PROVE  DeviceInv' /\ SlotInv(r)'
<1>1. /\ h'[r] = Idle /\ waiting' = NoReq /\ waiting' # r
      /\ stored' = stored /\ carried' = carried
  BY FinishEffect, ReqsAssumption DEF Receive
<1>2. SlotInv(r)'
  BY <1>1 DEF SlotInv, WorksForDevice, HoldsRecord, LeadsToStored, RefusalsAreEmpty,
              Idle, NoReply
<1>3. CASE /\ h[r].reply.status = 1
           /\ has' = (has \cup h[r].reply.adds) \ h[r].reply.dels
           /\ told' = told \cup h[r].reply.adds
           /\ ckey' = h[r].reply.key
  <2>1. /\ stored.key = h[r].reply.key /\ h[r].reply.key # 0
        /\ (has \cup h[r].reply.adds) \ h[r].reply.dels \subseteq stored.seen
        /\ stored.seen \subseteq told \cup h[r].reply.adds \cup carried
    BY <1>3 DEF SlotInv, LeadsToStored, Receive
  <2>2. QED
    BY <1>1, <1>2, <1>3, <2>1 DEF DeviceInv, FreshIsEmpty, DeviceTracked, NothingHidden
<1>4. CASE has' = {} /\ told' = {} /\ ckey' = 0
  BY <1>2, <1>4 DEF DeviceInv, FreshIsEmpty, DeviceTracked, NothingHidden, InSync
<1>5. CASE UNCHANGED <<has, told, ckey>>
  BY <1>1, <1>2, <1>5 DEF DeviceInv, FreshIsEmpty, DeviceTracked, NothingHidden, InSync
<1>6. QED
  BY <1>3, <1>4, <1>5 DEF Receive

LEMMA SendKeeps ==
  ASSUME NEW r \in Reqs, NEW get, TypeOK, DeviceInv, SlotInv(r), SendSync(r, get)
  PROVE  DeviceInv' /\ SlotInv(r)'
<1>1. /\ h'[r].pc = "load" /\ h'[r].key = ckey /\ h'[r].reply = NoReply
  BY SendEffect DEF TypeOK
<1>2. UNCHANGED <<stored, has, ckey, told, carried>> /\ waiting' = r /\ ckey < MaxKey
  BY DEF SendSync
<1>3. NoReply.adds = {} /\ NoReply.dels = {} /\ NoReply.status = 0
  BY DEF NoReply
<1>4. QED
  BY <1>1, <1>2, <1>3
     DEF DeviceInv, FreshIsEmpty, DeviceTracked, NothingHidden, InSync,
         SlotInv, WorksForDevice, HoldsRecord, LeadsToStored, RefusalsAreEmpty

LEMMA FinishKeeps ==
  ASSUME NEW r \in Reqs, TypeOK, DeviceInv, Finish(r), waiting' # r,
         UNCHANGED <<stored, has, ckey, told, carried>>
  PROVE  DeviceInv' /\ SlotInv(r)'
<1>1. h'[r] = Idle
  BY FinishEffect
<1>2. QED
  BY <1>1 DEF DeviceInv, FreshIsEmpty, DeviceTracked, NothingHidden, InSync,
              SlotInv, WorksForDevice, HoldsRecord, LeadsToStored, RefusalsAreEmpty,
              Idle, NoReply

\* Steps of handler r between its start and its answer.
LEMMA HandlerKeeps ==
  ASSUME NEW r \in Reqs, TypeOK, DeviceInv, SlotInv(r), Work(r) \/ Fail(r)
  PROVE  DeviceInv' /\ SlotInv(r)'
<1> USE DEF device
<1>1. h \in [Reqs -> Handler]
  BY DEF TypeOK
<1>2. ASSUME UNCHANGED <<stored, device, told, carried>> PROVE DeviceInv'
  BY <1>2 DEF DeviceInv, FreshIsEmpty, DeviceTracked, NothingHidden, InSync
<1>3. CASE Load(r) \/ LoadFails(r)
  <2>1. PICK rec \in {stored, NoRecord} : CheckKey(r, rec)
    BY <1>3 DEF Load, LoadFails
  <2>2. h[r].pc = "load" /\ UNCHANGED <<stored, device, told, carried>>
    BY <1>3 DEF Load, LoadFails
  <2>3. CASE Refuse(r, 3)
    BY <1>2, <2>2, <2>3, RefusalKeepsSlot
  <2>4. CASE ~Refuse(r, 3)
    <3>1. h[r].key = 0 \/ h[r].key = rec.key
      BY <2>1, <2>4 DEF CheckKey
    <3>2. h' = [h EXCEPT ![r] = [h[r] EXCEPT !.pc = "commands", !.prev = rec]]
      BY <2>1, <2>4 DEF CheckKey
    <3>3. h'[r] = [h[r] EXCEPT !.pc = "commands", !.prev = rec] /\ h[r] \in Handler
      BY <1>1, <3>2
    <3>4. /\ h'[r].pc = "commands" /\ h'[r].prev = rec
          /\ h'[r].key = h[r].key /\ h'[r].reply = h[r].reply
      BY <3>3 DEF Handler
    <3>5. h[r].key \in {0, stored.key} \/ (rec = NoRecord /\ h[r].key = 0)
      BY <3>1 DEF NoRecord
    <3>6. QED
      BY <1>2, <2>1, <2>2, <3>1, <3>4, <3>5, WorkKeepsSlot DEF NoRecord
  <2>5. QED
    BY <2>3, <2>4
<1>4. CASE ApplyCommand(r) \/ CommandRejected(r)
  <2>1. NextCommand(r) /\ h[r].pc = "commands" /\ UNCHANGED <<stored, device, told, carried>>
    BY <1>4 DEF ApplyCommand, CommandRejected
  <2>2. QED
    BY <1>1, <1>2, <2>1, NextCommandEffect, WorkKeepsSlot
<1>5. CASE JmapFails(r) \/ PutFails(r)
  <2>1. Refuse(r, 5) /\ h[r].pc # "idle" /\ UNCHANGED <<stored, device, told, carried>>
    BY <1>5 DEF JmapFails, PutFails, NoChanges
  <2>2. QED
    BY <1>2, <2>1, RefusalKeepsSlot
<1>6. CASE QueryWindow(r)
  <2>1. h[r].pc = "commands" /\ UNCHANGED <<stored, device, told, carried>>
    BY <1>6 DEF QueryWindow
  <2>2. QED
    BY <1>1, <1>2, <1>6, <2>1, QueryEffect, WorkKeepsSlot
<1>7. CASE ConfirmMissing(r) \/ ConfirmFails(r)
  <2>1. h[r].pc = "confirm" /\ UNCHANGED <<stored, device, told, carried>>
    BY <1>7 DEF ConfirmMissing, ConfirmFails
  <2>2. /\ h'[r].pc = "put" /\ h'[r].key = h[r].key
        /\ h'[r].prev = h[r].prev /\ h'[r].reply = h[r].reply
    BY <1>1, <1>7, ConfirmEffect
  <2>3. QED
    BY <1>2, <2>1, <2>2, WorkKeepsSlot
<1>8. CASE Discard(r) \/ Drop(r)
  <2>1. Finish(r) /\ waiting' # r /\ UNCHANGED <<stored, has, ckey, told, carried>>
    BY <1>8, ReqsAssumption DEF Discard, Drop
  <2>2. QED
    BY <2>1, FinishKeeps
<1>9. QED
  BY <1>3, <1>4, <1>5, <1>6, <1>7, <1>8, PutChangesKeeps, NoChangesKeeps DEF Work, Fail

\* Steps of the device, the mail server and the process as a whole.
LEMMA EnvironmentKeeps ==
  ASSUME NEW r \in Reqs, TypeOK, DeviceInv, SlotInv(r),
         \/ Restart \/ Timeout \/ Reset \/ UserActs \/ UNCHANGED vars
         \/ \E m \in Msgs : Enter(m) \/ Leave(m)
  PROVE  DeviceInv' /\ SlotInv(r)'
<1> USE DEF device, DeviceInv, FreshIsEmpty, DeviceTracked, NothingHidden, InSync,
            SlotInv, WorksForDevice, HoldsRecord, LeadsToStored, RefusalsAreEmpty
<1>1. CASE Restart
  <2>1. h'[r] = Idle /\ waiting' # r /\ UNCHANGED <<has, ckey, told, carried>>
    BY <1>1, ReqsAssumption DEF Restart
  <2>2. stored' = stored \/ stored' = NoRecord
    BY <1>1 DEF Restart
  <2>3. QED
    BY <2>1, <2>2 DEF NoRecord, Idle, NoReply
<1>2. CASE Timeout
  BY <1>2, ReqsAssumption DEF Timeout
<1>3. CASE Reset
  BY <1>3, ReqsAssumption DEF Reset
<1>4. CASE UserActs
  <2>1. has' \subseteq has /\ UNCHANGED <<stored, h, ckey, waiting, told, carried>>
    BY <1>4 DEF UserActs
  <2>2. QED
    BY <2>1
<1>5. CASE UNCHANGED vars
  BY <1>5 DEF vars
<1>6. CASE \E m \in Msgs : Enter(m) \/ Leave(m)
  <2>1. UNCHANGED <<stored, h, device, told, carried>>
    BY <1>6 DEF Enter, Leave
  <2>2. QED
    BY <2>1
<1>7. QED
  BY <1>1, <1>2, <1>3, <1>4, <1>5, <1>6

LEMMA SerialStep ==
  ASSUME OneRequest
  PROVE  SerialInv /\ [Next]_vars => SerialInv'
<1> SUFFICES ASSUME SerialInv, [Next]_vars PROVE SerialInv'
  OBVIOUS
<1>1. TypeOK /\ DeviceInv /\ \A r \in Reqs : SlotInv(r)
  BY SerialParts
<1>2. TypeOK'
  BY <1>1, TypeStep
<1>3. ASSUME NEW r \in Reqs PROVE DeviceInv' /\ SlotInv(r)'
  <2>1. \A p \in Reqs : p = r
    BY OneRequest DEF OneRequest
  <2>2. CASE Work(r) \/ Fail(r)
    BY <1>1, <2>2, HandlerKeeps
  <2>3. CASE Exchange(r)
    BY <1>1, <2>3, ReceiveKeeps, SendKeeps DEF Exchange
  <2>4. CASE \/ Restart \/ Timeout \/ Reset \/ UserActs \/ UNCHANGED vars
             \/ \E m \in Msgs : Enter(m) \/ Leave(m)
    BY <1>1, <2>4, EnvironmentKeeps
  <2>5. QED
    BY <2>1, <2>2, <2>3, <2>4 DEF Next
<1>4. QED
  BY <1>2, <1>3, ReqsAssumption DEF SerialInv, DeviceInv, SlotInv, NoReplayedAdds

\* With one request at a time, the stored record, the handler, the answer on its
\* way and the device fit together at every step, whatever fails in between.
THEOREM SerialInvariant ==
  ASSUME OneRequest
  PROVE  Spec => []SerialInv
<1>1. Init => TypeOK
  BY Constructors DEF Init, TypeOK, NoRecord, Record, Key
<1>2. Init => SerialInv
  BY <1>1, ReqsAssumption
     DEF Init, SerialInv, FreshIsEmpty, DeviceTracked, NothingHidden, InSync,
         NoReplayedAdds, WorksForDevice, HoldsRecord, LeadsToStored, RefusalsAreEmpty,
         Idle, NoReply
<1>3. QED
  BY <1>2, SerialStep, PTL DEF Spec

\* With one request at a time, every message the device shows under the stored
\* SyncKey is tracked by the gateway, whatever fails in between.
THEOREM DeviceIsTracked ==
  ASSUME OneRequest
  PROVE  Spec => []DeviceTracked
<1>1. SerialInv => DeviceTracked
  BY DEF SerialInv
<1>2. QED
  BY <1>1, SerialInvariant, PTL

\* With one request at a time, no message the device was never given counts as
\* seen under its SyncKey, but for what an initial Sync carried over.
THEOREM NoMailHidden ==
  ASSUME OneRequest
  PROVE  Spec => []NothingHidden
<1>1. SerialInv => NothingHidden
  BY DEF SerialInv
<1>2. QED
  BY <1>1, SerialInvariant, PTL

\* With one request at a time, no answer adds a message the device shows.
THEOREM AddsAreNew ==
  ASSUME OneRequest
  PROVE  Spec => []NoReplayedAdds
<1>1. SerialInv => NoReplayedAdds
  BY DEF SerialInv
<1>2. QED
  BY <1>1, SerialInvariant, PTL

LEMMA KeyStep ==
  ASSUME OneRequest
  PROVE  SerialInv /\ [Next]_vars =>
           (stored'.key = stored.key /\ stored.key > 1 => stored'.seen = stored.seen)
<1> SUFFICES ASSUME SerialInv, [Next]_vars, stored'.key = stored.key, stored.key > 1,
                    stored' # stored
             PROVE  stored'.seen = stored.seen
  OBVIOUS
<1>1. TypeOK /\ DeviceInv /\ \A r \in Reqs : SlotInv(r)
  BY SerialParts
<1>2. PICK r \in Reqs : PutChanges(r) \/ PutNoChanges(r)
  <2>1. ~Restart
    BY DEF Restart, NoRecord
  <2>2. QED
    BY <2>1 DEF Next, Work, Fail, Exchange, Load, LoadFails, ApplyCommand, CommandRejected,
         JmapFails, QueryWindow, ConfirmMissing, ConfirmFails, SkipPut, PutFails, Discard,
         Drop, Receive, SendSync, Timeout, Reset, UserActs, Enter, Leave, vars
<1>3. /\ h[r].key \in Key /\ h[r].key < MaxKey
      /\ h[r].key # 0 => h[r].prev = stored /\ stored.key = h[r].key
  BY <1>1, <1>2, ReadyToAnswer DEF PutChanges, PutNoChanges, NoChanges
<1>4. next_sync_key(h[r].key) = h[r].key + 1
  BY <1>3, NextKeyFacts
<1>5. h[r].key # 0
  BY <1>2, <1>3, <1>4 DEF PutChanges, PutNoChanges, new_sync_key
<1>6. CASE PutNoChanges(r)
  BY <1>3, <1>4, <1>5, <1>6 DEF PutNoChanges, Key
<1>7. CASE PutChanges(r)
  <2> DEFINE adds == emails_to_send(h[r].prev, h[r].key, h[r].page)
             dels == h[r].removed
             newKey == new_sync_key(h[r].key, adds, dels, h[r].applied)
  <2>1. stored'.key = newKey /\ stored'.seen = seen_ids(h[r].prev, h[r].page, dels)
    BY <1>7 DEF PutChanges
  <2>2. newKey # h[r].key + 1
    BY <1>3, <1>5, <2>1 DEF Key
  <2>3. adds = {} /\ dels = {}
    BY <1>4, <2>2 DEF new_sync_key
  <2>4. adds = h[r].page \ h[r].prev.seen
    BY <1>5 DEF emails_to_send
  <2>5. stored'.seen = h[r].prev.seen
    BY <2>1, <2>3, <2>4 DEF seen_ids
  <2>6. QED
    BY <1>3, <1>5, <2>5
<1>8. QED
  BY <1>2, <1>6, <1>7

\* With one request at a time, a SyncKey above "1" names one seen set: no two
\* records of the device share it.
THEOREM KeysNameStates ==
  ASSUME OneRequest
  PROVE  Spec => KeyNamesState
<1>1. SerialInv /\ [Next]_vars =>
        [stored'.key = stored.key /\ stored.key > 1 => stored'.seen = stored.seen]_vars
  BY KeyStep
<1>2. QED
  BY <1>1, SerialInvariant, PTL DEF Spec, KeyNamesState

-----------------------------------------------------------------------------
(* Acknowledged read marks *)

\* A step that changes neither flags nor commands.
LEMMA MarksKept ==
  ASSUME NEW r \in Reqs, MarksInHand(r),
         UNCHANGED <<read, destroyed>>, h'[r].cmds = h[r].cmds, h'[r].todo = h[r].todo
  PROVE  MarksInHand(r)'
<1>1. Done(r)' = Done(r)
  BY DEF Done
<1>2. \A m, i : LastMark(r, m, i)' <=> LastMark(r, m, i)
  BY <1>1 DEF LastMark, Marks
<1>3. QED
  BY <1>1, <1>2 DEF MarksInHand

\* A new request has marked nothing yet, and an idle slot has no marks.
LEMMA MarksFresh ==
  ASSUME NEW r \in Reqs, NEW c \in Seq(Command), h'[r].cmds = c, h'[r].todo = c
  PROVE  MarksInHand(r)'
<1>1. Len(c) \in Nat /\ DOMAIN c = 1 .. Len(c)
  OBVIOUS
<1>2. Done(r)' = 0
  BY <1>1 DEF Done
<1>3. \A i \in DOMAIN c : c[i] = c[0 + i]
  BY <1>1
<1>4. \A m : \A i \in DOMAIN c : ~LastMark(r, m, i)'
  BY <1>1, <1>2 DEF LastMark
<1>5. QED
  BY <1>2, <1>3, <1>4 DEF MarksInHand

\* Applying a command moves it from those to do to those done.
LEMMA MarksApply ==
  ASSUME NEW r \in Reqs, TypeOK, MarksInHand(r), ApplyCommand(r)
  PROVE  MarksInHand(r)'
<1>0. h[r].cmds \in Seq(Command) /\ h[r].todo \in Seq(Command)
  BY DEF TypeOK, Handler
<1>c. PICK cmds \in Seq(Command) : cmds = h[r].cmds
  BY <1>0
<1>t. PICK todo \in Seq(Command) : todo = h[r].todo
  BY <1>0
<1>1. todo # <<>>
  BY <1>t DEF ApplyCommand
<1>2. h'[r].cmds = cmds /\ h'[r].todo = Tail(todo)
  BY <1>c, <1>t, NextCommandEffect DEF TypeOK, ApplyCommand
<1>3. /\ Len(cmds) \in Nat /\ DOMAIN cmds = 1 .. Len(cmds)
      /\ Len(todo) \in Nat \ {0} /\ DOMAIN todo = 1 .. Len(todo)
      /\ Len(Tail(todo)) = Len(todo) - 1 /\ DOMAIN Tail(todo) = 1 .. Len(todo) - 1
      /\ \A i \in 1 .. Len(todo) - 1 : Tail(todo)[i] = todo[i + 1]
      /\ Head(todo) = todo[1]
  BY <1>1
<1>d. PICK d \in Nat : d = Done(r) /\ d = Len(cmds) - Len(todo)
  <2>1. Done(r) = Len(cmds) - Len(todo)
    BY <1>c, <1>t DEF Done
  <2>2. Done(r) >= 0
    BY DEF MarksInHand
  <2>3. Done(r) \in Nat
    BY <1>3, <2>1, <2>2
  <2>4. QED
    BY <2>1, <2>3
<1>4. Done(r)' = d + 1
  <2>1. Done(r)' = Len(cmds) - Len(Tail(todo))
    BY <1>2 DEF Done
  <2>2. Len(cmds) - Len(Tail(todo)) = d + 1
    BY <1>3, <1>d
  <2>3. QED
    BY <2>1, <2>2
<1>m. /\ \A i \in DOMAIN todo : todo[i] = cmds[d + i]
      /\ \A m \in Msgs \ destroyed : \A i \in DOMAIN cmds :
           LastMark(r, m, i) => (m \in read <=> cmds[i].op = "Read")
  BY <1>c, <1>t, <1>d DEF MarksInHand
<1> DEFINE k == d + 1
<1>5. k \in DOMAIN cmds /\ cmds[k] = Head(todo)
  BY <1>3, <1>d, <1>m
<1>6. PICK c \in Command : c = cmds[k]
  BY <1>5, ElementOfSeq
<1>7. /\ c.op \in {"Delete", "Read", "Unread"}
      /\ c.op = "Delete" => destroyed' = destroyed \cup {c.id} /\ read' = read
      /\ c.op # "Delete" =>
           /\ destroyed' = destroyed
           /\ read' = IF c.op = "Read" /\ c.id \notin destroyed
                        THEN read \cup {c.id} ELSE read \ {c.id}
  BY <1>5, <1>6, <1>t DEF ApplyCommand, EmailSet, Command
<1>8. ASSUME NEW i \in DOMAIN Tail(todo)
      PROVE  Tail(todo)[i] = cmds[k + i]
  <2>1. i + 1 \in DOMAIN todo /\ Tail(todo)[i] = todo[i + 1] /\ i \in Nat
    BY <1>3
  <2>2. d + (i + 1) = k + i
    BY <2>1
  <2>3. QED
    BY <1>m, <2>1, <2>2
<1>9. ASSUME NEW m \in Msgs \ destroyed', NEW i \in DOMAIN cmds, LastMark(r, m, i)'
      PROVE  m \in read' <=> cmds[i].op = "Read"
  <2>1. /\ i \in Marks(cmds, m) /\ i <= k
        /\ \A j \in Marks(cmds, m) : j <= k => j <= i
    BY <1>2, <1>4, <1>9 DEF LastMark
  <2>2. m \in Msgs \ destroyed
    BY <1>7
  <2>3. CASE k \in Marks(cmds, m)
    <3>1. i = k
      BY <1>3, <1>d, <2>1, <2>3 DEF Marks
    <3>2. c.id = m /\ c.op # "Delete"
      BY <1>6, <2>3 DEF Marks
    <3>3. QED
      BY <1>6, <1>7, <2>2, <3>1, <3>2
  <2>4. CASE k \notin Marks(cmds, m)
    <3>1. i <= d
      BY <1>3, <1>d, <2>1, <2>4 DEF Marks
    <3>2. \A j \in Marks(cmds, m) : j <= d => j <= k
      BY <1>3, <1>d DEF Marks
    <3>3. LastMark(r, m, i)
      BY <1>c, <1>d, <2>1, <3>1, <3>2 DEF LastMark
    <3>4. m \in read <=> cmds[i].op = "Read"
      BY <1>m, <2>2, <3>3
    <3>5. c.op = "Delete" \/ c.id # m
      BY <1>5, <1>6, <2>4 DEF Marks
    <3>6. m \in read' <=> m \in read
      BY <1>7, <3>5
    <3>7. QED
      BY <3>4, <3>6
  <2>5. QED
    BY <2>3, <2>4
<1>10. QED
  BY <1>2, <1>4, <1>d, <1>8, <1>9 DEF MarksInHand

LEMMA MarksStep ==
  ASSUME OneRequest, "reject" \notin Faults
  PROVE  TypeOK /\ MarksInv /\ [Next]_vars => MarksInv'
<1> SUFFICES ASSUME TypeOK, MarksInv, [Next]_vars, NEW r \in Reqs
             PROVE  MarksInHand(r)'
  BY DEF MarksInv
<1> USE DEF server, device
<1>1. h \in [Reqs -> Handler] /\ pending \in Seq(Command) /\ MarksInHand(r)
  BY DEF TypeOK, MarksInv
<1>2. \A p \in Reqs : p = r
  BY DEF OneRequest
<1>3. CASE Load(r) \/ LoadFails(r)
  <2>1. PICK rec : CheckKey(r, rec)
    BY <1>3 DEF Load, LoadFails
  <2>2. QED
    BY <1>1, <1>3, <2>1, CheckKeyEffect, MarksKept DEF Load, LoadFails
<1>4. CASE ApplyCommand(r)
  BY <1>1, <1>4, MarksApply
<1>5. CASE JmapFails(r) \/ PutFails(r)
  BY <1>1, <1>5, RefuseEffect, MarksKept DEF JmapFails, PutFails
<1>6. CASE QueryWindow(r)
  BY <1>1, <1>6, QueryEffect, MarksKept DEF QueryWindow
<1>7. CASE ConfirmMissing(r) \/ ConfirmFails(r)
  BY <1>1, <1>7, ConfirmEffect, MarksKept DEF ConfirmMissing, ConfirmFails
<1>8. CASE PutChanges(r) \/ PutNoChanges(r) \/ SkipPut(r)
  <2>1. PICK rep : Answer(r, rep)
    BY <1>8 DEF PutChanges, PutNoChanges, SkipPut, AnswerNoChanges
  <2>2. QED
    BY <1>1, <1>8, <2>1, AnswerEffect, MarksKept DEF PutChanges, PutNoChanges, SkipPut
<1>9. ASSUME h'[r] = Idle PROVE MarksInHand(r)'
  <2>1. Idle.cmds = <<>> /\ Idle.todo = <<>> /\ <<>> \in Seq(Command)
    BY DEF Idle
  <2>2. QED
    BY <1>9, <2>1, MarksFresh
<1>10. CASE Discard(r) \/ Drop(r) \/ Receive(r) \/ Restart
  BY <1>9, <1>10, FinishEffect DEF Discard, Drop, Receive, Restart
<1>11. ASSUME NEW get \in GetChanges, SendSync(r, get) PROVE MarksInHand(r)'
  BY <1>1, <1>11, SendEffect, MarksFresh
<1>12. CASE Timeout \/ Reset \/ UserActs \/ UNCHANGED vars \/ \E m \in Msgs : Enter(m) \/ Leave(m)
  BY <1>1, <1>12, MarksKept DEF Timeout, Reset, UserActs, vars, Enter, Leave
<1>13. QED
  BY <1>2, <1>3, <1>4, <1>5, <1>6, <1>7, <1>8, <1>10, <1>11, <1>12
     DEF Next, Work, Fail, Exchange, CommandRejected

\* With one request at a time, and unless the mail server refuses them one by one,
\* the read marks of a request are done when it is acknowledged, the last of each
\* message counting, whatever was retried.
THEOREM AcknowledgedMarksAreDone ==
  ASSUME OneRequest, "reject" \notin Faults
  PROVE  Spec => []AckedMarksDone
<1>1. Init => DeletesInv /\ MarksInv
  <2>1. Idle.pc = "idle" /\ Idle.cmds = <<>> /\ Idle.todo = <<>>
    BY DEF Idle
  <2>2. ASSUME Init PROVE DeletesInv /\ MarksInv
    <3>1. \A r \in Reqs : h[r] = Idle
      BY <2>2 DEF Init
    <3>2. DeletesInv
      BY <2>1, <3>1 DEF DeletesInv, DeletesInHand
    <3>3. ASSUME NEW r \in Reqs PROVE MarksInHand(r)
      <4>1. h[r].cmds = <<>> /\ h[r].todo = <<>>
        BY <2>1, <3>1
      <4>2. Len(<<>>) = 0 /\ DOMAIN <<>> = {}
        OBVIOUS
      <4>3. QED
        BY <4>1, <4>2 DEF MarksInHand, Done
    <3>4. QED
      BY <3>2, <3>3 DEF MarksInv
  <2>3. QED
    BY <2>2
<1>2. TypeOK /\ DeletesInv /\ MarksInv => AckedMarksDone
  <2> SUFFICES ASSUME TypeOK, DeletesInv, MarksInv,
                      NEW r \in Reqs, NEW m \in Msgs \ destroyed,
                      h[r].pc = "reply", h[r].reply.status = 1,
                      NEW i \in Marks(h[r].cmds, m),
                      \A j \in Marks(h[r].cmds, m) : j <= i
               PROVE  m \in read <=> h[r].cmds[i].op = "Read"
    BY DEF AckedMarksDone
  <2>1. h[r].cmds \in Seq(Command) /\ h[r].todo = <<>>
    BY DEF TypeOK, Handler, DeletesInv, DeletesInHand
  <2>2. /\ Len(h[r].cmds) \in Nat /\ DOMAIN h[r].cmds = 1 .. Len(h[r].cmds)
        /\ Len(h[r].todo) = 0
    BY <2>1
  <2>3. i \in DOMAIN h[r].cmds /\ LastMark(r, m, i)
    BY <2>2 DEF LastMark, Marks, Done
  <2>4. QED
    BY <2>3 DEF MarksInv, MarksInHand
<1>3. QED
  BY <1>1, <1>2, DeletesStep, MarksStep, TypeCorrect, PTL DEF Spec

=============================================================================
