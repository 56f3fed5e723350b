----------------------------- MODULE ItemProofs -----------------------------
(***************************************************************************)
(* For every collection, window, number of drafts and set of faults: what  *)
(* a device in sync shows is what the item states say, it gets no echo of  *)
(* its own writes, and with a window that holds the collection it is told  *)
(* to delete nothing that was there throughout.                            *)
(***************************************************************************)
EXTENDS ItemSync, FiniteSetTheorems, TLAPS

-----------------------------------------------------------------------------
(* Types *)

LEMMA EmptyTypes == Empty \in View /\ NoReply \in Reply /\ Idle \in Handler
<1>1. 0 \in Key
  BY BoundsAssumption DEF Key
<1>2. Empty \in View
  BY DEF Empty, View, Content
<1>3. NoReply \in Reply
  BY <1>1, <1>2 DEF NoReply, Reply
<1>4. Idle \in Handler
  BY <1>1, <1>2, <1>3 DEF Idle, Handler, PCs
<1> QED
  BY <1>2, <1>3, <1>4

LEMMA CommandTypes == TypeOK => Commands \subseteq Command
<1> SUFFICES ASSUME TypeOK, NEW c \in Commands PROVE c \in Command
  OBVIOUS
<1>1. CASE \E d \in Drafts : drafts[d] # None /\ c = [op |-> "Add", client |-> d, val |-> drafts[d]]
  BY <1>1 DEF TypeOK, Command, Content
<1>2. CASE \E i \in dirty : has[i] # None /\ c = [op |-> "Change", id |-> i, val |-> has[i]]
  BY <1>2 DEF TypeOK, Command, Content, View
<1>3. CASE \E i \in dirty : c = [op |-> "Delete", id |-> i]
  BY <1>3 DEF TypeOK, Command
<1> QED
  BY <1>1, <1>2, <1>3 DEF Commands

LEMMA CommandFields ==
  ASSUME NEW c \in Command
  PROVE  /\ c.op = "Add" => c.client \in Drafts /\ c.val \in Vals
         /\ c.op = "Change" => c.id \in Items /\ c.val \in Vals
         /\ c.op = "Delete" => c.id \in Items
BY DEF Command

LEMMA ListingTypes == ASSUME NEW view \in View PROVE Listing(view) \in View
BY DEF View, Content, Listing

LEMMA KeyTypes == TypeOK => NewKey \in Key
BY BoundsAssumption DEF TypeOK, Handler, NewKey, next_sync_key, Key

LEMMA DiffTypes ==
  TypeOK => /\ Written \subseteq Items /\ ToAdd \subseteq Items /\ ToChange \subseteq Items
            /\ ToRemove \subseteq Items
<1> SUFFICES ASSUME TypeOK PROVE Written \subseteq Items
  BY DEF ToAdd, ToChange, ToRemove, to_add, to_change, to_remove, Ids
<1>1. \A a \in h.added : a.id \in Items \cup {None}
  BY DEF TypeOK, Handler, Added
<1>2. \A c \in h.changed : c.id \in Items
  BY DEF TypeOK, Handler, Changed
<1> QED
  BY <1>1, <1>2 DEF Written, just_written

LEMMA MissedTypes == TypeOK => Missed \subseteq Items /\ Unsaved \subseteq Items
<1> SUFFICES ASSUME TypeOK PROVE Missed \subseteq Items
  BY DEF Unsaved, TypeOK
<1>1. \A a \in h.added : a.id \in Items \cup {None}
  BY DEF TypeOK, Handler, Added
<1>2. \A c \in h.changed : c.id \in Items
  BY DEF TypeOK, Handler, Changed
<1>3. Swallowed \subseteq Items
  BY <1>1, <1>2 DEF Swallowed
<1>4. Carried \subseteq Items /\ Undeleted \subseteq Items /\ Forgotten \subseteq Items
  BY DEF Carried, Undeleted, Forgotten, TypeOK, Handler, Ids
<1>5. Unasked \subseteq Items
  BY DiffTypes DEF Unasked
<1> QED
  BY <1>3, <1>4, <1>5 DEF Missed, TypeOK

LEMMA ShownTypes ==
  ASSUME TypeOK, NEW i \in Items PROVE Shown(h.reply, i) \in Content
<1> DEFINE A == {a \in h.reply.added : a.id = i}
<1>1. h.reply.puts \in View /\ h.reply.added \subseteq Added /\ has \in View
  BY DEF TypeOK, Handler, Reply
<1>2. ASSUME \E a \in h.reply.added : a.id = i
      PROVE  (CHOOSE a \in h.reply.added : a.id = i).val \in Vals
  BY <1>1, <1>2 DEF Added
<1> QED
  BY <1>1, <1>2 DEF Shown, View, Content

LEMMA AnswerTypes ==
  ASSUME TypeOK, NEW rep \in Reply, Answer(rep) PROVE h' \in Handler
BY EmptyTypes DEF Answer, Idle, TypeOK, Handler, PCs

LEMMA RefuseTypes ==
  ASSUME TypeOK, NEW status \in {1, 3, 5}, Refuse(status) PROVE h' \in Handler
<1>1. [NoReply EXCEPT !.status = status, !.key = h.key] \in Reply
  BY EmptyTypes DEF TypeOK, Handler, Reply
<1> QED
  BY <1>1, AnswerTypes DEF Refuse

LEMMA AnswerItemsTypes ==
  ASSUME TypeOK, AnswerItems PROVE h' \in Handler
<1> DEFINE rep == [status |-> 1, key |-> NewKey, added |-> h.added, changed |-> h.changed,
                   puts |-> [i \in Items |->
                      IF h.get /\ i \in ToAdd \cup ToChange THEN h.list[i] ELSE None],
                   dels |-> IF h.get THEN ToRemove ELSE {}]
<1>1. rep.puts \in View
  BY DEF TypeOK, Handler, View, Content
<1>2. rep \in Reply
  BY <1>1, KeyTypes, DiffTypes DEF TypeOK, Handler, Reply
<1>3. Answer(rep)
  BY DEF AnswerItems
<1> HIDE DEF rep
<1> QED
  BY <1>2, <1>3, AnswerTypes

LEMMA ChangeDoneTypes ==
  ASSUME TypeOK, NEW c, c.id \in Items, c.val \in Vals, NEW ok \in BOOLEAN, ChangeDone(c, ok)
  PROVE  h' \in Handler
<1> DEFINE d == [id |-> c.id, ok |-> ok, val |-> c.val]
<1>1. d \in Changed
  BY DEF Changed
<1>2. h' = [h EXCEPT !.todo = @ \ {c}, !.changed = @ \cup {d}]
  BY DEF ChangeDone
<1> HIDE DEF d
<1> QED
  BY <1>1, <1>2 DEF TypeOK, Handler

LEMMA WorkTypes == TypeOK /\ Work => TypeOK'
<1> SUFFICES ASSUME TypeOK, Work PROVE TypeOK'
  OBVIOUS
<1>1. CASE Load
  BY <1>1, RefuseTypes DEF Load, TypeOK, Handler, PCs, server, store, device, history
<1>2. CASE ApplyAdd
  <2>1. PICK c \in h.todo, i \in Items \ born :
          /\ c.op = "Add"
          /\ items' = [items EXCEPT ![i] = c.val] /\ born' = born \cup {i}
          /\ h' = [h EXCEPT !.todo = @ \ {c},
                            !.added = @ \cup {[client |-> c.client, id |-> i, val |-> c.val]}]
    BY <1>2 DEF ApplyAdd
  <2>2. c.client \in Drafts /\ c.val \in Vals
    BY <2>1, CommandFields DEF TypeOK, Handler
  <2> DEFINE a == [client |-> c.client, id |-> i, val |-> c.val]
  <2>3. a \in Added
    BY <2>2 DEF Added
  <2>4. h' = [h EXCEPT !.todo = @ \ {c}, !.added = @ \cup {a}]
    BY <2>1
  <2> HIDE DEF a
  <2>5. h' \in Handler
    BY <2>3, <2>4 DEF TypeOK, Handler
  <2>6. items' \in View
    BY <2>1, <2>2 DEF TypeOK, View, Content
  <2> QED
    BY <1>2, <2>1, <2>5, <2>6 DEF ApplyAdd, TypeOK, store, device, history
<1>3. CASE ApplyChange
  <2>1. PICK c \in h.todo : c.op = "Change" /\ items' = [items EXCEPT ![c.id] = c.val] /\ ChangeDone(c, TRUE)
    BY <1>3 DEF ApplyChange
  <2>2. c.id \in Items /\ c.val \in Vals
    BY <2>1, CommandFields DEF TypeOK, Handler
  <2>3. h' \in Handler
    BY <2>1, <2>2, ChangeDoneTypes
  <2>4. items' \in View
    BY <2>1, <2>2 DEF TypeOK, View, Content
  <2> QED
    BY <1>3, <2>3, <2>4 DEF ApplyChange, TypeOK, store, device, history
<1>4. CASE ApplyDelete
  <2>1. PICK c \in h.todo :
          /\ c.op = "Delete" /\ items' = [items EXCEPT ![c.id] = None] /\ away' = away \cup {c.id}
          /\ h' = [h EXCEPT !.todo = @ \ {c}, !.prev[c.id] = None]
    BY <1>4 DEF ApplyDelete
  <2>2. c.id \in Items
    BY <2>1, CommandFields DEF TypeOK, Handler
  <2>3. h' \in Handler /\ items' \in View /\ away' \subseteq Items
    BY <2>1, <2>2 DEF TypeOK, Handler, View, Content
  <2> QED
    BY <1>4, <2>3 DEF ApplyDelete, TypeOK, store, device
<1>5. CASE List
  BY <1>5, ListingTypes DEF List, TypeOK, Handler, PCs, server, store, device, history
<1>6. CASE PutRecord
  BY <1>6, KeyTypes DEF PutRecord, TypeOK, Handler, PCs, server, device, history
<1>7. CASE PutItems
  <2>1. h' \in Handler /\ h.list \in View
    BY <1>7, AnswerItemsTypes DEF PutItems, TypeOK, Handler
  <2> QED
    BY <1>7, <2>1, MissedTypes DEF PutItems, TypeOK, server, device
<1> QED
  BY <1>1, <1>2, <1>3, <1>4, <1>5, <1>6, <1>7 DEF Work

LEMMA FailTypes == TypeOK /\ Fail => TypeOK'
<1> SUFFICES ASSUME TypeOK, Fail PROVE TypeOK'
  OBVIOUS
<1>1. CASE LoadFails
  BY <1>1, RefuseTypes DEF LoadFails, TypeOK, Handler, PCs, server, store, device, history
<1>2. CASE AddFails
  <2>1. PICK c \in h.todo :
          /\ c.op = "Add"
          /\ h' = [h EXCEPT !.todo = @ \ {c},
                            !.added = @ \cup {[client |-> c.client, id |-> None, val |-> c.val]}]
    BY <1>2 DEF AddFails
  <2>2. c.client \in Drafts /\ c.val \in Vals
    BY <2>1, CommandFields DEF TypeOK, Handler
  <2> DEFINE a == [client |-> c.client, id |-> None, val |-> c.val]
  <2>4. a \in Added
    BY <2>2 DEF Added
  <2>5. h' = [h EXCEPT !.todo = @ \ {c}, !.added = @ \cup {a}]
    BY <2>1
  <2> HIDE DEF a
  <2>3. h' \in Handler
    BY <2>4, <2>5 DEF TypeOK, Handler
  <2> QED
    BY <1>2, <2>3 DEF AddFails, TypeOK, server, store, device, history
<1>3. CASE ChangeFails
  <2>1. PICK c \in h.todo : c.op = "Change" /\ ChangeDone(c, FALSE)
    BY <1>3 DEF ChangeFails
  <2>2. c.id \in Items /\ c.val \in Vals
    BY <2>1, CommandFields DEF TypeOK, Handler
  <2>3. h' \in Handler
    BY <2>1, <2>2, ChangeDoneTypes
  <2> QED
    BY <1>3, <2>3 DEF ChangeFails, TypeOK, server, store, device, history
<1>4. CASE DeleteFails
  <2>1. PICK c \in h.todo :
          c.op = "Delete" /\ h' = [h EXCEPT !.todo = @ \ {c}, !.undeleted = @ \cup {c.id}]
    BY <1>4 DEF DeleteFails
  <2>2. c.id \in Items
    BY <2>1, CommandFields DEF TypeOK, Handler
  <2>3. h' \in Handler
    BY <2>1, <2>2 DEF TypeOK, Handler
  <2> QED
    BY <1>4, <2>3 DEF DeleteFails, TypeOK, server, store, device, history
<1>5. CASE ListFails
  BY <1>5, RefuseTypes DEF ListFails, TypeOK, server, store, device, history
<1>6. CASE PutRecordFails
  BY <1>6 DEF PutRecordFails, TypeOK, Handler, PCs, server, store, device, history
<1>7. CASE PutItemsFails
  BY <1>7, AnswerItemsTypes, MissedTypes DEF PutItemsFails, TypeOK, server, store, device
<1>8. CASE Drop
  BY <1>8, EmptyTypes DEF Drop, TypeOK, server, store, device
<1> QED
  BY <1>1, <1>2, <1>3, <1>4, <1>5, <1>6, <1>7, <1>8 DEF Fail

LEMMA StartOverTypes ==
  ASSUME TypeOK, StartOver
  PROVE  /\ has' \in View /\ dirty' \subseteq Items /\ drafts' \in [Drafts -> Content]
         /\ ckey' \in Key /\ missed' \subseteq Items
BY EmptyTypes, BoundsAssumption DEF StartOver, Key, Content

LEMMA ExchangeTypes == TypeOK /\ Exchange => TypeOK'
<1> SUFFICES ASSUME TypeOK, Exchange PROVE TypeOK'
  OBVIOUS
<1>1. CASE Receive
  <2>1. CASE h.reply.status = 1
    <3>1. has' \in View /\ drafts' \in [Drafts -> Content]
      BY <1>1, <2>1, ShownTypes DEF Receive, View, TypeOK, Content
    <3>2. \A c \in h.reply.changed : c.id \in Items
      BY DEF TypeOK, Handler, Reply, Changed
    <3>3. dirty' \subseteq Items /\ ckey' \in Key
      BY <1>1, <2>1, <3>2 DEF Receive, Queued, TypeOK, Handler, Reply
    <3> QED
      BY <1>1, <2>1, <3>1, <3>3, EmptyTypes DEF Receive, TypeOK, server, store
  <2>2. CASE h.reply.status # 1
    BY <1>1, <2>2, StartOverTypes, EmptyTypes DEF Receive, TypeOK, server, store, device
  <2> QED
    BY <2>1, <2>2
<1>2. ASSUME NEW get \in GetChanges, SendSync(get) PROVE TypeOK'
  <2>1. h' \in Handler
    BY <1>2, CommandTypes, EmptyTypes, UseAssumption DEF SendSync, TypeOK, Idle, Handler, PCs
  <2> QED
    BY <1>2, <2>1 DEF SendSync, TypeOK, server, store, device
<1> QED
  BY <1>1, <1>2 DEF Exchange

\* Types are kept by every step.
LEMMA TypesKept == TypeOK /\ [Next]_vars => TypeOK'
<1> SUFFICES ASSUME TypeOK, [Next]_vars PROVE TypeOK'
  OBVIOUS
<1>1. CASE Reset
  BY <1>1, StartOverTypes DEF Reset, TypeOK, server, store
<1>2. CASE UserEdits
  BY <1>2 DEF UserEdits, TypeOK, View, Content, Ids, server, store, history
<1>3. CASE OthersCreate
  BY <1>3 DEF OthersCreate, TypeOK, View, Content, store, device, history
<1>4. CASE OthersEdit
  BY <1>4 DEF OthersEdit, TypeOK, View, Content, Ids, store, device, history
<1>5. CASE OthersRemove
  BY <1>5 DEF OthersRemove, TypeOK, View, Content, Ids, store, device
<1>6. CASE UNCHANGED vars
  BY <1>6 DEF vars, TypeOK, server, store, device, history
<1> QED
  BY <1>1, <1>2, <1>3, <1>4, <1>5, <1>6, WorkTypes, FailTypes, ExchangeTypes DEF Next

-----------------------------------------------------------------------------
(* The handler *)

\* Steps of the handler that change neither the device nor what is stored.
LEMMA HandlerFrame ==
  ASSUME UNCHANGED <<store, device>>, missed' = missed, DeviceInv
  PROVE  /\ FreshIsEmpty'
         /\ Commands' = Commands
         /\ (Working' => Working) => Agree'
BY DEF store, device, DeviceInv, FreshIsEmpty, Commands, Agree

LEMMA RefuseIs ==
  ASSUME NEW status, Refuse(status)
  PROVE  h'.pc = "reply" /\ h'.reply.status = status /\ h'.reply.dels = {}
<1>1. h' = [Idle EXCEPT !.pc = "reply", !.cmds = h.cmds,
                        !.reply = [NoReply EXCEPT !.status = status, !.key = h.key]]
  BY DEF Refuse, Answer
<1> QED
  BY <1>1 DEF Idle, NoReply

LEMMA RefuseKeeps ==
  ASSUME DeviceInv, TypeOK', NEW status \in {3, 5}, Refuse(status),
         UNCHANGED <<store, device>>, missed' = missed
  PROVE  DeviceInv'
<1>1. h'.pc = "reply" /\ h'.reply.status = status
  BY RefuseIs
<1>2. ~Working'
  BY <1>1 DEF Working
<1> QED
  BY <1>1, <1>2, HandlerFrame DEF DeviceInv, RequestInv, WorkInv, ReplyInv, NoEcho

LEMMA LoadKeeps ==
  ASSUME DeviceInv, TypeOK', Load \/ LoadFails
  PROVE  DeviceInv'
<1>1. h.pc = "load" /\ UNCHANGED <<store, device>> /\ missed' = missed
  BY DEF Load, LoadFails, history
<1>2. CASE Refuse(3)
  BY <1>1, <1>2, RefuseKeeps
<1>3. CASE ~Refuse(3)
  <2>1. /\ KeyIsValid
        /\ \/ h' = [h EXCEPT !.pc = "commands", !.prev = base]
           \/ h' = [h EXCEPT !.pc = "commands"]
    BY <1>3 DEF Load, LoadFails
  <2>2. h \in Handler
    BY DEF DeviceInv, TypeOK
  <2>3. /\ h'.pc = "commands" /\ h'.prev \in {base, h.prev}
        /\ h'.key = h.key /\ h'.cmds = h.cmds /\ h'.todo = h.todo /\ h'.changed = h.changed
    BY <2>1, <2>2 DEF Handler
  <2>4. /\ h.key = ckey /\ h.key < MaxKey /\ h.cmds = Commands /\ h.todo = h.cmds
        /\ h.prev = Empty /\ h.changed = {}
    BY <1>1 DEF DeviceInv, RequestInv
  <2>5. Agree'
    BY <1>1, <2>1, <2>4 DEF DeviceInv, Agree, KeyIsValid, store, device
  <2>6. RequestInv'
    BY <1>1, <2>3, <2>4, HandlerFrame DEF RequestInv, device
  <2>7. WorkInv'
    <3>1. \A i \in Items : h'.prev[i] \in {base'[i], None}
      BY <1>1, <2>3, <2>4 DEF Empty, store
    <3> QED
      BY <2>3, <2>4, <3>1 DEF WorkInv
  <2> QED
    BY <1>1, <2>3, <2>5, <2>6, <2>7, HandlerFrame DEF DeviceInv, ReplyInv, NoEcho
<1> QED
  BY <1>2, <1>3

\* One client command is dealt with.
LEMMA CommandKeeps ==
  ASSUME DeviceInv, TypeOK', h.pc = "commands", UNCHANGED <<store, device>>, missed' = missed,
         NEW c \in h.todo, NEW prev, NEW changed, NEW undeleted,
         h'.pc = "commands", h'.key = h.key, h'.cmds = h.cmds, h'.todo = h.todo \ {c},
         h'.prev = prev, h'.changed = changed, h'.undeleted = undeleted,
         \A i \in Items : prev[i] \in {h.prev[i], None},
         h.undeleted \subseteq undeleted, h.changed \subseteq changed,
         \A d \in changed \ h.changed : c.op = "Change" /\ d.id = c.id /\ d.val = c.val,
         c.op = "Change" => \E d \in changed : d.id = c.id,
         c.op = "Delete" => prev[c.id] = None \/ c.id \in undeleted
  PROVE  DeviceInv'
<1>1. Working /\ h.cmds = Commands /\ h.todo \subseteq h.cmds /\ h.key = ckey /\ h.key < MaxKey
  BY DEF Working, DeviceInv, RequestInv
<1>2. Commands \subseteq Command
  BY CommandTypes DEF DeviceInv
<1>3. RequestInv'
  BY <1>1, HandlerFrame DEF RequestInv, device
<1>4. \A i \in Items : prev[i] \in {base[i], None}
  BY <1>1 DEF DeviceInv, WorkInv
<1>5. ASSUME NEW o \in h.cmds \ (h.todo \ {c})
      PROVE  /\ o.op = "Change" => \E d \in changed : d.id = o.id
             /\ o.op = "Delete" => prev[o.id] = None \/ o.id \in undeleted
  <2>1. CASE o = c
    BY <2>1
  <2>2. CASE o # c
    <3>1. /\ o.op = "Change" => \E d \in h.changed : d.id = o.id
          /\ o.op = "Delete" => h.prev[o.id] = None \/ o.id \in h.undeleted
      BY <1>1, <2>2 DEF DeviceInv, WorkInv
    <3>2. o.op = "Delete" => o.id \in Items
      BY <1>1, <1>2, CommandFields
    <3> QED
      BY <3>1, <3>2
  <2> QED
    BY <2>1, <2>2
<1>6. ASSUME NEW d \in changed PROVE d.val = has[d.id] /\ d.id \in dirty
  <2>1. CASE d \in h.changed
    BY <1>1, <2>1 DEF DeviceInv, WorkInv
  <2>2. CASE d \notin h.changed
    <3>1. c \in Commands /\ c.op = "Change" /\ d.id = c.id /\ d.val = c.val
      BY <1>1, <2>2
    <3>2. c.val = has[c.id] /\ c.id \in dirty
      BY <3>1 DEF Commands
    <3> QED
      BY <3>1, <3>2
  <2> QED
    BY <2>1, <2>2
<1>7. WorkInv'
  BY <1>4, <1>5, <1>6 DEF WorkInv, store, device
<1> QED
  BY <1>1, <1>3, <1>7, HandlerFrame DEF DeviceInv, ReplyInv, NoEcho

LEMMA AddKeeps ==
  ASSUME DeviceInv, TypeOK', ApplyAdd \/ AddFails
  PROVE  DeviceInv'
<1>1. h.pc = "commands" /\ UNCHANGED <<store, device>> /\ missed' = missed /\ h \in Handler
  BY DEF ApplyAdd, AddFails, history, DeviceInv, TypeOK
<1>2. PICK c \in h.todo, i \in Items \cup {None} :
        /\ c.op = "Add"
        /\ h' = [h EXCEPT !.todo = @ \ {c},
                          !.added = @ \cup {[client |-> c.client, id |-> i, val |-> c.val]}]
  BY DEF ApplyAdd, AddFails
<1>3. /\ h'.pc = "commands" /\ h'.key = h.key /\ h'.cmds = h.cmds /\ h'.todo = h.todo \ {c}
      /\ h'.prev = h.prev /\ h'.changed = h.changed /\ h'.undeleted = h.undeleted
  BY <1>1, <1>2 DEF Handler
<1> QED
  BY <1>1, <1>2, <1>3, CommandKeeps

LEMMA ChangeKeeps ==
  ASSUME DeviceInv, TypeOK', ApplyChange \/ ChangeFails
  PROVE  DeviceInv'
<1>1. h.pc = "commands" /\ UNCHANGED <<store, device>> /\ missed' = missed /\ h \in Handler
  BY DEF ApplyChange, ChangeFails, history, DeviceInv, TypeOK
<1>2. PICK c \in h.todo, ok \in BOOLEAN : c.op = "Change" /\ ChangeDone(c, ok)
  BY DEF ApplyChange, ChangeFails
<1> DEFINE d == [id |-> c.id, ok |-> ok, val |-> c.val]
<1>3. /\ h'.pc = "commands" /\ h'.key = h.key /\ h'.cmds = h.cmds /\ h'.todo = h.todo \ {c}
      /\ h'.prev = h.prev /\ h'.changed = h.changed \cup {d} /\ h'.undeleted = h.undeleted
  BY <1>1, <1>2 DEF Handler, ChangeDone
<1>4. d.id = c.id /\ d.val = c.val
  OBVIOUS
<1> HIDE DEF d
<1> QED
  BY <1>1, <1>2, <1>3, <1>4, CommandKeeps

LEMMA DeleteKeeps ==
  ASSUME DeviceInv, TypeOK', ApplyDelete \/ DeleteFails
  PROVE  DeviceInv'
<1>1. h.pc = "commands" /\ UNCHANGED <<store, device>> /\ missed' = missed /\ h \in Handler
  BY DEF ApplyDelete, DeleteFails, history, DeviceInv, TypeOK
<1>2. PICK c \in h.todo :
        /\ c.op = "Delete"
        /\ \/ h' = [h EXCEPT !.todo = @ \ {c}, !.prev[c.id] = None]
           \/ h' = [h EXCEPT !.todo = @ \ {c}, !.undeleted = @ \cup {c.id}]
  BY DEF ApplyDelete, DeleteFails
<1>3. c.id \in Items
  BY <1>1, <1>2, CommandFields DEF Handler
<1>4. /\ h'.pc = "commands" /\ h'.key = h.key /\ h'.cmds = h.cmds /\ h'.todo = h.todo \ {c}
      /\ h'.changed = h.changed /\ h.undeleted \subseteq h'.undeleted
      /\ \A i \in Items : h'.prev[i] \in {h.prev[i], None}
      /\ h'.prev[c.id] = None \/ c.id \in h'.undeleted
  <2>1. DOMAIN h = {"pc", "key", "get", "cmds", "todo", "prev", "list", "added", "changed", "undeleted", "reply"}
        /\ DOMAIN h.prev = Items
    BY <1>1 DEF Handler, View
  <2>2. CASE h' = [h EXCEPT !.todo = @ \ {c}, !.prev[c.id] = None]
    <3>1. h'.pc = h.pc /\ h'.key = h.key /\ h'.cmds = h.cmds /\ h'.todo = h.todo \ {c}
          /\ h'.changed = h.changed /\ h'.undeleted = h.undeleted
          /\ h'.prev = [h.prev EXCEPT ![c.id] = None]
      BY <2>1, <2>2
    <3>2. h'.prev[c.id] = None /\ \A i \in Items : h'.prev[i] \in {h.prev[i], None}
      BY <1>3, <2>1, <3>1
    <3> QED
      BY <1>1, <3>1, <3>2
  <2>3. CASE h' = [h EXCEPT !.todo = @ \ {c}, !.undeleted = @ \cup {c.id}]
    <3>1. h'.pc = h.pc /\ h'.key = h.key /\ h'.cmds = h.cmds /\ h'.todo = h.todo \ {c}
          /\ h'.changed = h.changed /\ h'.undeleted = h.undeleted \cup {c.id} /\ h'.prev = h.prev
      BY <2>1, <2>3
    <3> QED
      BY <1>1, <3>1
  <2> QED
    BY <1>2, <2>2, <2>3
<1> QED
  BY <1>1, <1>2, <1>4, CommandKeeps

LEMMA ListKeeps ==
  ASSUME DeviceInv, TypeOK', List
  PROVE  DeviceInv'
<1>1. h.pc = "commands" /\ h.todo = {} /\ UNCHANGED <<store, device>> /\ missed' = missed
  BY DEF List, history
<1>2. /\ h'.pc = "put" /\ h'.key = h.key /\ h'.cmds = h.cmds /\ h'.todo = h.todo
      /\ h'.prev = h.prev /\ h'.changed = h.changed /\ h'.undeleted = h.undeleted
  BY DEF List, DeviceInv, TypeOK, Handler
<1>3. Working
  BY <1>1 DEF Working
<1>4. RequestInv'
  BY <1>1, <1>2, HandlerFrame DEF DeviceInv, RequestInv, device
<1>5. WorkInv'
  BY <1>1, <1>2, <1>3 DEF DeviceInv, WorkInv, store, device
<1> QED
  BY <1>1, <1>2, <1>3, <1>4, <1>5, HandlerFrame DEF DeviceInv, ReplyInv, NoEcho

LEMMA ListFailsKeeps ==
  ASSUME DeviceInv, TypeOK', ListFails
  PROVE  DeviceInv'
BY RefuseKeeps DEF ListFails, history

\* The SyncRecord is written, or is not.  Its key is the one of the device only if
\* there was nothing to tell it.
LEMMA RecordKeeps ==
  ASSUME DeviceInv, TypeOK', PutRecord \/ PutRecordFails
  PROVE  DeviceInv'
<1>1. h.pc = "put" /\ base' = base /\ UNCHANGED device /\ missed' = missed
  BY DEF PutRecord, PutRecordFails, store, history
<1>2. /\ h'.pc = "items" /\ h'.key = h.key /\ h'.cmds = h.cmds /\ h'.todo = h.todo
      /\ h'.prev = h.prev /\ h'.changed = h.changed /\ h'.undeleted = h.undeleted
  BY DEF PutRecord, PutRecordFails, DeviceInv, TypeOK, Handler
<1>3. Working
  BY <1>1 DEF Working
<1>4. Commands' = Commands
  BY <1>1 DEF device, Commands
<1>5. RequestInv'
  BY <1>1, <1>2, <1>4 DEF DeviceInv, RequestInv, device
<1>6. WorkInv'
  BY <1>1, <1>2, <1>3 DEF DeviceInv, WorkInv, device
<1>7. Agree' /\ FreshIsEmpty'
  BY <1>1, <1>3 DEF DeviceInv, Agree, FreshIsEmpty, device
<1> QED
  BY <1>2, <1>5, <1>6, <1>7 DEF DeviceInv, ReplyInv, NoEcho

LEMMA DropKeeps ==
  ASSUME DeviceInv, TypeOK', Drop
  PROVE  DeviceInv'
<1>1. h'.pc = "idle" /\ UNCHANGED <<store, device>> /\ missed' = missed
  BY DEF Drop, Idle
<1> QED
  BY <1>1, HandlerFrame DEF DeviceInv, RequestInv, WorkInv, ReplyInv, NoEcho, Working

-----------------------------------------------------------------------------
(* The answer *)

LEMMA AnswerIs ==
  ASSUME AnswerItems
  PROVE  /\ h'.pc = "reply" /\ h'.cmds = h.cmds
         /\ h'.reply.status = 1 /\ h'.reply.key = NewKey
         /\ h'.reply.added = h.added /\ h'.reply.changed = h.changed
         /\ h'.reply.puts = [i \in Items |->
              IF h.get /\ i \in ToAdd \cup ToChange THEN h.list[i] ELSE None]
         /\ h'.reply.dels = IF h.get THEN ToRemove ELSE {}
BY DEF AnswerItems, Answer, Idle

\* The SyncKey of an answer is the one of the request only if nothing was done
\* and nothing is different.
LEMMA KeyMoves ==
  ASSUME TypeOK, h.key < MaxKey
  PROVE  /\ NewKey # 0
         /\ NewKey = h.key =>
              /\ h.key # 0 /\ ToAdd = {} /\ ToChange = {} /\ ToRemove = {}
              /\ h.added = {} /\ h.changed = {}
BY BoundsAssumption DEF NewKey, next_sync_key, TypeOK, Handler, Key

\* An item the diff says nothing of is as it was.
LEMMA Untouched ==
  ASSUME TypeOK, NEW i \in Items, i \notin ToAdd \cup ToChange \cup ToRemove, i \notin Written
  PROVE  h.list[i] = h.prev[i]
BY DEF ToAdd, ToChange, ToRemove, to_add, to_change, to_remove, Ids

\* What the handler knows of an item when it answers.
AtAnswer(i) ==
  /\ h.prev[i] \in {base[i], None}
  /\ h.key = 0 => has[i] = None /\ i \notin dirty
  /\ h.key # 0 /\ i \notin missed =>
       IF i \in dirty THEN has[i] # None => base[i] # None ELSE has[i] = base[i]
  /\ i \in dirty /\ has[i] # None => i \in Written
  /\ i \in dirty /\ has[i] = None => h.prev[i] = None \/ i \in h.undeleted
  /\ (\E c \in h.cmds : c = [op |-> "Delete", id |-> i]) => i \in dirty /\ has[i] = None
  /\ \A d \in h.changed : d.id = i => i \in dirty /\ d.val = has[i] /\ has[i] # None

LEMMA Knows ==
  ASSUME DeviceInv, h.pc = "items", NEW i \in Items
  PROVE  AtAnswer(i)
<1>1. Working /\ TypeOK
  BY DEF Working, DeviceInv
<1>2. h.key = ckey /\ h.cmds = Commands /\ h.todo = {}
  BY <1>1 DEF DeviceInv, RequestInv, WorkInv
<1>3. h.prev[i] \in {base[i], None}
  BY <1>1 DEF DeviceInv, WorkInv
<1>4. h.key = 0 => has[i] = None /\ i \notin dirty
  BY <1>2 DEF DeviceInv, FreshIsEmpty, Empty
<1>5. h.key # 0 /\ i \notin missed =>
        IF i \in dirty THEN has[i] # None => base[i] # None ELSE has[i] = base[i]
  BY <1>1, <1>2 DEF DeviceInv, Agree
<1>6. ASSUME i \in dirty, has[i] # None PROVE i \in Written
  <2> DEFINE e == [op |-> "Change", id |-> i, val |-> has[i]]
  <2>4. e \in Commands
    BY <1>6 DEF Commands
  <2>1. PICK c \in Commands : c.op = "Change" /\ c.id = i
    BY <2>4
  <2>2. PICK d \in h.changed : d.id = i
    BY <1>1, <1>2, <2>1 DEF DeviceInv, WorkInv
  <2>3. i # None
    BY ItemsAssumption DEF None
  <2> QED
    BY <2>2, <2>3 DEF Written, just_written
<1>7. ASSUME i \in dirty, has[i] = None PROVE h.prev[i] = None \/ i \in h.undeleted
  <2> DEFINE e == [op |-> "Delete", id |-> i]
  <2>4. e \in Commands
    BY <1>7 DEF Commands
  <2>1. PICK c \in Commands : c.op = "Delete" /\ c.id = i
    BY <2>4
  <2> QED
    BY <1>1, <1>2, <2>1 DEF DeviceInv, WorkInv
<1>8. ASSUME [op |-> "Delete", id |-> i] \in Commands PROVE i \in dirty /\ has[i] = None
  <2> DEFINE c == [op |-> "Delete", id |-> i]
  <2>1. c.op = "Delete" /\ c.id = i
    OBVIOUS
  <2>2. PICK j \in {k \in dirty : has[k] = None} : c = [op |-> "Delete", id |-> j]
    BY <1>8 DEF Commands
  <2> QED
    BY <2>1, <2>2
<1>9. ASSUME NEW d \in h.changed, d.id = i PROVE i \in dirty /\ d.val = has[i] /\ has[i] # None
  <2>1. d.val = has[i] /\ i \in dirty
    BY <1>1, <1>9 DEF DeviceInv, WorkInv
  <2>2. d.val \in Vals
    BY <1>1 DEF TypeOK, Handler, Changed
  <2> QED
    BY <2>1, <2>2, ValsAssumption DEF None
<1> QED
  BY <1>2, <1>3, <1>4, <1>5, <1>6, <1>7, <1>8, <1>9 DEF AtAnswer

\* What an answer makes of an item is what the listing says, but for the items
\* in Missed and for an edit that was refused.
LEMMA AnswerBrings ==
  ASSUME DeviceInv, h.pc = "items", AnswerItems, NEW i \in Items \ Missed
  PROVE  IF i \in Queued(h'.reply)
           THEN Shown(h'.reply, i) # None => h.list[i] # None
           ELSE Shown(h'.reply, i) = h.list[i]
<1> DEFINE rep == h'.reply
<1>0. TypeOK /\ AtAnswer(i) /\ i # None
  BY Knows, ItemsAssumption DEF DeviceInv, None
<1>1. /\ rep.added = h.added /\ rep.changed = h.changed
      /\ rep.puts[i] = (IF h.get /\ i \in ToAdd \cup ToChange THEN h.list[i] ELSE None)
      /\ rep.dels = IF h.get THEN ToRemove ELSE {}
  BY AnswerIs
<1>2. h.get \/ i \notin ToAdd \cup ToChange \cup ToRemove
  BY DEF Missed, Unasked
<1>3. Queued(rep) = {c.id : c \in {d \in h.changed : ~d.ok}} \ rep.dels
  BY <1>1 DEF Queued
<1>4. h.list[i] \in Content /\ has[i] \in Content
  BY <1>0 DEF TypeOK, Handler, View
<1>5. h.key # 0 /\ i \in missed => i \in ToAdd \cup ToChange \cup ToRemove
  BY DEF Missed
<1> HIDE DEF rep
<1>6. CASE i \in ToRemove
  <2>1. h.list[i] = None
    BY <1>6 DEF ToRemove, to_remove, Ids
  <2> QED
    BY <1>1, <1>2, <1>3, <1>6, <2>1 DEF Shown, rep
<1>7. CASE i \in (ToAdd \cup ToChange) \ ToRemove
  <2>1. h.list[i] # None
    BY <1>7 DEF ToAdd, ToChange, to_add, to_change, Ids
  <2> QED
    BY <1>1, <1>2, <1>7, <2>1 DEF Shown, rep
<1>8. CASE i \notin ToAdd \cup ToChange \cup ToRemove
  <2>1. i \notin rep.dels /\ rep.puts[i] = None
    BY <1>1, <1>8
  <2>2. CASE \E a \in h.added : a.id = i
    <3>1. \A a \in h.added : a.id = i => a.val = h.list[i]
      BY <1>0 DEF Missed, Swallowed
    <3>2. PICK a \in h.added : a.id = i /\ a = (CHOOSE b \in h.added : b.id = i)
      BY <2>2
    <3>3. Shown(rep, i) = a.val
      BY <1>1, <2>1, <3>2 DEF Shown, rep
    <3>4. a.val # None
      BY <1>0, ValsAssumption DEF TypeOK, Handler, Added, None
    <3> QED
      BY <3>1, <3>2, <3>3, <3>4 DEF rep
  <2>3. CASE ~\E a \in h.added : a.id = i
    <3>1. Shown(rep, i) = has[i]
      BY <1>1, <2>1, <2>3 DEF Shown, rep
    \* An item that was not read and is gone is in Forgotten, or was deleted.
    <3>2. h.key # 0 /\ h.list[i] = None /\ h.prev[i] = None /\ base[i] # None => i \in dirty /\ has[i] = None
      BY <1>0 DEF Missed, Forgotten, AtAnswer, Ids
    <3>3. h.list[i] = None => h.prev[i] = None
      BY <1>8 DEF ToRemove, to_remove, Ids
    <3>4. CASE \E d \in h.changed : d.id = i
      <4>1. i \in dirty /\ has[i] # None /\ h.key # 0
        BY <1>0, <3>4 DEF AtAnswer
      <4>2. base[i] # None
        BY <1>0, <1>5, <1>8, <4>1 DEF AtAnswer
      <4>3. h.list[i] # None
        BY <3>2, <3>3, <4>1, <4>2
      <4>4. \A d \in h.changed : d.id = i => d.val = has[i]
        BY <1>0 DEF AtAnswer
      <4>5. ASSUME i \notin Queued(rep) PROVE h.list[i] = has[i]
        <5>1. PICK d \in h.changed : d.id = i
          BY <3>4
        <5>2. d.ok
          BY <1>3, <2>1, <4>5, <5>1
        <5> QED
          BY <4>3, <4>4, <5>1, <5>2 DEF Missed, Swallowed
      <4> QED
        BY <3>1, <4>3, <4>5 DEF rep
    <3>5. CASE ~\E d \in h.changed : d.id = i
      <4>1. i \notin Written /\ i \notin Queued(rep)
        BY <1>3, <2>3, <3>5 DEF Written, just_written
      <4>2. h.list[i] = h.prev[i]
        BY <1>0, <1>8, <4>1, Untouched
      <4>3. CASE h.key = 0
        BY <1>0, <3>1, <4>1, <4>2, <4>3 DEF AtAnswer, Missed, Carried, Ids, rep
      <4>4. CASE h.key # 0 /\ i \in dirty
        <5>1. has[i] = None
          BY <1>0, <4>1, <4>4 DEF AtAnswer
        <5>2. h.list[i] = None
          BY <1>0, <4>2, <4>4, <5>1 DEF AtAnswer, Missed, Undeleted
        <5> QED
          BY <3>1, <4>1, <5>1, <5>2 DEF rep
      <4>5. CASE h.key # 0 /\ i \notin dirty
        <5>1. has[i] = base[i]
          BY <1>0, <1>5, <1>8, <4>5 DEF AtAnswer
        <5>2. h.list[i] = base[i]
          BY <1>0, <3>2, <4>2, <4>5 DEF AtAnswer
        <5> QED
          BY <3>1, <4>1, <5>1, <5>2 DEF rep
      <4> QED
        BY <4>3, <4>4, <4>5
    <3> QED
      BY <3>4, <3>5
  <2> QED
    BY <2>2, <2>3
<1> QED
  BY <1>6, <1>7, <1>8

\* The item states are replaced, or are not.
LEMMA ItemsKeeps ==
  ASSUME DeviceInv, TypeOK', PutItems \/ PutItemsFails
  PROVE  DeviceInv'
<1>1. h.pc = "items" /\ AnswerItems /\ UNCHANGED device /\ key' = key
  BY DEF PutItems, PutItemsFails, store
<1>2. \/ base' = h.list /\ missed' = Missed \cup (IF key = NewKey THEN {} ELSE Unsaved)
      \/ base' = base /\ missed' = Missed \cup Unsaved
  BY DEF PutItems, PutItemsFails, store
<1>3. TypeOK /\ Working
  BY <1>1 DEF DeviceInv, Working
<1>4. h.key = ckey /\ h.key < MaxKey /\ h.cmds = Commands /\ h.todo = {}
  BY <1>1, <1>3 DEF DeviceInv, RequestInv, WorkInv
<1>5. NewKey # 0
  BY <1>3, <1>4, KeyMoves
<1>6. \A i \in Items \ Unsaved : i \notin missed /\ h.list[i] = base[i]
  BY DEF Unsaved
<1>7. has' = has /\ dirty' = dirty /\ drafts' = drafts /\ ckey' = ckey
  BY <1>1 DEF device
<1>8. Agree'
  <2> SUFFICES ASSUME ckey # 0, ckey = key, NEW i \in Items, i \notin missed'
               PROVE  IF i \in dirty THEN has[i] # None => base'[i] # None ELSE has[i] = base'[i]
    BY <1>1, <1>7, AnswerIs DEF Agree, Working
  <2>1. AtAnswer(i)
    BY <1>1, Knows
  <2>2. CASE i \notin Unsaved
    <3>1. i \notin missed /\ base'[i] = base[i]
      BY <1>2, <1>6, <2>2
    <3> QED
      BY <1>4, <2>1, <3>1 DEF AtAnswer
  <2>3. CASE i \in Unsaved
    <3>1. base' = h.list /\ key = NewKey /\ i \notin Missed
      BY <1>2, <2>3
    <3>2. ToAdd = {} /\ ToChange = {} /\ ToRemove = {} /\ h.added = {} /\ h.changed = {}
      BY <1>3, <1>4, <3>1, KeyMoves
    <3>3. i \notin missed
      BY <1>4, <3>1, <3>2 DEF Missed
    <3>4. h.list[i] = h.prev[i]
      BY <1>3, <3>2, Untouched DEF Written, just_written
    <3>5. CASE h.prev[i] = base[i]
      BY <1>4, <2>1, <3>1, <3>3, <3>4, <3>5 DEF AtAnswer
    <3>6. CASE h.prev[i] # base[i]
      <4>1. h.prev[i] = None /\ i \in Ids(base) \ Ids(h.list)
        BY <2>1, <3>4, <3>6 DEF AtAnswer, Ids
      <4>2. \E c \in h.cmds : c = [op |-> "Delete", id |-> i]
        BY <1>4, <3>1, <4>1 DEF Missed, Forgotten
      <4>3. i \in dirty /\ has[i] = None
        BY <2>1, <4>2 DEF AtAnswer
      <4> QED
        BY <4>3
    <3> QED
      BY <3>5, <3>6
  <2> QED
    BY <2>2, <2>3
<1>9. ReplyInv'
  <2>1. h'.reply.key = NewKey
    BY <1>1, AnswerIs
  <2>2. ASSUME key = NewKey, NEW i \in Items \ missed'
        PROVE  IF i \in Queued(h'.reply) THEN Shown(h'.reply, i) # None => base'[i] # None
                                         ELSE Shown(h'.reply, i) = base'[i]
    <3>1. i \notin Missed /\ base'[i] = h.list[i]
      BY <1>2, <1>6, <2>2
    <3> QED
      BY <1>1, <3>1, AnswerBrings
  <2>3. \A i \in Items : Shown(h.reply, i)' = Shown(h'.reply, i)
    BY <1>7 DEF Shown
  <2> QED
    BY <1>1, <1>5, <2>1, <2>2, <2>3 DEF ReplyInv, Queued
<1>10. NoEcho'
  <2> SUFFICES ASSUME NEW i \in Ids(h'.reply.puts)
               PROVE  /\ \A a \in h.added : a.id # i
                      /\ \A c \in h.cmds : c.op = "Change" => c.id # i
    BY <1>1, AnswerIs DEF NoEcho
  <2>1. i \in Items /\ i \in ToAdd \cup ToChange
    BY <1>1, AnswerIs DEF Ids
  <2>2. i # None /\ i \notin Written
    BY <2>1, ItemsAssumption DEF ToAdd, ToChange, to_add, to_change, None
  <2>3. \A c \in h.cmds : c.op = "Change" => \E d \in h.changed : d.id = c.id
    BY <1>3, <1>4 DEF DeviceInv, WorkInv
  <2> QED
    BY <2>2, <2>3 DEF Written, just_written
<1>11. FreshIsEmpty'
  BY <1>7 DEF DeviceInv, FreshIsEmpty
<1> QED
  BY <1>1, <1>8, <1>9, <1>10, <1>11, AnswerIs DEF DeviceInv, RequestInv, WorkInv, Working

-----------------------------------------------------------------------------
(* The device and other clients *)

LEMMA StartOverKeeps ==
  ASSUME TypeOK', StartOver, h'.pc = "idle"
  PROVE  DeviceInv'
BY DEF StartOver, DeviceInv, Agree, FreshIsEmpty, RequestInv, WorkInv, ReplyInv, NoEcho, Working

LEMMA ReceiveKeeps ==
  ASSUME DeviceInv, TypeOK', Receive
  PROVE  DeviceInv'
<1>1. h.pc = "reply" /\ h' = Idle /\ h'.pc = "idle" /\ key' = key /\ base' = base
  BY DEF Receive, Idle, store
<1>2. CASE h.reply.status = 1
  <2>1. /\ has' = [i \in Items |-> Shown(h.reply, i)] /\ dirty' = Queued(h.reply)
        /\ ckey' = h.reply.key /\ missed' = missed
    BY <1>2 DEF Receive
  <2>2. Agree' /\ FreshIsEmpty'
    BY <1>1, <1>2, <2>1 DEF DeviceInv, ReplyInv, Agree, FreshIsEmpty, Working
  <2> QED
    BY <1>1, <2>2 DEF DeviceInv, RequestInv, WorkInv, ReplyInv, NoEcho, Working
<1>3. CASE StartOver
  BY <1>1, <1>3, StartOverKeeps
<1>4. CASE UNCHANGED <<device, missed>>
  <2>1. Agree' /\ FreshIsEmpty'
    BY <1>1, <1>4 DEF DeviceInv, Agree, FreshIsEmpty, Working, device
  <2> QED
    BY <1>1, <2>1 DEF DeviceInv, RequestInv, WorkInv, ReplyInv, NoEcho, Working
<1> QED
  BY <1>2, <1>3, <1>4 DEF Receive

LEMMA SendKeeps ==
  ASSUME DeviceInv, TypeOK', NEW get \in GetChanges, SendSync(get)
  PROVE  DeviceInv'
<1>1. UNCHANGED <<store, device>> /\ missed' = missed /\ ckey < MaxKey
  BY DEF SendSync
<1>2. /\ h'.pc = "load" /\ h'.key = ckey /\ h'.cmds = Commands /\ h'.todo = Commands
      /\ h'.prev = Empty /\ h'.added = {} /\ h'.changed = {} /\ h'.undeleted = {}
  BY DEF SendSync, Idle
<1>3. RequestInv'
  BY <1>1, <1>2, HandlerFrame DEF RequestInv, device
<1> QED
  BY <1>1, <1>2, <1>3, HandlerFrame DEF DeviceInv, WorkInv, ReplyInv, NoEcho, Working

LEMMA EditKeeps ==
  ASSUME DeviceInv, TypeOK', UserEdits
  PROVE  DeviceInv'
<1>1. h.pc = "idle" /\ ckey # 0 /\ UNCHANGED <<store, h, ckey, missed>>
  BY DEF UserEdits, history
<1>2. Agree'
  <2>1. CASE has' = has /\ dirty' = dirty
    BY <1>1, <2>1 DEF DeviceInv, Agree, Working, store
  <2>2. ASSUME NEW i \in Ids(has), NEW v \in Content,
               has' = [has EXCEPT ![i] = v], dirty' = dirty \cup {i}
        PROVE  Agree'
    BY <1>1, <2>2 DEF DeviceInv, TypeOK, View, Agree, Working, Ids, store
  <2> QED
    BY <2>1, <2>2 DEF UserEdits
<1> QED
  BY <1>1, <1>2 DEF DeviceInv, FreshIsEmpty, RequestInv, WorkInv, ReplyInv, NoEcho, Working

\* What other clients do is seen by the next listing only.
LEMMA OthersKeep ==
  ASSUME DeviceInv, TypeOK', UNCHANGED <<store, h, device>>, missed' = missed
  PROVE  DeviceInv'
BY DEF DeviceInv, Agree, FreshIsEmpty, RequestInv, WorkInv, ReplyInv, NoEcho, Working,
       Commands, Shown, Queued, store, device

\* Every step keeps the invariant.
LEMMA DeviceInvKept == DeviceInv /\ [Next]_vars => DeviceInv'
<1> SUFFICES ASSUME DeviceInv, [Next]_vars PROVE DeviceInv'
  OBVIOUS
<1>0. TypeOK'
  BY TypesKept DEF DeviceInv
<1>1. CASE Work
  BY <1>0, <1>1, LoadKeeps, AddKeeps, ChangeKeeps, DeleteKeeps, ListKeeps, RecordKeeps,
     ItemsKeeps DEF Work
<1>2. CASE Fail
  BY <1>0, <1>2, LoadKeeps, AddKeeps, ChangeKeeps, DeleteKeeps, ListFailsKeeps, RecordKeeps,
     ItemsKeeps, DropKeeps DEF Fail
<1>3. CASE Exchange
  BY <1>0, <1>3, ReceiveKeeps, SendKeeps DEF Exchange
<1>4. CASE Reset
  BY <1>0, <1>4, StartOverKeeps DEF Reset
<1>5. CASE UserEdits
  BY <1>0, <1>5, EditKeeps
<1>6. CASE OthersCreate \/ OthersEdit \/ OthersRemove
  BY <1>0, <1>6, OthersKeep DEF OthersCreate, OthersEdit, OthersRemove, history
<1>7. CASE UNCHANGED vars
  BY <1>0, <1>7, OthersKeep DEF vars, history
<1> QED
  BY <1>1, <1>2, <1>3, <1>4, <1>5, <1>6, <1>7 DEF Next

-----------------------------------------------------------------------------
(* Removals *)

\* A window that holds the collection lists all of it.
LEMMA ListsAll ==
  ASSUME WholeListing, NEW view \in View, NEW i \in Items, Listing(view)[i] = None
  PROVE  view[i] = None
<1> DEFINE B == {j \in Ids(view) : j < i}
<1>1. B \subseteq Items /\ i \notin B
  BY ItemsAssumption DEF Ids
<1>2. IsFiniteSet(B) /\ Cardinality(B) <= Cardinality(Items)
  BY <1>1, FS_Subset, ItemsAssumption
<1>3. Cardinality(B) # Cardinality(Items)
  BY <1>1, FS_Subset, ItemsAssumption
<1>4. Cardinality(B) \in Nat /\ Cardinality(Items) \in Nat
  BY <1>2, FS_CardinalityType, ItemsAssumption
<1>5. Cardinality(B) < Window
  BY <1>2, <1>3, <1>4, BoundsAssumption DEF WholeListing
<1> QED
  BY <1>5 DEF Listing

LEMMA AwayKept ==
  ASSUME WholeListing, TypeOK, TypeOK', AwayInv, [Next]_vars
  PROVE  AwayInv'
<1>1. h \in Handler /\ items \in View
  BY DEF TypeOK
<1>2. CASE Load \/ LoadFails \/ ListFails
  <2>1. items' = items /\ away' = away /\ h.pc # "idle"
    BY <1>2 DEF Load, LoadFails, ListFails, server, history
  <2>2. h'.pc = "commands" \/ (h'.pc = "reply" /\ h'.reply.dels = {})
    BY <1>1, <1>2, RefuseIs DEF Load, LoadFails, ListFails, Handler
  <2> QED
    BY <2>1, <2>2 DEF AwayInv, NoFalseDelete
<1>3. CASE ApplyAdd \/ AddFails \/ ApplyChange \/ ChangeFails \/ ApplyDelete \/ DeleteFails
  <2>1. h.pc = "commands" /\ h'.pc = "commands"
    BY <1>1, <1>3 DEF ApplyAdd, AddFails, ApplyChange, ChangeFails, ApplyDelete, DeleteFails,
       ChangeDone, Handler
  <2>2. \A i \in Items : items'[i] = None => items[i] = None \/ i \in away'
    <3>1. CASE AddFails \/ ChangeFails \/ DeleteFails
      BY <3>1 DEF AddFails, ChangeFails, DeleteFails, server
    <3>2. CASE ApplyAdd
      <4>1. PICK c \in h.todo, i \in Items : c.op = "Add" /\ items' = [items EXCEPT ![i] = c.val]
        BY <3>2 DEF ApplyAdd
      <4>2. c.val # None
        BY <1>1, <4>1, CommandFields, ValsAssumption DEF Handler, None
      <4> QED
        BY <1>1, <4>1, <4>2 DEF View
    <3>3. CASE ApplyChange
      <4>1. PICK c \in h.todo : c.op = "Change" /\ items' = [items EXCEPT ![c.id] = c.val]
        BY <3>3 DEF ApplyChange
      <4>2. c.val # None
        BY <1>1, <4>1, CommandFields, ValsAssumption DEF Handler, None
      <4> QED
        BY <1>1, <4>1, <4>2 DEF View
    <3>4. CASE ApplyDelete
      BY <1>1, <3>4 DEF ApplyDelete, View
    <3> QED
      BY <1>3, <3>1, <3>2, <3>3, <3>4
  <2>3. away \subseteq away'
    BY <1>3 DEF ApplyAdd, AddFails, ApplyChange, ChangeFails, ApplyDelete, DeleteFails, history
  <2> QED
    BY <2>1, <2>2, <2>3 DEF AwayInv, NoFalseDelete, Ids
<1>4. CASE List
  <2>1. /\ h.pc = "commands" /\ h'.pc = "put" /\ h'.list = Listing(items)
        /\ items' = items /\ away' = away
    BY <1>1, <1>4 DEF List, Handler, server, history
  <2>2. \A i \in Items : Listing(items)[i] = None => items[i] = None
    BY <1>1, ListsAll
  <2> QED
    BY <2>1, <2>2 DEF AwayInv, NoFalseDelete, Ids
<1>5. CASE PutRecord \/ PutRecordFails
  <2>1. /\ h.pc = "put" /\ h'.pc = "items" /\ h'.list = h.list
        /\ items' = items /\ away' = away
    BY <1>1, <1>5 DEF PutRecord, PutRecordFails, Handler, server, history
  <2> QED
    BY <2>1 DEF AwayInv, NoFalseDelete
<1>6. CASE PutItems \/ PutItemsFails
  <2>1. h.pc = "items" /\ AnswerItems /\ items' = items /\ away' = away
    BY <1>6 DEF PutItems, PutItemsFails, server
  <2>2. ToRemove \subseteq away
    BY <2>1 DEF AwayInv, ToRemove, to_remove, Ids
  <2> QED
    BY <2>1, <2>2, AnswerIs DEF AwayInv, NoFalseDelete
<1>7. CASE Drop \/ Receive
  BY <1>7 DEF Drop, Receive, Idle, AwayInv, NoFalseDelete
<1>8. ASSUME NEW get \in GetChanges, SendSync(get) PROVE AwayInv'
  BY <1>8 DEF SendSync, Idle, AwayInv, NoFalseDelete, server
<1>9. CASE Reset \/ UserEdits \/ UNCHANGED vars
  BY <1>9 DEF Reset, UserEdits, vars, server, history, AwayInv, NoFalseDelete
<1>10. CASE OthersCreate
  <2>1. \A i \in Items : items'[i] = None => items[i] = None
    BY <1>1, <1>10, ValsAssumption DEF OthersCreate, View, None
  <2> QED
    BY <1>10, <2>1 DEF OthersCreate, history, AwayInv, NoFalseDelete, Ids
<1>11. CASE OthersEdit
  <2>1. \A i \in Items : items'[i] = None => items[i] = None
    BY <1>1, <1>11, ValsAssumption DEF OthersEdit, View, None
  <2> QED
    BY <1>11, <2>1 DEF OthersEdit, history, AwayInv, NoFalseDelete, Ids
<1>12. CASE OthersRemove
  <2>1. h' = h /\ away \subseteq away'
    BY <1>12 DEF OthersRemove
  <2>2. h.pc # "idle" => \A i \in Items : items'[i] = None => items[i] = None \/ i \in away'
    BY <1>1, <1>12 DEF OthersRemove, View, Ids
  <2> QED
    BY <2>1, <2>2 DEF AwayInv, NoFalseDelete, Ids
<1> QED
  BY <1>2, <1>3, <1>4, <1>5, <1>6, <1>7, <1>8, <1>9, <1>10, <1>11, <1>12
     DEF Next, Work, Fail, Exchange

-----------------------------------------------------------------------------
(* The theorems *)

LEMMA InitHolds == Init => ItemInv
<1> SUFFICES ASSUME Init PROVE ItemInv
  OBVIOUS
<1>1. TypeOK
  BY EmptyTypes, BoundsAssumption DEF Init, TypeOK, Key, Content
<1>2. h.pc = "idle"
  BY DEF Init, Idle
<1> QED
  BY <1>1, <1>2 DEF Init, ItemInv, DeviceInv, Agree, FreshIsEmpty, RequestInv, WorkInv, ReplyInv,
                    NoEcho, Working, AwayInv, NoFalseDelete

\* At every step of a request the item states, the handler and the answer on its
\* way describe the device, whatever fails.
THEOREM ItemInvariant == Spec => []ItemInv
<1>1. ItemInv /\ [Next]_vars => ItemInv'
  <2> SUFFICES ASSUME ItemInv, [Next]_vars PROVE ItemInv'
    OBVIOUS
  <2>1. DeviceInv'
    BY DeviceInvKept DEF ItemInv
  <2>2. WholeListing => AwayInv'
    BY <2>1, AwayKept DEF ItemInv, DeviceInv
  <2> QED
    BY <2>1, <2>2 DEF ItemInv, WholeListing
<1> QED
  BY <1>1, InitHolds, PTL DEF Spec

\* Every variable has its type.
THEOREM ItemTypes == Spec => []TypeOK
<1>1. ItemInv => TypeOK
  BY DEF ItemInv, DeviceInv
<1> QED
  BY <1>1, ItemInvariant, PTL

\* A device with the stored SyncKey shows what the item states say, so that the
\* next diff starts from the truth, however many calls and writes have failed.
THEOREM DeviceShowsItemStates == Spec => []ViewIsBase
<1>1. ItemInv => ViewIsBase
  BY DEF ItemInv, DeviceInv, Agree, ViewIsBase, InSync
<1> QED
  BY <1>1, ItemInvariant, PTL

\* What a device wrote does not come back to it.
THEOREM WritesDoNotReturn == Spec => []NoEcho
<1>1. ItemInv => NoEcho
  BY DEF ItemInv, DeviceInv
<1> QED
  BY <1>1, ItemInvariant, PTL

\* With a window that holds the collection no Delete names an item that was
\* there throughout the request.
THEOREM RemovalsAreReal == ASSUME WholeListing PROVE Spec => []NoFalseDelete
<1>1. ItemInv => NoFalseDelete
  BY DEF ItemInv, AwayInv
<1> QED
  BY <1>1, ItemInvariant, PTL
=============================================================================
