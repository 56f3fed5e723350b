------------------------------ MODULE ItemSync ------------------------------
(***************************************************************************)
(* Sync of one collection of contacts, calendar events or tasks for one    *)
(* (user, device): activesync.rs, sync_contacts_collection and its copies  *)
(* for the other classes.  The collection is listed in full, its hashes    *)
(* are compared with the item states of the last Sync, and the difference  *)
(* goes to the device.                                                     *)
(*                                                                         *)
(* The device sends one request at a time.  One action is the code from    *)
(* one await to the next, save that the two reads at the start are one.    *)
(* Server and device are not in this repository: the server is modelled    *)
(* from the JMAP calls of jmap/client.rs, the device from the answers the  *)
(* handler writes for it.                                                  *)
(***************************************************************************)
EXTENDS Integers, FiniteSets

CONSTANTS
  Items,       \* JMAP ids, in the order the server lists them
  Vals,        \* contents of an item, up to what the hash tells apart
  Drafts,      \* ClientIds of items created on the device
  Window,      \* the clamped WindowSize of a request
  MaxKey,      \* the largest SyncKey; the device stops below it
  GetChanges,  \* values of the GetChanges element the device uses
  Faults       \* the failures that may happen, of the ones below

FaultKinds == {"jmap", "get", "put", "drop", "reset"}

ASSUME ItemsAssumption == Items \subseteq Nat \ {0} /\ IsFiniteSet(Items)
ASSUME ValsAssumption  == 0 \notin Vals   \* which is None
ASSUME BoundsAssumption == Window \in Nat \ {0} /\ MaxKey \in Nat \ {0}
ASSUME UseAssumption   == GetChanges \subseteq BOOLEAN /\ Faults \subseteq FaultKinds

VARIABLES
  items,      \* JMAP: the contents of every item, or None
  born,       \* JMAP: the ids ever given
  key,        \* state store: the SyncKey of the SyncRecord
  base,       \* state store: the item states, id to hash
  h,          \* the local state of the handler
  has,        \* device: the contents it shows, or None
  dirty,      \* device: ids it changed or deleted, not yet acknowledged
  drafts,     \* device: items it created that have no ServerId yet, or None
  ckey,       \* device: its SyncKey
  missed,     \* history: ids whose item state the device was not told, or not stored
  away        \* history: ids absent from the collection at some time in this request

server  == <<items, born>>
store   == <<key, base>>
device  == <<has, dirty, drafts, ckey>>
history == <<missed, away>>
vars    == <<server, store, h, device, history>>

-----------------------------------------------------------------------------
(* Types *)

None    == 0
Content == Vals \cup {None}
View    == [Items -> Content]
Empty   == [i \in Items |-> None]
Key     == 0..MaxKey

Command == [op : {"Add"}, client : Drafts, val : Vals]
             \cup [op : {"Change"}, id : Items, val : Vals]
             \cup [op : {"Delete"}, id : Items]

\* The entries of add_responses and change_responses; without an id, or not
\* ok, they carry Status 5.  The value is the one the device sent.
Added   == [client : Drafts, id : Items \cup {None}, val : Vals]
Changed == [id : Items, ok : BOOLEAN, val : Vals]

Reply == [status : {0, 1, 3, 5}, key : Key, added : SUBSET Added,
          changed : SUBSET Changed, puts : View, dels : SUBSET Items]

NoReply == [status |-> 0, key |-> 0, added |-> {}, changed |-> {},
            puts |-> Empty, dels |-> {}]

PCs == {"idle", "load", "commands", "put", "items", "reply"}

Handler == [pc : PCs, key : Key, get : BOOLEAN, cmds : SUBSET Command,
            todo : SUBSET Command, prev : View, list : View, added : SUBSET Added,
            changed : SUBSET Changed, undeleted : SUBSET Items, reply : Reply]

Idle == [pc |-> "idle", key |-> 0, get |-> FALSE, cmds |-> {}, todo |-> {},
         prev |-> Empty, list |-> Empty, added |-> {}, changed |-> {},
         undeleted |-> {}, reply |-> NoReply]

TypeOK ==
  /\ items \in View /\ born \subseteq Items
  /\ key \in Key /\ base \in View
  /\ h \in Handler
  /\ has \in View /\ dirty \subseteq Items /\ drafts \in [Drafts -> Content]
  /\ ckey \in Key
  /\ missed \subseteq Items /\ away \subseteq Items

-----------------------------------------------------------------------------
(* The diff *)

Ids(view) == {i \in Items : view[i] # None}

\* What a listing returns: the first Window items of the collection.  (Events and
\* tasks share a calendar; the query cuts before the other kind is left out.)
Listing(view) ==
  [i \in Items |-> IF Cardinality({j \in Ids(view) : j < i}) < Window
                     THEN view[i] ELSE None]

\* Mutant: the device's own writes come back as the server's.
nothing_written(added, changed) == {}

\* The ids a request wrote itself, refused Changes included.
just_written(added, changed) ==
  ({a.id : a \in added} \cup {c.id : c \in changed}) \ {None}

to_add(prev, list, written) ==
  {i \in Ids(list) \ written : prev[i] = None}

\* Mutant: only additions and removals are looked for.
no_change(prev, list, written) == {}

to_change(prev, list, written) ==
  {i \in Ids(list) \ written : prev[i] # None /\ prev[i] # list[i]}

\* Mutant: what changed is removed as well.
remove_changed(prev, list) == {i \in Ids(prev) : prev[i] # list[i]}

to_remove(prev, list) == Ids(prev) \ Ids(list)

\* The successor of a SyncKey.
next_sync_key(k) == IF k = MaxKey THEN MaxKey ELSE k + 1

-----------------------------------------------------------------------------
(* The handler *)

\* The answer is complete; the commands are kept for the properties.
Answer(rep) == h' = [Idle EXCEPT !.pc = "reply", !.cmds = h.cmds, !.reply = rep]

Refuse(status) == Answer([NoReply EXCEPT !.status = status, !.key = h.key])

\* Mutant: an older SyncKey is taken as well.
KeyIsNotNewer == h.key <= key

\* The key check of sync_mail, the same for every class.
KeyIsValid == h.key \in {0, key}

\* Check the SyncKey, then read the item states.
Load ==
  /\ h.pc = "load"
  /\ \/ /\ KeyIsValid
        /\ h' = [h EXCEPT !.pc = "commands", !.prev = base]
     \/ /\ ~KeyIsValid
        /\ Refuse(3)
  /\ UNCHANGED <<server, store, device, history>>

\* A read that fails counts as no record, or as no item states.
LoadFails ==
  /\ "get" \in Faults /\ h.pc = "load"
  /\ \/ KeyIsValid /\ h' = [h EXCEPT !.pc = "commands"]
     \/ h.key # 0 /\ Refuse(3)
  /\ UNCHANGED <<server, store, device, history>>

\* A created item gets a new id.
ApplyAdd ==
  /\ h.pc = "commands"
  /\ \E c \in h.todo, i \in Items \ born :
       /\ c.op = "Add"
       /\ items' = [items EXCEPT ![i] = c.val] /\ born' = born \cup {i}
       /\ h' = [h EXCEPT !.todo = @ \ {c},
                         !.added = @ \cup {[client |-> c.client, id |-> i, val |-> c.val]}]
  /\ UNCHANGED <<store, device, history>>

\* The call fails, or the server holds as many items as the model has ids.
AddFails ==
  /\ h.pc = "commands" /\ ("jmap" \in Faults \/ born = Items)
  /\ \E c \in h.todo :
       /\ c.op = "Add"
       /\ h' = [h EXCEPT !.todo = @ \ {c},
                         !.added = @ \cup {[client |-> c.client, id |-> None, val |-> c.val]}]
  /\ UNCHANGED <<server, store, device, history>>

ChangeDone(c, ok) ==
  h' = [h EXCEPT !.todo = @ \ {c},
                 !.changed = @ \cup {[id |-> c.id, ok |-> ok, val |-> c.val]}]

\* An update in place.
ApplyChange ==
  /\ h.pc = "commands"
  /\ \E c \in h.todo :
       /\ c.op = "Change" /\ items[c.id] # None
       /\ items' = [items EXCEPT ![c.id] = c.val]
       /\ ChangeDone(c, TRUE)
  /\ UNCHANGED <<born, store, device, history>>

\* The call fails, or has no "updated" entry for the id because it is gone.
ChangeFails ==
  /\ h.pc = "commands"
  /\ \E c \in h.todo :
       /\ c.op = "Change" /\ ("jmap" \in Faults \/ items[c.id] = None)
       /\ ChangeDone(c, FALSE)
  /\ UNCHANGED <<server, store, device, history>>

\* An id that is gone counts as deleted.
ApplyDelete ==
  /\ h.pc = "commands"
  /\ \E c \in h.todo :
       /\ c.op = "Delete"
       /\ items' = [items EXCEPT ![c.id] = None]
       /\ h' = [h EXCEPT !.todo = @ \ {c}, !.prev[c.id] = None]
       /\ away' = away \cup {c.id}
  /\ UNCHANGED <<born, store, device, missed>>

\* A failed Delete is only logged.
DeleteFails ==
  /\ "jmap" \in Faults /\ h.pc = "commands"
  /\ \E c \in h.todo :
       /\ c.op = "Delete"
       /\ h' = [h EXCEPT !.todo = @ \ {c}, !.undeleted = @ \cup {c.id}]
  /\ UNCHANGED <<server, store, device, history>>

\* List the collection once the commands are done.
List ==
  /\ h.pc = "commands" /\ h.todo = {}
  /\ h' = [h EXCEPT !.pc = "put", !.list = Listing(items)]
  /\ UNCHANGED <<server, store, device, history>>

\* The commands stay applied.
ListFails ==
  /\ "jmap" \in Faults /\ h.pc = "commands" /\ h.todo = {}
  /\ Refuse(5)
  /\ UNCHANGED <<server, store, device, history>>

\* Sets of ids the answer of this handler concerns.
Written  == just_written(h.added, h.changed)
ToAdd    == to_add(h.prev, h.list, Written)
ToChange == to_change(h.prev, h.list, Written)
ToRemove == to_remove(h.prev, h.list)

\* Mutant: removals alone do not advance the SyncKey.
KeyWithoutRemovals ==
  IF h.key = 0 \/ ToAdd \cup ToChange # {} \/ h.added # {} \/ h.changed # {}
    THEN next_sync_key(h.key) ELSE h.key

NewKey ==
  IF h.key = 0 \/ ToAdd \cup ToChange \cup ToRemove # {} \/ h.added # {} \/ h.changed # {}
    THEN next_sync_key(h.key) ELSE h.key

\* Write the SyncRecord.
PutRecord ==
  /\ h.pc = "put"
  /\ key' = NewKey
  /\ h' = [h EXCEPT !.pc = "items"]
  /\ UNCHANGED <<server, base, device, history>>

\* A write that fails is only logged.
PutRecordFails ==
  /\ "put" \in Faults /\ h.pc = "put"
  /\ h' = [h EXCEPT !.pc = "items"]
  /\ UNCHANGED <<server, store, device, history>>

\* Sets of ids whose item state the answer does not bring to the device.
\* An initial Sync sends nothing that is in the item states already.
Carried == IF h.key = 0 THEN {i \in Ids(h.list) : h.prev[i] = h.list[i]} ELSE {}
\* Echo suppression takes another client's write for the device's own.
Swallowed == {a.id : a \in {b \in h.added : b.id # None /\ h.list[b.id] # b.val}}
  \cup {c.id : c \in {d \in h.changed : d.ok /\ h.list[d.id] \notin {None, d.val}}}
\* A Delete that failed.
Undeleted == {i \in h.undeleted : h.list[i] # None /\ h.list[i] = h.prev[i]}
\* The client asked for no changes.
Unasked == IF h.get THEN {} ELSE ToAdd \cup ToChange \cup ToRemove
\* The item states could not be read: what is gone since is not removed.
Forgotten == {i \in Ids(base) \ Ids(h.list) :
                h.key # 0 /\ h.prev[i] = None /\ \A c \in h.cmds : c # [op |-> "Delete", id |-> i]}
\* One of the two writes failed.
Unsaved == missed \cup {i \in Items : h.list[i] # base[i]}
Missed == Carried \cup Swallowed \cup Undeleted \cup Unasked \cup Forgotten
            \cup (IF h.key = 0 THEN {} ELSE missed \ (ToAdd \cup ToChange \cup ToRemove))

AnswerItems ==
  Answer([status |-> 1, key |-> NewKey, added |-> h.added, changed |-> h.changed,
          puts |-> [i \in Items |->
                      IF h.get /\ i \in ToAdd \cup ToChange THEN h.list[i] ELSE None],
          dels |-> IF h.get THEN ToRemove ELSE {}])

\* Replace the item states, then answer.
PutItems ==
  /\ h.pc = "items"
  /\ base' = h.list
  /\ AnswerItems
  /\ missed' = Missed \cup (IF key = NewKey THEN {} ELSE Unsaved)
  /\ UNCHANGED <<server, key, device, away>>

PutItemsFails ==
  /\ "put" \in Faults /\ h.pc = "items"
  /\ AnswerItems
  /\ missed' = Missed \cup Unsaved
  /\ UNCHANGED <<server, store, device, away>>

\* The task is dropped at an await, the gateway restarts, or the answer is lost.
Drop ==
  /\ "drop" \in Faults /\ h.pc # "idle"
  /\ h' = Idle /\ away' = {}
  /\ UNCHANGED <<server, store, device, missed>>

-----------------------------------------------------------------------------
(* The device (external): it edits between two requests. *)

Commands ==
  {[op |-> "Add", client |-> d, val |-> drafts[d]] : d \in {e \in Drafts : drafts[e] # None}}
  \cup {[op |-> "Change", id |-> i, val |-> has[i]] : i \in {j \in dirty : has[j] # None}}
  \cup {[op |-> "Delete", id |-> i] : i \in {j \in dirty : has[j] = None}}

SendSync(get) ==
  /\ h.pc = "idle" /\ ckey < MaxKey
  /\ h' = [Idle EXCEPT !.pc = "load", !.key = ckey, !.get = get,
                       !.cmds = Commands, !.todo = Commands]
  /\ away' = Items \ Ids(items)
  /\ UNCHANGED <<server, store, device, missed>>

\* What the device shows after an answer of Status 1.
Shown(rep, i) ==
  IF i \in rep.dels THEN None
  ELSE IF rep.puts[i] # None THEN rep.puts[i]
  ELSE IF \E a \in rep.added : a.id = i
    THEN (CHOOSE a \in rep.added : a.id = i).val
  ELSE has[i]

\* The items whose command was refused.
Queued(rep) == {c.id : c \in {d \in rep.changed : ~d.ok}} \ rep.dels

StartOver ==
  /\ has' = Empty /\ dirty' = {} /\ drafts' = [d \in Drafts |-> None]
  /\ ckey' = 0 /\ missed' = {}

\* Status 5 of a command keeps it queued; Status 3 starts over from nothing;
\* Status 5 of the collection sends the same again.
Receive ==
  /\ h.pc = "reply"
  /\ h' = Idle
  /\ LET rep == h.reply IN
       \/ /\ rep.status = 1
          /\ has' = [i \in Items |-> Shown(rep, i)]
          /\ dirty' = Queued(rep)
          /\ drafts' = [d \in Drafts |->
               IF \E a \in rep.added : a.client = d /\ a.id # None THEN None ELSE drafts[d]]
          /\ ckey' = rep.key
          /\ UNCHANGED missed
       \/ /\ rep.status = 3 /\ StartOver
       \/ /\ rep.status = 5 /\ UNCHANGED <<device, missed>>
  /\ away' = {}
  /\ UNCHANGED <<server, store>>

\* The account is set up again on the device.
Reset ==
  /\ "reset" \in Faults /\ h.pc = "idle"
  /\ StartOver
  /\ UNCHANGED <<server, store, h, away>>

UserEdits ==
  /\ h.pc = "idle" /\ ckey # 0
  /\ \/ \E i \in Ids(has), v \in Content :
          /\ v # has[i] /\ has' = [has EXCEPT ![i] = v] /\ dirty' = dirty \cup {i}
          /\ UNCHANGED drafts
     \/ \E d \in Drafts, v \in Vals :
          /\ drafts[d] = None /\ drafts' = [drafts EXCEPT ![d] = v]
          /\ UNCHANGED <<has, dirty>>
  /\ UNCHANGED <<server, store, h, ckey, history>>

-----------------------------------------------------------------------------
(* Other clients of the mail server (external) *)

OthersCreate ==
  /\ \E i \in Items \ born, v \in Vals :
       items' = [items EXCEPT ![i] = v] /\ born' = born \cup {i}
  /\ UNCHANGED <<store, h, device, history>>

OthersEdit ==
  /\ \E i \in Ids(items), v \in Vals : items' = [items EXCEPT ![i] = v]
  /\ UNCHANGED <<born, store, h, device, history>>

OthersRemove ==
  /\ \E i \in Ids(items) :
       /\ items' = [items EXCEPT ![i] = None]
       /\ away' = IF h.pc = "idle" THEN away ELSE away \cup {i}
  /\ UNCHANGED <<born, store, h, device, missed>>

-----------------------------------------------------------------------------
(* Specification *)

Init ==
  /\ items = Empty /\ born = {}
  /\ key = 0 /\ base = Empty
  /\ h = Idle
  /\ has = Empty /\ dirty = {} /\ drafts = [d \in Drafts |-> None] /\ ckey = 0
  /\ missed = {} /\ away = {}

\* What the handler does when the calls succeed.
Work ==
  \/ Load \/ ApplyAdd \/ ApplyChange \/ ApplyDelete \/ List \/ PutRecord \/ PutItems

\* What else may happen to it.
Fail ==
  \/ LoadFails \/ AddFails \/ ChangeFails \/ DeleteFails \/ ListFails
  \/ PutRecordFails \/ PutItemsFails \/ Drop

Exchange == Receive \/ \E get \in GetChanges : SendSync(get)

Next ==
  \/ Work \/ Fail \/ Exchange
  \/ Reset \/ UserEdits
  \/ OthersCreate \/ OthersEdit \/ OthersRemove

Spec == Init /\ [][Next]_vars

-----------------------------------------------------------------------------
(* Safety *)

\* Between two requests of a device that holds the stored SyncKey.
InSync == h.pc = "idle" /\ ckey # 0 /\ ckey = key

\* In sync, what the device shows of an item it did not edit is what the item
\* states say, so that the next diff starts from the truth.  The only
\* exceptions are the ways into `missed`.
ViewIsBase == InSync => \A i \in Items \ (missed \cup dirty) : has[i] = base[i]

\* What the device wrote in a request does not come back to it in the answer, as
\* an Add under the new id or as a Change.
NoEcho ==
  h.pc = "reply" /\ h.reply.status = 1 =>
    \A i \in Ids(h.reply.puts) :
      /\ \A a \in h.reply.added : a.id # i
      /\ \A c \in h.cmds : c.op = "Change" => c.id # i

\* A Delete in an answer names only items that were absent from the collection
\* at some time during the request.
NoFalseDelete == h.pc = "reply" => h.reply.dels \subseteq away

-----------------------------------------------------------------------------
(* The inductive invariant behind the three *)

\* Past the key check, before the answer.
Working == h.pc \in {"commands", "put", "items"}

\* A device with the stored SyncKey, or at work since it had it, shows the item
\* states, missed apart; what it edited and still shows has one.
Agree ==
  ckey # 0 /\ (ckey = key \/ Working) =>
    \A i \in Items \ missed :
      IF i \in dirty THEN has[i] # None => base[i] # None ELSE has[i] = base[i]

\* A device without a SyncKey shows nothing.
FreshIsEmpty == ckey = 0 => has = Empty /\ dirty = {} /\ \A d \in Drafts : drafts[d] = None

\* The handler works for the device as it is, and has done nothing before the
\* item states are read.
RequestInv ==
  h.pc \notin {"idle", "reply"} =>
    /\ h.key = ckey /\ h.key < MaxKey /\ h.cmds = Commands /\ h.todo \subseteq h.cmds
    /\ h.pc = "load" => /\ h.prev = Empty /\ h.todo = h.cmds
                        /\ h.added = {} /\ h.changed = {} /\ h.undeleted = {}

\* What the diff starts from is what is stored, unless it was not read or the
\* device deleted the item; every command that is done left its trace.
WorkInv ==
  Working =>
    /\ \A i \in Items : h.prev[i] \in {base[i], None}
    /\ \A c \in h.cmds \ h.todo :
         /\ c.op = "Change" => \E d \in h.changed : d.id = c.id
         /\ c.op = "Delete" => h.prev[c.id] = None \/ c.id \in h.undeleted
    /\ \A d \in h.changed : d.val = has[d.id] /\ d.id \in dirty
    /\ h.pc # "commands" => h.todo = {}

\* An answer brings a device to the item states it names.
ReplyInv ==
  h.pc = "reply" /\ h.reply.status = 1 =>
    /\ h.reply.key # 0
    /\ h.reply.key = key =>
         \A i \in Items \ missed :
           IF i \in Queued(h.reply) THEN Shown(h.reply, i) # None => base[i] # None
                                    ELSE Shown(h.reply, i) = base[i]

\* With a window that holds the collection, what a listing lacks was absent.
WholeListing == Cardinality(Items) <= Window

AwayInv ==
  /\ h.pc # "idle" => Items \ Ids(items) \subseteq away
  /\ h.pc \in {"put", "items"} => Items \ Ids(h.list) \subseteq away
  /\ NoFalseDelete

\* The item states describe the device at every step of a request.
DeviceInv ==
  TypeOK /\ Agree /\ FreshIsEmpty /\ RequestInv /\ WorkInv /\ ReplyInv /\ NoEcho

ItemInv == DeviceInv /\ (WholeListing => AwayInv)
=============================================================================
