------------------------------ MODULE MailSync ------------------------------
(***************************************************************************)
(* Sync of one mail collection for one (user, device): the gateway's       *)
(* handler (activesync.rs, sync_mail) between a JMAP server and an EAS     *)
(* device.                                                                 *)
(*                                                                         *)
(* A handler is an async task: every JMAP call and every state-store call  *)
(* is a point where other handlers, the mail server and the device move,   *)
(* and where the task may be dropped.  One action is the code from one     *)
(* such point to the next.                                                 *)
(*                                                                         *)
(* The server and the device are not in this repository.  The server is    *)
(* modelled from the JMAP calls of jmap/client.rs, the device from the     *)
(* answers the handler writes for it.                                      *)
(***************************************************************************)
EXTENDS Integers, FiniteSets, Sequences

CONSTANTS
  Msgs,        \* Email ids, as their rank in receivedAt order (larger = newer)
  Window,      \* the clamped WindowSize of a request
  MaxKey,      \* the largest SyncKey, u64::MAX; the device stops below it
  Reqs,        \* handler slots: how many requests may be in flight at once
  NoReq,       \* "no request": not a slot
  GetChanges,  \* values of the GetChanges element the device uses
  Ops,         \* what the user does on the device: Delete, Read, Unread
  MaxPending,  \* bound on commands queued on the device
  Durable,     \* TRUE: SQLite backend, FALSE: in-memory backend
  Faults       \* the failures that may happen, of the ones below

FaultKinds == {"get", "put", "jmap", "reject", "drop", "timeout", "restart", "reset"}

ASSUME MsgsAssumption  == Msgs \subseteq Nat /\ IsFiniteSet(Msgs)
ASSUME BoundAssumption == Window \in Nat \ {0} /\ MaxKey \in Nat \ {0} /\ MaxPending \in Nat
ASSUME ReqsAssumption  == NoReq \notin Reqs /\ Reqs # {}
ASSUME OptsAssumption  == /\ Ops \subseteq {"Delete", "Read", "Unread"}
                          /\ Faults \subseteq FaultKinds
                          /\ Durable \in BOOLEAN /\ GetChanges \subseteq BOOLEAN

VARIABLES
  inbox,      \* JMAP: ids in this mailbox
  destroyed,  \* JMAP: ids destroyed by Email/set, gone for good
  read,       \* JMAP: ids with the $seen keyword
  stored,     \* state store: the SyncRecord of this collection
  h,          \* per slot: the local state of the handler
  has,        \* device: ids it shows
  ckey,       \* device: its SyncKey
  pending,    \* device: commands not yet acknowledged, oldest first
  waiting,    \* device: the slot it waits for, or NoReq
  told,       \* history: ids the device was given since its last reset
  carried,    \* history: ids stored as seen by an initial Sync that did not send them
  away        \* history, per slot: ids outside the mailbox at some time since it started

server  == <<inbox, destroyed, read>>
device  == <<has, ckey, pending, waiting>>
vars    == <<server, stored, h, device, told, carried, away>>

-----------------------------------------------------------------------------
(* Types *)

Command == [op : {"Delete", "Read", "Unread"}, id : Msgs]
Key     == 0..MaxKey
Record  == [key : Key, seen : SUBSET Msgs]
Reply   == [status : {0, 1, 3, 5}, key : Key, adds : SUBSET Msgs,
            dels : SUBSET Msgs, more : BOOLEAN]

\* No SyncRecord.  Stored keys are never "0", so key 0 marks its absence.
NoRecord == [key |-> 0, seen |-> {}]

NoReply  == [status |-> 0, key |-> 0, adds |-> {}, dels |-> {}, more |-> FALSE]

PCs == {"idle", "load", "commands", "confirm", "put", "reply"}

Handler == [pc : PCs, key : Key, get : BOOLEAN, cmds : Seq(Command),
            todo : Seq(Command), prev : Record, applied : BOOLEAN,
            page : SUBSET Msgs, more : BOOLEAN, removed : SUBSET Msgs,
            reply : Reply]

Idle == [pc |-> "idle", key |-> 0, get |-> FALSE, cmds |-> <<>>, todo |-> <<>>,
         prev |-> NoRecord, applied |-> FALSE, page |-> {}, more |-> FALSE,
         removed |-> {}, reply |-> NoReply]

TypeOK ==
  /\ inbox \subseteq Msgs /\ destroyed \subseteq Msgs /\ read \subseteq Msgs
  /\ stored \in Record
  /\ h \in [Reqs -> Handler]
  /\ has \subseteq Msgs /\ ckey \in Key /\ pending \in Seq(Command)
  /\ waiting \in Reqs \cup {NoReq}
  /\ told \subseteq Msgs /\ carried \subseteq Msgs
  /\ away \in [Reqs -> SUBSET Msgs]

-----------------------------------------------------------------------------
(* Pure parts of the handler *)

\* The successor of a SyncKey: "0" gives "1", then saturating addition.
next_sync_key(k) == IF k = MaxKey THEN MaxKey ELSE k + 1

\* The ids Email/query returns: newest first, cut at the limit.
Newest(S) == {m \in S : Cardinality({n \in S : n > m}) < Window}

\* Mutant: off by one.
HasMoreLate(S) == Cardinality(S) > Window + 1

\* calculateTotal exceeds the limit.
HasMore(S) == Cardinality(S) > Window

\* Ids of an earlier Sync that this page does not hold.
candidate_missing(prev, key, page) == IF key = 0 THEN {} ELSE prev.seen \ page

\* Mutant: an Add for every message of the page, seen or not.
send_whole_page(prev, key, page) == page

emails_to_send(prev, key, page) == IF key = 0 THEN page ELSE page \ prev.seen

\* Mutant: absence from the page is taken for absence from the mailbox.
remove_all_missing(candidates, still) == candidates

\* Candidates that Email/get did not confirm as still in the mailbox.
to_remove(candidates, still) == candidates \ still

\* Mutants: Adds, or Deletes, alone do not advance the SyncKey.
key_without_adds(key, adds, dels, applied) ==
  IF key = 0 \/ dels # {} \/ applied THEN next_sync_key(key) ELSE key
key_without_dels(key, adds, dels, applied) ==
  IF key = 0 \/ adds # {} \/ applied THEN next_sync_key(key) ELSE key

new_sync_key(key, adds, dels, applied) ==
  IF key = 0 \/ adds # {} \/ dels # {} \/ applied THEN next_sync_key(key) ELSE key

\* Mutant: only the present page is remembered.
forget_older(prev, page, dels) == page \ dels

seen_ids(prev, page, dels) == (prev.seen \cup page) \ dels

-----------------------------------------------------------------------------
(* Handler steps *)

\* End handler r with this answer.
Answer(r, rep) == h' = [h EXCEPT ![r].pc = "reply", ![r].reply = rep]

Refuse(r, status) ==
  Answer(r, [NoReply EXCEPT !.status = status, !.key = h[r].key])

\* Mutants: any SyncKey is accepted; an initial Sync is accepted only while there
\* is no record.
CheckKeyAny(r, rec) == h' = [h EXCEPT ![r].pc = "commands", ![r].prev = rec]
CheckKeyOnce(r, rec) ==
  \/ /\ h[r].key = rec.key
     /\ h' = [h EXCEPT ![r].pc = "commands", ![r].prev = rec]
  \/ /\ h[r].key # rec.key
     /\ Refuse(r, 3)

\* A SyncKey is valid if it is "0" or the stored one.
CheckKey(r, rec) ==
  \/ /\ h[r].key = 0 \/ h[r].key = rec.key
     /\ h' = [h EXCEPT ![r].pc = "commands", ![r].prev = rec]
  \/ /\ ~(h[r].key = 0 \/ h[r].key = rec.key)
     /\ Refuse(r, 3)

Load(r) ==
  /\ h[r].pc = "load" /\ CheckKey(r, stored)
  /\ UNCHANGED <<server, stored, device, told, carried, away>>

\* A failed read counts as "no record".
LoadFails(r) ==
  /\ "get" \in Faults
  /\ h[r].pc = "load" /\ CheckKey(r, NoRecord)
  /\ UNCHANGED <<server, stored, device, told, carried, away>>

\* History: m is outside the mailbox while the running handlers work.
NoteAway(m) ==
  away' = [q \in Reqs |-> IF h[q].pc = "idle" THEN away[q] ELSE away[q] \cup {m}]

\* Mutant: Read = 0 is taken for no change.
EmailSetReadOnly(c) ==
  \/ /\ c.op = "Delete"
     /\ destroyed' = destroyed \cup {c.id} /\ inbox' = inbox \ {c.id}
     /\ NoteAway(c.id) /\ UNCHANGED read
  \/ /\ c.op \in {"Read", "Unread"}
     /\ read' = IF c.op = "Read" /\ c.id \notin destroyed THEN read \cup {c.id} ELSE read
     /\ UNCHANGED <<inbox, destroyed, away>>

\* Email/set for one client command; an id that is gone is left alone.
EmailSet(c) ==
  \/ /\ c.op = "Delete"
     /\ destroyed' = destroyed \cup {c.id} /\ inbox' = inbox \ {c.id}
     /\ NoteAway(c.id) /\ UNCHANGED read
  \/ /\ c.op \in {"Read", "Unread"}
     /\ read' = IF c.op = "Read" /\ c.id \notin destroyed
                  THEN read \cup {c.id} ELSE read \ {c.id}
     /\ UNCHANGED <<inbox, destroyed, away>>

NextCommand(r) == h' = [h EXCEPT ![r].todo = Tail(@), ![r].applied = TRUE]

ApplyCommand(r) ==
  /\ h[r].pc = "commands" /\ h[r].todo # <<>>
  /\ EmailSet(Head(h[r].todo)) /\ NextCommand(r)
  /\ UNCHANGED <<stored, device, told, carried>>

\* The server refuses it (notUpdated, notDestroyed): email_set sees only that
\* there is an Email/set answer, and reports success.
CommandRejected(r) ==
  /\ "reject" \in Faults
  /\ h[r].pc = "commands" /\ h[r].todo # <<>>
  /\ NextCommand(r)
  /\ UNCHANGED <<server, stored, device, told, carried, away>>

\* Mutant: a failed command is logged and the next one tried.
JmapFailsLogged(r) ==
  /\ "jmap" \in Faults
  /\ h[r].pc = "commands" /\ h[r].todo # <<>>
  /\ NextCommand(r)
  /\ UNCHANGED <<server, stored, device, told, carried, away>>

\* A failed command or a failed listing ends the request; commands applied
\* before it stay applied.
JmapFails(r) ==
  /\ "jmap" \in Faults
  /\ h[r].pc = "commands" /\ (h[r].todo # <<>> \/ h[r].get)
  /\ Refuse(r, 5)
  /\ UNCHANGED <<server, stored, device, told, carried, away>>

\* The commands are done and the client asked for changes: list the page.
QueryWindow(r) ==
  /\ h[r].pc = "commands" /\ h[r].todo = <<>> /\ h[r].get
  /\ LET page    == Newest(inbox)
         missing == candidate_missing(h[r].prev, h[r].key, page)
     IN  h' = [h EXCEPT ![r].pc = IF missing = {} THEN "put" ELSE "confirm",
                        ![r].page = page, ![r].more = HasMore(inbox)]
  /\ UNCHANGED <<server, stored, device, told, carried, away>>

\* Email/get tells which of the missing ids really left.
ConfirmMissing(r) ==
  /\ h[r].pc = "confirm"
  /\ LET missing == candidate_missing(h[r].prev, h[r].key, h[r].page)
     IN  h' = [h EXCEPT ![r].pc = "put", ![r].removed = to_remove(missing, inbox)]
  /\ UNCHANGED <<server, stored, device, told, carried, away>>

\* Without that answer nothing is removed in this round.
ConfirmFails(r) ==
  /\ "jmap" \in Faults
  /\ h[r].pc = "confirm"
  /\ h' = [h EXCEPT ![r].pc = "put"]
  /\ UNCHANGED <<server, stored, device, told, carried, away>>

\* Write the SyncRecord, then answer with the Adds and the Deletes.
PutChanges(r) ==
  /\ h[r].pc = "put"
  /\ LET adds   == emails_to_send(h[r].prev, h[r].key, h[r].page)
         dels   == h[r].removed
         newKey == new_sync_key(h[r].key, adds, dels, h[r].applied)
     IN /\ stored' = [key |-> newKey, seen |-> seen_ids(h[r].prev, h[r].page, dels)]
        /\ Answer(r, [status |-> 1, key |-> newKey, adds |-> adds, dels |-> dels,
                      more |-> h[r].key = 0 /\ h[r].more])
  /\ carried' = IF h[r].key = 0 THEN h[r].prev.seen \ h[r].page ELSE carried
  /\ UNCHANGED <<server, device, told, away>>

\* The client asked for no changes.
NoChanges(r) == h[r].pc = "commands" /\ h[r].todo = <<>> /\ ~h[r].get

Advance(r) == h[r].key = 0 \/ h[r].applied

AnswerNoChanges(r, key) == Answer(r, [NoReply EXCEPT !.status = 1, !.key = key])

\* A first Sync or applied commands: only the SyncKey of the record moves.
PutNoChanges(r) ==
  /\ NoChanges(r) /\ Advance(r)
  /\ stored' = [key |-> next_sync_key(h[r].key), seen |-> h[r].prev.seen]
  /\ AnswerNoChanges(r, next_sync_key(h[r].key))
  /\ carried' = IF h[r].key = 0 THEN h[r].prev.seen ELSE carried
  /\ UNCHANGED <<server, device, told, away>>

\* Nothing at all: the same SyncKey, and no write.
SkipPut(r) ==
  /\ NoChanges(r) /\ ~Advance(r)
  /\ AnswerNoChanges(r, h[r].key)
  /\ UNCHANGED <<server, stored, device, told, carried, away>>

PutFails(r) ==
  /\ "put" \in Faults
  /\ h[r].pc = "put" \/ (NoChanges(r) /\ Advance(r))
  /\ Refuse(r, 5)
  /\ UNCHANGED <<server, stored, device, told, carried, away>>

\* The task is over: its locals are gone.
Finish(r) == h' = [h EXCEPT ![r] = Idle] /\ away' = [away EXCEPT ![r] = {}]

\* The device hung up earlier: nobody reads the answer.
Discard(r) ==
  /\ h[r].pc = "reply" /\ waiting # r
  /\ Finish(r)
  /\ UNCHANGED <<server, stored, device, told, carried>>

\* The connection breaks: the task is dropped at an await, or its answer is lost.
Drop(r) ==
  /\ "drop" \in Faults /\ h[r].pc # "idle"
  /\ Finish(r)
  /\ waiting' = IF waiting = r THEN NoReq ELSE waiting
  /\ UNCHANGED <<server, stored, has, ckey, pending, told, carried>>

\* The gateway restarts: every task is gone, and so is an in-memory store.
Restart ==
  /\ "restart" \in Faults
  /\ h' = [r \in Reqs |-> Idle] /\ away' = [r \in Reqs |-> {}]
  /\ waiting' = NoReq
  /\ stored' = IF Durable THEN stored ELSE NoRecord
  /\ UNCHANGED <<server, has, ckey, pending, told, carried>>

-----------------------------------------------------------------------------
(* The device (external) *)

\* The device stops short of the largest SyncKey: the bound of the model.
SendSync(r, get) ==
  /\ waiting = NoReq /\ h[r].pc = "idle" /\ ckey < MaxKey
  /\ h' = [h EXCEPT ![r] = [Idle EXCEPT !.pc = "load", !.key = ckey, !.get = get,
                                        !.cmds = pending, !.todo = pending]]
  /\ waiting' = r
  /\ away' = [away EXCEPT ![r] = Msgs \ inbox]
  /\ UNCHANGED <<server, stored, has, ckey, pending, told, carried>>

\* Status 1 is applied, Status 3 starts over from nothing, Status 5 is retried.
Receive(r) ==
  /\ h[r].pc = "reply" /\ waiting = r
  /\ Finish(r) /\ waiting' = NoReq
  /\ LET rep == h[r].reply IN
       \/ /\ rep.status = 1
          /\ has' = (has \cup rep.adds) \ rep.dels
          /\ told' = told \cup rep.adds
          /\ ckey' = rep.key
          /\ pending' = SubSeq(pending, Len(h[r].cmds) + 1, Len(pending))
       \/ /\ rep.status = 3
          /\ has' = {} /\ told' = {} /\ ckey' = 0 /\ pending' = <<>>
       \/ /\ rep.status = 5
          /\ UNCHANGED <<has, told, ckey, pending>>
  /\ UNCHANGED <<server, stored, carried>>

\* The device gives up on a request that the gateway still works on.
Timeout ==
  /\ "timeout" \in Faults /\ waiting # NoReq
  /\ waiting' = NoReq
  /\ UNCHANGED <<server, stored, h, has, ckey, pending, told, carried, away>>

\* The account is set up again under the same device id.
Reset ==
  /\ "reset" \in Faults /\ waiting = NoReq
  /\ has' = {} /\ told' = {} /\ ckey' = 0 /\ pending' = <<>>
  /\ UNCHANGED <<server, stored, h, waiting, carried, away>>

UserActs ==
  /\ Len(pending) < MaxPending
  /\ \E op \in Ops, m \in has :
       /\ pending' = Append(pending, [op |-> op, id |-> m])
       /\ has' = IF op = "Delete" THEN has \ {m} ELSE has
  /\ UNCHANGED <<server, stored, h, ckey, waiting, told, carried, away>>

-----------------------------------------------------------------------------
(* Other clients of the mail server (external) *)

\* A message is delivered or moved into the mailbox, whatever its age.
Enter(m) ==
  /\ m \notin inbox \cup destroyed
  /\ inbox' = inbox \cup {m}
  /\ UNCHANGED <<destroyed, read, stored, h, device, told, carried, away>>

\* A message is moved out of the mailbox or deleted.
Leave(m) ==
  /\ m \in inbox
  /\ inbox' = inbox \ {m}
  /\ NoteAway(m)
  /\ UNCHANGED <<destroyed, read, stored, h, device, told, carried>>

-----------------------------------------------------------------------------
(* Specification *)

Init ==
  /\ inbox = {} /\ destroyed = {} /\ read = {}
  /\ stored = NoRecord
  /\ h = [r \in Reqs |-> Idle]
  /\ has = {} /\ ckey = 0 /\ pending = <<>> /\ waiting = NoReq
  /\ told = {} /\ carried = {}
  /\ away = [r \in Reqs |-> {}]

\* What handler r does when every call succeeds.
Work(r) ==
  \/ Load(r) \/ ApplyCommand(r) \/ QueryWindow(r) \/ ConfirmMissing(r)
  \/ PutChanges(r) \/ PutNoChanges(r) \/ SkipPut(r) \/ Discard(r)

\* What else may happen to it.
Fail(r) ==
  \/ LoadFails(r) \/ CommandRejected(r) \/ JmapFails(r) \/ ConfirmFails(r)
  \/ PutFails(r) \/ Drop(r)

Exchange(r) == Receive(r) \/ \E get \in GetChanges : SendSync(r, get)

Next ==
  \/ \E r \in Reqs : Work(r) \/ Fail(r) \/ Exchange(r)
  \/ Restart \/ Timeout \/ Reset \/ UserActs
  \/ \E m \in Msgs : Enter(m) \/ Leave(m)

Spec == Init /\ [][Next]_vars

-----------------------------------------------------------------------------
(* Safety *)

\* A Delete in an answer names only messages that were outside the mailbox at
\* some time while this request was handled: a message pushed out of the page
\* by newer mail is never deleted from the device (activesync.rs 1264-1310).
NoFalseDelete ==
  \A r \in Reqs : h[r].pc = "reply" => h[r].reply.dels \subseteq away[r]

\* The device and the gateway agree on the SyncKey.
InSync == ckey # 0 /\ ckey = stored.key

\* In sync, every message the device shows is one the gateway tracks, so that
\* its removal from the mailbox will be noticed: no message stays forever.
DeviceTracked == InSync => has \subseteq stored.seen

\* In sync, every message the gateway takes for seen was given to this device
\* since its last reset, or was carried over an initial Sync: an Add whose
\* answer was lost is never taken for delivered.
NothingHidden == InSync => stored.seen \subseteq told \cup carried

\* An answer the device waits for adds no message it already shows.
NoReplayedAdds ==
  \A r \in Reqs : h[r].pc = "reply" /\ waiting = r => h[r].reply.adds \cap has = {}

\* When the gateway acknowledges a request, the Deletes in it are done.
AckedDeletesDone ==
  \A r \in Reqs : h[r].pc = "reply" /\ h[r].reply.status = 1 =>
    \A i \in DOMAIN h[r].cmds :
      h[r].cmds[i].op = "Delete" => h[r].cmds[i].id \in destroyed

\* The commands of a request that mark message m.
Marks(cmds, m) == {i \in DOMAIN cmds : cmds[i].id = m /\ cmds[i].op # "Delete"}

\* When the gateway acknowledges a request, every message that still exists has
\* the read flag of the last command for it, retries and failures included.
AckedMarksDone ==
  \A r \in Reqs, m \in Msgs \ destroyed :
    LET cmds  == h[r].cmds
        marks == Marks(cmds, m)
    IN  h[r].pc = "reply" /\ h[r].reply.status = 1 =>
          \A i \in marks : (\A j \in marks : j <= i) =>
            (m \in read <=> cmds[i].op = "Read")

\* An answer to an initial Sync without MoreAvailable covers every message that
\* was in the mailbox all along (client.rs 349-356).
FirstSyncComplete ==
  \A r \in Reqs :
    h[r].pc = "reply" /\ h[r].reply.status = 1 /\ h[r].get /\ h[r].key = 0 =>
      h[r].reply.more \/ (Msgs \ away[r]) \subseteq h[r].reply.adds

\* The same of every Sync that lists changes: without MoreAvailable nothing that
\* the device was not told of stays behind.
SyncComplete ==
  \A r \in Reqs :
    h[r].pc = "reply" /\ h[r].reply.status = 1 /\ h[r].get =>
      h[r].reply.more \/ (Msgs \ away[r]) \subseteq h[r].prev.seen \cup h[r].reply.adds

\* A SyncKey names one state: the seen set never changes under the same key,
\* except by another initial Sync, which gives "1" again.
KeyNamesState ==
  [][stored'.key = stored.key /\ stored.key > 1 => stored'.seen = stored.seen]_vars

-----------------------------------------------------------------------------
(* Inductive invariants, used by the proofs in MailSyncProofs.  First, of a *)
(* device that sends one request at a time.                                 *)

\* A device without a SyncKey has nothing.
FreshIsEmpty == ckey = 0 => has = {} /\ told = {}

\* A running handler works for the device's present SyncKey, unless the device
\* gave up on it and was reset.
WorksForDevice(r) ==
  /\ waiting = r => h[r].pc # "idle"
  /\ h[r].pc # "idle" => /\ h[r].key < MaxKey
                         /\ ckey = h[r].key \/ (ckey = 0 /\ waiting # r)

\* A handler that passed the key check holds the stored record, or none after a
\* failed read.
HoldsRecord(r) ==
  h[r].pc \in {"commands", "confirm", "put"} =>
    \/ h[r].prev = stored /\ h[r].key \in {0, stored.key}
    \/ h[r].prev = NoRecord /\ h[r].key = 0

\* An answer of Status 1 the device waits for leads it to the stored record.
LeadsToStored(r) ==
  h[r].pc = "reply" /\ h[r].reply.status = 1 /\ waiting = r =>
    LET rep == h[r].reply IN
    /\ stored.key = rep.key /\ rep.key # 0
    /\ rep.key = h[r].key => rep.adds = {} /\ rep.dels = {}
    /\ (has \cup rep.adds) \ rep.dels \subseteq stored.seen
    /\ stored.seen \subseteq told \cup rep.adds \cup carried

\* No other answer carries changes.
RefusalsAreEmpty(r) ==
  h[r].reply.status # 1 => h[r].reply.adds = {} /\ h[r].reply.dels = {}

SerialInv ==
  /\ TypeOK /\ FreshIsEmpty
  /\ DeviceTracked /\ NothingHidden /\ NoReplayedAdds
  /\ \A r \in Reqs : /\ WorksForDevice(r) /\ HoldsRecord(r)
                     /\ LeadsToStored(r) /\ RefusalsAreEmpty(r)

\* What makes NoFalseDelete inductive, whatever the number of requests: the
\* history misses nothing, and Deletes come from confirmed absences only.
AwayNoted(r) ==
  /\ h[r].pc # "idle" => (Msgs \ inbox) \subseteq away[r]
  /\ h[r].removed \subseteq away[r]
  /\ h[r].reply.dels \subseteq away[r]

AwayInv == \A r \in Reqs : AwayNoted(r)

\* What makes AckedDeletesDone inductive: a Delete of the request is done or
\* still to do, and a handler leaves the commands only when all are done.
DeletesInHand(r) ==
  /\ \A i \in DOMAIN h[r].cmds : h[r].cmds[i].op = "Delete" =>
       h[r].cmds[i].id \in destroyed \/ \E j \in DOMAIN h[r].todo : h[r].todo[j] = h[r].cmds[i]
  /\ h[r].pc \in {"confirm", "put"} \/ (h[r].pc = "reply" /\ h[r].reply.status = 1) =>
       h[r].todo = <<>>

DeletesInv == \A r \in Reqs : DeletesInHand(r)

\* What makes FirstSyncComplete inductive: the page of an initial Sync holds all
\* that never left the mailbox, unless the listing says that there is more.
PageCovers(r) ==
  h[r].key = 0 =>
    /\ h[r].pc \in {"confirm", "put"} => h[r].more \/ (Msgs \ away[r]) \subseteq h[r].page
    /\ h[r].pc = "reply" /\ h[r].reply.status = 1 /\ h[r].get =>
         h[r].reply.more \/ (Msgs \ away[r]) \subseteq h[r].reply.adds

PageInv == \A r \in Reqs : PageCovers(r)

\* What makes AckedMarksDone inductive with one request at a time: the commands
\* still to do are the last ones of the request, and every message that exists
\* has the read flag of the last mark done.
Done(r) == Len(h[r].cmds) - Len(h[r].todo)

LastMark(r, m, i) ==
  /\ i \in Marks(h[r].cmds, m) /\ i <= Done(r)
  /\ \A j \in Marks(h[r].cmds, m) : j <= Done(r) => j <= i

MarksInHand(r) ==
  /\ Done(r) >= 0
  /\ \A i \in DOMAIN h[r].todo : h[r].todo[i] = h[r].cmds[Done(r) + i]
  /\ \A m \in Msgs \ destroyed : \A i \in DOMAIN h[r].cmds :
       LastMark(r, m, i) => (m \in read <=> h[r].cmds[i].op = "Read")

MarksInv == \A r \in Reqs : MarksInHand(r)
=============================================================================
