------------------------------ MODULE NoteSync ------------------------------
(***************************************************************************)
(* Sync of the Notes collection for one (user, device): activesync.rs,     *)
(* sync_notes_collection, on top of the functions of NoteStore.  The       *)
(* handler is the request Gw; what other devices and mail clients do to    *)
(* the mailbox is one step each.                                           *)
(***************************************************************************)
EXTENDS NoteStore

CONSTANTS
  Gw,          \* the handler of this device's request
  MaxKey,      \* the largest SyncKey; the device stops below it
  GetChanges   \* values of the GetChanges element the device uses

SyncFaults == {"get", "put"}

ASSUME GwAssumption == Procs = {Gw} /\ Gw # None /\ MaxKey \in Nat \ {0}
ASSUME ValsAssumption == None \notin Vals
ASSUME FaultsAssumption ==
  GetChanges \subseteq BOOLEAN /\ Faults \subseteq StoreFaults \cup SyncFaults

VARIABLES
  key,     \* state store: the SyncKey of the SyncRecord
  base,    \* state store: the item states, note to hash
  h,       \* the local state of the handler
  has,     \* device: the body it shows of every note, or None
  dirty,   \* device: notes it changed or deleted, not yet acknowledged
  draft,   \* device: the body of a note it created that has no ServerId yet, or None
  ckey,    \* device: its SyncKey
  missed,  \* history: notes whose item state the device was not told, or not stored
  away,    \* history: notes without an email at some time since the request was sent
  blind    \* history: its listing was answered with a method-level error

store   == <<key, base>>
device  == <<has, dirty, draft, ckey>>
history == <<missed, away, blind>>
vars    == <<notesVars, store, h, device, history>>

-----------------------------------------------------------------------------
(* Types *)

View   == [NoteIds -> Vals \cup {None}]
Hashes == [NoteIds -> Hash]
Blank  == [n \in NoteIds |-> None]
NoHashes == [n \in NoteIds |-> NoHash]
Key    == 0..MaxKey

\* A new note has no id.
Command == [op : {"Add"}, note : {None}, val : Vals]
             \cup [op : {"Change"}, note : NoteIds, val : Vals]
             \cup [op : {"Delete"}, note : NoteIds, val : {None}]

NoCommand == [op |-> "none", note |-> None, val |-> None]

\* An entry of add_responses or change_responses; `email` is the one it saved.
Response == [op : {"Add", "Change"}, note : NoteIds \cup {None}, ok : BOOLEAN,
             email : EmailIds \cup {None}, val : Vals]

Reply == [status : {0, 1, 3, 5}, key : Key, responses : SUBSET Response, puts : View,
          dels : SUBSET NoteIds]

NoReply == [status |-> 0, key |-> 0, responses |-> {}, puts |-> Blank, dels |-> {}]

PCs == {"idle", "load", "commands", "list", "put", "items", "fetch", "reply"}

Handler == [pc : PCs, key : Key, get : BOOLEAN, todo : SUBSET Command,
            cmd : Command \cup {NoCommand}, prev : Hashes, list : Hashes,
            undeleted : SUBSET NoteIds, deleting : SUBSET NoteIds,
            fetch : SUBSET NoteIds, reply : Reply]

Idle == [pc |-> "idle", key |-> 0, get |-> FALSE, todo |-> {}, cmd |-> NoCommand,
         prev |-> NoHashes, list |-> NoHashes, undeleted |-> {}, deleting |-> {},
         fetch |-> {}, reply |-> NoReply]

TypeOK ==
  /\ NotesTypeOK
  /\ key \in Key /\ base \in Hashes
  /\ h \in Handler
  /\ has \in View /\ dirty \subseteq NoteIds /\ draft \in Vals \cup {None} /\ ckey \in Key
  /\ missed \subseteq NoteIds /\ away \subseteq NoteIds /\ blind \in BOOLEAN

-----------------------------------------------------------------------------
(* The diff *)

Notes(hashes) == {n \in NoteIds : hashes[n] # NoHash}

just_written(responses) == {r.note : r \in responses} \ {None}

to_add(prev, list, written) == {n \in Notes(list) \ written : prev[n] = NoHash}

to_change(prev, list, written) ==
  {n \in Notes(list) \ written : prev[n] # NoHash /\ prev[n] # list[n]}

\* Mutant: a note with another hash is taken for another note.
remove_changed(prev, list) == {n \in Notes(prev) : prev[n] # list[n]}

to_remove(prev, list) == Notes(prev) \ Notes(list)

next_sync_key(k) == IF k = MaxKey THEN MaxKey ELSE k + 1

-----------------------------------------------------------------------------
(* The handler *)

Goto(pc) == h' = [h EXCEPT !.pc = pc]

Refuse(status) ==
  h' = [Idle EXCEPT !.pc = "reply", !.reply = [NoReply EXCEPT !.status = status, !.key = h.key]]

\* The key check of sync_mail, the same for every class.
KeyIsValid == h.key \in {0, key}

\* A read of the item states that fails counts as none.
Load ==
  /\ h.pc = "load"
  /\ \/ ~KeyIsValid /\ Refuse(3)
     \/ /\ KeyIsValid
        /\ \E prev \in {base} \cup (IF "get" \in Faults THEN {NoHashes} ELSE {}) :
             h' = [h EXCEPT !.pc = "commands", !.prev = prev]
  /\ UNCHANGED <<notesVars, store, device, history>>

\* save_note with a generated id, save_note with the client's, or destroy_note.
StartCommand ==
  /\ h.pc = "commands" /\ h.cmd = NoCommand
  /\ \E c \in h.todo :
       /\ h' = [h EXCEPT !.todo = @ \ {c}, !.cmd = c]
       /\ \/ /\ c.op = "Add"
             /\ \E n \in NoteIds \ given :
                  StartJob(Gw, SaveNew(n, c.val)) /\ given' = given \cup {n}
          \/ c.op = "Change" /\ StartJob(Gw, SaveOld(c.note, c.val)) /\ UNCHANGED given
          \/ c.op = "Delete" /\ StartJob(Gw, DestroyNote(c.note)) /\ UNCHANGED given
  /\ UNCHANGED <<stored, born, mail, notesHistory, store, device, history>>

\* The response to the command just done; a Delete has none.
Respond(job) ==
  IF h.cmd.op = "Delete" THEN {}
  ELSE {[op |-> h.cmd.op, ok |-> job.ok, email |-> job.email, val |-> h.cmd.val,
         note |-> IF h.cmd.op = "Add" /\ ~job.ok THEN None ELSE job.note]}

\* A failed Delete is only logged.
EndCommand ==
  /\ h.pc = "commands" /\ h.cmd # NoCommand /\ jobs[Gw].step = "done"
  /\ LET job == jobs[Gw]
         n   == h.cmd.note
         destroyed == h.cmd.op = "Delete" /\ job.ok
     IN  h' = [h EXCEPT
           !.cmd = NoCommand,
           !.reply.responses = @ \cup Respond(job),
           !.prev = IF destroyed THEN [h.prev EXCEPT ![n] = NoHash] ELSE h.prev,
           !.deleting = IF destroyed THEN @ \cup {n} ELSE @,
           !.undeleted = IF h.cmd.op = "Delete" /\ ~job.ok THEN @ \cup {n} ELSE @]
  /\ StartJob(Gw, NoJob)
  /\ UNCHANGED <<mailbox, notesHistory, store, device, history>>

StartList ==
  /\ h.pc = "commands" /\ h.cmd = NoCommand /\ h.todo = {}
  /\ Goto("list") /\ StartJob(Gw, ListNotes)
  /\ UNCHANGED <<mailbox, notesHistory, store, device, history>>

EndList ==
  /\ h.pc = "list" /\ jobs[Gw].step = "done"
  /\ \/ jobs[Gw].ok /\ h' = [h EXCEPT !.pc = "put", !.list = jobs[Gw].found]
     \/ ~jobs[Gw].ok /\ Refuse(5)
  /\ StartJob(Gw, NoJob)
  /\ UNCHANGED <<mailbox, notesHistory, store, device, history>>

Responses == h.reply.responses
Written   == just_written(Responses)
ToAdd     == to_add(h.prev, h.list, Written)
ToChange  == to_change(h.prev, h.list, Written)
ToRemove  == to_remove(h.prev, h.list)

NewKey ==
  IF h.key = 0 \/ ToAdd \cup ToChange \cup ToRemove # {} \/ Responses # {}
    THEN next_sync_key(h.key) ELSE h.key

\* Write the SyncRecord; a write that fails is only logged.
PutRecord ==
  /\ h.pc = "put"
  /\ Goto("items")
  /\ \/ key' = NewKey
     \/ "put" \in Faults /\ key' = key
  /\ UNCHANGED <<notesVars, base, device, history>>

\* Notes whose item state the answer does not bring to the device: what an
\* initial Sync finds in the item states already,
Carried == IF h.key = 0 THEN {n \in Notes(h.list) : h.prev[n] = h.list[n]} ELSE {}
\* another's edit, or removal, behind the device's own,
Swallowed == {r.note : r \in {q \in Responses : q.ok /\
                h.list[q.note] # [sec |-> mail[q.email].sec, tags |-> {q.note}]}} \ ToRemove
\* a Delete that failed,
Undeleted == {n \in h.undeleted : h.list[n] # NoHash /\ h.list[n] = h.prev[n]}
\* changes the client did not ask for,
Unasked == IF h.get THEN {} ELSE ToAdd \cup ToChange \cup ToRemove
\* and what is gone since item states that could not be read.
Forgotten == {n \in Notes(base) \ Notes(h.list) :
                h.key # 0 /\ h.prev[n] = NoHash /\ n \notin h.deleting}
Missed == Carried \cup Swallowed \cup Undeleted \cup Unasked \cup Forgotten
            \cup (IF h.key = 0 THEN {} ELSE missed \ (ToAdd \cup ToChange \cup ToRemove))
\* One of the two writes failed.
Unsaved == {n \in NoteIds : h.list[n] # base[n]}

\* Replace the item states; a write that fails is only logged.  The answer is
\* begun, the notes to send are fetched one by one.
PutItems ==
  /\ h.pc = "items"
  /\ \/ base' = h.list /\ missed' = Missed \cup (IF key = NewKey THEN {} ELSE missed \cup Unsaved)
     \/ "put" \in Faults /\ base' = base /\ missed' = Missed \cup missed \cup Unsaved
  /\ h' = [h EXCEPT !.pc = "fetch", !.reply.status = 1, !.reply.key = NewKey,
                    !.fetch = IF h.get THEN ToAdd \cup ToChange ELSE {},
                    !.reply.dels = IF h.get THEN ToRemove ELSE {}]
  /\ UNCHANGED <<notesVars, key, device, away, blind>>

StartFetch ==
  /\ h.pc = "fetch" /\ jobs[Gw] = NoJob
  /\ \E n \in h.fetch : StartJob(Gw, GetNote(n)) /\ h' = [h EXCEPT !.fetch = @ \ {n}]
  /\ UNCHANGED <<mailbox, notesHistory, store, device, history>>

\* A note that cannot be fetched, or is gone, is left out of the answer.
EndFetch ==
  /\ h.pc = "fetch" /\ jobs[Gw].op = "get" /\ jobs[Gw].step = "done"
  /\ LET job == jobs[Gw] IN
       \/ /\ job.email # None
          /\ h' = [h EXCEPT !.reply.puts[job.note] = mail[job.email].val]
          /\ UNCHANGED missed
       \/ /\ job.email = None
          /\ missed' = missed \cup {job.note}
          /\ UNCHANGED h
  /\ StartJob(Gw, NoJob)
  /\ UNCHANGED <<mailbox, notesHistory, store, device, away, blind>>

Answer ==
  /\ h.pc = "fetch" /\ h.fetch = {} /\ jobs[Gw] = NoJob
  /\ h' = [Idle EXCEPT !.pc = "reply", !.reply = h.reply]
  /\ UNCHANGED <<notesVars, store, device, history>>

\* The request is dropped at an await, or its answer is lost.
Drop ==
  /\ "drop" \in Faults /\ h.pc # "idle"
  /\ h' = Idle
  /\ Abandon(Gw)
  /\ UNCHANGED <<store, device, history>>

-----------------------------------------------------------------------------
(* The device (external) *)

Commands ==
  (IF draft = None THEN {} ELSE {[op |-> "Add", note |-> None, val |-> draft]})
  \cup {[op |-> "Change", note |-> n, val |-> has[n]] : n \in {m \in dirty : has[m] # None}}
  \cup {[op |-> "Delete", note |-> n, val |-> None] : n \in {m \in dirty : has[m] = None}}

\* Notes no email of the mailbox is listed as.
Absent == {n \in NoteIds : \A e \in stored : extract_stable_id(e) # n}

SendSync(get) ==
  /\ h.pc = "idle" /\ ckey < MaxKey
  /\ h' = [Idle EXCEPT !.pc = "load", !.key = ckey, !.get = get, !.todo = Commands]
  /\ away' = Absent /\ blind' = FALSE
  /\ UNCHANGED <<notesVars, store, device, missed>>

\* What the device makes of an answer: the Changes it has to send again,
Queued(rep) == {r.note : r \in {q \in rep.responses : q.op = "Change" /\ ~q.ok}} \ rep.dels
\* the note its Add has become,
Added(rep, n) == {r \in rep.responses : r.op = "Add" /\ r.ok /\ r.note = n}
\* and the body it shows of every note.
Shown(rep, n) ==
  IF n \in rep.dels THEN None
  ELSE IF rep.puts[n] # None THEN rep.puts[n]
  ELSE IF Added(rep, n) # {} THEN (CHOOSE r \in Added(rep, n) : TRUE).val
  ELSE has[n]

\* Status 5 of a command keeps it queued, Status 3 starts over from nothing, Status 5
\* of the collection sends the same again.
Receive ==
  /\ h.pc = "reply"
  /\ h' = Idle
  /\ \/ /\ h.reply.status = 1
        /\ has' = [n \in NoteIds |-> Shown(h.reply, n)]
        /\ dirty' = Queued(h.reply)
        /\ draft' = IF \E r \in h.reply.responses : r.op = "Add" /\ r.ok THEN None ELSE draft
        /\ ckey' = h.reply.key
     \/ /\ h.reply.status = 3
        /\ has' = Blank /\ dirty' = {} /\ draft' = None /\ ckey' = 0
     \/ /\ h.reply.status = 5 /\ UNCHANGED device
  /\ UNCHANGED <<notesVars, store, history>>

UserEdits ==
  /\ h.pc = "idle" /\ ckey # 0
  /\ \/ \E n \in NoteIds, v \in Vals \cup {None} :
          /\ has[n] # None /\ v # has[n]
          /\ has' = [has EXCEPT ![n] = v] /\ dirty' = dirty \cup {n} /\ UNCHANGED draft
     \/ \E v \in Vals : draft = None /\ draft' = v /\ UNCHANGED <<has, dirty>>
  /\ UNCHANGED <<notesVars, store, h, ckey, history>>

-----------------------------------------------------------------------------
(* Another device of the user, through the gateway (external): a whole edit *)

OthersSave ==
  /\ born # EmailIds
  /\ \E old \in stored, v \in Vals, s \in Seconds :
       LET n == extract_stable_id(old) IN
       /\ n # None
       /\ mail' = [mail EXCEPT ![NextEmail] = [tags |-> {n}, val |-> v, sec |-> s]]
       /\ stored' = (stored \ {old}) \cup {NextEmail}
       /\ born' = born \cup {NextEmail}
       /\ newest' = [newest EXCEPT ![n] = NextEmail]
       /\ deleted' = deleted \ {n}
       /\ messy' = IF Overlaps(None, n) THEN messy \cup {n} ELSE messy
  /\ UNCHANGED <<given, jobs, gone, overlooked, raced>>

-----------------------------------------------------------------------------
(* Specification *)

Init ==
  /\ NotesInit
  /\ key = 0 /\ base = NoHashes /\ h = Idle
  /\ has = Blank /\ dirty = {} /\ draft = None /\ ckey = 0
  /\ missed = {} /\ away = {} /\ blind = FALSE

\* The steps of the gateway's requests and of the other clients in the mailbox.
\* `away` follows the notes of the mailbox.
Mailbox ==
  /\ \/ /\ \/ JobWorks(Gw) \/ JobFails(Gw)
           \/ OthersCreate \/ OthersSave \/ OthersRemove
        /\ UNCHANGED blind
     \/ ListErrs(Gw) /\ blind' = TRUE
  /\ away' = IF h.pc = "idle" THEN away ELSE away \cup Absent'
  /\ UNCHANGED <<store, h, device, missed>>

Handle ==
  \/ Load \/ StartCommand \/ EndCommand \/ StartList \/ EndList \/ PutRecord \/ PutItems
  \/ StartFetch \/ EndFetch \/ Answer \/ Drop

Next ==
  \/ Mailbox \/ Handle \/ Receive \/ UserEdits
  \/ \E get \in GetChanges : SendSync(get)

Spec == Init /\ [][Next]_vars

-----------------------------------------------------------------------------
(* Safety *)

\* Between two requests of a device that holds the stored SyncKey.
InSync == h.pc = "idle" /\ ckey # 0 /\ ckey = key

\* Notes with two revisions of one second, which have one hash.
Blurred ==
  {n \in NoteIds : \E e, o \in born :
     e # o /\ n \in mail[e].tags \cap mail[o].tags /\ mail[e].sec = mail[o].sec}

\* In sync, a note the device shows wrongly, or not at all, is one the next diff
\* finds: its hash is not the one of the item states.  The exceptions are the
\* ways into `missed`, notes with two emails, and two revisions in one second.
UpdateComes ==
  InSync =>
    /\ \A e \in stored :
         LET n == extract_stable_id(e) IN
           n # None /\ n \notin missed \cup dirty \cup messy \cup Blurred /\ has[n] # mail[e].val
             => base[n] # note_hash(e)
    /\ \A n \in Absent \ (missed \cup dirty) : has[n] # None => base[n] # NoHash

\* A Delete in an answer names only notes that had no email at some time during
\* the request, unless its listing was answered with a method-level error.
NoFalseDelete == h.pc = "reply" /\ ~blind => h.reply.dels \subseteq away

-----------------------------------------------------------------------------
(* The inductive invariant of the request and its note functions *)

\* Every email of the mailbox has a body and a time, and the notes it is one of
\* had a newest email.
MailInv ==
  /\ raced = {}
  /\ \A e \in born :
       /\ mail[e].sec # 0 /\ mail[e].val \in Vals
       /\ \A n \in mail[e].tags : newest[n] # None

\* Notes that a device may know.
Known == {n \in NoteIds : newest[n] # None}

\* Where the request is in a note function, which one it is.
JobFits ==
  LET job == jobs[Gw] IN
  /\ h.cmd # NoCommand => h.pc = "commands"
  /\ h.pc \in {"idle", "load", "put", "items", "reply"} => job = NoJob
  /\ h.pc = "commands" /\ h.cmd = NoCommand => job = NoJob
  /\ h.pc = "commands" /\ h.cmd # NoCommand =>
       /\ job.op = IF h.cmd.op = "Delete" THEN "destroy" ELSE "save"
       /\ job.val = h.cmd.val /\ job.note \in NoteIds
       /\ h.cmd.op # "Add" => job.note = h.cmd.note
  /\ h.pc = "list" => job.op = "list" /\ job.step \in {"query", "adopt", "done"}
  /\ h.pc = "fetch" => job = NoJob \/ (job.op = "get" /\ job.note \in NoteIds)

\* An email of the note with this body.
IsOf(e, n) == e \in born /\ n \in mail[e].tags

\* What a note function hands back is an email of its note: a save the one with
\* its body.
SavedInv(job) ==
  /\ job.op = "save" /\ (job.step = "cleanup" \/ (job.step = "done" /\ job.ok)) =>
       IsOf(job.email, job.note) /\ mail[job.email].val = job.val
  /\ job.op = "get" /\ job.email # None => IsOf(job.email, job.note)

\* A response tells of an email that was saved, or of a Change of the device.
RespondedInv(r) ==
  /\ r.ok => IsOf(r.email, r.note) /\ mail[r.email].val = r.val
  /\ r.op = "Change" => r.note \in Known

\* The device and the request speak only of notes that had an email.
KnownInv ==
  /\ dirty \subseteq Known
  /\ \A n \in NoteIds : has[n] # None \/ h.reply.puts[n] # None => n \in Known
  /\ \A c \in h.todo \cup {h.cmd} : c.op \in {"Change", "Delete"} => c.note \in Known
  /\ \A r \in h.reply.responses : RespondedInv(r)
  /\ h.fetch \subseteq given

\* The hash was that of an email which is, or is about to be, one of the note.
WasHash(x, n) ==
  x # NoHash =>
    /\ n \in given /\ x.tags \subseteq {n}
    /\ \E e \in born : mail[e].sec = x.sec /\ x.tags \subseteq mail[e].tags

HashInv ==
  \A n \in NoteIds : /\ WasHash(base[n], n) /\ WasHash(h.prev[n], n)
                     /\ WasHash(h.list[n], n) /\ WasHash(jobs[Gw].found[n], n)

\* The invariants of the note functions hold for this device's requests too, and
\* a request and its function, its answer and the device agree on the notes they
\* speak of.
SyncInv ==
  /\ TypeOK /\ NoteInv /\ EditInv
  /\ MailInv /\ JobFits /\ SavedInv(jobs[Gw]) /\ KnownInv /\ HashInv

-----------------------------------------------------------------------------
(* The inductive invariant behind NoFalseDelete *)

\* What a listing did not find was absent.
AwayInv ==
  ~blind =>
    /\ h.pc = "list" /\ (jobs[Gw].step = "adopt" \/ (jobs[Gw].step = "done" /\ jobs[Gw].ok)) =>
         NoteIds \ Notes(jobs[Gw].found) \subseteq away
    /\ h.pc \in {"put", "items"} => NoteIds \ Notes(h.list) \subseteq away
    /\ h.reply.dels \subseteq away

-----------------------------------------------------------------------------
(* The inductive invariant behind UpdateComes *)

\* An email of the note n with the hash x has the body v, if hashes tell its
\* revisions apart.
Fits(n, x, v) ==
  /\ v # None => x # NoHash
  /\ n \notin messy \cup Blurred => \A e \in Backing(n) : note_hash(e) = x => mail[e].val = v

\* A device that shows the body v of n, or is to send its own, is told by the item
\* states what is not so.
Told(n, own, v) == IF own THEN v # None => base[n] # NoHash ELSE Fits(n, base[n], v)

Working == h.pc \in {"commands", "list", "put", "items"}

Agree ==
  ckey # 0 /\ (ckey = key \/ Working) => \A n \in NoteIds \ missed : Told(n, n \in dirty, has[n])

FreshIsEmpty == ckey = 0 => has = Blank /\ dirty = {} /\ draft = None

RequestInv ==
  /\ h.pc \notin {"idle", "reply"} => h.key = ckey /\ h.key < MaxKey
  /\ h.pc = "load" => h.todo = Commands
  /\ h.pc \in {"idle", "load"} => h.cmd = NoCommand /\ Responses = {} /\ h.deleting = {}
  /\ h.pc \notin {"fetch", "reply"} => h.reply.puts = Blank /\ h.reply.dels = {}
  /\ h.pc = "reply" => h.fetch = {}

\* Done or still to do: every command of the device.
WorkInv ==
  Working =>
    /\ \A n \in NoteIds : h.prev[n] \in {base[n], NoHash}
    /\ h.todo \subseteq Commands /\ h.cmd \in Commands \cup {NoCommand}
    /\ h.pc # "commands" => h.todo = {} /\ h.cmd = NoCommand
    /\ h.deleting \subseteq {n \in dirty : has[n] = None}
    /\ \A n \in dirty :
         \/ \E c \in h.todo \cup {h.cmd} : c.op \in {"Change", "Delete"} /\ c.note = n
         \/ IF has[n] = None THEN h.prev[n] = NoHash \/ n \in h.undeleted
                             ELSE \E r \in Responses : r.op = "Change" /\ r.note = n

\* Responses tell of the device's own commands.
AnsweredInv ==
  h.pc # "reply" => \A r \in Responses :
    /\ r.op = "Add" => draft # None /\ (r.ok \/ r.note = None)
    /\ r.op = "Change" => r.note \in dirty /\ r.val = has[r.note]

\* Notes whose body is still to be fetched.
Pending == h.fetch \cup ({jobs[Gw].note} \ {None})

\* The answer brings the device to the item states.
AnswerInv ==
  LET rep == h.reply IN
  h.pc \in {"fetch", "reply"} /\ rep.status = 1 =>
    /\ rep.key # 0
    /\ rep.key = key =>
         /\ \A n \in NoteIds \ (missed \cup Pending) : Told(n, n \in Queued(rep), Shown(rep, n))
         /\ \A n \in Pending \ missed : base[n] # NoHash /\ n \notin rep.dels
         /\ LET job == jobs[Gw] IN
              job.op = "get" /\ job.email # None /\ job.note \notin missed
                => Fits(job.note, base[job.note], mail[job.email].val)

\* At every step of a request the item states, the handler, the answer on its way
\* and the device agree on the body of every note, but for the ways into `missed`.
BodyInv ==
  /\ Agree /\ FreshIsEmpty
  /\ RequestInv /\ WorkInv /\ AnsweredInv /\ AnswerInv
=============================================================================
