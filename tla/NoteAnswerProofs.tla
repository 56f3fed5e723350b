-------------------------- MODULE NoteAnswerProofs --------------------------
(***************************************************************************)
(* What the answers of a Notes Sync do to the device, for every set of     *)
(* notes, emails and bodies: a Delete names only notes that were absent,   *)
(* unless the listing was answered with an error, and a device in sync is  *)
(* told of every note that it shows wrongly, even then.                    *)
(***************************************************************************)
EXTENDS NoteSyncProofs

-----------------------------------------------------------------------------
(* The steps of the handler, field by field *)

\* The fields of the commands, and those of the answer.
SameWork ==
  /\ h'.todo = h.todo /\ h'.cmd = h.cmd /\ h'.prev = h.prev /\ h'.list = h.list
  /\ h'.undeleted = h.undeleted /\ h'.deleting = h.deleting

SameAnswer == h'.fetch = h.fetch /\ h'.reply = h.reply

SameRequest == h'.key = h.key /\ h'.get = h.get

\* An answer that tells only of an error, and a handler that does nothing.
Refused(status) ==
  /\ h'.pc = "reply" /\ Bare(h') /\ h'.reply.status = status
  /\ h'.reply.responses = {} /\ h'.reply.puts = Blank /\ h'.reply.dels = {}

Resting(g) ==
  /\ g.pc = "idle" /\ Bare(g)
  /\ g.reply.responses = {} /\ g.reply.puts = Blank /\ g.reply.dels = {}

LEMMA IdleRests == Resting(Idle)
BY IdleIs DEF Resting

LEMMA LoadIs ==
  ASSUME SyncInv, Load
  PROVE  /\ h.pc = "load" /\ UNCHANGED <<notesVars, store, device, history>>
         /\ \/ Refused(3)
            \/ /\ h.key \in {0, key} /\ h'.pc = "commands"
               /\ h'.prev = base \/ h'.prev = NoHashes
               /\ h'.todo = h.todo /\ h'.cmd = h.cmd /\ h'.list = h.list
               /\ h'.undeleted = h.undeleted /\ h'.deleting = h.deleting
               /\ SameAnswer /\ SameRequest
<1>1. h.pc = "load" /\ UNCHANGED <<notesVars, store, device, history>>
  BY DEF Load
<1>2. CASE Refuse(3)
  BY <1>1, <1>2, RefuseIs DEF Refused
<1>3. CASE ~Refuse(3)
  <2>1. PICK prev \in {base, NoHashes} : h' = [h EXCEPT !.pc = "commands", !.prev = prev]
    BY <1>3 DEF Load
  <2>2. h.key \in {0, key}
    BY <1>3 DEF Load, KeyIsValid
  <2> QED
    BY <1>1, <2>1, <2>2, Typed DEF Handler, SameAnswer, SameRequest
<1> QED
  BY <1>2, <1>3

LEMMA StartCommandIs ==
  ASSUME SyncInv, StartCommand
  PROVE  /\ h.pc = "commands" /\ h.cmd = NoCommand
         /\ UNCHANGED <<stored, born, mail, notesHistory, store, device, history>>
         /\ h'.pc = "commands" /\ h'.cmd \in h.todo /\ h'.todo = h.todo \ {h'.cmd}
         /\ h'.prev = h.prev /\ h'.list = h.list
         /\ h'.undeleted = h.undeleted /\ h'.deleting = h.deleting
         /\ SameAnswer /\ SameRequest
<1>1. h.pc = "commands" /\ h.cmd = NoCommand
      /\ UNCHANGED <<stored, born, mail, notesHistory, store, device, history>>
  BY DEF StartCommand
<1>2. PICK c \in h.todo : h' = [h EXCEPT !.todo = @ \ {c}, !.cmd = c]
  BY DEF StartCommand
<1> QED
  BY <1>1, <1>2, Typed DEF Handler, SameAnswer, SameRequest

LEMMA StartListIs ==
  ASSUME SyncInv, StartList
  PROVE  /\ h.pc = "commands" /\ h.cmd = NoCommand /\ h.todo = {} /\ h'.pc = "list"
         /\ UNCHANGED <<mailbox, notesHistory, store, device, history>>
         /\ jobs'[Gw] = ListNotes /\ SameWork /\ SameAnswer /\ SameRequest
<1>1. /\ h.pc = "commands" /\ h.cmd = NoCommand /\ h.todo = {} /\ StartJob(Gw, ListNotes)
      /\ UNCHANGED <<mailbox, notesHistory, store, device, history>>
      /\ h' = [h EXCEPT !.pc = "list"]
  BY DEF StartList, Goto
<1>2. jobs'[Gw] = ListNotes
  BY <1>1, OnlyGw, StartIs, Typed
<1> QED
  BY <1>1, <1>2, Typed DEF Handler, SameWork, SameAnswer, SameRequest

LEMMA EndListIs ==
  ASSUME SyncInv, EndList
  PROVE  /\ h.pc = "list" /\ jobs[Gw].step = "done" /\ jobs'[Gw] = NoJob
         /\ UNCHANGED <<mailbox, notesHistory, store, device, history>>
         /\ \/ Refused(5)
            \/ /\ jobs[Gw].ok /\ h'.pc = "put" /\ h'.list = jobs[Gw].found
               /\ h'.todo = h.todo /\ h'.cmd = h.cmd /\ h'.prev = h.prev
               /\ h'.undeleted = h.undeleted /\ h'.deleting = h.deleting
               /\ SameAnswer /\ SameRequest
<1>1. /\ h.pc = "list" /\ jobs[Gw].step = "done" /\ StartJob(Gw, NoJob)
      /\ UNCHANGED <<mailbox, notesHistory, store, device, history>>
  BY DEF EndList
<1>2. jobs'[Gw] = NoJob
  BY <1>1, OnlyGw, StartIs, Typed
<1>3. CASE Refuse(5)
  BY <1>1, <1>2, <1>3, RefuseIs DEF Refused
<1>4. CASE ~Refuse(5)
  <2>1. PICK found : found = jobs[Gw].found
    OBVIOUS
  <2>2. jobs[Gw].ok /\ h' = [h EXCEPT !.pc = "put", !.list = found]
    BY <1>4, <2>1 DEF EndList
  <2> QED
    BY <1>1, <1>2, <2>1, <2>2, Typed DEF Handler, SameAnswer, SameRequest
<1> QED
  BY <1>3, <1>4

LEMMA PutRecordIs ==
  ASSUME SyncInv, PutRecord
  PROVE  /\ h.pc = "put" /\ h'.pc = "items" /\ UNCHANGED <<notesVars, base, device, history>>
         /\ SameWork /\ SameAnswer /\ SameRequest
BY Typed DEF PutRecord, Goto, Handler, SameWork, SameAnswer, SameRequest

LEMMA StartFetchIs ==
  ASSUME SyncInv, StartFetch
  PROVE  /\ h.pc = "fetch" /\ h'.pc = "fetch" /\ jobs[Gw] = NoJob
         /\ jobs'[Gw].note \in h.fetch /\ jobs'[Gw].email = None
         /\ UNCHANGED <<mailbox, notesHistory, store, device, history>>
         /\ h'.fetch = h.fetch \ {jobs'[Gw].note} /\ h'.reply = h.reply
         /\ SameWork /\ SameRequest
<1>1. PICK n \in h.fetch : StartJob(Gw, GetNote(n)) /\ h' = [h EXCEPT !.fetch = @ \ {n}]
  BY DEF StartFetch
<1>2. /\ h.pc = "fetch" /\ jobs[Gw] = NoJob
      /\ UNCHANGED <<mailbox, notesHistory, store, device, history>>
  BY DEF StartFetch
<1>3. Fresh(GetNote(n)) /\ GetNote(n).note = n
  BY FreshFunctions
<1>4. jobs'[Gw].note = n /\ jobs'[Gw].email = None
  BY <1>1, <1>3, OnlyGw, StartIs, Typed DEF Fresh
<1> QED
  BY <1>1, <1>2, <1>4, Typed DEF Handler, SameWork, SameRequest

LEMMA AnswerIs ==
  ASSUME SyncInv, Answer
  PROVE  /\ h.pc = "fetch" /\ h.fetch = {} /\ jobs[Gw] = NoJob
         /\ UNCHANGED <<notesVars, store, device, history>>
         /\ h'.pc = "reply" /\ Bare(h') /\ h'.reply = h.reply
BY IdleIs DEF Answer, Idle, Bare

-----------------------------------------------------------------------------
(* A Delete names only notes that were absent *)

\* A mailbox that one listing holds.
AllListed == Cardinality(EmailIds) <= Limit

LEMMA EveryEmailListed ==
  ASSUME NoteInv, AllListed, NEW e \in stored
  PROVE  e \in Listed
<1>1. PICK S : S = {o \in stored : o < e}
  OBVIOUS
<1>2. e \in EmailIds /\ stored \subseteq EmailIds /\ e \in Nat
  BY Slots, IdsAssumption
<1>3. S \in SUBSET (EmailIds \ {e})
  <2>1. \A o \in S : o \in EmailIds /\ o < e
    BY <1>1, <1>2
  <2>2. ~(e < e)
    BY <1>2
  <2> QED
    BY <2>1, <2>2
<1>4. /\ IsFiniteSet(EmailIds \ {e})
      /\ Cardinality(EmailIds \ {e}) = Cardinality(EmailIds) - 1
  BY <1>2, SizesAssumption, FS_RemoveElement
<1>5. Cardinality(S) <= Cardinality(EmailIds \ {e}) /\ Cardinality(S) \in Nat
  BY <1>3, <1>4, FS_Subset, FS_CardinalityType
<1>6. Cardinality(EmailIds) \in Nat /\ Limit \in Nat
  BY SizesAssumption, FS_CardinalityType
<1>7. Cardinality(S) < Limit
  BY <1>4, <1>5, <1>6 DEF AllListed
<1> QED
  BY <1>1, <1>7 DEF Listed

\* A note that a listing of the whole mailbox does not find is absent.
LEMMA NotFoundIsAbsent ==
  ASSUME SyncInv, AllListed, List(Gw), NEW n \in NoteIds, jobs'[Gw].found[n] = NoHash
  PROVE  n \in Absent'
<1>1. PICK adopted \in Adoptions, last \in [NoteIds -> Listed \cup {None}] :
        /\ \A k \in NoteIds :
             LET emails == {e \in Listed : ListedAs(e, adopted) = k}
             IN  last[k] \in IF emails = {} THEN {None} ELSE emails
        /\ LET fresh == {adopted[e] : e \in EmailIds} \ {None} IN
           jobs' = [jobs EXCEPT
                ![Gw].adopted = adopted,
                ![Gw].found = [k \in NoteIds |-> IF last[k] = None THEN NoHash ELSE note_hash(last[k])],
                ![Gw].step = IF fresh = {} THEN "done" ELSE "adopt"]
  BY DEF List
<1>2. jobs'[Gw].found[n] = IF last[n] = None THEN NoHash ELSE note_hash(last[n])
  <2>1. PICK F : F = [k \in NoteIds |-> IF last[k] = None THEN NoHash ELSE note_hash(last[k])]
    OBVIOUS
  <2>2. PICK st : jobs' = [jobs EXCEPT ![Gw].adopted = adopted, ![Gw].found = F, ![Gw].step = st]
    BY <1>1, <2>1
  <2>3. jobs \in [Procs -> Job] /\ Gw \in Procs /\ jobs[Gw] \in Job
    BY Slots, OnlyGw, Typed
  <2>4. jobs'[Gw].found = F
    BY <2>2, <2>3 DEF Job
  <2> QED
    BY <2>1, <2>4
<1>3. UNCHANGED <<stored, mail>>
  BY DEF List
<1>4. last[n] = None
  <2>1. ASSUME last[n] # None PROVE FALSE
    <3>1. last[n] \in born
      BY <2>1, Slots, Typed DEF Listed
    <3>2. mail[last[n]].sec # 0
      BY <3>1 DEF SyncInv, MailInv
    <3> QED
      BY <1>2, <2>1, <3>2 DEF note_hash, NoHash
  <2> QED
    BY <2>1
<1>5. ASSUME NEW e \in stored, extract_stable_id(e) = n PROVE FALSE
  <2>1. e \in Listed /\ e # None
    BY EveryEmailListed, Slots, Typed
  <2>2. n # None
    BY IdsAssumption DEF None
  <2>3. ListedAs(e, adopted) = n
    BY <1>5, <2>2 DEF ListedAs, extract_stable_id
  <2>4. last[n] # None
    <3>1. last[n] \in {o \in Listed : ListedAs(o, adopted) = n}
      BY <1>1, <2>1, <2>3
    <3> QED
      BY <3>1, Slots, Typed DEF Listed
  <2> QED
    BY <1>4, <2>4
<1>6. \A e \in stored : extract_stable_id(e)' = extract_stable_id(e)
  BY <1>3 DEF extract_stable_id
<1> QED
  BY <1>3, <1>5, <1>6 DEF Absent

LEMMA AwayMailbox ==
  ASSUME SyncInv, AwayInv, AllListed, Mailbox
  PROVE  AwayInv'
<1>1. /\ h' = h /\ away \subseteq away' /\ (h.pc # "idle" => Absent' \subseteq away')
      /\ ~blind' => ~blind /\ (JobWorks(Gw) \/ JobFails(Gw) \/ OthersCreate \/ OthersSave \/ OthersRemove)
  BY DEF Mailbox
<1>2. ASSUME ~blind', h.pc = "list",
             jobs'[Gw].step = "adopt" \/ (jobs'[Gw].step = "done" /\ jobs'[Gw].ok)
      PROVE  NoteIds \ Notes(jobs'[Gw].found) \subseteq away'
  <2>1. jobs[Gw].op = "list" /\ jobs[Gw].step \in {"query", "adopt", "done"}
    BY <1>2 DEF SyncInv, JobFits
  <2>2. jobs \in [Procs -> Job] /\ Gw \in Procs
    BY Slots, OnlyGw, Typed
  <2>3. CASE OthersCreate \/ OthersSave \/ OthersRemove
    <3>1. jobs' = jobs
      BY <2>3 DEF OthersCreate, OthersSave, OthersRemove
    <3> QED
      BY <1>1, <1>2, <3>1 DEF AwayInv
  <2>4. CASE List(Gw)
    <3>1. \A n \in NoteIds : jobs'[Gw].found[n] = NoHash => n \in Absent'
      BY <2>4, NotFoundIsAbsent
    <3> QED
      BY <1>1, <1>2, <3>1 DEF Notes
  <2>5. CASE Adopt(Gw) \/ AdoptFails(Gw)
    <3>1. jobs[Gw].step = "adopt" /\ jobs'[Gw].found = jobs[Gw].found
      BY <2>2, <2>5 DEF Adopt, AdoptFails, At, Finish, Job
    <3> QED
      BY <1>1, <1>2, <3>1 DEF AwayInv
  <2>6. CASE ListFails(Gw)
    <3>1. jobs'[Gw].step = "done" /\ ~jobs'[Gw].ok
      BY <2>2, <2>6 DEF ListFails, Finish, Job
    <3> QED
      BY <1>2, <3>1
  <2> QED
    BY <1>1, <1>2, <2>1, <2>3, <2>4, <2>5, <2>6 DEF JobWorks, JobFails, Resolve, ResolveErrs, Import,
       Imported, Cleanup, Destroy, Fetch, ResolveFails, ImportFails, ImportUnanswered, CleanupFails,
       DestroyFails, FetchFails, At
<1> QED
  BY <1>1, <1>2 DEF AwayInv, Notes

LEMMA AwayHandle ==
  ASSUME SyncInv, AwayInv, Handle
  PROVE  AwayInv'
<1>1. away' = away /\ blind' = blind
  <2>1. CASE PutItems \/ EndFetch
    BY <2>1 DEF PutItems, EndFetch
  <2>2. CASE ~(PutItems \/ EndFetch)
    BY <2>2 DEF Handle, Load, StartCommand, EndCommand, StartList, EndList, PutRecord, StartFetch,
         Answer, Drop, history
  <2> QED
    BY <2>1, <2>2
<1>2. CASE /\ h'.pc \notin {"list", "put", "items"}
           /\ h'.reply.dels = h.reply.dels \/ h'.reply.dels = {}
  BY <1>1, <1>2 DEF AwayInv
<1>3. CASE Load
  BY <1>2, <1>3, LoadIs DEF Refused, SameAnswer
<1>4. CASE StartCommand
  BY <1>2, <1>4, StartCommandIs DEF SameAnswer
<1>5. CASE EndCommand
  BY <1>2, <1>5, EndCommandIs DEF EndCommandFields
<1>6. CASE StartList
  <2>1. h'.pc = "list" /\ jobs'[Gw].step = "query" /\ h'.reply = h.reply
    BY <1>6, StartListIs, FreshFunctions DEF SameAnswer
  <2> QED
    BY <1>1, <2>1 DEF AwayInv
<1>7. CASE EndList
  <2>1. CASE Refused(5)
    BY <1>2, <2>1 DEF Refused
  <2>2. CASE ~Refused(5)
    <3>1. /\ h.pc = "list" /\ jobs[Gw].step = "done" /\ jobs[Gw].ok
          /\ h'.pc = "put" /\ h'.list = jobs[Gw].found /\ h'.reply = h.reply
      BY <1>7, <2>2, EndListIs DEF SameAnswer
    <3>2. Notes(h'.list) = Notes(jobs[Gw].found) /\ Notes(h.list)' = Notes(h'.list)
      BY <3>1 DEF Notes
    <3> QED
      BY <1>1, <3>1, <3>2 DEF AwayInv
  <2> QED
    BY <2>1, <2>2
<1>8. CASE PutRecord
  <2>1. h.pc = "put" /\ h'.pc = "items" /\ h'.list = h.list /\ h'.reply = h.reply
    BY <1>8, PutRecordIs DEF SameWork, SameAnswer
  <2>2. Notes(h.list)' = Notes(h.list)
    BY <2>1 DEF Notes
  <2> QED
    BY <1>1, <2>1, <2>2 DEF AwayInv
<1>9. CASE PutItems
  <2>1. h.pc = "items"
    BY <1>9 DEF PutItems
  <2>2. h'.pc = "fetch" /\ h'.reply.dels \subseteq ToRemove
    BY <1>9, PutItemsIs DEF PutItemsFields
  <2>3. ToRemove \subseteq NoteIds \ Notes(h.list)
    BY DEF ToRemove, to_remove, Notes
  <2> QED
    BY <1>1, <2>1, <2>2, <2>3 DEF AwayInv
<1>10. CASE StartFetch
  BY <1>2, <1>10, StartFetchIs
<1>11. CASE EndFetch
  BY <1>2, <1>11, EndFetchIs
<1>12. CASE Answer
  BY <1>2, <1>12, AnswerIs
<1>13. CASE Drop
  BY <1>2, <1>13, IdleRests DEF Drop, Resting
<1> QED
  BY <1>3, <1>4, <1>5, <1>6, <1>7, <1>8, <1>9, <1>10, <1>11, <1>12, <1>13 DEF Handle

LEMMA AwayStep ==
  ASSUME SyncInv, AwayInv, AllListed, [Next]_vars
  PROVE  AwayInv'
<1>1. CASE Mailbox
  BY <1>1, AwayMailbox
<1>2. CASE Handle
  BY <1>2, AwayHandle
<1>3. CASE Receive
  <2>1. h' = Idle
    BY <1>3 DEF Receive
  <2>2. Resting(h')
    BY <2>1, IdleRests
  <2> QED
    BY <2>2 DEF Resting, AwayInv
<1>4. CASE \E get \in GetChanges : SendSync(get)
  <2>1. h'.pc = "load" /\ h'.reply = NoReply
    BY <1>4, SendSyncIs
  <2> QED
    BY <2>1, IdleIs DEF AwayInv
<1>5. CASE UserEdits \/ UNCHANGED vars
  <2>1. h' = h /\ jobs' = jobs /\ away' = away /\ blind' = blind
    BY <1>5 DEF UserEdits, vars, notesVars, history
  <2> QED
    BY <2>1 DEF AwayInv, Notes
<1> QED
  BY <1>1, <1>2, <1>3, <1>4, <1>5 DEF Next

\* If one listing holds every email of the mailbox, and is not answered with a
\* method-level error, a Delete in an answer names only notes that had no email at
\* some time during the request, whatever calls fail and whatever others do to the
\* mailbox.
THEOREM DeletesAreTrue ==
  ASSUME AllListed
  PROVE  Spec => []NoFalseDelete
<1>1. Init => AwayInv
  <2> SUFFICES ASSUME Init PROVE AwayInv
    OBVIOUS
  <2>1. Resting(h)
    BY IdleRests DEF Init
  <2> QED
    BY <2>1 DEF Resting, AwayInv
<1>2. SyncInv /\ AwayInv /\ [Next]_vars => AwayInv'
  BY AwayStep
<1>3. AwayInv => NoFalseDelete
  BY DEF AwayInv, NoFalseDelete
<1> QED
  BY <1>1, <1>2, <1>3, SyncInvariant, PTL DEF Spec

-----------------------------------------------------------------------------
(* A hash keeps telling of the same body *)

\* What a step may do to the emails: remove some, add a later one, or adopt.
MailMoves ==
  /\ messy \subseteq messy'
  /\ \/ UNCHANGED <<born, mail>> /\ stored' \subseteq stored
     \/ \E x : /\ NewMail(x) /\ x \in EmailIds /\ stored' \subseteq stored \cup {x}
     \/ Adopt(Gw)

LEMMA WorkMoves ==
  ASSUME SyncInv, JobWorks(Gw) \/ JobFails(Gw) \/ ListErrs(Gw)
  PROVE  MailMoves
<1>1. messy \subseteq messy'
  BY DEF JobWorks, JobFails, notesHistory, Resolve, Import, Imported, Cleanup, Destroy, Fetch, List, Adopt,
         ResolveFails, ImportFails, ImportUnanswered, CleanupFails, DestroyFails, FetchFails,
         ListFails, AdoptFails, ResolveErrs, ListErrs
<1>2. CASE Imported(Gw)
  <2>1. PICK x : x = NextEmail
    OBVIOUS
  <2>2. NewMail(x) /\ x \in EmailIds
    BY <1>2, <2>1, ImportGrows
  <2>3. stored' = stored \cup {x}
    BY <1>2, <2>1 DEF Imported
  <2> QED
    BY <1>1, <2>2, <2>3 DEF MailMoves
<1>3. CASE ~Imported(Gw) /\ ~Adopt(Gw)
  <2>1. UNCHANGED <<born, mail>> /\ stored' \subseteq stored
    BY <1>3 DEF JobWorks, JobFails, mailbox, Resolve, Import, Cleanup, Destroy, Fetch, List,
         ResolveFails, ImportFails, ImportUnanswered, CleanupFails, DestroyFails, FetchFails,
         ListFails, AdoptFails, ResolveErrs, ListErrs
  <2> QED
    BY <1>1, <2>1 DEF MailMoves
<1> QED
  BY <1>1, <1>2, <1>3 DEF MailMoves

LEMMA OthersMove ==
  ASSUME SyncInv, OthersCreate \/ OthersSave \/ OthersRemove
  PROVE  MailMoves
<1>1. CASE OthersRemove
  BY <1>1 DEF OthersRemove, MailMoves
<1>2. CASE OthersCreate
  <2>1. PICK x : x = NextEmail
    OBVIOUS
  <2>2. NewMail(x) /\ x \in EmailIds
    BY <1>2, <2>1, CreateGrows, NextEmailIsNew, Typed DEF NoteInv, OthersCreate
  <2>3. stored' = stored \cup {x} /\ messy' = messy
    BY <1>2, <2>1 DEF OthersCreate, notesHistory
  <2> QED
    BY <2>2, <2>3 DEF MailMoves
<1>3. CASE OthersSave
  <2>1. PICK x : /\ NewMail(x) /\ x \in EmailIds /\ messy \subseteq messy'
                 /\ stored' \subseteq stored \cup {x}
    BY <1>3, SaveIs, SaveGrows DEF SyncInv
  <2> QED
    BY <2>1 DEF MailMoves
<1> QED
  BY <1>1, <1>2, <1>3

\* Revisions of one second remain so.
LEMMA BlursStay ==
  ASSUME SyncInv, MailMoves
  PROVE  Blurred \subseteq Blurred'
<1>1. /\ born \subseteq born'
      /\ \A e \in born : mail'[e].sec = mail[e].sec /\ mail[e].tags \subseteq mail'[e].tags
  BY AdoptGrows DEF MailMoves, NewMail, Grows
<1> QED
  BY <1>1 DEF Blurred

\* An email that has the hash x of the note had it before, and its body too, unless
\* it is a second revision of one second.
LEMMA OldHash ==
  ASSUME SyncInv, MailMoves, NEW n \in NoteIds, NEW x, WasHash(x, n), n \notin Blurred',
         NEW e \in Backing(n)', note_hash(e)' = x
  PROVE  e \in Backing(n) /\ note_hash(e) = x /\ mail'[e].val = mail[e].val
<1>1. e \in stored' /\ n \in mail'[e].tags /\ x.sec = mail'[e].sec /\ x.tags = mail'[e].tags
  BY DEF Backing, note_hash
<1>2. x # NoHash
  BY <1>1 DEF NoHash
<1>3. PICK o \in born : mail[o].sec = x.sec /\ x.tags \subseteq mail[o].tags
  BY <1>2 DEF WasHash
<1>4. CASE UNCHANGED <<born, mail>> /\ stored' \subseteq stored
  BY <1>1, <1>4 DEF Backing, note_hash
<1>5. CASE \E y : NewMail(y) /\ y \in EmailIds /\ stored' \subseteq stored \cup {y}
  <2>1. PICK y : NewMail(y) /\ y \in EmailIds /\ stored' \subseteq stored \cup {y}
    BY <1>5
  <2>2. o \in born' /\ o # y /\ mail'[o] = mail[o] /\ y \in born'
    BY <2>1 DEF NewMail
  <2>3. e # y
    BY <1>1, <1>3, <2>2 DEF Blurred
  <2>4. e \in stored /\ e \in born /\ mail'[e] = mail[e]
    BY <1>1, <2>1, <2>3, Slots, Typed DEF NewMail
  <2> QED
    BY <1>1, <2>4 DEF Backing, note_hash
<1>6. CASE Adopt(Gw)
  <2>1. e \in stored /\ e \in born /\ e \in EmailIds
    BY <1>1, <1>6, Slots, Typed DEF Adopt
  <2>2. newest[n] # None
    BY <1>1, <1>3 DEF SyncInv, MailInv
  <2>3. ~Gives(jobs[Gw], e, n)
    BY <2>1, <2>2, OnlyGw DEF SyncInv, EditInv, GivenInv, Used
  <2>4. n \in mail[e].tags
    BY <1>1, <1>6, <2>1, <2>3, OnlyGw, AdoptedTags, Typed DEF Gives
  <2>5. mail'[e].tags = mail[e].tags
    BY <1>6, <2>1, <2>4, OnlyGw, AdoptedTags, Typed DEF SyncInv, MailInv
  <2>6. mail'[e].sec = mail[e].sec /\ mail'[e].val = mail[e].val
    BY <1>6, <2>1, AdoptGrows DEF Grows
  <2> QED
    BY <1>1, <2>1, <2>4, <2>5, <2>6 DEF Backing, note_hash
<1> QED
  BY <1>4, <1>5, <1>6 DEF MailMoves

LEMMA FitsStays ==
  ASSUME SyncInv, MailMoves, NEW n \in NoteIds, NEW x, NEW v, WasHash(x, n), Fits(n, x, v)
  PROVE  Fits(n, x, v)'
<1>1. messy \subseteq messy'
  BY DEF MailMoves
<1>2. ASSUME n \notin messy' \cup Blurred', NEW e \in Backing(n)', note_hash(e)' = x
      PROVE  mail'[e].val = v
  <2>1. e \in Backing(n) /\ note_hash(e) = x /\ mail'[e].val = mail[e].val
    BY <1>2, OldHash
  <2> QED
    BY <1>1, <1>2, <2>1, BlursStay DEF Fits
<1>3. v # None => x # NoHash
  BY DEF Fits
<1> QED
  BY <1>2, <1>3 DEF Fits

LEMMA ToldStays ==
  ASSUME SyncInv, MailMoves, UNCHANGED base, NEW n \in NoteIds, NEW own, NEW v, Told(n, own, v)
  PROVE  Told(n, own, v)'
<1>1. PICK x : x = base[n]
  OBVIOUS
<1>2. WasHash(x, n)
  BY <1>1 DEF SyncInv, HashInv
<1>3. Fits(n, x, v) => Fits(n, x, v)'
  BY <1>2, FitsStays
<1>4. Fits(n, base[n], v) <=> Fits(n, x, v)
  BY <1>1
<1>5. Fits(n, base[n], v)' <=> Fits(n, x, v)'
  BY <1>1 DEF Fits
<1> QED
  BY <1>3, <1>4, <1>5 DEF Told

-----------------------------------------------------------------------------
(* What most steps leave of BodyInv *)

LEMMA QuietMoves ==
  ASSUME UNCHANGED <<stored, born, mail>>, messy \subseteq messy'
  PROVE  MailMoves
BY DEF MailMoves

LEMMA AgreeStays ==
  ASSUME SyncInv, Agree, MailMoves, UNCHANGED <<base, device>>, missed \subseteq missed',
         ckey # 0 /\ (ckey = key' \/ Working') => ckey = key \/ Working
  PROVE  Agree'
<1> SUFFICES ASSUME ckey' # 0 /\ (ckey' = key' \/ Working'), NEW n \in NoteIds, n \notin missed'
             PROVE  Told(n, n \in dirty, has[n])'
  BY DEF Agree
<1>1. has' = has /\ dirty' = dirty /\ ckey' = ckey
  BY DEF device
<1>2. PICK own, v : own = (n \in dirty) /\ v = has[n]
  OBVIOUS
<1>3. Told(n, own, v)
  BY <1>1, <1>2 DEF Agree
<1>4. Told(n, own, v)'
  BY <1>3, ToldStays
<1> QED
  BY <1>1, <1>2, <1>4 DEF Told

\* A step from one place of the request to another, before the answer is begun.
LEMMA WorkStays ==
  ASSUME SyncInv, BodyInv, MailMoves, UNCHANGED <<base, device, missed>>,
         Working', Working \/ (h.pc = "load" /\ h.key \in {0, key}), h'.key = h.key,
         h'.reply.puts = h.reply.puts, h'.reply.dels = h.reply.dels,
         WorkInv', AnsweredInv'
  PROVE  BodyInv'
<1>1. /\ h.pc \notin {"idle", "reply", "fetch"} /\ h'.pc \notin {"idle", "load", "fetch", "reply"}
  BY DEF Working
<1>2. ckey' = ckey /\ h.key = ckey /\ h.key < MaxKey
  BY <1>1 DEF BodyInv, RequestInv, device
<1>3. Agree'
  BY <1>2, AgreeStays DEF BodyInv
<1>4. FreshIsEmpty'
  BY DEF BodyInv, FreshIsEmpty, device
<1>5. RequestInv'
  BY <1>1, <1>2 DEF BodyInv, RequestInv
<1>6. AnswerInv'
  BY <1>1 DEF AnswerInv
<1> QED
  BY <1>3, <1>4, <1>5, <1>6 DEF BodyInv

LEMMA RefusedStays ==
  ASSUME SyncInv, BodyInv, MailMoves, UNCHANGED <<store, device, missed>>,
         NEW status, status # 1, Refused(status)
  PROVE  BodyInv'
<1>1. h'.pc = "reply" /\ h'.fetch = {} /\ h'.reply.status # 1
  BY DEF Refused, Bare
<1>2. Agree'
  BY <1>1, AgreeStays DEF BodyInv, Working, store, device
<1>3. FreshIsEmpty'
  BY DEF BodyInv, FreshIsEmpty, device
<1>4. RequestInv' /\ WorkInv' /\ AnsweredInv' /\ AnswerInv'
  BY <1>1 DEF RequestInv, WorkInv, Working, AnsweredInv, AnswerInv
<1> QED
  BY <1>2, <1>3, <1>4 DEF BodyInv

LEMMA RestFits ==
  ASSUME SyncInv, BodyInv, MailMoves, Resting(h'), Agree', FreshIsEmpty'
  PROVE  BodyInv'
<1>1. /\ h'.pc = "idle" /\ h'.cmd = NoCommand /\ h'.deleting = {} /\ h'.reply.responses = {}
      /\ h'.reply.puts = Blank /\ h'.reply.dels = {}
  BY DEF Resting, Bare
<1>2. Responses' = {}
  BY <1>1 DEF Responses
<1>3. RequestInv' /\ WorkInv' /\ AnsweredInv' /\ AnswerInv'
  BY <1>1, <1>2 DEF RequestInv, WorkInv, Working, AnsweredInv, AnswerInv
<1> QED
  BY <1>3 DEF BodyInv

\* The commands of the device, and of each note that it changed.
LEMMA CommandsAre ==
  ASSUME SyncInv
  PROVE  /\ \A c \in Commands :
              /\ c.op \in {"Add", "Change", "Delete"} /\ c # NoCommand
              /\ c.op = "Change" => has[c.note] # None
              /\ c.op = "Delete" => c.note \in dirty /\ has[c.note] = None
         /\ \A n \in dirty : \E c \in Commands : c.op \in {"Change", "Delete"} /\ c.note = n
<1>1. ASSUME NEW c \in Commands
      PROVE  /\ c.op \in {"Add", "Change", "Delete"} /\ c # NoCommand
             /\ c.op = "Change" => has[c.note] # None
             /\ c.op = "Delete" => c.note \in dirty /\ has[c.note] = None
  BY DEF Commands, NoCommand
<1>2. ASSUME NEW n \in dirty
      PROVE  \E c \in Commands : c.op \in {"Change", "Delete"} /\ c.note = n
  <2>1. CASE has[n] # None
    <3>1. PICK c : c = [op |-> "Change", note |-> n, val |-> has[n]]
      OBVIOUS
    <3>2. c \in Commands
      BY <2>1, <3>1 DEF Commands
    <3> QED
      BY <3>1, <3>2
  <2>2. CASE has[n] = None
    <3>1. PICK c : c = [op |-> "Delete", note |-> n, val |-> None]
      OBVIOUS
    <3>2. c \in Commands
      BY <2>2, <3>1 DEF Commands
    <3> QED
      BY <3>1, <3>2
  <2> QED
    BY <2>1, <2>2
<1> QED
  BY <1>1, <1>2

LEMMA CommandsStay ==
  ASSUME UNCHANGED device
  PROVE  Commands' = Commands /\ has' = has /\ dirty' = dirty /\ draft' = draft
BY DEF Commands, device

-----------------------------------------------------------------------------
(* The mailbox beside the request *)

LEMMA MailboxGrows ==
  ASSUME SyncInv, Mailbox
  PROVE  Grows
BY WorkGrows, CreateGrows, SaveGrows, QuietGrows DEF Mailbox, OthersRemove, SyncInv

\* A lookup finds the one email of its note.
LEMMA FetchFits ==
  ASSUME SyncInv, Fetch(Gw), jobs'[Gw].email # None, NEW x, x # NoHash
  PROVE  Fits(jobs[Gw].note, x, mail[jobs'[Gw].email].val)
<1>1. jobs \in [Procs -> Job] /\ Gw \in Procs /\ jobs[Gw] \in Job /\ JobInv(jobs[Gw])
  BY Slots, OnlyGw, Typed
<1>2. PICK n, e : n = jobs[Gw].note /\ e = jobs'[Gw].email
  OBVIOUS
<1>3. e = jobs[Gw].old /\ e \in stored /\ jobs[Gw].op = "get" /\ jobs[Gw].step = "fetch"
  BY <1>1, <1>2 DEF Fetch, At, Job
<1>4. n \in NoteIds /\ e \in Backing(n)
  BY <1>1, <1>2, <1>3, Slots, Typed DEF JobInv, Backing
<1>5. ASSUME n \notin messy, NEW o \in Backing(n) PROVE o = e
  <2>1. RevisionInv(n)
    BY <1>4, <1>5 DEF SyncInv, EditInv
  <2>2. CleaningUp(n) = {}
    BY <1>3, OnlyGw DEF CleaningUp, At
  <2> QED
    BY <1>4, <1>5, <2>1, <2>2 DEF RevisionInv
<1>6. \A o \in Backing(n) : n \notin messy => mail[o].val = mail[e].val
  BY <1>5
<1> QED
  BY <1>2, <1>6 DEF Fits

LEMMA EmailStep ==
  ASSUME SyncInv, JobWorks(Gw) \/ JobFails(Gw) \/ ListErrs(Gw), jobs[Gw].op = "get", ~Fetch(Gw)
  PROVE  jobs'[Gw].email = jobs[Gw].email
<1>1. jobs \in [Procs -> Job] /\ Gw \in Procs /\ jobs[Gw] \in Job
  BY Slots, OnlyGw, Typed
<1>2. ASSUME NEW ok, Finish(Gw, ok) PROVE jobs'[Gw].email = jobs[Gw].email
  BY <1>1, <1>2 DEF Finish, Job
<1>3. CASE Resolve(Gw) \/ ResolveErrs(Gw)
  BY <1>1, <1>3, LookupIs DEF Job
<1>4. CASE ~(Resolve(Gw) \/ ResolveErrs(Gw))
  <2>1. ~Import(Gw) /\ ~List(Gw)
    BY ImportHasBody DEF Import, Imported, List, At
  <2>2. \E ok : Finish(Gw, ok)
    BY <1>4, <2>1 DEF JobWorks, JobFails, Cleanup, Destroy, Adopt, ResolveFails, ImportFails,
       ImportUnanswered, CleanupFails, DestroyFails, FetchFails, ListFails, ListErrs, AdoptFails
  <2> QED
    BY <1>2, <2>2
<1> QED
  BY <1>3, <1>4

\* What is still to be fetched fits the item states, whatever the mailbox does.
LEMMA AnswerStays ==
  ASSUME SyncInv, AnswerInv, Mailbox, MailMoves
  PROVE  AnswerInv'
<1>1. h' = h /\ UNCHANGED <<key, base, has, missed>>
  BY DEF Mailbox, store, device
<1>2. /\ jobs'[Gw].op = jobs[Gw].op /\ jobs'[Gw].note = jobs[Gw].note
  <2>1. CASE OthersCreate \/ OthersSave \/ OthersRemove
    BY <2>1 DEF OthersCreate, OthersSave, OthersRemove
  <2> QED
    BY <2>1, JobRuns, Typed DEF Mailbox
<1> SUFFICES ASSUME h.pc \in {"fetch", "reply"}, h.reply.status = 1
             PROVE  /\ h.reply.key # 0
                    /\ h.reply.key = key =>
                       /\ \A n \in NoteIds \ (missed \cup Pending) :
                            Told(n, n \in Queued(h.reply), Shown(h.reply, n))'
                       /\ \A n \in Pending \ missed : base[n] # NoHash /\ n \notin h.reply.dels
                       /\ jobs[Gw].op = "get" /\ jobs'[Gw].email # None /\ jobs[Gw].note \notin missed
                            => Fits(jobs[Gw].note, base[jobs[Gw].note], mail[jobs[Gw].email].val)'
  BY <1>1, <1>2 DEF AnswerInv, Pending
<1>3. /\ h.reply.key # 0
      /\ h.reply.key = key =>
         /\ \A n \in NoteIds \ (missed \cup Pending) :
              Told(n, n \in Queued(h.reply), Shown(h.reply, n))
         /\ \A n \in Pending \ missed : base[n] # NoHash /\ n \notin h.reply.dels
         /\ jobs[Gw].op = "get" /\ jobs[Gw].email # None /\ jobs[Gw].note \notin missed
              => Fits(jobs[Gw].note, base[jobs[Gw].note], mail[jobs[Gw].email].val)
  BY DEF AnswerInv
<1>4. ASSUME h.reply.key = key, NEW n \in NoteIds, n \notin missed, n \notin Pending
      PROVE  Told(n, n \in Queued(h.reply), Shown(h.reply, n))'
  <2>1. PICK own, v : own = (n \in Queued(h.reply)) /\ v = Shown(h.reply, n)
    OBVIOUS
  <2>2. own = (n \in Queued(h.reply))' /\ v = Shown(h.reply, n)'
    BY <1>1, <2>1 DEF Queued, Shown, Added
  <2>3. Told(n, own, v)
    BY <1>3, <1>4, <2>1
  <2>4. Told(n, own, v)'
    BY <1>1, <2>3, ToldStays
  <2> QED
    BY <2>2, <2>4 DEF Told
<1>5. ASSUME h.reply.key = key, jobs[Gw].op = "get", jobs'[Gw].email # None, jobs[Gw].note \notin missed
      PROVE  Fits(jobs[Gw].note, base[jobs[Gw].note], mail[jobs[Gw].email].val)'
  <2>1. PICK n, x, e : n = jobs[Gw].note /\ x = base[n] /\ e = jobs'[Gw].email
    OBVIOUS
  <2>2. n \in NoteIds /\ n \in Pending
    <3>1. h.pc = "fetch" /\ n \in NoteIds
      BY <1>5, <2>1, FreshFunctions DEF SyncInv, JobFits
    <3> QED
      BY <2>1, <3>1, IdsAssumption DEF Pending, None
  <2>3. WasHash(x, n) /\ x # NoHash
    BY <1>3, <1>5, <2>1, <2>2 DEF SyncInv, HashInv
  <2>4. PICK v : v = mail[e].val
    OBVIOUS
  <2>5. Fits(n, x, v) /\ e \in born
    <3>1. CASE jobs'[Gw].email = jobs[Gw].email
      <4>1. Fits(n, x, v)
        BY <1>3, <1>5, <2>1, <2>4, <3>1
      <4>2. e \in born
        BY <1>5, <2>1, <3>1 DEF SyncInv, SavedInv, IsOf
      <4> QED
        BY <4>1, <4>2
    <3>2. CASE jobs'[Gw].email # jobs[Gw].email
      <4>1. Fetch(Gw)
        BY <1>5, <3>2, EmailStep DEF Mailbox, OthersCreate, OthersSave, OthersRemove
      <4>2. Fits(n, x, v)
        BY <1>5, <2>1, <2>3, <2>4, <4>1, FetchFits
      <4>3. e \in stored
        BY <1>5, <2>1, <4>1, OnlyGw, Slots, Typed DEF Fetch, Job
      <4> QED
        BY <4>2, <4>3, Slots, Typed
    <3> QED
      BY <3>1, <3>2
  <2>6. mail'[e].val = v
    BY <2>4, <2>5, MailboxGrows DEF Grows
  <2>7. Fits(n, x, v)'
    BY <2>2, <2>3, <2>5, FitsStays
  <2>8. jobs'[Gw].note = n /\ base'[n] = x
    BY <1>1, <1>2, <2>1
  <2> QED
    BY <2>1, <2>6, <2>7, <2>8 DEF Fits
<1> QED
  BY <1>3, <1>4, <1>5

LEMMA MailboxBody ==
  ASSUME SyncInv, BodyInv, Mailbox
  PROVE  BodyInv'
<1>1. MailMoves
  BY WorkMoves, OthersMove DEF Mailbox
<1>2. h' = h /\ UNCHANGED <<store, device, missed>>
  BY DEF Mailbox
<1>3. Agree'
  BY <1>1, <1>2, AgreeStays DEF BodyInv, Working, store, device
<1>4. FreshIsEmpty' /\ RequestInv' /\ WorkInv' /\ AnsweredInv'
  <2>1. Commands' = Commands
    BY <1>2, CommandsStay
  <2>2. has' = has /\ dirty' = dirty /\ draft' = draft /\ ckey' = ckey /\ base' = base
    BY <1>2 DEF device, store
  <2> QED
    BY <1>2, <2>1, <2>2 DEF BodyInv, FreshIsEmpty, RequestInv, WorkInv, Working, AnsweredInv, Responses
<1>5. AnswerInv'
  BY <1>1, AnswerStays DEF BodyInv
<1> QED
  BY <1>1, <1>3, <1>4, <1>5 DEF BodyInv

-----------------------------------------------------------------------------
(* The commands and the listing *)

\* The parts of BodyInv about the commands, by name.
LEMMA AtWork ==
  ASSUME BodyInv, Working
  PROVE  /\ h.key = ckey /\ h.key < MaxKey
         /\ \A n \in NoteIds : h.prev[n] \in {base[n], NoHash}
         /\ h.todo \subseteq Commands /\ h.cmd \in Commands \cup {NoCommand}
         /\ h.pc # "commands" => h.todo = {} /\ h.cmd = NoCommand
         /\ h.deleting \subseteq {n \in dirty : has[n] = None}
         /\ \A n \in dirty :
              \/ \E c \in h.todo \cup {h.cmd} : c.op \in {"Change", "Delete"} /\ c.note = n
              \/ IF has[n] = None THEN h.prev[n] = NoHash \/ n \in h.undeleted
                                  ELSE \E r \in Responses : r.op = "Change" /\ r.note = n
         /\ h.reply.puts = Blank /\ h.reply.dels = {}
         /\ \A r \in Responses :
              /\ r.op = "Add" => draft # None /\ (r.ok \/ r.note = None)
              /\ r.op = "Change" => r.note \in dirty /\ r.val = has[r.note]
BY DEF BodyInv, RequestInv, WorkInv, AnsweredInv, Working

LEMMA LoadBody ==
  ASSUME SyncInv, BodyInv, Load
  PROVE  BodyInv'
<1>1. h.pc = "load" /\ UNCHANGED <<notesVars, store, device, history>>
  BY LoadIs
<1>2. MailMoves /\ UNCHANGED <<base, missed>>
  BY <1>1, QuietMoves DEF notesVars, mailbox, notesHistory, store, history
<1>3. CASE Refused(3)
  BY <1>1, <1>2, <1>3, RefusedStays
<1>4. CASE ~Refused(3)
  <2>1. /\ h.key \in {0, key} /\ h'.pc = "commands"
        /\ h'.prev = base \/ h'.prev = NoHashes
        /\ h'.todo = h.todo /\ h'.cmd = h.cmd /\ h'.deleting = h.deleting
        /\ h'.reply = h.reply /\ h'.key = h.key
    BY <1>4, LoadIs DEF SameAnswer, SameRequest
  <2>2. h.todo = Commands /\ h.cmd = NoCommand /\ Responses = {} /\ h.deleting = {}
    BY <1>1 DEF BodyInv, RequestInv
  <2>3. Commands' = Commands /\ has' = has /\ dirty' = dirty /\ Responses' = {}
    BY <1>1, <2>1, <2>2, CommandsStay DEF Responses
  <2>4. WorkInv'
    <3>1. \A n \in NoteIds : h'.prev[n] \in {base'[n], NoHash}
      BY <1>2, <2>1, Blanks
    <3>2. \A n \in dirty : \E c \in h'.todo : c.op \in {"Change", "Delete"} /\ c.note = n
      BY <2>1, <2>2, CommandsAre
    <3> QED
      BY <2>1, <2>2, <2>3, <3>1, <3>2 DEF WorkInv
  <2>5. AnsweredInv'
    BY <2>3 DEF AnsweredInv
  <2>6. Working'
    BY <2>1 DEF Working
  <2> QED
    BY <1>1, <1>2, <2>1, <2>4, <2>5, <2>6, WorkStays
<1> QED
  BY <1>3, <1>4

LEMMA StartCommandBody ==
  ASSUME SyncInv, BodyInv, StartCommand
  PROVE  BodyInv'
<1>1. /\ h.pc = "commands" /\ h.cmd = NoCommand
      /\ UNCHANGED <<stored, born, mail, notesHistory, store, device, history>>
      /\ h'.pc = "commands" /\ h'.cmd \in h.todo /\ h'.todo = h.todo \ {h'.cmd}
      /\ h'.prev = h.prev /\ h'.undeleted = h.undeleted /\ h'.deleting = h.deleting
      /\ h'.reply = h.reply /\ h'.key = h.key
  BY StartCommandIs DEF SameAnswer, SameRequest
<1>2. MailMoves /\ UNCHANGED <<base, missed>> /\ Working /\ Working'
  BY <1>1, QuietMoves DEF notesHistory, store, history, Working
<1>3. Commands' = Commands /\ has' = has /\ dirty' = dirty /\ draft' = draft /\ Responses' = Responses
  BY <1>1, CommandsStay DEF Responses
<1>4. WorkInv'
  <2>1. NoCommand.op = "none"
    BY DEF NoCommand
  <2>2. ASSUME NEW c \in h.todo \cup {h.cmd}, c.op \in {"Change", "Delete"}
        PROVE  c \in h'.todo \cup {h'.cmd}
    BY <1>1, <2>1, <2>2
  <2>3. h'.todo \subseteq Commands /\ h'.cmd \in Commands
    BY <1>1, <1>2, AtWork
  <2> QED
    BY <1>1, <1>2, <1>3, <2>2, <2>3, AtWork DEF WorkInv
<1>5. AnsweredInv'
  BY <1>1, <1>2, <1>3, AtWork DEF AnsweredInv
<1> QED
  BY <1>1, <1>2, <1>4, <1>5, WorkStays

LEMMA EndCommandBody ==
  ASSUME SyncInv, BodyInv, EndCommand
  PROVE  BodyInv'
<1>1. /\ EndCommandFields /\ h.pc = "commands" /\ h.cmd # NoCommand /\ jobs[Gw].step = "done"
      /\ UNCHANGED <<mailbox, notesHistory, store, device, history>>
  BY EndCommandIs
<1>2. /\ h'.pc = "commands" /\ h'.cmd = NoCommand /\ h'.todo = h.todo /\ h'.key = h.key
      /\ h'.reply.puts = h.reply.puts /\ h'.reply.dels = h.reply.dels
      /\ Responses' = Responses \cup Respond(jobs[Gw])
  BY <1>1 DEF EndCommandFields, Responses
<1>3. /\ IF h.cmd.op = "Delete" /\ jobs[Gw].ok
            THEN /\ h'.prev = [h.prev EXCEPT ![h.cmd.note] = NoHash]
                 /\ h'.deleting = h.deleting \cup {h.cmd.note}
            ELSE h'.prev = h.prev /\ h'.deleting = h.deleting
      /\ h'.undeleted = IF h.cmd.op = "Delete" /\ ~jobs[Gw].ok THEN h.undeleted \cup {h.cmd.note}
                                                                ELSE h.undeleted
  BY <1>1 DEF EndCommandFields
<1>4. MailMoves /\ UNCHANGED <<base, missed>> /\ Working /\ Working'
  BY <1>1, <1>2, QuietMoves DEF mailbox, notesHistory, store, history, Working
<1>5. Commands' = Commands /\ has' = has /\ dirty' = dirty /\ draft' = draft
  BY <1>1, CommandsStay
<1>6. h.cmd \in Commands
  BY <1>1, <1>4, AtWork
<1>7. WorkInv'
  <2>1. \A n \in NoteIds : h'.prev[n] \in {h.prev[n], NoHash}
    BY <1>3, Typed DEF Hashes
  <2>2. h'.deleting \subseteq {n \in dirty : has[n] = None}
    BY <1>3, <1>4, <1>6, AtWork, CommandsAre
  <2>3. ASSUME NEW n \in dirty
        PROVE  \/ \E c \in h'.todo \cup {h'.cmd} : c.op \in {"Change", "Delete"} /\ c.note = n
               \/ IF has[n] = None THEN h'.prev[n] = NoHash \/ n \in h'.undeleted
                                   ELSE \E r \in Responses' : r.op = "Change" /\ r.note = n
    <3>1. n \in NoteIds
      BY Typed
    <3>2. CASE \E c \in h.todo : c.op \in {"Change", "Delete"} /\ c.note = n
      BY <1>2, <3>2
    <3>3. CASE h.cmd.op = "Change" /\ h.cmd.note = n
      <4>1. \E r \in Responses' : r.op = "Change" /\ r.note = n
        BY <1>1, <1>2, <3>3, RespondIs
      <4> QED
        BY <1>6, <3>3, <4>1, CommandsAre
    <3>4. CASE h.cmd.op = "Delete" /\ h.cmd.note = n
      <4>1. has[n] = None
        BY <1>6, <3>4, CommandsAre
      <4>2. CASE jobs[Gw].ok
        <5>1. h'.prev[n] = NoHash
          BY <1>3, <3>1, <3>4, <4>2, Typed DEF Hashes
        <5> QED
          BY <4>1, <5>1
      <4>3. CASE ~jobs[Gw].ok
        BY <1>3, <3>4, <4>1, <4>3
      <4> QED
        BY <4>2, <4>3
    <3>5. CASE IF has[n] = None THEN h.prev[n] = NoHash \/ n \in h.undeleted
                               ELSE \E r \in Responses : r.op = "Change" /\ r.note = n
      <4>1. h'.prev[n] = h.prev[n] \/ h'.prev[n] = NoHash
        BY <2>1, <3>1
      <4>2. h.undeleted \subseteq h'.undeleted /\ Responses \subseteq Responses'
        BY <1>2, <1>3
      <4> QED
        BY <3>5, <4>1, <4>2
    <3> QED
      BY <1>4, <3>2, <3>3, <3>4, <3>5, AtWork
  <2>4. \A n \in NoteIds : h'.prev[n] \in {base[n], NoHash}
    BY <1>4, <2>1, AtWork
  <2>5. h'.todo \subseteq Commands
    BY <1>2, <1>4, AtWork
  <2> QED
    BY <1>2, <1>4, <1>5, <2>2, <2>3, <2>4, <2>5 DEF WorkInv
<1>8. AnsweredInv'
  <2>1. ASSUME NEW r \in Respond(jobs[Gw])
        PROVE  /\ r.op = "Add" => draft # None /\ (r.ok \/ r.note = None)
               /\ r.op = "Change" => r.note \in dirty /\ r.val = has[r.note]
    <3>1. /\ r.op = h.cmd.op /\ r.val = h.cmd.val /\ r.ok = jobs[Gw].ok
          /\ r.op = "Change" => r.note = h.cmd.note
      BY <1>1, RespondIs
    <3>2. r.op = "Add" /\ ~r.ok => r.note = None
      BY <3>1 DEF Respond
    <3> QED
      BY <1>6, <3>1, <3>2, CommandsTyped
  <2> QED
    BY <1>2, <1>4, <1>5, <2>1, AtWork DEF AnsweredInv
<1> QED
  BY <1>1, <1>2, <1>4, <1>7, <1>8, WorkStays

\* Steps that leave the commands and their responses as they are.
LEMMA ListBody ==
  ASSUME SyncInv, BodyInv, MailMoves, UNCHANGED <<base, device, missed>>,
         Working, h.pc = "commands" => h.todo = {} /\ h.cmd = NoCommand,
         h'.pc \in {"list", "put", "items"},
         h'.todo = h.todo, h'.cmd = h.cmd, h'.prev = h.prev, h'.undeleted = h.undeleted,
         h'.deleting = h.deleting, SameAnswer, SameRequest
  PROVE  BodyInv'
<1>1. Commands' = Commands /\ has' = has /\ dirty' = dirty /\ draft' = draft
  BY CommandsStay
<1>2. Responses' = Responses /\ Working' /\ h'.key = h.key
      /\ h'.reply.puts = h.reply.puts /\ h'.reply.dels = h.reply.dels
  BY DEF Responses, SameAnswer, SameRequest, Working
<1>3. WorkInv'
  BY <1>1, <1>2, AtWork DEF WorkInv
<1>4. AnsweredInv'
  BY <1>1, <1>2, AtWork DEF AnsweredInv
<1> QED
  BY <1>2, <1>3, <1>4, WorkStays

LEMMA StartListBody ==
  ASSUME SyncInv, BodyInv, StartList
  PROVE  BodyInv'
<1>1. /\ h.pc = "commands" /\ h.cmd = NoCommand /\ h.todo = {} /\ h'.pc = "list"
      /\ UNCHANGED <<mailbox, notesHistory, store, device, history>>
      /\ h'.todo = h.todo /\ h'.cmd = h.cmd /\ h'.prev = h.prev /\ h'.undeleted = h.undeleted
      /\ h'.deleting = h.deleting /\ SameAnswer /\ SameRequest
  BY StartListIs DEF SameWork
<1>2. MailMoves /\ UNCHANGED <<base, missed>> /\ Working
  BY <1>1, QuietMoves DEF mailbox, notesHistory, store, history, Working
<1> QED
  BY <1>1, <1>2, ListBody

LEMMA EndListBody ==
  ASSUME SyncInv, BodyInv, EndList
  PROVE  BodyInv'
<1>1. h.pc = "list" /\ UNCHANGED <<mailbox, notesHistory, store, device, history>>
  BY EndListIs
<1>2. MailMoves /\ UNCHANGED <<base, missed>> /\ Working
  BY <1>1, QuietMoves DEF mailbox, notesHistory, store, history, Working
<1>3. CASE Refused(5)
  BY <1>1, <1>2, <1>3, RefusedStays
<1>4. CASE ~Refused(5)
  <2>1. /\ h'.pc = "put" /\ h'.todo = h.todo /\ h'.cmd = h.cmd /\ h'.prev = h.prev
        /\ h'.undeleted = h.undeleted /\ h'.deleting = h.deleting /\ SameAnswer /\ SameRequest
    BY <1>4, EndListIs
  <2> QED
    BY <1>1, <1>2, <2>1, ListBody
<1> QED
  BY <1>3, <1>4

LEMMA PutRecordBody ==
  ASSUME SyncInv, BodyInv, PutRecord
  PROVE  BodyInv'
<1>1. /\ h.pc = "put" /\ h'.pc = "items" /\ UNCHANGED <<notesVars, base, device, history>>
      /\ h'.todo = h.todo /\ h'.cmd = h.cmd /\ h'.prev = h.prev /\ h'.undeleted = h.undeleted
      /\ h'.deleting = h.deleting /\ SameAnswer /\ SameRequest
  BY PutRecordIs DEF SameWork
<1>2. MailMoves /\ UNCHANGED missed /\ Working
  BY <1>1, QuietMoves DEF notesVars, mailbox, notesHistory, history, Working
<1> QED
  BY <1>1, <1>2, ListBody

-----------------------------------------------------------------------------
(* The diff and the answer it begins *)

\* The key moves with everything there is to tell, and is never 0 in an answer.
LEMMA NewKeyMoves ==
  ASSUME SyncInv, BodyInv, h.pc = "items"
  PROVE  /\ NewKey # 0
         /\ NewKey = h.key /\ h.key # 0 =>
              ToAdd \cup ToChange \cup ToRemove = {} /\ Responses = {}
<1>1. h.key \in Nat /\ h.key < MaxKey /\ MaxKey \in Nat
  BY Typed, GwAssumption, AtWork DEF Working, Key
<1>2. next_sync_key(h.key) = h.key + 1
  BY <1>1 DEF next_sync_key
<1>3. h.key + 1 # h.key /\ h.key + 1 # 0
  BY <1>1
<1> QED
  BY <1>2, <1>3 DEF NewKey

\* Before the diff the device knew of the note, if its key is not 0.
LEMMA KnewBefore ==
  ASSUME SyncInv, BodyInv, h.pc = "items", NEW n \in NoteIds, n \notin Missed,
         n \notin ToAdd \cup ToChange \cup ToRemove
  PROVE  IF h.key = 0 THEN has[n] = None /\ n \notin dirty ELSE Told(n, n \in dirty, has[n])
<1>1. h.key = ckey /\ Working
  BY AtWork DEF Working
<1>2. CASE h.key = 0
  BY <1>1, <1>2, Blanks DEF BodyInv, FreshIsEmpty
<1>3. CASE h.key # 0
  <2>1. n \notin missed
    BY <1>3 DEF Missed
  <2> QED
    BY <1>1, <1>3, <2>1 DEF BodyInv, Agree
<1> QED
  BY <1>2, <1>3

\* An email that the request saved is the one that was listed.
LEMMA SavedIsListed ==
  ASSUME SyncInv, BodyInv, NEW n \in NoteIds, n \notin Missed, n \notin ToRemove,
         NEW r \in Responses, r.ok, r.note = n
  PROVE  Fits(n, h.list[n], r.val)
<1>1. h.list[n] = [sec |-> mail[r.email].sec, tags |-> {n}]
  BY DEF Missed, Swallowed
<1>2. r.email \in born /\ n \in mail[r.email].tags /\ mail[r.email].val = r.val
  BY KnownNow DEF RespondedInv, IsOf, Responses
<1>3. ASSUME n \notin Blurred, NEW e \in Backing(n), note_hash(e) = h.list[n]
      PROVE  mail[e].val = r.val
  <2>1. mail[e].sec = mail[r.email].sec
    BY <1>1, <1>3 DEF note_hash
  <2>2. e \in born /\ n \in mail[e].tags
    BY Slots, Typed DEF Backing
  <2> QED
    BY <1>2, <1>3, <2>1, <2>2 DEF Blurred
<1>4. h.list[n] # NoHash
  BY <1>1 DEF NoHash
<1> QED
  BY <1>3, <1>4 DEF Fits

\* What the device shows of a note after an answer without a body of it.
LEMMA ShownIs ==
  ASSUME SyncInv, BodyInv, h.pc = "items", NEW rep, rep.responses = Responses, rep.puts = Blank,
         NEW n \in NoteIds, n \notin rep.dels
  PROVE  \/ Shown(rep, n) = has[n] /\ ~\E r \in Responses : r.op = "Add" /\ r.ok /\ r.note = n
         \/ \E r \in Responses : r.ok /\ r.note = n /\ Shown(rep, n) = r.val
<1>1. rep.puts[n] = None
  BY Blanks
<1>2. CASE Added(rep, n) = {}
  BY <1>1, <1>2 DEF Shown, Added
<1>3. CASE Added(rep, n) # {}
  <2>1. PICK r : r = CHOOSE q \in Added(rep, n) : TRUE
    OBVIOUS
  <2>2. r \in Added(rep, n)
    BY <1>3, <2>1
  <2>3. Shown(rep, n) = r.val
    BY <1>1, <1>3, <2>1 DEF Shown
  <2> QED
    BY <2>2, <2>3 DEF Added
<1> QED
  BY <1>2, <1>3

\* A note that is in the listing and not in the diff: the device has it already, or
\* the request wrote it.
LEMMA ListedFits ==
  ASSUME SyncInv, BodyInv, h.pc = "items", NEW rep, rep.responses = Responses, rep.puts = Blank,
         NEW n \in NoteIds, n \notin Missed, n \notin ToAdd \cup ToChange \cup ToRemove,
         n \notin rep.dels, h.list[n] # NoHash, n \notin Queued(rep)
  PROVE  Fits(n, h.list[n], Shown(rep, n))
<1>1. Working /\ n \in Notes(h.list)
  BY DEF Working, Notes
<1>2. CASE \E r \in Responses : r.ok /\ r.note = n
  <2>1. PICK r \in Responses : r.ok /\ r.note = n
    BY <1>2
  <2>2. Fits(n, h.list[n], r.val)
    BY <2>1, SavedIsListed
  <2>3. CASE Shown(rep, n) = has[n] /\ ~\E q \in Responses : q.op = "Add" /\ q.ok /\ q.note = n
    <3>1. r.op = "Change"
      BY <2>1, <2>3, Typed DEF Response, Responses
    <3>2. r.val = has[n]
      BY <1>1, <2>1, <3>1, AtWork
    <3> QED
      BY <2>2, <2>3, <3>2
  <2>4. CASE \E q \in Responses : q.ok /\ q.note = n /\ Shown(rep, n) = q.val
    BY <2>4, SavedIsListed
  <2> QED
    BY <2>3, <2>4, ShownIs
<1>3. CASE ~\E r \in Responses : r.ok /\ r.note = n
  <2>1. Shown(rep, n) = has[n]
    BY <1>3, ShownIs
  <2>2. n \notin Written
    <3>1. ASSUME NEW r \in Responses, r.note = n PROVE FALSE
      <4>1. ~r.ok /\ n # None
        BY <1>3, <3>1, IdsAssumption DEF None
      <4>2. r.op = "Change"
        BY <1>1, <3>1, <4>1, AtWork, Typed DEF Response, Responses
      <4> QED
        BY <3>1, <4>1, <4>2 DEF Queued
    <3> QED
      BY <3>1 DEF Written, just_written
  <2>3. h.prev[n] = h.list[n]
    BY <1>1, <2>2 DEF ToAdd, ToChange, to_add, to_change
  <2>4. base[n] = h.list[n]
    BY <1>1, <2>3, AtWork
  <2>5. h.key # 0
    BY <1>1, <2>3 DEF Missed, Carried
  <2>6. n \notin dirty
    <3>1. ASSUME n \in dirty PROVE FALSE
      <4>1. h.todo = {} /\ h.cmd = NoCommand /\ NoCommand.op = "none"
        BY <1>1, AtWork DEF NoCommand
      <4>2. IF has[n] = None THEN h.prev[n] = NoHash \/ n \in h.undeleted
                            ELSE \E r \in Responses : r.op = "Change" /\ r.note = n
        BY <1>1, <3>1, <4>1, AtWork
      <4>3. n \notin h.undeleted
        BY <2>3 DEF Missed, Undeleted
      <4>4. ~\E r \in Responses : r.note = n
        BY <2>2, IdsAssumption DEF Written, just_written, None
      <4> QED
        BY <2>3, <4>2, <4>3, <4>4
    <3> QED
      BY <3>1
  <2>7. Fits(n, base[n], has[n])
    BY <2>5, <2>6, KnewBefore DEF Told
  <2> QED
    BY <2>1, <2>4, <2>7
<1> QED
  BY <1>2, <1>3

\* A note that is neither in the listing nor in the diff: the device does not show it.
LEMMA UnlistedFits ==
  ASSUME SyncInv, BodyInv, h.pc = "items", NEW rep, rep.responses = Responses, rep.puts = Blank,
         NEW n \in NoteIds, n \notin Missed, n \notin ToAdd \cup ToChange \cup ToRemove,
         n \notin rep.dels, h.list[n] = NoHash
  PROVE  Shown(rep, n) = None
<1>1. Working /\ n \notin Notes(h.list)
  BY DEF Working, Notes
<1>2. ~\E r \in Responses : r.ok /\ r.note = n
  <2>1. ASSUME NEW r \in Responses, r.ok, r.note = n PROVE FALSE
    <3>1. h.list[n] = [sec |-> mail[r.email].sec, tags |-> {n}]
      BY <2>1 DEF Missed, Swallowed
    <3> QED
      BY <3>1 DEF NoHash
  <2> QED
    BY <2>1
<1>3. Shown(rep, n) = has[n]
  BY <1>2, ShownIs
<1>4. ASSUME has[n] # None PROVE FALSE
  <2>1. h.key # 0
    BY <1>4, KnewBefore
  <2>2. base[n] # NoHash
    BY <1>4, <2>1, KnewBefore DEF Told, Fits
  <2>3. h.prev[n] = NoHash
    BY <1>1 DEF ToRemove, to_remove, Notes
  <2>4. n \in h.deleting
    BY <1>1, <2>1, <2>2, <2>3 DEF Missed, Forgotten, Notes
  <2> QED
    BY <1>1, <1>4, <2>4, AtWork
<1> QED
  BY <1>3, <1>4

\* The answer tells the device of every note it sends no body of.
LEMMA AnswerTells ==
  ASSUME SyncInv, BodyInv, h.pc = "items", NEW rep, rep.responses = Responses, rep.puts = Blank,
         NEW n \in NoteIds, n \notin Missed, n \notin ToAdd \cup ToChange,
         (n \in rep.dels) <=> (n \in ToRemove)
  PROVE  IF n \in Queued(rep) THEN Shown(rep, n) # None => h.list[n] # NoHash
                              ELSE Fits(n, h.list[n], Shown(rep, n))
<1>1. ASSUME h.list[n] = NoHash PROVE Fits(n, h.list[n], None)
  BY <1>1 DEF Fits, Backing, note_hash, NoHash
<1>2. CASE n \in rep.dels
  <2>1. h.list[n] = NoHash
    BY <1>2 DEF ToRemove, to_remove, Notes
  <2> QED
    BY <1>1, <1>2, <2>1 DEF Shown
<1>3. CASE n \notin rep.dels
  BY <1>1, <1>3, ListedFits, UnlistedFits
<1> QED
  BY <1>2, <1>3

LEMMA PutItemsBody ==
  ASSUME SyncInv, BodyInv, PutItems
  PROVE  BodyInv'
<1>1. /\ h.pc = "items" /\ UNCHANGED <<notesVars, key, device>>
      /\ \/ /\ base' = h.list
            /\ missed' = Missed \cup (IF key = NewKey THEN {} ELSE missed \cup Unsaved)
         \/ base' = base /\ missed' = Missed \cup missed \cup Unsaved
  BY DEF PutItems
<1>2. PutItemsFields
  BY PutItemsIs
<1>3. /\ h'.pc = "fetch" /\ h'.key = h.key
      /\ h'.fetch = (IF h.get THEN ToAdd \cup ToChange ELSE {})
      /\ h'.reply.dels = (IF h.get THEN ToRemove ELSE {})
      /\ h'.reply.responses = h.reply.responses /\ h'.reply.puts = h.reply.puts
      /\ h'.reply.status = 1 /\ h'.reply.key = NewKey
  BY <1>2 DEF PutItemsFields
<1>4. MailMoves /\ Working /\ jobs'[Gw] = NoJob
  BY <1>1, QuietMoves, OutOfFunction DEF notesVars, mailbox, notesHistory, Working
<1>5. has' = has /\ dirty' = dirty /\ draft' = draft /\ ckey' = ckey /\ Responses' = Responses
  BY <1>1, <1>3 DEF device, Responses
<1>6. h.key = ckey /\ h.key < MaxKey /\ h.reply.puts = Blank
  BY <1>4, AtWork
<1>7. \A n \in NoteIds : \A x, v : Fits(n, x, v) => Fits(n, x, v)'
  BY <1>1 DEF Fits, Blurred, Backing, note_hash, notesVars, mailbox, notesHistory
<1>8. Missed \subseteq missed'
  BY <1>1
<1>9. Agree'
  <2> SUFFICES ASSUME ckey # 0, ckey = key, NEW n \in NoteIds, n \notin missed'
               PROVE  Told(n, n \in dirty, has[n])'
    BY <1>1, <1>3, <1>5 DEF Agree, Working
  <2>1. CASE n \notin missed /\ h.list[n] = base[n]
    <3>1. Told(n, n \in dirty, has[n])
      BY <1>4, <2>1 DEF BodyInv, Agree
    <3>2. base'[n] = base[n]
      BY <1>1, <2>1
    <3> QED
      BY <1>5, <1>7, <3>1, <3>2 DEF Told
  <2>2. CASE base' = h.list /\ key = NewKey /\ h.list[n] # base[n]
    <3>1. ToAdd \cup ToChange \cup ToRemove = {} /\ Responses = {} /\ h.key # 0
      BY <1>1, <1>6, <2>2, NewKeyMoves
    <3>2. h.list[n] = NoHash
      <4>1. ASSUME h.list[n] # NoHash PROVE FALSE
        <5>1. n \in Notes(h.list) \ Written
          BY <3>1, <4>1 DEF Notes, Written, just_written
        <5>2. h.prev[n] # NoHash /\ h.prev[n] = h.list[n]
          BY <3>1, <5>1 DEF ToAdd, ToChange, to_add, to_change
        <5> QED
          BY <1>4, <2>2, <5>2, AtWork
      <4> QED
        BY <4>1
    <3>3. h.prev[n] = NoHash
      BY <3>1, <3>2 DEF ToRemove, to_remove, Notes
    <3>4. n \in h.deleting
      <4>1. n \notin Forgotten
        BY <1>8 DEF Missed
      <4> QED
        BY <2>2, <3>1, <3>2, <3>3, <4>1 DEF Forgotten, Notes
    <3>5. n \in dirty /\ has[n] = None
      BY <1>4, <3>4, AtWork
    <3> QED
      BY <1>5, <3>5 DEF Told
  <2>3. CASE base' = h.list /\ key = NewKey /\ h.list[n] = base[n]
    <3>1. ToAdd \cup ToChange \cup ToRemove = {} /\ h.key # 0
      BY <1>1, <1>6, <2>3, NewKeyMoves
    <3>2. n \notin missed
      BY <1>8, <3>1 DEF Missed
    <3> QED
      BY <2>1, <2>3, <3>2
  <2>4. CASE ~(base' = h.list /\ key = NewKey)
    <3>1. missed \cup Unsaved \subseteq missed'
      BY <1>1, <2>4
    <3>2. h.list[n] = base[n]
      BY <3>1 DEF Unsaved
    <3> QED
      BY <2>1, <3>1, <3>2
  <2> QED
    BY <2>2, <2>3, <2>4
<1>10. FreshIsEmpty'
  BY <1>5 DEF BodyInv, FreshIsEmpty
<1>11. RequestInv' /\ WorkInv'
  BY <1>3, <1>5, <1>6 DEF RequestInv, WorkInv, Working
<1>12. AnsweredInv'
  BY <1>4, <1>5, AtWork DEF AnsweredInv
<1>13. AnswerInv'
  <2>1. NoJob.note = None /\ NoJob.op = "none"
    BY FreshFunctions
  <2>2. Pending' = h'.fetch
    BY <1>4, <2>1 DEF Pending
  <2>3. ASSUME NewKey = key, NEW n \in NoteIds, n \notin missed'
        PROVE  base'[n] = h.list[n] /\ n \notin Missed
    BY <1>1, <1>8, <2>3 DEF Unsaved
  <2>4. ASSUME NewKey = key, NEW n \in NoteIds, n \notin missed', n \notin h'.fetch
        PROVE  Told(n, n \in Queued(h.reply), Shown(h.reply, n))'
    <3>1. PICK rep : rep = h'.reply
      OBVIOUS
    <3>2. rep.responses = Responses /\ rep.puts = Blank
      BY <1>3, <1>6, <3>1 DEF Responses
    <3>3. n \notin ToAdd \cup ToChange /\ ((n \in rep.dels) <=> (n \in ToRemove))
      BY <1>3, <2>3, <2>4, <3>1 DEF Missed, Unasked
    <3>4. IF n \in Queued(rep) THEN Shown(rep, n) # None => h.list[n] # NoHash
                               ELSE Fits(n, h.list[n], Shown(rep, n))
      BY <1>1, <2>3, <2>4, <3>2, <3>3, AnswerTells
    <3>5. Queued(h.reply)' = Queued(rep) /\ Shown(h.reply, n)' = Shown(rep, n)
      BY <1>5, <3>1 DEF Queued, Shown, Added
    <3>6. base'[n] = h.list[n]
      BY <2>3, <2>4
    <3>7. PICK v : v = Shown(rep, n)
      OBVIOUS
    <3>8. Fits(n, h.list[n], v) => Fits(n, h.list[n], v)'
      <4>1. PICK x : x = h.list[n]
        OBVIOUS
      <4>2. Fits(n, x, v) => Fits(n, x, v)'
        BY <1>7
      <4> QED
        BY <1>1, <1>2, <4>1, <4>2 DEF Fits, PutItemsFields
    <3> QED
      BY <1>2, <3>4, <3>5, <3>6, <3>7, <3>8 DEF Told, Fits, PutItemsFields
  <2>5. ASSUME NewKey = key, NEW n \in h'.fetch, n \notin missed'
        PROVE  base'[n] # NoHash /\ n \notin h'.reply.dels
    <3>1. n \in ToAdd \cup ToChange
      BY <1>3, <2>5
    <3>2. n \in NoteIds /\ h.list[n] # NoHash /\ n \notin ToRemove
      BY <3>1 DEF ToAdd, ToChange, ToRemove, to_add, to_change, to_remove, Notes
    <3> QED
      BY <1>3, <2>3, <2>5, <3>2
  <2>6. NewKey # 0 /\ key' = key
    BY <1>1, NewKeyMoves
  <2> QED
    BY <1>3, <1>4, <2>1, <2>2, <2>4, <2>5, <2>6 DEF AnswerInv
<1> QED
  BY <1>4, <1>9, <1>10, <1>11, <1>12, <1>13 DEF BodyInv

-----------------------------------------------------------------------------
(* The bodies of the answer *)

\* The parts of BodyInv that a step between the diff and the answer may disturb.
LEMMA FetchPhase ==
  ASSUME SyncInv, BodyInv, MailMoves, UNCHANGED <<store, device>>, missed \subseteq missed',
         h.pc = "fetch", h'.pc \in {"fetch", "reply"}, h'.key = h.key \/ h'.pc = "reply",
         h'.fetch = {} \/ h'.pc = "fetch", h'.reply.responses = h.reply.responses
  PROVE  /\ AnswerInv' => BodyInv'
         /\ h.reply.status = 1 =>
              /\ h.reply.key # 0
              /\ h.reply.key = key =>
                 /\ \A n \in NoteIds \ (missed \cup Pending) :
                      Told(n, n \in Queued(h.reply), Shown(h.reply, n))
                 /\ \A n \in Pending \ missed : base[n] # NoHash /\ n \notin h.reply.dels
                 /\ jobs[Gw].op = "get" /\ jobs[Gw].email # None /\ jobs[Gw].note \notin missed
                      => Fits(jobs[Gw].note, base[jobs[Gw].note], mail[jobs[Gw].email].val)
<1>1. has' = has /\ dirty' = dirty /\ draft' = draft /\ ckey' = ckey /\ Responses' = Responses
      /\ base' = base /\ key' = key
  BY DEF device, store, Responses
<1>2. Agree'
  BY <1>1, AgreeStays DEF BodyInv, Working, device
<1>3. FreshIsEmpty' /\ RequestInv' /\ WorkInv' /\ AnsweredInv'
  BY <1>1 DEF BodyInv, FreshIsEmpty, RequestInv, WorkInv, Working, AnsweredInv
<1>4. AnswerInv' => BodyInv'
  BY <1>2, <1>3 DEF BodyInv
<1> QED
  BY <1>4 DEF BodyInv, AnswerInv

LEMMA StartFetchBody ==
  ASSUME SyncInv, BodyInv, StartFetch
  PROVE  BodyInv'
<1>1. /\ h.pc = "fetch" /\ h'.pc = "fetch" /\ jobs[Gw] = NoJob
      /\ jobs'[Gw].note \in h.fetch /\ jobs'[Gw].email = None
      /\ UNCHANGED <<mailbox, notesHistory, store, device, history>>
      /\ h'.fetch = h.fetch \ {jobs'[Gw].note} /\ h'.reply = h.reply /\ h'.key = h.key
  BY StartFetchIs DEF SameRequest
<1>2. MailMoves /\ UNCHANGED <<key, base, missed>>
  BY <1>1, QuietMoves DEF mailbox, notesHistory, store, history
<1>3. Pending' = h.fetch /\ Pending = h.fetch
  <2>1. h.fetch \subseteq NoteIds /\ None \notin NoteIds
    BY Typed, IdsAssumption DEF None
  <2>2. NoJob.note = None
    BY FreshFunctions
  <2> QED
    BY <1>1, <2>1, <2>2 DEF Pending
<1>4. ASSUME NEW n \in NoteIds, Told(n, n \in Queued(h.reply), Shown(h.reply, n))
      PROVE  Told(n, n \in Queued(h.reply), Shown(h.reply, n))'
  <2>1. PICK own, v : own = (n \in Queued(h.reply)) /\ v = Shown(h.reply, n)
    OBVIOUS
  <2>2. own = (n \in Queued(h.reply))' /\ v = Shown(h.reply, n)'
    BY <1>1, <2>1 DEF Queued, Shown, Added, device
  <2>3. Told(n, own, v)'
    BY <1>2, <1>4, <2>1, ToldStays
  <2> QED
    BY <2>2, <2>3 DEF Told
<1>5. AnswerInv'
  BY <1>1, <1>2, <1>3, <1>4, FetchPhase DEF AnswerInv
<1> QED
  BY <1>1, <1>2, <1>5, FetchPhase

LEMMA EndFetchBody ==
  ASSUME SyncInv, BodyInv, EndFetch
  PROVE  BodyInv'
<1>1. /\ jobs'[Gw] = NoJob /\ UNCHANGED <<mailbox, notesHistory, store, device>>
      /\ h.pc = "fetch" /\ jobs[Gw].op = "get" /\ jobs[Gw].note \in NoteIds
      /\ h'.pc = "fetch" /\ h'.fetch = h.fetch /\ h'.key = h.key
      /\ h'.reply.dels = h.reply.dels /\ h'.reply.responses = h.reply.responses
      /\ h'.reply.status = h.reply.status /\ h'.reply.key = h.reply.key
      /\ \/ /\ jobs[Gw].email # None /\ missed' = missed
            /\ mail[jobs[Gw].email].val \in Vals
            /\ h'.reply.puts = [h.reply.puts EXCEPT ![jobs[Gw].note] = mail[jobs[Gw].email].val]
         \/ /\ jobs[Gw].email = None /\ missed' = missed \cup {jobs[Gw].note}
            /\ h'.reply.puts = h.reply.puts
  BY EndFetchIs
<1>2. MailMoves /\ UNCHANGED <<key, base>> /\ missed \subseteq missed' /\ has' = has
  BY <1>1, QuietMoves DEF mailbox, notesHistory, store, device
<1>3. Pending' = h.fetch /\ Pending = h.fetch \cup {jobs[Gw].note}
  <2>1. jobs[Gw].note # None
    BY <1>1, IdsAssumption DEF None
  <2>2. NoJob.note = None
    BY FreshFunctions
  <2> QED
    BY <1>1, <2>1, <2>2 DEF Pending
<1>4. ASSUME h.reply.status = 1, h.reply.key = key, NEW n \in NoteIds, n \notin missed', n \notin h.fetch
      PROVE  Told(n, n \in Queued(h.reply), Shown(h.reply, n))'
  <2>1. PICK own, v : own = (n \in Queued(h.reply))' /\ v = Shown(h.reply, n)'
    OBVIOUS
  <2>2. Queued(h.reply)' = Queued(h.reply)
    BY <1>1 DEF Queued
  <2>3. Told(n, own, v)
    <3>1. CASE n # jobs[Gw].note
      <4>1. h'.reply.puts[n] = h.reply.puts[n]
        BY <1>1, <3>1, Typed DEF View
      <4>2. Shown(h.reply, n)' = Shown(h.reply, n)
        BY <1>1, <1>2, <4>1 DEF Shown, Added
      <4>3. Told(n, n \in Queued(h.reply), Shown(h.reply, n))
        BY <1>1, <1>2, <1>3, <1>4, <3>1, FetchPhase
      <4> QED
        BY <2>1, <2>2, <4>2, <4>3
    <3>2. CASE n = jobs[Gw].note
      <4>1. jobs[Gw].email # None /\ missed' = missed
        BY <1>1, <1>4, <3>2
      <4>2. base[n] # NoHash /\ n \notin h.reply.dels /\ Fits(n, base[n], mail[jobs[Gw].email].val)
        BY <1>1, <1>2, <1>3, <1>4, <3>2, <4>1, FetchPhase
      <4>3. h'.reply.puts[n] = mail[jobs[Gw].email].val /\ h'.reply.puts[n] # None
        BY <1>1, <3>2, <4>1, Typed, ValsAssumption DEF View
      <4>4. v = mail[jobs[Gw].email].val
        BY <1>1, <2>1, <4>2, <4>3 DEF Shown
      <4> QED
        BY <4>2, <4>4 DEF Told
    <3> QED
      BY <3>1, <3>2
  <2>4. Told(n, own, v)'
    BY <1>2, <2>3, ToldStays
  <2> QED
    BY <2>1, <2>4 DEF Told
<1>5. NoJob.op = "none"
  BY FreshFunctions
<1>6. /\ h.reply.status = 1 => h.reply.key # 0
      /\ h.reply.status = 1 /\ h.reply.key = key =>
           \A n \in h.fetch \ missed : base[n] # NoHash /\ n \notin h.reply.dels
  BY <1>1, <1>2, <1>3, FetchPhase
<1>7. AnswerInv'
  BY <1>1, <1>2, <1>3, <1>4, <1>5, <1>6 DEF AnswerInv
<1> QED
  BY <1>1, <1>2, <1>7, FetchPhase

LEMMA AnswerBody ==
  ASSUME SyncInv, BodyInv, Answer
  PROVE  BodyInv'
<1>1. /\ h.pc = "fetch" /\ h.fetch = {} /\ jobs[Gw] = NoJob
      /\ UNCHANGED <<notesVars, store, device, history>>
      /\ h'.pc = "reply" /\ h'.fetch = {} /\ h'.reply = h.reply
  BY AnswerIs DEF Bare
<1>2. MailMoves /\ UNCHANGED <<key, base, missed, jobs>>
  BY <1>1, QuietMoves DEF notesVars, mailbox, notesHistory, store, history
<1>3. Pending' = {} /\ Pending = {}
  <2>1. NoJob.note = None
    BY FreshFunctions
  <2> QED
    BY <1>1, <1>2, <2>1 DEF Pending
<1>4. ASSUME NEW n \in NoteIds, Told(n, n \in Queued(h.reply), Shown(h.reply, n))
      PROVE  Told(n, n \in Queued(h.reply), Shown(h.reply, n))'
  <2>1. PICK own, v : own = (n \in Queued(h.reply)) /\ v = Shown(h.reply, n)
    OBVIOUS
  <2>2. own = (n \in Queued(h.reply))' /\ v = Shown(h.reply, n)'
    BY <1>1, <2>1 DEF Queued, Shown, Added, device
  <2>3. Told(n, own, v)'
    BY <1>2, <1>4, <2>1, ToldStays
  <2> QED
    BY <2>2, <2>3 DEF Told
<1>5. NoJob.op = "none"
  BY FreshFunctions
<1>6. h.reply.status = 1 =>
        /\ h.reply.key # 0
        /\ h.reply.key = key => \A n \in NoteIds \ missed :
             Told(n, n \in Queued(h.reply), Shown(h.reply, n))
  BY <1>1, <1>2, <1>3, FetchPhase
<1>7. AnswerInv'
  BY <1>1, <1>2, <1>3, <1>4, <1>5, <1>6 DEF AnswerInv
<1> QED
  BY <1>1, <1>2, <1>7, FetchPhase

-----------------------------------------------------------------------------
(* The device *)

LEMMA DropBody ==
  ASSUME SyncInv, BodyInv, Drop
  PROVE  BodyInv'
<1>1. h' = Idle /\ UNCHANGED <<mailbox, store, device, history>> /\ messy \subseteq messy'
  BY DEF Drop, Abandon
<1>2. MailMoves /\ Resting(h') /\ UNCHANGED <<key, base, missed>>
  BY <1>1, IdleRests, QuietMoves DEF mailbox, store, history
<1>3. Agree'
  BY <1>1, <1>2, AgreeStays DEF BodyInv, Working, Resting
<1>4. FreshIsEmpty'
  BY <1>1 DEF BodyInv, FreshIsEmpty, device
<1> QED
  BY <1>2, <1>3, <1>4, RestFits

LEMMA SendSyncBody ==
  ASSUME SyncInv, BodyInv, NEW get \in GetChanges, SendSync(get)
  PROVE  BodyInv'
<1>1. /\ UNCHANGED <<store, device, missed>> /\ h.pc = "idle" /\ ckey < MaxKey
      /\ h'.pc = "load" /\ h'.key = ckey /\ h'.todo = Commands /\ h'.cmd = NoCommand
      /\ h'.deleting = {} /\ h'.reply = NoReply
  BY SendSyncIs
<1>2. MailMoves /\ UNCHANGED <<key, base>>
  BY <1>1, QuietMoves DEF SendSync, notesVars, mailbox, notesHistory, store
<1>3. Agree'
  BY <1>1, <1>2, AgreeStays DEF BodyInv, Working
<1>4. FreshIsEmpty'
  BY <1>1 DEF BodyInv, FreshIsEmpty, device
<1>5. Commands' = Commands /\ ckey' = ckey /\ Responses' = {}
  BY <1>1, CommandsStay, IdleIs DEF device, Responses
<1>6. RequestInv' /\ WorkInv' /\ AnsweredInv' /\ AnswerInv'
  BY <1>1, <1>5, IdleIs DEF RequestInv, WorkInv, Working, AnsweredInv, AnswerInv
<1> QED
  BY <1>2, <1>3, <1>4, <1>6 DEF BodyInv

LEMMA ReceiveBody ==
  ASSUME SyncInv, BodyInv, Receive
  PROVE  BodyInv'
<1>1. h.pc = "reply" /\ h' = Idle /\ UNCHANGED <<notesVars, store, history>>
  BY DEF Receive
<1>2. MailMoves /\ Resting(h') /\ UNCHANGED <<key, base, missed>> /\ jobs[Gw] = NoJob
  BY <1>1, IdleRests, QuietMoves, OutOfFunction DEF notesVars, mailbox, notesHistory, store, history
<1>3. CASE /\ h.reply.status = 1 /\ has' = [n \in NoteIds |-> Shown(h.reply, n)]
           /\ dirty' = Queued(h.reply) /\ ckey' = h.reply.key
  <2>1. Pending = {}
    <3>1. h.fetch = {} /\ NoJob.note = None
      BY <1>1, FreshFunctions DEF BodyInv, RequestInv
    <3> QED
      BY <1>2, <3>1 DEF Pending
  <2>2. /\ h.reply.key # 0
        /\ h.reply.key = key => \A n \in NoteIds \ missed :
             Told(n, n \in Queued(h.reply), Shown(h.reply, n))
    BY <1>1, <1>3, <2>1 DEF BodyInv, AnswerInv
  <2>3. Agree'
    <3> SUFFICES ASSUME h.reply.key = key, NEW n \in NoteIds, n \notin missed
                 PROVE  Told(n, n \in dirty, has[n])'
      BY <1>2, <1>3 DEF Agree, Working, Resting
    <3>1. PICK own, v : own = (n \in Queued(h.reply)) /\ v = Shown(h.reply, n)
      OBVIOUS
    <3>2. own = (n \in dirty') /\ v = has'[n]
      BY <1>3, <3>1
    <3>3. Told(n, own, v)'
      BY <1>2, <2>2, <3>1, ToldStays
    <3> QED
      BY <3>2, <3>3 DEF Told
  <2>4. FreshIsEmpty'
    BY <1>3, <2>2 DEF FreshIsEmpty
  <2> QED
    BY <1>2, <2>3, <2>4, RestFits
<1>4. CASE has' = Blank /\ dirty' = {} /\ draft' = None /\ ckey' = 0
  <2>1. Agree' /\ FreshIsEmpty'
    BY <1>4 DEF Agree, FreshIsEmpty
  <2> QED
    BY <1>2, <2>1, RestFits
<1>5. CASE UNCHANGED device
  <2>1. Agree'
    BY <1>2, <1>5, AgreeStays DEF BodyInv, Working, Resting, device
  <2>2. FreshIsEmpty'
    BY <1>5 DEF BodyInv, FreshIsEmpty, device
  <2> QED
    BY <1>2, <2>1, <2>2, RestFits
<1> QED
  BY <1>3, <1>4, <1>5 DEF Receive

LEMMA UserEditsBody ==
  ASSUME SyncInv, BodyInv, UserEdits
  PROVE  BodyInv'
<1>1. h.pc = "idle" /\ ckey # 0 /\ h' = h /\ UNCHANGED <<notesVars, store, ckey, history>>
  BY DEF UserEdits
<1>2. MailMoves /\ UNCHANGED <<key, base, missed>> /\ Responses' = Responses
  BY <1>1, QuietMoves DEF notesVars, mailbox, notesHistory, store, history, Responses
<1>3. Agree'
  <2> SUFFICES ASSUME ckey = key, NEW n \in NoteIds, n \notin missed
               PROVE  Told(n, n \in dirty, has[n])'
    BY <1>1, <1>2 DEF Agree, Working
  <2>1. Told(n, n \in dirty, has[n])
    BY <1>1 DEF BodyInv, Agree
  <2>2. CASE UNCHANGED <<has, dirty>> \/ (has'[n] = has[n] /\ ((n \in dirty') <=> (n \in dirty)))
    <3>1. PICK own, v : own = (n \in dirty) /\ v = has[n]
      OBVIOUS
    <3>2. Told(n, own, v)'
      BY <1>2, <2>1, <3>1, ToldStays
    <3>3. own = (n \in dirty') /\ v = has'[n]
      BY <2>2, <3>1
    <3> QED
      BY <3>2, <3>3 DEF Told
  <2>3. CASE has[n] # None /\ n \in dirty'
    <3>1. base[n] # NoHash
      BY <2>1, <2>3 DEF Told, Fits
    <3> QED
      BY <1>2, <2>3, <3>1 DEF Told
  <2> QED
    BY <2>2, <2>3, Typed DEF UserEdits, View
<1>4. FreshIsEmpty'
  BY <1>1 DEF FreshIsEmpty
<1>5. Responses = {}
  BY <1>1 DEF BodyInv, RequestInv
<1>6. RequestInv' /\ WorkInv' /\ AnsweredInv' /\ AnswerInv'
  BY <1>1, <1>2, <1>5 DEF BodyInv, RequestInv, WorkInv, Working, AnsweredInv, AnswerInv
<1> QED
  BY <1>2, <1>3, <1>4, <1>6 DEF BodyInv

-----------------------------------------------------------------------------
(* The invariant of the bodies *)

LEMMA BodyInit == Init => BodyInv
<1> SUFFICES ASSUME Init PROVE BodyInv
  OBVIOUS
<1>1. Resting(h)
  BY IdleRests DEF Init
<1>2. Agree /\ FreshIsEmpty
  BY DEF Init, NotesInit, Agree, FreshIsEmpty
<1>3. Responses = {}
  BY <1>1 DEF Resting, Responses
<1>4. RequestInv /\ WorkInv /\ AnsweredInv /\ AnswerInv
  BY <1>1, <1>3 DEF Resting, Bare, RequestInv, WorkInv, Working, AnsweredInv, AnswerInv
<1> QED
  BY <1>2, <1>4 DEF BodyInv

LEMMA BodyStutter ==
  ASSUME SyncInv, BodyInv, UNCHANGED vars
  PROVE  BodyInv'
<1>1. UNCHANGED <<stored, born, mail, messy, jobs, key, base, h, has, dirty, draft, ckey, missed>>
  BY DEF vars, notesVars, mailbox, notesHistory, store, device, history
<1>2. MailMoves
  BY <1>1, QuietMoves
<1>3. Agree'
  BY <1>1, <1>2, AgreeStays DEF BodyInv, Working, device
<1>4. FreshIsEmpty' /\ RequestInv' /\ WorkInv' /\ AnsweredInv'
  BY <1>1 DEF BodyInv, FreshIsEmpty, RequestInv, WorkInv, Working, AnsweredInv, Commands, Responses
<1>5. AnswerInv'
  BY <1>1 DEF BodyInv, AnswerInv, Pending, Queued, Shown, Added, Told, Fits, Blurred, Backing, note_hash
<1> QED
  BY <1>2, <1>3, <1>4, <1>5 DEF BodyInv

LEMMA BodyStep ==
  ASSUME SyncInv, BodyInv, [Next]_vars
  PROVE  BodyInv'
<1>1. CASE Handle
  BY <1>1, LoadBody, StartCommandBody, EndCommandBody, StartListBody, EndListBody, PutRecordBody,
     PutItemsBody, StartFetchBody, EndFetchBody, AnswerBody, DropBody DEF Handle
<1>2. CASE ~Handle
  BY <1>2, MailboxBody, ReceiveBody, UserEditsBody, SendSyncBody, BodyStutter DEF Next
<1> QED
  BY <1>1, <1>2

\* The item states, the handler, the answer and the device agree on the body of
\* every note, at every step of every request, but for the ways into `missed` and
\* revisions of one second.
THEOREM BodiesAgree == Spec => []BodyInv
<1>1. SyncInv /\ BodyInv /\ [Next]_vars => BodyInv'
  BY BodyStep
<1> QED
  BY <1>1, BodyInit, SyncInvariant, PTL DEF Spec

\* A note that a device in sync shows wrongly, or not at all, is one that the next
\* diff finds, whatever calls fail and whatever others do to the mailbox.
THEOREM UpdatesCome == Spec => []UpdateComes
<1>1. ASSUME SyncInv, BodyInv, InSync PROVE UpdateComes
  <2>1. \A n \in NoteIds \ missed : Told(n, n \in dirty, has[n])
    BY <1>1 DEF InSync, BodyInv, Agree
  <2>2. ASSUME NEW e \in stored, NEW n, n = extract_stable_id(e), n # None,
               n \notin missed \cup dirty \cup messy \cup Blurred, has[n] # mail[e].val
        PROVE  base[n] # note_hash(e)
    <3>1. n \in NoteIds /\ e \in Backing(n)
      <4>1. mail[e].tags # {} /\ n = Least(mail[e].tags)
        BY <2>2 DEF extract_stable_id
      <4>2. mail[e].tags \subseteq NoteIds /\ \A a, b \in mail[e].tags : a = b
        BY <1>1, Slots, Typed DEF Email, SyncInv, MailInv, NoteInv, TagsInv
      <4>3. PICK a : mail[e].tags = {a}
        BY <4>1, <4>2
      <4>4. {a} \in SUBSET Nat /\ IsFiniteSet({a})
        BY <4>2, <4>3, IdsAssumption, FS_Singleton
      <4>5. Least({a}) = a
        BY <4>4, LeastIs
      <4> QED
        BY <4>1, <4>2, <4>3, <4>5 DEF Backing
    <3>2. Fits(n, base[n], has[n])
      BY <2>1, <2>2, <3>1 DEF Told
    <3> QED
      BY <2>2, <3>1, <3>2 DEF Fits
  <2>3. ASSUME NEW n \in Absent \ (missed \cup dirty), has[n] # None PROVE base[n] # NoHash
    BY <2>1, <2>3 DEF Absent, Told, Fits
  <2> QED
    BY <2>2, <2>3 DEF UpdateComes
<1>2. SyncInv /\ BodyInv => UpdateComes
  BY <1>1 DEF UpdateComes
<1> QED
  BY <1>2, BodiesAgree, SyncInvariant, PTL

=============================================================================
