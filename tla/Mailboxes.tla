------------------------------ MODULE Mailboxes ------------------------------
(***************************************************************************)
(* FolderSync, FolderCreate, FolderUpdate, FolderDelete and MoveItems      *)
(* (activesync.rs) with the functions of jmap/client.rs they call.  The    *)
(* requests (Procs) of one account are at work at the same time, one JMAP  *)
(* call per step.  The gateway keeps nothing of the hierarchy: the mail    *)
(* server does, which is modelled from the answers client.rs handles.      *)
(***************************************************************************)
EXTENDS Integers, FiniteSets, Sequences

CONSTANTS
  Procs,      \* requests of the account's devices at work at the same time
  Boxes,      \* JMAP ids of mailboxes
  Protected,  \* the mailboxes the server lets nobody rename or destroy, there from the start
  Names,      \* names of the other mailboxes
  Books,      \* JMAP ids of address books
  Calendars,  \* JMAP ids of calendars
  Msgs,       \* ids of the items devices move
  MaxMoves,   \* emails the MoveItems at work have yet to move
  Faults      \* what may go wrong, of the ones below

NotesName == "Notes"
Top       == 0

ASSUME ProcsAssumption == IsFiniteSet(Procs)
ASSUME BoxesAssumption ==
  Boxes \subseteq Nat \ {0} /\ IsFiniteSet(Boxes) /\ Protected \subseteq Boxes
ASSUME MaxMovesAssumption == MaxMoves \in Nat
\* A call fails; the look for the Notes mailbox is answered with a method-level error;
\* an answer is lost, or is without the method; a request is dropped.
ASSUME FaultsKnown == Faults \subseteq {"jmap", "method", "unanswered", "drop", "silent"}

VARIABLES
  box,    \* JMAP: the parent and name of every mailbox, or NoBox
  made,   \* JMAP: mailbox ids ever given
  at,     \* JMAP: the mailboxes every email is in; none when it is destroyed, or no email
  jobs,   \* the request in every slot
  churn,  \* history: mailboxes that changed while a FolderSync is handled
  excused \* history: FolderSyncs that may find no Notes folder, since somebody else created
          \* it first or it was not seen for an error, and the one whose last call has just
          \* failed

server   == <<box, made, at>>
history  == <<churn, excused>>
mbVars   == <<server, jobs, history>>

-----------------------------------------------------------------------------
(* Mailboxes and collections *)

Box   == [parent : Boxes \cup {Top}, name : Names \cup {NotesName, "Inbox"}]
NoBox == [parent |-> Top, name |-> "gone"]
Live  == {b \in Boxes : box[b] # NoBox}

\* A collection id is a JMAP id with the prefix of its kind: none, note_, ab_,
\* cal_ or task_.
Kinds      == {"mail", "note", "ab", "cal", "task"}
Collection == [kind : Kinds, id : Boxes \cup Books \cup Calendars]
Root       == [kind |-> "mail", id |-> Top]
Missing    == [kind |-> "missing", id |-> Top]

is_non_mail_collection_id(c) == c.kind \in {"note", "ab", "cal", "task"}

\* Mutant: a folder of this name anywhere is the Notes folder.
named_notes(b) == box[b].name = NotesName

is_notes(b) == box[b].name = NotesName /\ box[b].parent = Top

NotesBoxes == {b \in Live : is_notes(b)}

\* What Mailbox/get, AddressBook/get and Calendar/get make of the account: one
\* Tasks collection for every calendar.
Listing ==
  {[kind |-> IF is_notes(b) THEN "note" ELSE "mail", id |-> b] : b \in Live}
  \cup {[kind |-> "ab", id |-> b] : b \in Books}
  \cup {[kind |-> k, id |-> c] : k \in {"task", "cal"}, c \in Calendars}

-----------------------------------------------------------------------------
(* Requests and jobs *)

\* Emails moved from one folder to another, in some order, or no complete Move.
Orders == UNION {[1..n -> Msgs] : n \in 0..MaxMoves}

ToMove == Cardinality(UNION {{p} \X DOMAIN jobs[p].todo : p \in Procs})

\* Requests of a command with ids of a set: complete ones and, of the folder
\* commands, one that lacks elements.
MailboxRequests(cmd, ids) ==
  LET names == Names \cup {NotesName}
      above == ids \cup {Root}
  IN
  CASE cmd = "FolderSync" -> [op : {cmd}, key : BOOLEAN]
    [] cmd = "FolderCreate" ->
         [op : {cmd}, parent : above, name : names] \cup [op : {cmd}, parent : {Root}, name : {""}]
    [] cmd = "FolderUpdate" ->
         [op : {cmd}, id : ids, parent : above, name : names]
           \cup [op : {cmd}, id : {Missing}, parent : {Root}, name : Names]
    [] cmd = "FolderDelete" -> [op : {cmd}, id : ids \cup {Missing}]
    [] cmd = "MoveItems" ->
         [op : {cmd}, msgs : {o \in Orders : Len(o) + ToMove <= MaxMoves}, src : ids, dst : ids]

\* A MoveItems answer has a status for every email.
Reply == [status : 0..10 \cup {200, 400, 500, 502}, list : SUBSET Collection,
          id : Boxes \cup {Top}, moved : Seq({3, 4, 5}), oof : {"none", "on", "off"}]
Blank == [status |-> 0, list |-> {}, id |-> Top, moved |-> <<>>, oof |-> "none"]

NoRequest == [op |-> "none"]
NoJob     == [req |-> NoRequest, step |-> "done", reply |-> Blank, todo |-> <<>>]

StartJob(p, j) == jobs' = [jobs EXCEPT ![p] = j]
At(p, step)    == jobs[p].step = step
Status(s)      == [Blank EXCEPT !.status = s]

\* What of a request is still of use once it is answered.
Answered(req, rep) ==
  [NoJob EXCEPT !.req = [op |-> req.op, mail |-> IF req.op = "SendMail" THEN req.mail ELSE 0],
                !.reply = rep]
Answer(p, rep) == StartJob(p, Answered(jobs[p].req, rep))

\* The status a command is refused with before any call, or 0.
Refusal(req) ==
  CASE req.op = "FolderSync" -> IF req.key THEN 0 ELSE 400
    [] req.op = "MoveItems" -> IF req.msgs = <<>> THEN 400 ELSE 0
    [] req.op = "FolderCreate" ->
         IF Missing = req.parent \/ req.name = "" THEN 10
         ELSE IF is_non_mail_collection_id(req.parent) THEN 5 ELSE 0
    [] req.op = "FolderUpdate" ->
         IF Missing \in {req.id, req.parent} \/ req.name = "" THEN 10
         ELSE IF is_non_mail_collection_id(req.id) \/ is_non_mail_collection_id(req.parent)
           THEN 4 ELSE 0
    [] req.op = "FolderDelete" ->
         IF req.id = Missing THEN 10
         ELSE IF is_non_mail_collection_id(req.id) THEN 4 ELSE 0
    [] OTHER -> 0

\* A request and the call it makes first.
Accept(req) ==
  IF Refusal(req) # 0 THEN Answered(req, Status(Refusal(req)))
  ELSE CASE req.op = "FolderSync" -> [NoJob EXCEPT !.req = req, !.step = "list"]
         [] req.op = "MoveItems"  -> [NoJob EXCEPT !.req = req, !.step = "move", !.todo = req.msgs]
         [] OTHER                  -> [NoJob EXCEPT !.req = req, !.step = "set"]

-----------------------------------------------------------------------------
(* Mailbox/set and Email/set, by the mail server (external) *)

\* A mailbox and the mailboxes above it.
Above(b) ==
  LET up[n \in 0..Cardinality(Boxes)] ==
        IF n = 0 THEN {b} ELSE up[n - 1] \cup {box[c].parent : c \in up[n - 1] \cap Boxes}
  IN  up[Cardinality(Boxes)]

NameTaken(parent, name, b) ==
  \E o \in Live \ {b} : box[o] = [parent |-> parent, name |-> name]

\* What the answer says of a create, update or destroy.
CreateResult(parent, name) ==
  IF parent \notin Live \cup {Top} THEN "invalidProperties"
  ELSE IF NameTaken(parent, name, Top) THEN "alreadyExists"
  ELSE IF made = Boxes THEN "overQuota" ELSE "created"

UpdateResult(b, parent, name) ==
  IF b \notin Live THEN "notFound"
  ELSE IF b \in Protected THEN "forbidden"
  ELSE IF parent \notin Live \cup {Top} \/ b \in Above(parent) THEN "invalidProperties"
  ELSE IF NameTaken(parent, name, b) THEN "alreadyExists" ELSE "updated"

InUse(b) == (\E o \in Live : box[o].parent = b) \/ \E m \in Msgs : b \in at[m]

DestroyResult(b) ==
  IF b \notin Live THEN "notFound"
  ELSE IF b \in Protected THEN "forbidden"
  ELSE IF InUse(b) THEN "mailboxHasEmail" ELSE "destroyed"

NextBox == CHOOSE b \in Boxes \ made : \A o \in Boxes \ made : b <= o

\* Requests about to create the Notes mailbox when one has just appeared.
Raced == {p \in Procs : At(p, "createNotes") /\ NotesBoxes = {} /\ NotesBoxes' # {}}

Listers == {p \in Procs : jobs[p].step \in {"list", "findNotes", "createNotes"}}

Touched(p) == churn[p] \cup {b \in Boxes : box'[b] # box[b]}

\* History of the FolderSyncs, which every step adds to; in S, the call failed.
FollowWith(S) ==
  /\ churn' = [p \in Procs |-> IF p \in Listers /\ p \in Listers' THEN Touched(p) ELSE {}]
  /\ excused' = ((excused \cup Raced) \cap Listers') \cup S
Follow == FollowWith({})

CreateBox(parent, name) ==
  IF CreateResult(parent, name) = "created"
    THEN /\ box' = [box EXCEPT ![NextBox] = [parent |-> parent, name |-> name]]
         /\ made' = made \cup {NextBox} /\ UNCHANGED at
    ELSE UNCHANGED server

UpdateBox(b, parent, name) ==
  IF UpdateResult(b, parent, name) = "updated"
    THEN /\ box' = [box EXCEPT ![b] = [parent |-> parent, name |-> name]]
         /\ UNCHANGED <<made, at>>
    ELSE UNCHANGED server

DestroyBox(b) ==
  IF DestroyResult(b) = "destroyed"
    THEN box' = [box EXCEPT ![b] = NoBox] /\ UNCHANGED <<made, at>>
    ELSE UNCHANGED server

\* A patch with a key that is not there changes nothing.
Without(m, c) == {b \in at[m] : [kind |-> "mail", id |-> b] # c}

\* Mutant: the destination is not added.
TakenOut(m, src, dst) == Without(m, src)

\* The mailboxes of an email after a patch that removes one and adds another.
Patched(m, src, dst) == Without(m, src) \cup {dst.id}

\* The server knows the email, and the destination as a mailbox.
Movable(m, dst) == at[m] # {} /\ dst.kind = "mail" /\ dst.id \in Live

MoveEmail(m, src, dst) ==
  /\ at' = IF Movable(m, dst) THEN [at EXCEPT ![m] = Patched(m, src, dst)] ELSE at
  /\ UNCHANGED <<box, made>>

-----------------------------------------------------------------------------
(* FolderSync: the functions collections and ensure_notes_mailbox_id *)

\* The answer brings the collections and the Notes mailbox b, if any.
Listed(p, notes) ==
  Answer(p, [jobs[p].reply EXCEPT !.status = 1,
               !.list = @ \cup {[kind |-> "note", id |-> b] : b \in notes}])

\* One request for all kinds of collections.
ListBoxes(p) ==
  /\ At(p, "list")
  /\ IF \E c \in Listing : c.kind = "note"
       THEN Answer(p, [Blank EXCEPT !.status = 1, !.list = Listing])
       ELSE jobs' = [jobs EXCEPT ![p].step = "findNotes", ![p].reply.list = Listing]
  /\ UNCHANGED server /\ Follow

ListFails(p) ==
  /\ "jmap" \in Faults /\ At(p, "list")
  /\ Answer(p, Status(502))
  /\ UNCHANGED server /\ Follow

\* The mailboxes are listed once more before one is created.
FindNotes(p) ==
  /\ At(p, "findNotes")
  /\ IF NotesBoxes # {} THEN Listed(p, NotesBoxes)
                        ELSE jobs' = [jobs EXCEPT ![p].step = "createNotes"]
  /\ UNCHANGED server /\ Follow

\* A method-level error is taken for no Notes mailbox.
FindNotesErrs(p) ==
  /\ "method" \in Faults /\ At(p, "findNotes")
  /\ jobs' = [jobs EXCEPT ![p].step = "createNotes"]
  /\ UNCHANGED server /\ FollowWith(IF NotesBoxes = {} THEN {} ELSE {p})

\* No Notes mailbox after all is only logged.
CreateNotes(p) ==
  /\ At(p, "createNotes")
  /\ CreateBox(Top, NotesName)
  /\ Listed(p, made' \ made)
  /\ FollowWith(IF made = Boxes THEN {p} ELSE {})

NotesFail(p) ==
  /\ "jmap" \in Faults /\ jobs[p].step \in {"findNotes", "createNotes"}
  /\ Listed(p, {})
  /\ UNCHANGED server /\ FollowWith({p})

CreateNotesUnanswered(p) ==
  /\ "unanswered" \in Faults /\ At(p, "createNotes")
  /\ CreateBox(Top, NotesName)
  /\ Listed(p, {})
  /\ FollowWith({p})

-----------------------------------------------------------------------------
(* FolderCreate, FolderUpdate, FolderDelete *)

\* Mutant: a parent that is not there is a name that is there.
swapped_status == [created |-> 1, alreadyExists |-> 5, invalidProperties |-> 2]

create_status == [created |-> 1, alreadyExists |-> 2, invalidProperties |-> 5]
update_status == [updated |-> 1, notFound |-> 4, forbidden |-> 2, alreadyExists |-> 2]
delete_status == [destroyed |-> 1, notFound |-> 4, forbidden |-> 3]

\* Every other error is Status 6.
StatusOf(result, table) == IF result \in DOMAIN table THEN table[result] ELSE 6

FolderCreate(p, req) ==
  /\ req.op = "FolderCreate" /\ CreateBox(req.parent.id, req.name)
  /\ Answer(p, [Status(StatusOf(CreateResult(req.parent.id, req.name), create_status))
                  EXCEPT !.id = IF made' # made THEN NextBox ELSE Top])

FolderUpdate(p, req) ==
  /\ req.op = "FolderUpdate" /\ UpdateBox(req.id.id, req.parent.id, req.name)
  /\ Answer(p, Status(StatusOf(UpdateResult(req.id.id, req.parent.id, req.name), update_status)))

FolderDelete(p, req) ==
  /\ req.op = "FolderDelete" /\ DestroyBox(req.id.id)
  /\ Answer(p, Status(StatusOf(DestroyResult(req.id.id), delete_status)))

SetBox(p) ==
  /\ At(p, "set")
  /\ FolderCreate(p, jobs[p].req) \/ FolderUpdate(p, jobs[p].req) \/ FolderDelete(p, jobs[p].req)
  /\ Follow

SetBoxFails(p) ==
  /\ "jmap" \in Faults /\ At(p, "set")
  /\ Answer(p, Status(6))
  /\ UNCHANGED server /\ Follow

SetBoxUnanswered(p) ==
  /\ "unanswered" \in Faults /\ At(p, "set")
  /\ LET req == jobs[p].req IN
       CASE req.op = "FolderCreate" -> CreateBox(req.parent.id, req.name)
         [] req.op = "FolderUpdate" -> UpdateBox(req.id.id, req.parent.id, req.name)
         [] req.op = "FolderDelete" -> DestroyBox(req.id.id)
  /\ Answer(p, Status(6))
  /\ Follow

-----------------------------------------------------------------------------
(* MoveItems *)

\* The status of the next email; the last one ends the request.
Moved(p, status) ==
  LET todo == jobs[p].todo
      rep  == [jobs[p].reply EXCEPT !.moved = Append(@, status)]
  IN  IF Len(todo) = 1 THEN Answer(p, [rep EXCEPT !.status = 200])
      ELSE jobs' = [jobs EXCEPT ![p].todo = Tail(todo), ![p].reply = rep]

\* Within a folder there is nothing to move.  email_set does not look at
\* notUpdated.
MoveNext(p) ==
  /\ At(p, "move")
  /\ LET req == jobs[p].req IN
       \/ req.src = req.dst /\ Moved(p, 4) /\ UNCHANGED server
       \/ req.src # req.dst /\ Moved(p, 3) /\ MoveEmail(Head(jobs[p].todo), req.src, req.dst)
  /\ Follow

MoveFails(p) ==
  /\ "jmap" \in Faults /\ At(p, "move") /\ jobs[p].req.src # jobs[p].req.dst
  /\ Moved(p, 5)
  /\ UNCHANGED server /\ Follow

MoveUnanswered(p) ==
  /\ "unanswered" \in Faults /\ At(p, "move") /\ jobs[p].req.src # jobs[p].req.dst
  /\ Moved(p, 5) /\ MoveEmail(Head(jobs[p].todo), jobs[p].req.src, jobs[p].req.dst)
  /\ Follow
=============================================================================
