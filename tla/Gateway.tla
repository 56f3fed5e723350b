------------------------------- MODULE Gateway -------------------------------
(***************************************************************************)
(* Requests that act on the mail server at once: the dispatch of           *)
(* post_handler, the folder commands and MoveItems of Mailboxes, SendMail  *)
(* and the out-of-office part of Settings, together with the devices that  *)
(* send them and the other clients of the account.                         *)
(***************************************************************************)
EXTENDS Mailboxes

CONSTANTS
  Mails,     \* messages the devices send
  MaxTries,  \* how often a device sends each of them
  Uses       \* what devices may do: sets of commands and of "Invalid", requests that are refused

Handlers == {"FolderSync", "FolderCreate", "FolderUpdate", "FolderDelete", "MoveItems",
             "SendMail", "Settings", "Ping"}

ASSUME MailsAssumption == IsFiniteSet(Mails) /\ MaxTries \in Nat
ASSUME UsesAssumption == \A u \in Uses : u \subseteq Handlers \cup {"Invalid"}

VARIABLES
  uses,       \* what the devices of this behaviour do
  copies,     \* JMAP: how often a message was imported
  submitted,  \* JMAP: how often a message was submitted
  oof,        \* JMAP: the VacationResponse is "on" or "off"
  outbox,     \* devices: messages no answer says are sent
  tries,      \* devices: how often a message was tried
  doubts,     \* history: how often a message may have been sent and the device not told
  silent,     \* history: messages whose submission was answered without EmailSubmission/set
  oofs        \* history: states of oof a Settings answer may tell, or "unread"

sendVars == <<copies, submitted, outbox, tries, doubts, silent>>
oofVars  == <<oof, oofs>>
vars     == <<uses, mbVars, sendVars, oofVars>>

-----------------------------------------------------------------------------
(* Dispatch *)

\* What comes before the body of a request is looked at: it is too large, or
\* its credentials do not open a JMAP session.
Envelope == [cmd : Handlers \cup {"Sync", "MeetingResponse"}, large : BOOLEAN, auth : BOOLEAN,
             body : {"none", "invalid", "wbxml"}]

SendCommands == {"SendMail"}

\* The HTTP status post_handler answers with, or 0 when it calls the handler of
\* the command.  The body of a SendMail need not be WBXML.
post_handler(e) ==
  CASE e.large -> 413
    [] ~e.large /\ ~e.auth -> 401
    [] OTHER ->
         IF e.cmd \in SendCommands THEN (IF e.body = "none" THEN 400 ELSE 0)
         ELSE IF e.body = "none" THEN (IF e.cmd \in {"FolderSync", "Sync"} THEN 400 ELSE 501)
         ELSE IF e.body = "invalid" THEN 400
         ELSE IF e.cmd \in Handlers \cup {"Sync"} THEN 0 ELSE 501

Refused(p) ==
  /\ "Invalid" \in uses /\ jobs[p] = NoJob
  /\ \E e \in Envelope :
       /\ post_handler(e) # 0
       /\ StartJob(p, Answered([op |-> "Invalid"], Status(post_handler(e))))
  /\ UNCHANGED <<server, sendVars, oofVars>> /\ Follow

-----------------------------------------------------------------------------
(* SendMail *)

Goto(p, step) == jobs' = [jobs EXCEPT ![p].step = step]

\* identity, upload and, for a copy in Sent Items, the mailbox to import into:
\* calls that change nothing a device or a mail client sees.
Prepare(p) ==
  /\ \/ At(p, "identity") /\ Goto(p, "upload")
     \/ At(p, "upload") /\ Goto(p, IF jobs[p].req.save THEN "role" ELSE "import")
     \/ At(p, "role") /\ Goto(p, "import")
  /\ UNCHANGED <<server, sendVars, oofVars>> /\ Follow

ImportMail(p) ==
  /\ At(p, "import")
  /\ copies' = [copies EXCEPT ![jobs[p].req.mail] = @ + 1]

Import(p) ==
  /\ ImportMail(p) /\ Goto(p, "submit")
  /\ UNCHANGED <<server, submitted, outbox, tries, doubts, silent, oofVars>> /\ Follow

ImportUnanswered(p) ==
  /\ "unanswered" \in Faults
  /\ ImportMail(p) /\ Answer(p, Status(500))
  /\ UNCHANGED <<server, submitted, outbox, tries, doubts, silent, oofVars>> /\ Follow

SubmitMail(p) ==
  /\ At(p, "submit")
  /\ submitted' = [submitted EXCEPT ![jobs[p].req.mail] = @ + 1]

\* Mutant: a message is acknowledged when it is imported.
AckImported(p) == Answer(p, Status(200))

\* A notCreated is an error: the copy stays.
RejectSubmission(p) == Answer(p, Status(500))

AckSubmission(p) == Answer(p, Status(200))

Submit(p) ==
  /\ SubmitMail(p) /\ AckSubmission(p)
  /\ UNCHANGED <<server, copies, outbox, tries, doubts, silent, oofVars>> /\ Follow

\* Mutant: a submission without an answer is tried again.
SubmitAgain(p) ==
  /\ "unanswered" \in Faults /\ SubmitMail(p)
  /\ UNCHANGED <<server, jobs, copies, outbox, tries, doubts, silent, oofVars>> /\ Follow

SubmitUnanswered(p) ==
  /\ "unanswered" \in Faults
  /\ SubmitMail(p) /\ Answer(p, Status(500))
  /\ doubts' = [doubts EXCEPT ![jobs[p].req.mail] = @ + 1]
  /\ UNCHANGED <<server, copies, outbox, tries, silent, oofVars>> /\ Follow

SubmitRejected(p) ==
  /\ "jmap" \in Faults /\ At(p, "submit")
  /\ RejectSubmission(p)
  /\ UNCHANGED <<server, sendVars, oofVars>> /\ Follow

\* An answer without EmailSubmission/set, such as a method error, counts as sent.
SubmitSilent(p) ==
  /\ "silent" \in Faults /\ At(p, "submit")
  /\ AckSubmission(p)
  /\ silent' = silent \cup {jobs[p].req.mail}
  /\ UNCHANGED <<server, copies, submitted, outbox, tries, doubts, oofVars>> /\ Follow

SendFails(p) ==
  /\ "jmap" \in Faults /\ jobs[p].step \in {"identity", "upload", "role", "import"}
  /\ Answer(p, Status(500))
  /\ UNCHANGED <<server, sendVars, oofVars>> /\ Follow

SendMail(p) ==
  \/ Prepare(p) \/ Import(p) \/ ImportUnanswered(p) \/ Submit(p) \/ SubmitUnanswered(p)
  \/ SubmitRejected(p) \/ SubmitSilent(p) \/ SendFails(p)

-----------------------------------------------------------------------------
(* Settings: Oof *)

SetOof(p) ==
  /\ At(p, "setOof")
  /\ oof' = jobs[p].req.oof
  /\ oofs' = [q \in Procs |-> IF q = p THEN {oof'} ELSE oofs[q] \cup {oof'}]
  /\ Goto(p, "getOof")
  /\ UNCHANGED <<server, sendVars>> /\ Follow

\* Only logged.
SetOofFails(p) ==
  /\ "jmap" \in Faults /\ At(p, "setOof")
  /\ Goto(p, "getOof")
  /\ UNCHANGED <<server, sendVars, oofVars>> /\ Follow

\* Mutant: a Set is answered with what it asked for.
oof_asked(p) == IF jobs[p].req.oof = "none" THEN oof ELSE jobs[p].req.oof

\* The state the answer tells is read after the Set.
oof_read(p) == oof

GetOof(p) ==
  /\ At(p, "getOof")
  /\ Answer(p, [Status(1) EXCEPT !.oof = oof_read(p)])
  /\ UNCHANGED <<server, sendVars, oofVars>> /\ Follow

\* What cannot be read is told to be off.
GetOofFails(p) ==
  /\ "jmap" \in Faults /\ At(p, "getOof")
  /\ Answer(p, [Status(1) EXCEPT !.oof = "off"])
  /\ oofs' = [oofs EXCEPT ![p] = @ \cup {"unread"}]
  /\ UNCHANGED <<server, sendVars, oof>> /\ Follow

Settings(p) == SetOof(p) \/ SetOofFails(p) \/ GetOof(p) \/ GetOofFails(p)

-----------------------------------------------------------------------------
(* Requests that reach their handler *)

\* Collections a device may have been told of; its mailboxes may be gone since.
Ids == Listing \cup {[kind |-> "mail", id |-> b] : b \in made}

\* A message is tried again when the device does not hear that it was sent,
\* whether or not the gateway is still at work on it.  A Ping waits and answers;
\* the other commands without a state are alike.
Requests(cmd) ==
  CASE cmd = "SendMail" -> [op : {cmd}, mail : {m \in outbox : tries[m] < MaxTries}, save : BOOLEAN]
    [] cmd = "Settings" -> [op : {cmd}, oof : {"none", "on", "off"}]
    [] cmd = "Ping"     -> [op : {cmd}]
    [] OTHER            -> MailboxRequests(cmd, Ids)

AcceptOther(req) ==
  CASE req.op = "SendMail" -> [NoJob EXCEPT !.req = req, !.step = "identity"]
    [] req.op = "Settings" ->
         [NoJob EXCEPT !.req = req, !.step = IF req.oof = "none" THEN "getOof" ELSE "setOof"]
    [] req.op = "Ping"     -> Answered(req, Status(1))

Begin(p) ==
  /\ jobs[p] = NoJob
  /\ \E cmd \in uses \cap Handlers : \E req \in Requests(cmd) :
       /\ StartJob(p, IF req.op \in {"SendMail", "Settings", "Ping"} THEN AcceptOther(req)
                                                                    ELSE Accept(req))
       /\ oofs' = [oofs EXCEPT ![p] = IF req.op = "Settings" THEN {oof} ELSE {}]
       /\ \/ req.op = "SendMail"
             /\ tries' = [tries EXCEPT ![req.mail] = @ + 1]
             /\ doubts' = IF \E q \in Procs : jobs[q].req.op = "SendMail" /\ jobs[q].req.mail = req.mail
                  THEN [doubts EXCEPT ![req.mail] = @ + 1] ELSE doubts
          \/ req.op # "SendMail" /\ UNCHANGED <<tries, doubts>>
  /\ UNCHANGED <<server, copies, submitted, outbox, silent, oof>> /\ Follow

\* The answer reaches the device.
Receive(p) ==
  /\ jobs[p] # NoJob /\ At(p, "done")
  /\ LET req == jobs[p].req
         rep == jobs[p].reply
     IN
       /\ outbox' = IF req.op = "SendMail" /\ rep.status = 200 THEN outbox \ {req.mail} ELSE outbox
  /\ StartJob(p, NoJob)
  /\ UNCHANGED <<server, copies, submitted, tries, doubts, silent, oofVars>> /\ Follow

\* The request is dropped at an await, or its answer is lost.
Drop(p) ==
  /\ "drop" \in Faults /\ jobs[p] # NoJob
  /\ doubts' = IF jobs[p].req.op = "SendMail" /\ jobs[p].reply.status = 200
       THEN [doubts EXCEPT ![jobs[p].req.mail] = @ + 1] ELSE doubts
  /\ StartJob(p, NoJob)
  /\ UNCHANGED <<server, copies, submitted, outbox, tries, silent, oofVars>> /\ Follow

-----------------------------------------------------------------------------
(* Other clients of the account (external) *)

Parents == {Top} \cup Live

OthersCreate == \E b \in Parents, n \in Names \cup {NotesName} :
                  CreateResult(b, n) = "created" /\ CreateBox(b, n)

OthersUpdate == \E b \in Live \ Protected, c \in Parents, n \in Names \cup {NotesName} :
                  UpdateResult(b, c, n) = "updated" /\ UpdateBox(b, c, n)

OthersDestroy == \E b \in Live \ Protected : DestroyResult(b) = "destroyed" /\ DestroyBox(b)

OthersMove == \E m \in Msgs, to \in {{}} \cup {{b} : b \in Live} :
                at[m] # {} /\ at' = [at EXCEPT ![m] = to] /\ UNCHANGED <<box, made>>

\* Only what a handler at work can see: SendMail and Settings nothing of it,
\* MoveItems nothing of an update, and FolderSync, FolderCreate and FolderUpdate
\* nothing of an email.
Others ==
  /\ \/ {"FolderSync", "FolderCreate"} \cap uses # {} /\ OthersUpdate
     \/ {"FolderSync", "FolderCreate", "MoveItems"} \cap uses # {} /\ (OthersCreate \/ OthersDestroy)
     \/ {"FolderDelete", "MoveItems"} \cap uses # {} /\ OthersMove
  /\ UNCHANGED <<jobs, sendVars, oofVars>> /\ Follow

-----------------------------------------------------------------------------
(* Specification *)

Init ==
  /\ uses \in Uses
  /\ box = [b \in Boxes |-> IF b \in Protected THEN [parent |-> Top, name |-> "Inbox"] ELSE NoBox]
  /\ made = Protected
  \* A contact, an event, a task or a note is no email.
  /\ at \in [Msgs -> {Protected, {}}]
  /\ jobs = [p \in Procs |-> NoJob]
  /\ churn = [p \in Procs |-> {}] /\ excused = {}
  /\ copies = [m \in Mails |-> 0] /\ submitted = copies /\ tries = copies /\ doubts = copies
  /\ outbox = Mails /\ silent = {}
  /\ oof = "off" /\ oofs = [p \in Procs |-> {}]

\* A call of the folder commands or of MoveItems.
MailboxWorks(p) ==
  \/ ListBoxes(p) \/ FindNotes(p) \/ CreateNotes(p) \/ SetBox(p) \/ MoveNext(p)

MailboxFails(p) ==
  \/ ListFails(p) \/ FindNotesErrs(p) \/ NotesFail(p) \/ CreateNotesUnanswered(p)
  \/ SetBoxFails(p) \/ SetBoxUnanswered(p) \/ MoveFails(p) \/ MoveUnanswered(p)

Mailbox(p) == (MailboxWorks(p) \/ MailboxFails(p)) /\ UNCHANGED <<sendVars, oofVars>>

Next ==
  /\ \/ \E p \in Procs :
          \/ Refused(p) \/ Begin(p) \/ Receive(p) \/ Drop(p)
          \/ Mailbox(p) \/ SendMail(p) \/ Settings(p)
     \/ Others
  /\ UNCHANGED uses

Spec == Init /\ [][Next]_vars

-----------------------------------------------------------------------------
(* Types *)

ServerTypes ==
  /\ box \in [Boxes -> Box \cup {NoBox}] /\ made \subseteq Boxes /\ Live \subseteq made
  /\ at \in [Msgs -> SUBSET Boxes]

JobTypes(j) ==
  /\ DOMAIN j = {"req", "step", "reply", "todo"}
  /\ j.reply.status \in 0..10 \cup {200, 400, 401, 413, 500, 501, 502}
  /\ j.reply.list \subseteq Collection
  /\ j.todo \in Orders
  /\ (j # NoJob /\ j.step = "done") = (j.reply.status # 0)

HistoryTypes == churn \in [Procs -> SUBSET Boxes] /\ excused \subseteq Procs

SendTypes ==
  /\ \A f \in {copies, submitted, tries, doubts} : f \in [Mails -> 0..2 * MaxTries]
  /\ outbox \subseteq Mails /\ silent \subseteq Mails

OofTypes == oof \in {"on", "off"} /\ oofs \in [Procs -> SUBSET {"on", "off", "unread"}]

TypeOK ==
  /\ ServerTypes /\ HistoryTypes /\ SendTypes /\ OofTypes
  /\ \A p \in Procs : JobTypes(jobs[p])

-----------------------------------------------------------------------------
(* Safety *)

\* A FolderSync is answered with collections by this step.
Lists(p) == p \in Listers /\ At(p, "done")' /\ jobs'[p].reply.status = 1

TopNotes == [parent |-> Top, name |-> NotesName]

\* A mailbox as a FolderSync answer shows it, and as it is.
ShownAs(list, b) == {c.kind : c \in {d \in list : d.id = b /\ d.kind \in {"mail", "note"}}}
KindOf(b) == IF box[b] = NoBox THEN {} ELSE IF box[b] = TopNotes THEN {"note"} ELSE {"mail"}

\* A mailbox nobody changed while a FolderSync was handled is in its answer
\* exactly once, as the Notes folder or as a mail folder; one that was not there
\* is not.
ListingTrue ==
  [][\A p \in Procs : Lists(p) => \A b \in Boxes \ churn[p] :
       box'[b] = box[b] => ShownAs(jobs'[p].reply.list, b) = KindOf(b)]_vars

\* A FolderSync answer has a Notes folder, which is the top-level mailbox of this
\* name, unless a call failed, an error hid it, or somebody else created it first.
NotesShown ==
  [][\A p \in Procs \ (excused \cup excused') : Lists(p) =>
       \E b \in Boxes : /\ [kind |-> "note", id |-> b] \in jobs'[p].reply.list
                        /\ box'[b] = TopNotes \/ b \in churn[p]]_vars

\* The status of a folder command tells what became of it, by what the server
\* had at that moment.  Status 6 tells nothing.
FolderStatus ==
  [][\A p \in Procs : At(p, "set") /\ At(p, "done")' =>
       LET req == jobs[p].req
           s   == jobs'[p].reply.status
           b   == IF req.op = "FolderCreate" THEN jobs'[p].reply.id ELSE req.id.id
       IN  /\ s \in 2..5 => box' = box
           /\ s = 1 => IF req.op = "FolderDelete" THEN box'[b] = NoBox
                       ELSE box'[b] = [parent |-> req.parent.id, name |-> req.name]
           /\ s = 2 => b \in Protected \/ NameTaken(req.parent.id, req.name, b)
           /\ s = 4 => b \notin Live
           /\ s = 5 => req.parent.id \notin Live \cup {Top}]_vars

\* This step answers the next email of a MoveItems with Status 3.
Moves(p) ==
  At(p, "move") /\ LET moved == jobs'[p].reply.moved IN
    Len(moved) > Len(jobs[p].reply.moved) /\ moved[Len(moved)] = 3

\* A move answered with Status 3 put the email into the destination, unless the
\* server refused it: the email, or the destination, is gone or of another class.
MovedIsThere ==
  [][\A p \in Procs : Moves(p) =>
       LET m == Head(jobs[p].todo) IN
       Movable(m, jobs[p].req.dst) => jobs[p].req.dst.id \in at'[m]]_vars

\* A message the device stops sending was submitted, unless the answer to the
\* submission did not say so.
SentIsSubmitted == \A m \in Mails \ (outbox \cup silent) : submitted[m] > 0

\* A message is submitted once, and once more for every time the device could
\* not know: an answer was lost, or it did not wait for one.
SentOnce == \A m \in Mails : submitted[m] <= 1 + doubts[m]

\* A Settings answer tells a state that the account had since the Set of the
\* same request, unless it could not be read.
OofTold ==
  \A p \in Procs : jobs[p].reply.oof # "none" =>
    jobs[p].reply.oof \in oofs[p] \/ "unread" \in oofs[p]

-----------------------------------------------------------------------------
(* Inductive invariant *)

SendSteps == {"identity", "upload", "role", "import", "submit"}

\* What the request in a slot is, by the call it is about to make.
JobInv(j) ==
  /\ JobTypes(j)
  /\ DOMAIN j.reply = {"status", "list", "id", "moved", "oof"} /\ j.reply.moved \in Seq({3, 4, 5})
  /\ j.step # "done" => j.reply.oof = "none"
  /\ j.step = "set" =>
       /\ j.req.op \in {"FolderCreate", "FolderUpdate", "FolderDelete"}
       /\ j.req.op # "FolderDelete" => j.req.name \in Names \cup {NotesName}
  /\ j.step = "move" => j.req.op = "MoveItems" /\ j.todo # <<>>
  /\ j.step \in SendSteps => j.req.op = "SendMail"
  /\ j.req.op = "SendMail" => j.req.mail \in Mails
  /\ j.step = "setOof" => j.req.oof \in {"on", "off"}
  /\ j.step \in {"setOof", "getOof"} => j.req.op = "Settings"

JobsInv == DOMAIN jobs = Procs /\ \A p \in Procs : JobInv(jobs[p])

\* A FolderSync that looks for the Notes folder has listed, without one, what the
\* mailboxes are that nobody changed since, and is excused from finding one when
\* it is about to create it and one is there.
ListInv ==
  \A p \in Procs :
    /\ jobs[p].step \in {"findNotes", "createNotes"} =>
         /\ \A c \in jobs[p].reply.list : c.kind # "note"
         /\ \A b \in Boxes \ churn[p] : ShownAs(jobs[p].reply.list, b) = KindOf(b)
    /\ At(p, "createNotes") /\ NotesBoxes # {} => p \in excused

\* Slots that have yet to submit the message, or to import it; that are to tell
\* the device that it is sent; and that do one or the other.
Submits(j, m) == j.step \in SendSteps /\ j.req.mail = m
Imports(j, m) == Submits(j, m) /\ j.step # "submit"
Tells(j, m)   == j.req.op = "SendMail" /\ j.req.mail = m /\ j.reply.status = 200

Submitting(m) == {p \in Procs : Submits(jobs[p], m)}
Importing(m)  == {p \in Procs : Imports(jobs[p], m)}
InHand(m)     == {p \in Procs : Submits(jobs[p], m) \/ Tells(jobs[p], m)}

\* A slot that may yet submit a message counts as one that has: the one
\* submission the device need not doubt is the one it was told of or may yet be.
MailInv(m) ==
  LET sent == submitted[m] + Cardinality(Submitting(m)) IN
  /\ tries[m] <= MaxTries /\ sent <= tries[m]
  /\ copies[m] + Cardinality(Importing(m)) <= tries[m]
  /\ doubts[m] + Cardinality(InHand(m)) <= 2 * tries[m]
  /\ sent <= doubts[m] + IF m \in outbox /\ InHand(m) = {} THEN 0 ELSE 1
  /\ m \notin outbox \/ (\E p \in Procs : Tells(jobs[p], m)) => submitted[m] > 0 \/ m \in silent

SendInv == SendTypes /\ \A m \in Mails : MailInv(m)

\* The state a Settings request is about to read is one it may tell.
OofInv ==
  /\ OofTypes /\ OofTold
  /\ \A p \in Procs : jobs[p].step \in {"setOof", "getOof"} => oof \in oofs[p]

GatewayInv == ServerTypes /\ HistoryTypes /\ JobsInv /\ ListInv /\ SendInv /\ OofInv
=============================================================================
