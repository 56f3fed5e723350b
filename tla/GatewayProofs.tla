---------------------------- MODULE GatewayProofs ----------------------------
(***************************************************************************)
(* Proofs about Gateway.  GatewayInv is inductive: every step changes one  *)
(* slot, the server or both, and a lemma for every action says how.  The   *)
(* steps of the folder commands, of MoveItems and of Settings leave what   *)
(* is counted of the messages alone, those of SendMail the mailboxes; the  *)
(* lemmas PlainStep and EndMail are where this is used.  The properties of *)
(* the answers follow from the invariant and the one step that answers.    *)
(***************************************************************************)
EXTENDS Gateway, FiniteSetTheorems, SequenceTheorems, TLAPS

-----------------------------------------------------------------------------
(* Requests, jobs and orders *)

LEMMA AnsweredIs ==
  ASSUME NEW req, NEW rep, NEW j, j = Answered(req, rep)
  PROVE  /\ DOMAIN j = {"req", "step", "reply", "todo"}
         /\ j.step = "done" /\ j.reply = rep /\ j.todo = <<>>
         /\ j.req.op = req.op /\ (req.op = "SendMail" => j.req.mail = req.mail)
BY DEF Answered, NoJob

LEMMA ReplyIs ==
  /\ \A s : /\ DOMAIN Status(s) = {"status", "list", "id", "moved", "oof"}
            /\ Status(s).status = s /\ Status(s).list = {} /\ Status(s).id = Top
            /\ Status(s).moved = <<>> /\ Status(s).oof = "none"
            /\ Status(s).moved \in Seq({3, 4, 5})
  /\ DOMAIN Blank = {"status", "list", "id", "moved", "oof"}
  /\ Blank.status = 0 /\ Blank.list = {} /\ Blank.moved = <<>> /\ Blank.oof = "none"
  /\ Blank.moved \in Seq({3, 4, 5})
<1>1. <<>> \in Seq({3, 4, 5})
  BY EmptySeq
<1> QED
  BY <1>1 DEF Status, Blank

LEMMA NoJobIs ==
  /\ DOMAIN NoJob = {"req", "step", "reply", "todo"}
  /\ NoJob.step = "done" /\ NoJob.reply = Blank /\ NoJob.todo = <<>> /\ NoJob.req.op = "none"
BY DEF NoJob, NoRequest

LEMMA EmptyOrder == <<>> \in Orders
<1>1. <<>> \in [1..0 -> Msgs]
  OBVIOUS
<1> QED
  BY <1>1, MaxMovesAssumption DEF Orders

\* The next email, and what is left of an order.
LEMMA OrderIs ==
  ASSUME NEW o \in Orders, o # <<>>
  PROVE  Head(o) \in Msgs /\ (Len(o) # 1 => Tail(o) \in Orders /\ Tail(o) # <<>>)
<1>1. PICK n \in 0..MaxMoves : o \in [1..n -> Msgs]
  BY DEF Orders
<1>2. n \in Nat /\ o \in Seq(Msgs) /\ Len(o) = n
  BY <1>1, MaxMovesAssumption
<1>3. n # 0
  BY <1>2, EmptySeq
<1>4. Head(o) \in Msgs
  BY <1>2, HeadTailProperties
<1>5. ASSUME n # 1 PROVE Tail(o) \in Orders /\ Tail(o) # <<>>
  <2>1. Tail(o) \in Seq(Msgs) /\ Len(Tail(o)) = n - 1
    BY <1>2, HeadTailProperties
  <2>2. Tail(o) \in [1..n - 1 -> Msgs]
    BY <2>1, LenProperties, Zenon
  <2>3. n - 1 \in 0..MaxMoves /\ n - 1 # 0
    BY <1>2, <1>3, <1>5, MaxMovesAssumption
  <2>4. Tail(o) # <<>>
    BY <2>1, <2>3, EmptySeq, Zenon
  <2> QED
    BY <2>2, <2>3, <2>4 DEF Orders
<1> QED
  BY <1>2, <1>4, <1>5

Replies == 0..10 \cup {200, 400, 401, 413, 500, 501, 502}

LEMMA NoJobInv == JobInv(NoJob)
<1>1. JobTypes(NoJob)
  BY NoJobIs, ReplyIs, EmptyOrder DEF JobTypes
<1> QED
  BY <1>1, NoJobIs, ReplyIs DEF JobInv, SendSteps

LEMMA AnsweredInv ==
  ASSUME NEW req, NEW rep, req.op = "SendMail" => req.mail \in Mails,
         DOMAIN rep = {"status", "list", "id", "moved", "oof"},
         rep.status \in Replies \ {0}, rep.list \subseteq Collection, rep.moved \in Seq({3, 4, 5})
  PROVE  JobInv(Answered(req, rep)) /\ Answered(req, rep) # NoJob
<1> DEFINE j == Answered(req, rep)
<1>1. /\ DOMAIN j = {"req", "step", "reply", "todo"}
      /\ j.step = "done" /\ j.reply = rep /\ j.todo = <<>>
      /\ j.req.op = req.op /\ (req.op = "SendMail" => j.req.mail = req.mail)
  BY AnsweredIs
<1> HIDE DEF j
<1>2. j # NoJob
  BY <1>1, NoJobIs, ReplyIs
<1>3. JobTypes(j)
  BY <1>1, <1>2, EmptyOrder DEF JobTypes, Replies
<1>4. JobInv(j)
  BY <1>1, <1>3 DEF JobInv, SendSteps
<1> QED
  BY <1>2, <1>4 DEF j

LEMMA StatusInv ==
  ASSUME NEW req, req.op = "SendMail" => req.mail \in Mails, NEW s \in Replies \ {0}
  PROVE  JobInv(Answered(req, Status(s))) /\ Answered(req, Status(s)) # NoJob
<1> DEFINE rep == Status(s)
<1>1. /\ DOMAIN rep = {"status", "list", "id", "moved", "oof"}
      /\ rep.status \in Replies \ {0} /\ rep.list \subseteq Collection /\ rep.moved \in Seq({3, 4, 5})
  BY ReplyIs
<1> HIDE DEF rep
<1>2. JobInv(Answered(req, rep)) /\ Answered(req, rep) # NoJob
  BY <1>1, AnsweredInv
<1> QED
  BY <1>2 DEF rep

\* One slot changes.
LEMMA SlotStep ==
  ASSUME JobsInv, NEW p \in Procs, NEW j, StartJob(p, j), JobInv(j)
  PROVE  JobsInv' /\ jobs'[p] = j /\ \A q \in Procs \ {p} : jobs'[q] = jobs[q]
<1>1. DOMAIN jobs' = Procs /\ jobs'[p] = j /\ \A q \in Procs \ {p} : jobs'[q] = jobs[q]
  BY DEF StartJob, JobsInv
<1>2. \A q \in Procs : JobInv(jobs'[q])
  BY <1>1 DEF JobsInv
<1>3. \A q \in Procs : JobInv(jobs[q])'
  BY <1>2 DEF JobInv, JobTypes
<1> QED
  BY <1>1, <1>3 DEF JobsInv

-----------------------------------------------------------------------------
(* The mail server *)

\* An id that is to be given was not given.
LEMMA NextBoxIs ==
  ASSUME made # Boxes, made \subseteq Boxes
  PROVE  NextBox \in Boxes \ made
<1> DEFINE F == Boxes \ made
           Below(m) == {o \in F : o < m}
           T == {Below(m) : m \in F}
<1>1. F # {} /\ F \in SUBSET Nat /\ IsFiniteSet(F)
  BY BoxesAssumption, FS_Difference
<1>2. T \subseteq FiniteSubsetsOf(F) /\ T # {}
  <2>1. \A m \in F : Below(m) \in SUBSET F /\ IsFiniteSet(Below(m))
    BY <1>1, FS_Subset
  <2> QED
    BY <1>1, <2>1 DEF FiniteSubsetsOf
<1>3. PICK x \in T : \A y \in T : ~(<<y, x>> \in StrictSubsetOrdering(F))
  <2> HIDE DEF T
  <2> QED
    BY <1>1, <1>2, FS_StrictSubsetOrderingWellFounded, WFMin
<1>4. PICK m \in F : x = Below(m)
  BY <1>3
<1>5. \A o \in F : m <= o
  <2> SUFFICES ASSUME NEW o \in F, ~(m <= o) PROVE FALSE
    OBVIOUS
  <2>1. m \in Nat /\ o \in Nat /\ o < m /\ \A q \in F : q \in Nat
    BY BoxesAssumption
  <2>2. ASSUME NEW q \in Below(o) PROVE q \in Below(m)
    BY <2>1
  <2>3. o \in Below(m) /\ o \notin Below(o)
    BY <2>1
  <2>4. <<Below(o), Below(m)>> \in StrictSubsetOrdering(F)
    BY <2>2, <2>3 DEF StrictSubsetOrdering
  <2> QED
    BY <1>3, <1>4, <2>4
<1> QED
  BY <1>5 DEF NextBox

LEMMA CreateBoxStep ==
  ASSUME ServerTypes, NEW parent, NEW name \in Names \cup {NotesName}, CreateBox(parent, name)
  PROVE  /\ ServerTypes'
         /\ CreateResult(parent, name) # "created" => UNCHANGED server
         /\ CreateResult(parent, name) = "created" =>
              /\ NextBox \in Boxes \ made /\ box[NextBox] = NoBox
              /\ box' = [box EXCEPT ![NextBox] = [parent |-> parent, name |-> name]]
              /\ made' = made \cup {NextBox}
<1>1. CASE CreateResult(parent, name) # "created"
  BY <1>1 DEF CreateBox, ServerTypes, server, Live
<1>2. CASE CreateResult(parent, name) = "created"
  <2>1. made # Boxes /\ parent \in Live \cup {Top}
    BY <1>2 DEF CreateResult
  <2>2. NextBox \in Boxes \ made /\ NextBox \notin Live /\ box[NextBox] = NoBox
    BY <2>1, NextBoxIs DEF ServerTypes, Live
  <2>3. [parent |-> parent, name |-> name] \in Box
    BY <2>1 DEF Box, Live
  <2> QED
    BY <1>2, <2>2, <2>3 DEF CreateBox, ServerTypes, Live
<1> QED
  BY <1>1, <1>2

LEMMA UpdateBoxStep ==
  ASSUME ServerTypes, NEW b, NEW parent, NEW name \in Names \cup {NotesName},
         UpdateBox(b, parent, name)
  PROVE  /\ ServerTypes'
         /\ UpdateResult(b, parent, name) # "updated" => UNCHANGED server
         /\ UpdateResult(b, parent, name) = "updated" =>
              /\ b \in Live /\ box' = [box EXCEPT ![b] = [parent |-> parent, name |-> name]]
<1>1. CASE UpdateResult(b, parent, name) # "updated"
  BY <1>1 DEF UpdateBox, ServerTypes, server, Live
<1>2. CASE UpdateResult(b, parent, name) = "updated"
  <2>1. b \in Live /\ parent \in Live \cup {Top}
    BY <1>2 DEF UpdateResult
  <2>2. [parent |-> parent, name |-> name] \in Box
    BY <2>1 DEF Box, Live
  <2> QED
    BY <1>2, <2>1, <2>2 DEF UpdateBox, ServerTypes, Live
<1> QED
  BY <1>1, <1>2

LEMMA DestroyBoxStep ==
  ASSUME ServerTypes, NEW b, DestroyBox(b)
  PROVE  /\ ServerTypes'
         /\ DestroyResult(b) # "destroyed" => UNCHANGED server
         /\ DestroyResult(b) = "destroyed" => b \in Live /\ box' = [box EXCEPT ![b] = NoBox]
<1>1. CASE DestroyResult(b) # "destroyed"
  BY <1>1 DEF DestroyBox, ServerTypes, server, Live
<1>2. CASE DestroyResult(b) = "destroyed"
  <2>1. b \in Live
    BY <1>2 DEF DestroyResult
  <2> QED
    BY <1>2, <2>1 DEF DestroyBox, ServerTypes, Live
<1> QED
  BY <1>1, <1>2

LEMMA MoveEmailStep ==
  ASSUME ServerTypes, NEW m \in Msgs, NEW src, NEW dst, MoveEmail(m, src, dst)
  PROVE  /\ ServerTypes' /\ UNCHANGED <<box, made>>
         /\ Movable(m, dst) => dst.id \in at'[m]
<1>1. CASE ~Movable(m, dst)
  BY <1>1 DEF MoveEmail, ServerTypes, Live
<1>2. CASE Movable(m, dst)
  <2>1. Patched(m, src, dst) \in SUBSET Boxes /\ dst.id \in Patched(m, src, dst)
    BY <1>2 DEF Movable, Patched, Without, ServerTypes, Live
  <2> HIDE DEF Patched
  <2> QED
    BY <1>2, <2>1 DEF MoveEmail, ServerTypes, Live
<1> QED
  BY <1>1, <1>2

-----------------------------------------------------------------------------
(* The history of the FolderSyncs *)

LEMMA FollowTypes ==
  ASSUME HistoryTypes, NEW S \in SUBSET Procs, FollowWith(S)
  PROVE  HistoryTypes'
<1>1. \A p \in Procs : (IF p \in Listers /\ p \in Listers' THEN Touched(p) ELSE {}) \in SUBSET Boxes
  BY DEF HistoryTypes, Touched
<1>2. churn' \in [Procs -> SUBSET Boxes]
  BY <1>1 DEF FollowWith
<1>3. excused' \subseteq Procs
  BY DEF HistoryTypes, FollowWith, Raced
<1> QED
  BY <1>2, <1>3 DEF HistoryTypes

\* What is known of a mailbox that a FolderSync has seen nobody change.
LEMMA UnchurnedIs ==
  ASSUME NEW S, FollowWith(S), NEW p \in Procs, p \in Listers, p \in Listers',
         NEW b \in Boxes \ churn'[p]
  PROVE  b \notin churn[p] /\ box'[b] = box[b]
BY DEF FollowWith, Touched

LEMMA ListKept ==
  ASSUME ListInv, NEW S \in SUBSET Procs, FollowWith(S),
         \A p \in Procs : jobs'[p].step \in {"findNotes", "createNotes"} => jobs'[p] = jobs[p]
  PROVE  ListInv'
<1> SUFFICES ASSUME NEW p \in Procs, jobs'[p].step \in {"findNotes", "createNotes"}
             PROVE  /\ \A c \in jobs'[p].reply.list : c.kind # "note"
                    /\ \A b \in Boxes \ churn'[p] : ShownAs(jobs'[p].reply.list, b) = KindOf(b)'
                    /\ At(p, "createNotes")' /\ NotesBoxes' # {} => p \in excused'
  BY DEF ListInv, At, ShownAs
<1>1. jobs'[p] = jobs[p] /\ p \in Listers /\ p \in Listers'
  BY DEF Listers
<1>2. \A c \in jobs'[p].reply.list : c.kind # "note"
  BY <1>1 DEF ListInv
<1>3. ASSUME NEW b \in Boxes \ churn'[p] PROVE ShownAs(jobs'[p].reply.list, b) = KindOf(b)'
  <2>1. b \notin churn[p] /\ box'[b] = box[b]
    BY <1>1, UnchurnedIs
  <2>2. KindOf(b)' = KindOf(b)
    BY <2>1 DEF KindOf
  <2> QED
    BY <1>1, <2>1, <2>2 DEF ListInv
<1>4. ASSUME At(p, "createNotes")', NotesBoxes' # {} PROVE p \in excused'
  <2>1. At(p, "createNotes")
    BY <1>1, <1>4 DEF At
  <2>2. p \in excused \/ p \in Raced
    BY <1>4, <2>1 DEF ListInv, Raced
  <2> QED
    BY <1>1, <2>2 DEF FollowWith
<1> QED
  BY <1>2, <1>3, <1>4

-----------------------------------------------------------------------------
(* The messages *)

\* A set of slots that gains or loses at most one.
Counts(S, T, was, is) ==
  /\ Cardinality(S) \in Nat /\ Cardinality(T) \in Nat
  /\ was /\ ~is => Cardinality(T) = Cardinality(S) - 1
  /\ ~was /\ is => Cardinality(T) = Cardinality(S) + 1
  /\ (was <=> is) => T = S
  /\ (S = {} <=> Cardinality(S) = 0) /\ (T = {} <=> Cardinality(T) = 0)

LEMMA CountStep ==
  ASSUME NEW S \in SUBSET Procs, NEW T \in SUBSET Procs, NEW p, S \ {p} = T \ {p}
  PROVE  Counts(S, T, p \in S, p \in T)
<1>1. IsFiniteSet(S) /\ IsFiniteSet(T)
  BY ProcsAssumption, FS_Subset
<1>2. /\ p \in S => Cardinality(S \ {p}) = Cardinality(S) - 1
      /\ p \in T => Cardinality(T \ {p}) = Cardinality(T) - 1
      /\ p \notin S => S \ {p} = S
      /\ p \notin T => T \ {p} = T
  BY <1>1, FS_RemoveElement
<1>3. Cardinality(S) \in Nat /\ Cardinality(T) \in Nat
  BY <1>1, FS_CardinalityType
<1>4. (S = {} <=> Cardinality(S) = 0) /\ (T = {} <=> Cardinality(T) = 0)
  BY <1>1, FS_EmptySet
<1>5. p \in S /\ p \notin T => Cardinality(T) = Cardinality(S) - 1
  BY <1>2
<1>6. p \notin S /\ p \in T => Cardinality(T) = Cardinality(S) + 1
  BY <1>2, <1>3
<1>7. (p \in S <=> p \in T) => T = S
  OBVIOUS
<1> QED
  BY <1>3, <1>4, <1>5, <1>6, <1>7 DEF Counts

\* Slot p changes, and no other.
Only(p) == DOMAIN jobs' = Procs /\ \A q \in Procs \ {p} : jobs'[q] = jobs[q]

LEMMA HandsStep ==
  ASSUME NEW p \in Procs, Only(p), NEW m
  PROVE  /\ Counts(Submitting(m), Submitting(m)', Submits(jobs[p], m), Submits(jobs'[p], m))
         /\ Counts(Importing(m), Importing(m)', Imports(jobs[p], m), Imports(jobs'[p], m))
         /\ Counts(InHand(m), InHand(m)', Submits(jobs[p], m) \/ Tells(jobs[p], m),
                   Submits(jobs'[p], m) \/ Tells(jobs'[p], m))
<1>1. \A S, T \in SUBSET Procs : S \ {p} = T \ {p} => Counts(S, T, p \in S, p \in T)
  BY CountStep
<1>2. Counts(Submitting(m), Submitting(m)', Submits(jobs[p], m), Submits(jobs'[p], m))
  <2>1. /\ Submitting(m) \in SUBSET Procs /\ Submitting(m)' \in SUBSET Procs
        /\ Submitting(m) \ {p} = Submitting(m)' \ {p}
        /\ p \in Submitting(m) <=> Submits(jobs[p], m)
        /\ p \in Submitting(m)' <=> Submits(jobs'[p], m)
    BY DEF Only, Submitting, Submits
  <2>2. Counts(Submitting(m), Submitting(m)', p \in Submitting(m), p \in Submitting(m)')
    BY <1>1, <2>1
  <2> QED
    BY <2>1, <2>2 DEF Counts
<1>3. Counts(Importing(m), Importing(m)', Imports(jobs[p], m), Imports(jobs'[p], m))
  <2>1. /\ Importing(m) \in SUBSET Procs /\ Importing(m)' \in SUBSET Procs
        /\ Importing(m) \ {p} = Importing(m)' \ {p}
        /\ p \in Importing(m) <=> Imports(jobs[p], m)
        /\ p \in Importing(m)' <=> Imports(jobs'[p], m)
    BY DEF Only, Importing, Imports, Submits
  <2>2. Counts(Importing(m), Importing(m)', p \in Importing(m), p \in Importing(m)')
    BY <1>1, <2>1
  <2> QED
    BY <2>1, <2>2 DEF Counts
<1>4. Counts(InHand(m), InHand(m)', Submits(jobs[p], m) \/ Tells(jobs[p], m),
             Submits(jobs'[p], m) \/ Tells(jobs'[p], m))
  <2>1. /\ InHand(m) \in SUBSET Procs /\ InHand(m)' \in SUBSET Procs
        /\ InHand(m) \ {p} = InHand(m)' \ {p}
        /\ p \in InHand(m) <=> Submits(jobs[p], m) \/ Tells(jobs[p], m)
        /\ p \in InHand(m)' <=> Submits(jobs'[p], m) \/ Tells(jobs'[p], m)
    BY DEF Only, InHand, Submits, Tells
  <2>2. Counts(InHand(m), InHand(m)', p \in InHand(m), p \in InHand(m)')
    BY <1>1, <2>1
  <2> QED
    BY <2>1, <2>2 DEF Counts
<1> QED
  BY <1>2, <1>3, <1>4

\* Another message, or a step that does nothing to it.
LEMMA MailKept ==
  ASSUME SendInv, NEW p \in Procs, Only(p), NEW m \in Mails,
         tries'[m] = tries[m], copies'[m] = copies[m], submitted'[m] = submitted[m],
         doubts'[m] = doubts[m], m \in outbox' <=> m \in outbox, m \in silent => m \in silent',
         Submits(jobs'[p], m) <=> Submits(jobs[p], m), Imports(jobs'[p], m) <=> Imports(jobs[p], m),
         Tells(jobs'[p], m) <=> Tells(jobs[p], m)
  PROVE  MailInv(m)'
<1>1. /\ Submitting(m)' = Submitting(m) /\ Importing(m)' = Importing(m) /\ InHand(m)' = InHand(m)
      /\ (\E q \in Procs : Tells(jobs[q], m))' => \E q \in Procs : Tells(jobs[q], m)
  BY DEF Only, Submitting, Importing, InHand, Submits, Imports, Tells
<1> QED
  BY <1>1 DEF SendInv, MailInv

\* The bounds of the counters follow.
LEMMA SendTyped ==
  ASSUME \A m \in Mails : MailInv(m)',
         copies' \in [Mails -> Nat], submitted' \in [Mails -> Nat], tries' \in [Mails -> Nat],
         doubts' \in [Mails -> Nat], outbox' \subseteq Mails, silent' \subseteq Mails
  PROVE  SendInv'
<1>1. \A S \in SUBSET Procs : Cardinality(S) \in Nat
  BY ProcsAssumption, FS_Subset, FS_CardinalityType
<1>2. ASSUME NEW m \in Mails
      PROVE  /\ tries'[m] \in 0..2 * MaxTries /\ copies'[m] \in 0..2 * MaxTries
             /\ submitted'[m] \in 0..2 * MaxTries /\ doubts'[m] \in 0..2 * MaxTries
  <2>1. /\ Cardinality(Submitting(m))' \in Nat /\ Cardinality(Importing(m))' \in Nat
        /\ Cardinality(InHand(m))' \in Nat
    BY <1>1 DEF Submitting, Importing, InHand
  <2>2. MaxTries \in Nat /\ tries'[m] \in Nat
    BY MailsAssumption
  <2> QED
    BY <2>1, <2>2 DEF MailInv
<1> QED
  BY <1>2 DEF SendInv, SendTypes

LEMMA SendKept ==
  ASSUME SendInv, NEW p \in Procs, Only(p), UNCHANGED sendVars,
         \A m \in Mails : /\ Submits(jobs'[p], m) <=> Submits(jobs[p], m)
                          /\ Imports(jobs'[p], m) <=> Imports(jobs[p], m)
                          /\ Tells(jobs'[p], m) <=> Tells(jobs[p], m)
  PROVE  SendInv'
<1>1. \A m \in Mails : MailInv(m)'
  BY MailKept DEF sendVars
<1> QED
  BY <1>1 DEF SendInv, SendTypes, sendVars

-----------------------------------------------------------------------------
(* Steps of the folder commands and of MoveItems *)

\* A request that is not answered yet.
LEMMA BusyIs ==
  ASSUME NEW j, JobInv(j), j.step # "done"
  PROVE  j.reply.status = 0 /\ j.reply.oof = "none" /\ j # NoJob
BY NoJobIs DEF JobInv, JobTypes

\* A job that says nothing of messages, of the out-of-office state or of the Notes
\* folder.
Plain(j) ==
  /\ j.step \notin SendSteps \cup {"setOof", "getOof", "findNotes", "createNotes"}
  /\ j.reply.oof = "none" /\ (j.reply.status = 200 => j.req.op # "SendMail")

LEMMA OofKept ==
  ASSUME OofInv, NEW p \in Procs, Only(p), UNCHANGED oofVars,
         jobs'[p].step \notin {"setOof", "getOof"}, jobs'[p].reply.oof = "none"
  PROVE  OofInv'
<1>1. \A q \in Procs : jobs'[q].reply.oof # "none" => jobs'[q].reply.oof \in oofs'[q] \/ "unread" \in oofs'[q]
  BY DEF OofInv, OofTold, Only, oofVars
<1>2. \A q \in Procs : jobs'[q].step \in {"setOof", "getOof"} => oof' \in oofs'[q]
  BY DEF OofInv, Only, oofVars
<1> QED
  BY <1>1, <1>2 DEF OofInv, OofTold, OofTypes, oofVars

LEMMA ListKeptBy ==
  ASSUME ListInv, NEW S \in SUBSET Procs, FollowWith(S), NEW p \in Procs, Only(p),
         jobs'[p].step \notin {"findNotes", "createNotes"}
  PROVE  ListInv'
<1>1. \A q \in Procs : jobs'[q].step \in {"findNotes", "createNotes"} => jobs'[q] = jobs[q]
  BY DEF Only
<1> QED
  BY <1>1, ListKept

LEMMA PlainStep ==
  ASSUME GatewayInv, NEW p \in Procs, NEW j, StartJob(p, j), JobInv(j),
         jobs[p].step \notin SendSteps, jobs[p].reply.status = 200 => jobs[p].req.op # "SendMail",
         Plain(j),
         ServerTypes', NEW S \in SUBSET Procs, FollowWith(S), UNCHANGED <<sendVars, oofVars>>
  PROVE  GatewayInv'
<1>1. JobsInv' /\ jobs'[p] = j /\ Only(p)
  BY SlotStep DEF GatewayInv, Only, JobsInv, StartJob
<1>2. HistoryTypes'
  BY FollowTypes DEF GatewayInv
<1>3. ListInv'
  BY <1>1, ListKeptBy DEF GatewayInv, Plain
<1>4. SendInv'
  <2>1. \A m \in Mails : /\ ~Submits(jobs[p], m) /\ ~Imports(jobs[p], m) /\ ~Tells(jobs[p], m)
                         /\ ~Submits(j, m) /\ ~Imports(j, m) /\ ~Tells(j, m)
    BY DEF Submits, Imports, Tells, Plain
  <2> QED
    BY <1>1, <2>1, SendKept DEF GatewayInv
<1>5. OofInv'
  BY <1>1, OofKept DEF GatewayInv, Plain
<1> QED
  BY <1>1, <1>2, <1>3, <1>4, <1>5 DEF GatewayInv

\* The same when the request is answered, with a status other than 200.
LEMMA AnswerStep ==
  ASSUME GatewayInv, NEW p \in Procs, jobs[p].step # "done", jobs[p].step \notin SendSteps,
         NEW rep, Answer(p, rep),
         DOMAIN rep = {"status", "list", "id", "moved", "oof"},
         rep.status \in Replies \ {0, 200}, rep.list \subseteq Collection,
         rep.moved \in Seq({3, 4, 5}), rep.oof = "none",
         ServerTypes', NEW S \in SUBSET Procs, FollowWith(S), UNCHANGED <<sendVars, oofVars>>
  PROVE  GatewayInv'
<1> DEFINE j == Answered(jobs[p].req, rep)
<1>1. JobInv(jobs[p])
  BY DEF GatewayInv, JobsInv
<1>2. jobs[p].req.op = "SendMail" => jobs[p].req.mail \in Mails
  BY <1>1 DEF JobInv
<1>3. JobInv(j)
  BY <1>2, AnsweredInv
<1>4. j.step = "done" /\ j.reply = rep
  BY AnsweredIs
<1>5. StartJob(p, j)
  BY DEF Answer
<1> HIDE DEF j
<1>6. Plain(j)
  BY <1>4 DEF Plain, SendSteps
<1>7. jobs[p].reply.status # 200
  BY <1>1, BusyIs
<1> QED
  BY <1>3, <1>5, <1>6, <1>7, PlainStep

LEMMA NoOne == {} \in SUBSET Procs
OBVIOUS

LEMMA ListingIs ==
  ASSUME ServerTypes
  PROVE  /\ Listing \subseteq Collection
         /\ \A b \in Boxes : ShownAs(Listing, b) = KindOf(b)
         /\ NotesBoxes \subseteq Boxes
         /\ \A b \in Boxes : b \in NotesBoxes <=> box[b] = TopNotes
<1>1. Listing \subseteq Collection /\ NotesBoxes \subseteq Boxes
  BY DEF Listing, Collection, Live, Kinds, NotesBoxes
<1>2. \A b \in Boxes : b \in NotesBoxes <=> box[b] = TopNotes
  BY DEF ServerTypes, NotesBoxes, is_notes, Live, TopNotes, NoBox, Box, NotesName, Top
<1>3. ASSUME NEW b \in Boxes PROVE ShownAs(Listing, b) = KindOf(b)
  <2>1. CASE box[b] = NoBox
    <3>1. \A d \in Listing : ~(d.id = b /\ d.kind \in {"mail", "note"})
      BY <2>1 DEF Listing, Live
    <3> QED
      BY <2>1, <3>1 DEF ShownAs, KindOf
  <2>2. CASE box[b] # NoBox
    <3> DEFINE k == IF is_notes(b) THEN "note" ELSE "mail"
               c == [kind |-> k, id |-> b]
    <3>1. c \in Listing /\ c.kind = k /\ c.id = b /\ k \in {"mail", "note"}
      BY <2>2 DEF Listing, Live
    <3>2. \A d \in Listing : d.id = b /\ d.kind \in {"mail", "note"} => d.kind = k
      BY DEF Listing
    <3>3. ShownAs(Listing, b) = {k}
      <4> HIDE DEF c, k
      <4> QED
        BY <3>1, <3>2 DEF ShownAs
    <3>4. is_notes(b) <=> box[b] = TopNotes
      BY <1>2, <2>2 DEF NotesBoxes, Live
    <3> QED
      BY <2>2, <3>3, <3>4 DEF KindOf
  <2> QED
    BY <2>1, <2>2
<1> QED
  BY <1>1, <1>2, <1>3

\* A FolderSync goes on to look for the Notes folder.
LEMMA FindStep ==
  ASSUME GatewayInv, NEW p \in Procs, jobs[p].step \in {"list", "findNotes"},
         NEW j, StartJob(p, j), JobInv(j), j.step \in {"findNotes", "createNotes"},
         \A c \in j.reply.list : c.kind # "note",
         \A b \in Boxes \ churn'[p] : ShownAs(j.reply.list, b) = KindOf(b),
         NEW S \in SUBSET Procs, j.step = "createNotes" => NotesBoxes = {} \/ p \in S,
         UNCHANGED server, FollowWith(S), UNCHANGED <<sendVars, oofVars>>
  PROVE  GatewayInv'
<1>1. ServerTypes' /\ HistoryTypes'
  BY FollowTypes DEF GatewayInv, server, ServerTypes, Live
<1>2. JobsInv' /\ jobs'[p] = j /\ Only(p)
  BY SlotStep DEF GatewayInv, Only, JobsInv, StartJob
<1>3. /\ jobs[p].reply.status = 0 /\ j.reply.status = 0 /\ j.reply.oof = "none"
  BY BusyIs DEF GatewayInv, JobsInv
<1>4. SendInv'
  <2>1. \A m \in Mails : /\ ~Submits(jobs[p], m) /\ ~Imports(jobs[p], m) /\ ~Tells(jobs[p], m)
                         /\ ~Submits(j, m) /\ ~Imports(j, m) /\ ~Tells(j, m)
    BY <1>3 DEF Submits, Imports, Tells, SendSteps
  <2> QED
    BY <1>2, <2>1, SendKept DEF GatewayInv
<1>5. OofInv'
  BY <1>2, <1>3, OofKept DEF GatewayInv
<1>6. \A b \in Boxes : KindOf(b)' = KindOf(b)
  BY DEF KindOf, server
<1>7. NotesBoxes' = NotesBoxes
  BY DEF NotesBoxes, Live, is_notes, server
<1>8. ASSUME NEW q \in Procs, jobs'[q].step \in {"findNotes", "createNotes"}
      PROVE  /\ \A c \in jobs'[q].reply.list : c.kind # "note"
             /\ \A b \in Boxes \ churn'[q] : ShownAs(jobs'[q].reply.list, b) = KindOf(b)'
             /\ At(q, "createNotes")' /\ NotesBoxes' # {} => q \in excused'
  <2>1. CASE q = p
    <3>1. p \in S => p \in excused'
      BY DEF FollowWith
    <3> QED
      BY <1>2, <1>6, <1>7, <2>1, <3>1 DEF At
  <2>2. CASE q # p
    <3>1. jobs'[q] = jobs[q] /\ q \in Listers /\ q \in Listers'
      BY <1>2, <1>8, <2>2 DEF Only, Listers
    <3>2. \A b \in Boxes \ churn'[q] : b \notin churn[q]
      BY <3>1, UnchurnedIs
    <3>3. q \in excused => q \in excused'
      BY <3>1 DEF FollowWith
    <3> QED
      BY <1>6, <1>7, <1>8, <3>1, <3>2, <3>3 DEF GatewayInv, ListInv, At
  <2> QED
    BY <2>1, <2>2
<1>9. ListInv'
  BY <1>8 DEF ListInv, At, ShownAs
<1> QED
  BY <1>1, <1>2, <1>4, <1>5, <1>9 DEF GatewayInv

\* An answer of which the device reads only the status.
LEMMA AnswerStatus ==
  ASSUME GatewayInv, NEW p \in Procs, jobs[p].step # "done", jobs[p].step \notin SendSteps,
         NEW s \in Replies \ {0, 200}, Answer(p, Status(s)),
         ServerTypes', NEW S \in SUBSET Procs, FollowWith(S), UNCHANGED <<sendVars, oofVars>>
  PROVE  GatewayInv'
<1> DEFINE rep == Status(s)
<1>1. /\ DOMAIN rep = {"status", "list", "id", "moved", "oof"}
      /\ rep.status \in Replies \ {0, 200} /\ rep.list \subseteq Collection
      /\ rep.moved \in Seq({3, 4, 5}) /\ rep.oof = "none"
  BY ReplyIs
<1> HIDE DEF rep
<1>2. Answer(p, rep)
  BY DEF rep
<1> QED
  BY <1>1, <1>2, AnswerStep

LEMMA ListBoxesStep ==
  ASSUME GatewayInv, NEW p \in Procs, ListBoxes(p), UNCHANGED <<sendVars, oofVars>>
  PROVE  GatewayInv'
<1>1. /\ JobInv(jobs[p]) /\ jobs[p].step = "list" /\ UNCHANGED server /\ FollowWith({})
      /\ ServerTypes /\ HistoryTypes
  BY DEF ListBoxes, At, GatewayInv, JobsInv, Follow
<1>2. ServerTypes'
  BY <1>1 DEF server, ServerTypes, Live
<1>3. CASE \E c \in Listing : c.kind = "note"
  <2> DEFINE rep == [Blank EXCEPT !.status = 1, !.list = Listing]
  <2>1. /\ DOMAIN rep = {"status", "list", "id", "moved", "oof"}
        /\ rep.status = 1 /\ rep.list = Listing
        /\ rep.moved \in Seq({3, 4, 5}) /\ rep.oof = "none"
    BY ReplyIs
  <2>2. Answer(p, rep)
    BY <1>3 DEF ListBoxes
  <2> HIDE DEF rep
  <2>3. rep.status \in Replies \ {0, 200} /\ rep.list \subseteq Collection
    BY <1>1, <2>1, ListingIs DEF Replies
  <2>4. jobs[p].step # "done" /\ jobs[p].step \notin SendSteps
    BY <1>1 DEF SendSteps
  <2> QED
    BY <1>1, <1>2, <2>1, <2>2, <2>3, <2>4, NoOne, AnswerStep
<1>4. CASE ~\E c \in Listing : c.kind = "note"
  <2> DEFINE j == [jobs[p] EXCEPT !.step = "findNotes", !.reply.list = Listing]
  <2>1. StartJob(p, j)
    BY <1>4 DEF ListBoxes, StartJob
  <2>2. /\ DOMAIN j = {"req", "step", "reply", "todo"}
        /\ DOMAIN j.reply = {"status", "list", "id", "moved", "oof"}
        /\ j.step = "findNotes" /\ j.reply.list = Listing /\ j.todo = jobs[p].todo
        /\ j.req = jobs[p].req /\ j.reply.status = jobs[p].reply.status
        /\ j.reply.moved = jobs[p].reply.moved /\ j.reply.oof = jobs[p].reply.oof
    BY <1>1 DEF JobInv, JobTypes
  <2> HIDE DEF j
  <2>3. jobs[p].reply.status = 0 /\ jobs[p].reply.oof = "none" /\ jobs[p] # NoJob
    BY <1>1, BusyIs
  <2>4. JobInv(j)
    <3>1. JobTypes(j)
      BY <1>1, <2>2, <2>3, ListingIs DEF JobInv, JobTypes
    <3> QED
      BY <1>1, <2>2, <2>3, <3>1 DEF JobInv, SendSteps
  <2> QED
    BY <1>1, <1>4, <2>1, <2>2, <2>4, ListingIs, NoOne, FindStep
<1> QED
  BY <1>3, <1>4

\* The list of a FolderSync that adds the Notes mailboxes it found.
LEMMA ListedStep ==
  ASSUME GatewayInv, NEW p \in Procs, jobs[p].step \in {"findNotes", "createNotes"},
         NEW notes \in SUBSET Boxes, Listed(p, notes),
         ServerTypes', NEW S \in SUBSET Procs, FollowWith(S), UNCHANGED <<sendVars, oofVars>>
  PROVE  /\ GatewayInv'
         /\ jobs'[p].reply.list = jobs[p].reply.list \cup {[kind |-> "note", id |-> b] : b \in notes}
<1> DEFINE rep == [jobs[p].reply EXCEPT !.status = 1,
                     !.list = @ \cup {[kind |-> "note", id |-> b] : b \in notes}]
<1>1. JobInv(jobs[p]) /\ jobs[p].step # "done" /\ jobs[p].step \notin SendSteps
  BY DEF GatewayInv, JobsInv, SendSteps
<1>2. jobs[p].reply.oof = "none"
  BY <1>1, BusyIs
<1>3. /\ DOMAIN rep = {"status", "list", "id", "moved", "oof"}
      /\ rep.status = 1 /\ rep.moved = jobs[p].reply.moved /\ rep.oof = "none"
      /\ rep.list = jobs[p].reply.list \cup {[kind |-> "note", id |-> b] : b \in notes}
  BY <1>1, <1>2 DEF JobInv
<1>4. Answer(p, rep)
  BY DEF Listed
<1> HIDE DEF rep
<1>5. rep.status \in Replies \ {0, 200} /\ rep.moved \in Seq({3, 4, 5})
  BY <1>1, <1>3 DEF Replies, JobInv
<1>6. rep.list \subseteq Collection
  BY <1>1, <1>3 DEF JobInv, JobTypes, Collection, Kinds
<1>7. jobs'[p].reply = rep
  BY <1>4, AnsweredIs DEF Answer, StartJob, GatewayInv, JobsInv
<1> QED
  BY <1>1, <1>2, <1>3, <1>4, <1>5, <1>6, <1>7, AnswerStep

\* A FolderSync that found no Notes folder, or got an error, goes on to create one.
LEMMA ToCreateStep ==
  ASSUME GatewayInv, NEW p \in Procs, jobs[p].step = "findNotes",
         jobs' = [jobs EXCEPT ![p].step = "createNotes"],
         NEW S \in SUBSET Procs, NotesBoxes = {} \/ p \in S,
         UNCHANGED server, FollowWith(S), UNCHANGED <<sendVars, oofVars>>
  PROVE  GatewayInv'
<1> DEFINE j == [jobs[p] EXCEPT !.step = "createNotes"]
<1>1. JobInv(jobs[p]) /\ ServerTypes
  BY DEF GatewayInv, JobsInv
<1>2. StartJob(p, j)
  BY DEF StartJob
<1>3. /\ DOMAIN j = {"req", "step", "reply", "todo"}
      /\ j.step = "createNotes" /\ j.reply = jobs[p].reply /\ j.todo = jobs[p].todo
      /\ j.req = jobs[p].req
  BY <1>1 DEF JobInv, JobTypes
<1> HIDE DEF j
<1>4. jobs[p].reply.status = 0 /\ jobs[p].reply.oof = "none"
  BY <1>1, BusyIs
<1>5. JobInv(j)
  <2>1. JobTypes(j)
    BY <1>1, <1>3, <1>4 DEF JobInv, JobTypes
  <2> QED
    BY <1>1, <1>3, <1>4, <2>1 DEF JobInv, SendSteps
<1>6. p \in Listers /\ p \in Listers'
  BY <1>2, <1>3 DEF Listers, StartJob, GatewayInv, JobsInv
<1>7. \A b \in Boxes \ churn'[p] : b \notin churn[p]
  BY <1>6, UnchurnedIs
<1>8. /\ \A c \in j.reply.list : c.kind # "note"
      /\ \A b \in Boxes \ churn'[p] : ShownAs(j.reply.list, b) = KindOf(b)
  BY <1>3, <1>7 DEF GatewayInv, ListInv
<1> QED
  BY <1>1, <1>2, <1>3, <1>5, <1>8, FindStep

LEMMA FindNotesStep ==
  ASSUME GatewayInv, NEW p \in Procs, FindNotes(p) \/ FindNotesErrs(p),
         UNCHANGED <<sendVars, oofVars>>
  PROVE  GatewayInv'
<1>1. /\ jobs[p].step = "findNotes" /\ UNCHANGED server /\ ServerTypes
      /\ FindNotes(p) => FollowWith({})
  BY DEF FindNotes, FindNotesErrs, At, GatewayInv, Follow
<1>2. ServerTypes'
  BY <1>1 DEF server, ServerTypes, Live
<1>3. CASE FindNotes(p) /\ NotesBoxes # {}
  BY <1>1, <1>2, <1>3, NoOne, ListingIs, ListedStep DEF FindNotes
<1>4. CASE FindNotes(p) /\ NotesBoxes = {}
  BY <1>1, <1>4, NoOne, ToCreateStep DEF FindNotes
<1>5. CASE FindNotesErrs(p)
  <2> DEFINE S == IF NotesBoxes = {} THEN {} ELSE {p}
  <2>1. S \in SUBSET Procs /\ (NotesBoxes = {} \/ p \in S)
    OBVIOUS
  <2>2. jobs' = [jobs EXCEPT ![p].step = "createNotes"] /\ FollowWith(S)
    BY <1>5 DEF FindNotesErrs
  <2> HIDE DEF S
  <2> QED
    BY <1>1, <2>1, <2>2, ToCreateStep
<1> QED
  BY <1>3, <1>4, <1>5

LEMMA CreateNotesStep ==
  ASSUME GatewayInv, NEW p \in Procs, CreateNotes(p) \/ CreateNotesUnanswered(p),
         UNCHANGED <<sendVars, oofVars>>
  PROVE  GatewayInv'
<1>1. jobs[p].step = "createNotes" /\ CreateBox(Top, NotesName) /\ ServerTypes
  BY DEF CreateNotes, CreateNotesUnanswered, At, GatewayInv
<1>2. ServerTypes' /\ made' \ made \in SUBSET Boxes
  BY <1>1, CreateBoxStep DEF ServerTypes
<1>3. CASE CreateNotes(p)
  <2>1. PICK S \in SUBSET Procs : FollowWith(S)
    BY <1>3 DEF CreateNotes
  <2> QED
    BY <1>1, <1>2, <1>3, <2>1, ListedStep DEF CreateNotes
<1>4. CASE CreateNotesUnanswered(p)
  <2>1. {p} \in SUBSET Procs /\ {} \in SUBSET Boxes
    OBVIOUS
  <2> QED
    BY <1>1, <1>2, <1>4, <2>1, ListedStep DEF CreateNotesUnanswered
<1> QED
  BY <1>3, <1>4

LEMMA NotesFailStep ==
  ASSUME GatewayInv, NEW p \in Procs, NotesFail(p), UNCHANGED <<sendVars, oofVars>>
  PROVE  GatewayInv'
<1>1. /\ jobs[p].step \in {"findNotes", "createNotes"} /\ Listed(p, {}) /\ FollowWith({p})
      /\ UNCHANGED server /\ ServerTypes
  BY DEF NotesFail, GatewayInv
<1>2. ServerTypes'
  BY <1>1 DEF server, ServerTypes, Live
<1>3. {p} \in SUBSET Procs /\ {} \in SUBSET Boxes
  OBVIOUS
<1> QED
  BY <1>1, <1>2, <1>3, ListedStep

LEMMA ListFailsStep ==
  ASSUME GatewayInv, NEW p \in Procs, ListFails(p), UNCHANGED <<sendVars, oofVars>>
  PROVE  GatewayInv'
<1>1. /\ jobs[p].step = "list" /\ Answer(p, Status(502)) /\ FollowWith({})
      /\ UNCHANGED server /\ ServerTypes
  BY DEF ListFails, At, Follow, GatewayInv
<1>2. ServerTypes'
  BY <1>1 DEF server, ServerTypes, Live
<1>3. jobs[p].step # "done" /\ jobs[p].step \notin SendSteps
  BY <1>1 DEF SendSteps
<1>4. 502 \in Replies \ {0, 200}
  BY DEF Replies
<1> QED
  BY <1>1, <1>2, <1>3, <1>4, NoOne, AnswerStatus

\* What the request of a folder command is when it is about to be sent on.
LEMMA SetRequest ==
  ASSUME GatewayInv, NEW p \in Procs, At(p, "set")
  PROVE  /\ jobs[p].step # "done" /\ jobs[p].step \notin SendSteps /\ ServerTypes
         /\ jobs[p].req.op \in {"FolderCreate", "FolderUpdate", "FolderDelete"}
         /\ jobs[p].req.op # "FolderDelete" => jobs[p].req.name \in Names \cup {NotesName}
BY DEF GatewayInv, JobsInv, JobInv, At, SendSteps

\* The status tables have no 0 and no 200.
LEMMA StatusOfIs ==
  ASSUME NEW r
  PROVE  /\ StatusOf(r, create_status) =
              IF r = "created" THEN 1 ELSE IF r = "alreadyExists" THEN 2
              ELSE IF r = "invalidProperties" THEN 5 ELSE 6
         /\ StatusOf(r, update_status) =
              IF r = "updated" THEN 1 ELSE IF r \in {"forbidden", "alreadyExists"} THEN 2
              ELSE IF r = "notFound" THEN 4 ELSE 6
         /\ StatusOf(r, delete_status) =
              IF r = "destroyed" THEN 1 ELSE IF r = "forbidden" THEN 3
              ELSE IF r = "notFound" THEN 4 ELSE 6
BY DEF StatusOf, create_status, update_status, delete_status

LEMMA SetBoxStep ==
  ASSUME GatewayInv, NEW p \in Procs, SetBox(p), UNCHANGED <<sendVars, oofVars>>
  PROVE  GatewayInv'
<1> DEFINE req == jobs[p].req
<1>1. /\ jobs[p].step # "done" /\ jobs[p].step \notin SendSteps /\ ServerTypes
      /\ req.op # "FolderDelete" => req.name \in Names \cup {NotesName}
      /\ FollowWith({}) /\ ({1, 2, 3, 4, 5, 6} \subseteq Replies \ {0, 200})
  BY SetRequest DEF SetBox, Follow, Replies
<1>2. CASE FolderCreate(p, req)
  <2> DEFINE s == StatusOf(CreateResult(req.parent.id, req.name), create_status)
             rep == [Status(s) EXCEPT !.id = IF made' # made THEN NextBox ELSE Top]
  <2>1. s \in {1, 2, 5, 6}
    BY StatusOfIs
  <2>2. /\ DOMAIN rep = {"status", "list", "id", "moved", "oof"}
        /\ rep.status = s /\ rep.list = {} /\ rep.moved \in Seq({3, 4, 5}) /\ rep.oof = "none"
    BY ReplyIs
  <2>3. ServerTypes'
    BY <1>1, <1>2, CreateBoxStep DEF FolderCreate
  <2>4. Answer(p, rep)
    BY <1>2 DEF FolderCreate
  <2> HIDE DEF s, rep
  <2> QED
    BY <1>1, <2>1, <2>2, <2>3, <2>4, NoOne, AnswerStep
<1>3. CASE FolderUpdate(p, req)
  <2> DEFINE s == StatusOf(UpdateResult(req.id.id, req.parent.id, req.name), update_status)
  <2>1. s \in {1, 2, 4, 6}
    BY StatusOfIs
  <2>2. ServerTypes'
    BY <1>1, <1>3, UpdateBoxStep DEF FolderUpdate
  <2>3. Answer(p, Status(s))
    BY <1>3 DEF FolderUpdate
  <2> HIDE DEF s
  <2> QED
    BY <1>1, <2>1, <2>2, <2>3, NoOne, AnswerStatus
<1>4. CASE FolderDelete(p, req)
  <2> DEFINE s == StatusOf(DestroyResult(req.id.id), delete_status)
  <2>1. s \in {1, 3, 4, 6}
    BY StatusOfIs
  <2>2. ServerTypes'
    BY <1>1, <1>4, DestroyBoxStep DEF FolderDelete
  <2>3. Answer(p, Status(s))
    BY <1>4 DEF FolderDelete
  <2> HIDE DEF s
  <2> QED
    BY <1>1, <2>1, <2>2, <2>3, NoOne, AnswerStatus
<1> QED
  BY <1>2, <1>3, <1>4 DEF SetBox

LEMMA SetBoxFailsStep ==
  ASSUME GatewayInv, NEW p \in Procs, SetBoxFails(p) \/ SetBoxUnanswered(p),
         UNCHANGED <<sendVars, oofVars>>
  PROVE  GatewayInv'
<1> DEFINE req == jobs[p].req
<1>1. /\ jobs[p].step # "done" /\ jobs[p].step \notin SendSteps /\ ServerTypes
      /\ req.op \in {"FolderCreate", "FolderUpdate", "FolderDelete"}
      /\ req.op # "FolderDelete" => req.name \in Names \cup {NotesName}
      /\ FollowWith({}) /\ Answer(p, Status(6)) /\ 6 \in Replies \ {0, 200}
  <2>1. At(p, "set") /\ Answer(p, Status(6)) /\ Follow
    BY Zenon DEF SetBoxFails, SetBoxUnanswered
  <2> QED
    BY <2>1, SetRequest DEF Follow, Replies
<1>2. ServerTypes'
  <2>1. CASE SetBoxFails(p)
    BY <1>1, <2>1 DEF SetBoxFails, server, ServerTypes, Live
  <2>2. CASE SetBoxUnanswered(p)
    <3>1. \/ CreateBox(req.parent.id, req.name) /\ req.op = "FolderCreate"
          \/ UpdateBox(req.id.id, req.parent.id, req.name) /\ req.op = "FolderUpdate"
          \/ DestroyBox(req.id.id)
      BY <1>1, <2>2, ZenonT(60) DEF SetBoxUnanswered
    <3> QED
      BY <1>1, <3>1, CreateBoxStep, UpdateBoxStep, DestroyBoxStep
  <2> QED
    BY <2>1, <2>2
<1> QED
  BY <1>1, <1>2, NoOne, AnswerStatus

\* The status of the next email is added to the answer.
LEMMA MovedStep ==
  ASSUME GatewayInv, NEW p \in Procs, At(p, "move"), NEW s \in {3, 4, 5}, Moved(p, s),
         ServerTypes', FollowWith({}), UNCHANGED <<sendVars, oofVars>>
  PROVE  /\ GatewayInv'
         /\ jobs'[p].reply.moved = Append(jobs[p].reply.moved, s)
<1> DEFINE todo == jobs[p].todo
           rep  == [jobs[p].reply EXCEPT !.moved = Append(@, s)]
           last == [rep EXCEPT !.status = 200]
           end  == Answered(jobs[p].req, last)
           next == [jobs[p] EXCEPT !.todo = Tail(todo), !.reply = rep]
<1>1. /\ JobInv(jobs[p]) /\ jobs[p].step = "move" /\ jobs[p].req.op = "MoveItems"
      /\ todo # <<>> /\ todo \in Orders /\ jobs[p].reply.moved \in Seq({3, 4, 5})
  BY DEF At, GatewayInv, JobsInv, JobInv, JobTypes
<1>2. jobs[p].reply.status = 0 /\ jobs[p].reply.oof = "none"
  BY <1>1, BusyIs
<1>3. Append(jobs[p].reply.moved, s) \in Seq({3, 4, 5})
  BY <1>1, AppendProperties
<1>4. /\ DOMAIN rep = {"status", "list", "id", "moved", "oof"}
      /\ rep.moved = Append(jobs[p].reply.moved, s) /\ rep.list = jobs[p].reply.list
      /\ rep.status = 0 /\ rep.oof = "none"
  BY <1>1, <1>2 DEF JobInv
<1>5. /\ DOMAIN last = {"status", "list", "id", "moved", "oof"}
      /\ last.moved = Append(jobs[p].reply.moved, s) /\ last.list = jobs[p].reply.list
      /\ last.status = 200 /\ last.oof = "none"
  BY <1>4
<1>6. /\ DOMAIN next = {"req", "step", "reply", "todo"}
      /\ next.step = "move" /\ next.reply = rep /\ next.todo = Tail(todo)
      /\ next.req = jobs[p].req
  BY <1>1 DEF JobInv, JobTypes
<1>7. (Len(todo) = 1 => StartJob(p, end)) /\ (Len(todo) # 1 => StartJob(p, next))
  BY DEF Moved, Answer, StartJob
<1>8. jobs[p].step \notin SendSteps /\ jobs[p].reply.status # 200
  BY <1>1, <1>2 DEF SendSteps
<1> HIDE DEF todo, rep, last, next
<1>9. CASE Len(todo) = 1
  <2>1. last.status \in Replies \ {0} /\ last.list \subseteq Collection
    BY <1>1, <1>5 DEF Replies, JobInv, JobTypes
  <2>2. JobInv(end)
    <3>1. PICK req : req = jobs[p].req
      OBVIOUS
    <3>2. req.op # "SendMail"
      BY <1>1, <3>1
    <3>3. last.moved \in Seq({3, 4, 5})
      BY <1>3, <1>5
    <3>4. JobInv(Answered(req, last))
      BY <1>5, <2>1, <3>2, <3>3, AnsweredInv
    <3> QED
      BY <3>1, <3>4
  <2>3. end.step = "done" /\ end.reply = last /\ end.req.op = "MoveItems"
    BY <1>1, AnsweredIs
  <2> HIDE DEF end
  <2>4. Plain(end)
    BY <1>5, <2>3 DEF Plain, SendSteps
  <2>5. jobs'[p] = end
    BY <1>7, <1>9 DEF StartJob, GatewayInv, JobsInv
  <2> QED
    BY <1>5, <1>7, <1>8, <1>9, <2>2, <2>3, <2>4, <2>5, NoOne, PlainStep
<1>10. CASE Len(todo) # 1
  <2>1. Tail(todo) \in Orders /\ Tail(todo) # <<>>
    BY <1>1, <1>10, OrderIs
  <2>2. JobTypes(next)
    BY <1>1, <1>4, <1>6, <2>1 DEF JobInv, JobTypes
  <2>3. JobInv(next)
    BY <1>1, <1>3, <1>4, <1>6, <2>1, <2>2 DEF JobInv, SendSteps
  <2>4. Plain(next)
    BY <1>4, <1>6 DEF Plain, SendSteps
  <2>5. jobs'[p] = next
    BY <1>7, <1>10 DEF StartJob, GatewayInv, JobsInv
  <2> QED
    BY <1>4, <1>6, <1>7, <1>8, <1>10, <2>3, <2>4, <2>5, NoOne, PlainStep
<1> QED
  BY <1>9, <1>10

LEMMA MoveStep ==
  ASSUME GatewayInv, NEW p \in Procs, MoveNext(p) \/ MoveFails(p) \/ MoveUnanswered(p),
         UNCHANGED <<sendVars, oofVars>>
  PROVE  GatewayInv'
<1>1. /\ At(p, "move") /\ FollowWith({}) /\ ServerTypes
  BY DEF MoveNext, MoveFails, MoveUnanswered, Follow, GatewayInv
<1>2. Head(jobs[p].todo) \in Msgs
  BY <1>1, OrderIs DEF At, GatewayInv, JobsInv, JobInv, JobTypes
<1>3. PICK s \in {3, 4, 5} :
        /\ Moved(p, s)
        /\ UNCHANGED server \/ MoveEmail(Head(jobs[p].todo), jobs[p].req.src, jobs[p].req.dst)
  BY DEF MoveNext, MoveFails, MoveUnanswered
<1>4. ServerTypes'
  <2>1. CASE UNCHANGED server
    BY <1>1, <2>1 DEF server, ServerTypes, Live
  <2>2. CASE MoveEmail(Head(jobs[p].todo), jobs[p].req.src, jobs[p].req.dst)
    BY <1>1, <1>2, <2>2, MoveEmailStep
  <2> QED
    BY <1>3, <2>1, <2>2
<1> QED
  BY <1>1, <1>3, <1>4, MovedStep

LEMMA MailboxStep ==
  ASSUME GatewayInv, NEW p \in Procs, Mailbox(p)
  PROVE  GatewayInv'
BY ListBoxesStep, FindNotesStep, CreateNotesStep, SetBoxStep, MoveStep, ListFailsStep,
   NotesFailStep, SetBoxFailsStep
DEF Mailbox, MailboxWorks, MailboxFails

-----------------------------------------------------------------------------
(* Steps of SendMail *)

\* The counters of one message are what they were, up to the ones a step is about.
SameFor(m) ==
  /\ tries'[m] = tries[m] /\ copies'[m] = copies[m] /\ submitted'[m] = submitted[m]
  /\ doubts'[m] = doubts[m] /\ (m \in outbox' <=> m \in outbox) /\ (m \in silent => m \in silent')

\* A slot goes on with its message, or answers it.
LEMMA SendSlot ==
  ASSUME GatewayInv, NEW p \in Procs, NEW j, StartJob(p, j), JobInv(j),
         NEW mail \in Mails, jobs[p].req.mail = mail,
         \A m \in Mails \ {mail} : SameFor(m) /\ ~Submits(j, m) /\ ~Tells(j, m),
         MailInv(mail)',
         j.step \notin {"findNotes", "createNotes", "setOof", "getOof"}, j.reply.oof = "none",
         copies' \in [Mails -> Nat], submitted' \in [Mails -> Nat], tries' \in [Mails -> Nat],
         doubts' \in [Mails -> Nat], outbox' \subseteq Mails, silent' \subseteq Mails,
         Follow, UNCHANGED <<server, oofVars>>
  PROVE  GatewayInv'
<1>1. JobsInv' /\ jobs'[p] = j /\ Only(p)
  BY SlotStep DEF GatewayInv, Only, JobsInv, StartJob
<1>2. ServerTypes' /\ HistoryTypes'
  BY NoOne, FollowTypes DEF GatewayInv, Follow, server, ServerTypes, Live
<1>3. ListInv'
  BY <1>1, NoOne, ListKeptBy DEF GatewayInv, Follow
<1>4. ASSUME NEW m \in Mails, m # mail PROVE MailInv(m)'
  <2>1. ~Submits(jobs[p], m) /\ ~Imports(jobs[p], m) /\ ~Tells(jobs[p], m)
    BY <1>4 DEF Submits, Imports, Tells
  <2>2. SameFor(m) /\ ~Submits(j, m) /\ ~Imports(j, m) /\ ~Tells(j, m)
    BY <1>4 DEF Imports
  <2> QED
    BY <1>1, <1>4, <2>1, <2>2, MailKept DEF GatewayInv, SameFor
<1>5. SendInv'
  BY <1>4, SendTyped
<1>6. OofInv'
  BY <1>1, OofKept DEF GatewayInv
<1> QED
  BY <1>1, <1>2, <1>3, <1>5, <1>6 DEF GatewayInv

LEMMA Counters ==
  ASSUME SendInv
  PROVE  /\ copies \in [Mails -> Nat] /\ submitted \in [Mails -> Nat] /\ tries \in [Mails -> Nat]
         /\ doubts \in [Mails -> Nat] /\ outbox \subseteq Mails /\ silent \subseteq Mails
         /\ \A m \in Mails : copies[m] \in Nat /\ submitted[m] \in Nat /\ tries[m] \in Nat /\ doubts[m] \in Nat
<1>1. 0..2 * MaxTries \subseteq Nat
  BY MailsAssumption
<1> QED
  BY <1>1 DEF SendInv, SendTypes

\* A slot at a call of send_email.
LEMMA SenderIs ==
  ASSUME GatewayInv, NEW p \in Procs, jobs[p].step \in SendSteps
  PROVE  /\ JobInv(jobs[p]) /\ jobs[p].req.op = "SendMail" /\ jobs[p].req.mail \in Mails
         /\ jobs[p].reply.status = 0 /\ jobs[p].reply.oof = "none"
         /\ Submits(jobs[p], jobs[p].req.mail) /\ ~Tells(jobs[p], jobs[p].req.mail)
<1>1. JobInv(jobs[p]) /\ jobs[p].step # "done"
  BY DEF GatewayInv, JobsInv, SendSteps
<1>2. jobs[p].reply.status = 0 /\ jobs[p].reply.oof = "none"
  BY <1>1, BusyIs
<1> QED
  BY <1>1, <1>2 DEF JobInv, Submits, Tells

\* What it goes on with.
LEMMA GotoIs ==
  ASSUME GatewayInv, NEW p \in Procs, jobs[p].step \in SendSteps, NEW s \in SendSteps, Goto(p, s)
  PROVE  \E j : /\ StartJob(p, j) /\ JobInv(j)
                /\ j.step = s /\ j.req = jobs[p].req /\ j.reply = jobs[p].reply
<1> DEFINE j == [jobs[p] EXCEPT !.step = s]
<1>1. JobInv(jobs[p]) /\ jobs[p].reply.status = 0 /\ jobs[p].reply.oof = "none"
  BY SenderIs
<1>2. /\ DOMAIN j = {"req", "step", "reply", "todo"}
      /\ j.step = s /\ j.req = jobs[p].req /\ j.reply = jobs[p].reply /\ j.todo = jobs[p].todo
  BY <1>1 DEF JobInv, JobTypes
<1>3. StartJob(p, j)
  BY DEF Goto, StartJob
<1> HIDE DEF j
<1>4. JobTypes(j)
  BY <1>1, <1>2 DEF JobInv, JobTypes, SendSteps
<1>5. JobInv(j)
  BY <1>1, <1>2, <1>4 DEF JobInv, SendSteps
<1> QED
  BY <1>2, <1>3, <1>5

\* What it answers.
LEMMA SendAnswer ==
  ASSUME GatewayInv, NEW p \in Procs, jobs[p].step \in SendSteps, NEW s \in {200, 500},
         Answer(p, Status(s))
  PROVE  \E j : /\ StartJob(p, j) /\ JobInv(j) /\ j.step = "done" /\ j.reply.oof = "none"
                /\ j.req.op = "SendMail" /\ j.req.mail = jobs[p].req.mail /\ j.reply.status = s
<1> DEFINE j == Answered(jobs[p].req, Status(s))
<1>1. jobs[p].req.op = "SendMail" /\ jobs[p].req.mail \in Mails /\ s \in Replies \ {0}
  BY SenderIs DEF Replies
<1>2. JobInv(j)
  BY <1>1, StatusInv
<1>3. j.step = "done" /\ j.reply = Status(s) /\ j.req.op = "SendMail" /\ j.req.mail = jobs[p].req.mail
  BY <1>1, AnsweredIs
<1>4. StartJob(p, j)
  BY DEF Answer
<1> HIDE DEF j
<1> QED
  BY <1>2, <1>3, <1>4, ReplyIs

LEMMA PrepareStep ==
  ASSUME GatewayInv, NEW p \in Procs, Prepare(p)
  PROVE  GatewayInv'
<1>1. PICK s \in SendSteps \ {"submit"} : Goto(p, s)
  BY DEF Prepare, SendSteps
<1>2. jobs[p].step \in SendSteps \ {"submit"}
  BY DEF Prepare, At, SendSteps
<1> PICK mail \in Mails : mail = jobs[p].req.mail
  BY <1>2, SenderIs
<1>3. PICK j : /\ StartJob(p, j) /\ JobInv(j)
               /\ j.step = s /\ j.req = jobs[p].req /\ j.reply = jobs[p].reply
  BY <1>1, <1>2, GotoIs
<1>4. j.reply.oof = "none"
  BY <1>2, <1>3, SenderIs
<1>5. UNCHANGED <<server, sendVars, oofVars>> /\ Follow /\ SendInv
  BY DEF Prepare, GatewayInv
<1>6. JobsInv' /\ jobs'[p] = j /\ Only(p)
  BY <1>3, SlotStep DEF GatewayInv, Only, JobsInv, StartJob
<1>7. \A m \in Mails : /\ Submits(j, m) <=> Submits(jobs[p], m)
                       /\ Imports(j, m) <=> Imports(jobs[p], m)
                       /\ Tells(j, m) <=> Tells(jobs[p], m)
  BY <1>2, <1>3 DEF Submits, Imports, Tells
<1>8. \A m \in Mails : SameFor(m)
  BY <1>5 DEF SameFor, sendVars
<1>9. MailInv(mail)'
  BY <1>4, <1>5, <1>6, <1>7, <1>8, MailKept DEF SameFor
<1>10. \A m \in Mails \ {mail} : ~Submits(j, m) /\ ~Tells(j, m)
  BY <1>3 DEF Submits, Tells
<1>11. j.step \notin {"findNotes", "createNotes", "setOof", "getOof"}
  BY <1>3 DEF SendSteps
<1> QED
  BY <1>3, <1>4, <1>5, <1>8, <1>9, <1>10, <1>11, Counters, SendSlot DEF sendVars

LEMMA ImportStep ==
  ASSUME GatewayInv, NEW p \in Procs, Import(p) \/ ImportUnanswered(p)
  PROVE  GatewayInv'
<1>2. jobs[p].step \in SendSteps
  BY DEF Import, ImportUnanswered, ImportMail, At, SendSteps
<1> PICK mail \in Mails : mail = jobs[p].req.mail
  BY <1>2, SenderIs
<1>1. /\ jobs[p].step = "import" /\ copies' = [copies EXCEPT ![mail] = @ + 1]
      /\ UNCHANGED <<server, submitted, outbox, tries, doubts, silent, oofVars>> /\ Follow /\ SendInv
  BY DEF Import, ImportUnanswered, ImportMail, At, GatewayInv
<1>3. /\ Submits(jobs[p], mail) /\ Imports(jobs[p], mail) /\ ~Tells(jobs[p], mail)
      /\ jobs[p].reply.oof = "none"
  BY <1>1, <1>2, SenderIs DEF Imports
<1>4. PICK j : /\ StartJob(p, j) /\ JobInv(j) /\ j.reply.oof = "none" /\ j.step \in {"submit", "done"}
               /\ j.req.mail = mail /\ ~Imports(j, mail) /\ ~Tells(j, mail)
  <2>1. CASE Import(p)
    <3>1. Goto(p, "submit") /\ "submit" \in SendSteps
      BY <2>1 DEF Import, SendSteps
    <3>2. PICK j : /\ StartJob(p, j) /\ JobInv(j)
                   /\ j.step = "submit" /\ j.req = jobs[p].req /\ j.reply = jobs[p].reply
      BY <1>2, <3>1, GotoIs
    <3> QED
      BY <1>3, <3>2 DEF Imports, Tells
  <2>2. CASE ImportUnanswered(p)
    <3>1. Answer(p, Status(500))
      BY <2>2 DEF ImportUnanswered
    <3>2. PICK j : /\ StartJob(p, j) /\ JobInv(j) /\ j.step = "done" /\ j.reply.oof = "none"
                   /\ j.req.op = "SendMail" /\ j.req.mail = mail /\ j.reply.status = 500
      BY <1>2, <3>1, SendAnswer
    <3> QED
      BY <3>2 DEF Imports, Submits, Tells, SendSteps
  <2> QED
    BY <2>1, <2>2
<1>5. JobsInv' /\ jobs'[p] = j /\ Only(p)
  BY <1>4, SlotStep DEF GatewayInv, Only, JobsInv, StartJob
<1>6. MailInv(mail)'
  <2>1. /\ Counts(Submitting(mail), Submitting(mail)', Submits(jobs[p], mail), Submits(j, mail))
        /\ Counts(Importing(mail), Importing(mail)', Imports(jobs[p], mail), Imports(j, mail))
        /\ Counts(InHand(mail), InHand(mail)', Submits(jobs[p], mail) \/ Tells(jobs[p], mail),
                   Submits(j, mail) \/ Tells(j, mail))
    BY <1>5, HandsStep
  <2>2. MailInv(mail) /\ copies[mail] \in Nat /\ submitted[mail] \in Nat /\ tries[mail] \in Nat /\ doubts[mail] \in Nat
    BY <1>1, <1>3, Counters DEF SendInv
  <2>3. /\ copies'[mail] = copies[mail] + 1 /\ submitted'[mail] = submitted[mail]
        /\ tries'[mail] = tries[mail] /\ doubts'[mail] = doubts[mail]
    BY <1>1, <1>3, Counters
  <2>4. (\E q \in Procs : Tells(jobs[q], mail))' => \E q \in Procs : Tells(jobs[q], mail)
    BY <1>4, <1>5 DEF Only, Tells
  <2>5. mail \notin outbox \/ (\E q \in Procs : Tells(jobs[q], mail)) => submitted[mail] > 0 \/ mail \in silent
    BY <2>2 DEF MailInv
  <2>6. MaxTries \in Nat
    BY MailsAssumption
  <2>7. /\ submitted[mail] + Cardinality(Submitting(mail)') <= tries[mail]
        /\ copies[mail] + 1 + Cardinality(Importing(mail)') <= tries[mail]
        /\ doubts[mail] + Cardinality(InHand(mail)') <= 2 * tries[mail]
        /\ submitted[mail] + Cardinality(Submitting(mail)')
             <= doubts[mail] + IF mail \in outbox /\ InHand(mail)' = {} THEN 0 ELSE 1
    BY <1>3, <1>4, <2>1, <2>2 DEF MailInv, Counts
  <2> QED
    BY <1>1, <2>2, <2>3, <2>4, <2>5, <2>7 DEF MailInv
<1>7. \A m \in Mails \ {mail} : SameFor(m) /\ ~Submits(j, m) /\ ~Tells(j, m)
  BY <1>1, <1>4, Counters DEF SameFor, Submits, Tells
<1>8. copies' \in [Mails -> Nat]
  BY <1>1, <1>3, Counters
<1> QED
  BY <1>1, <1>3, <1>4, <1>6, <1>7, <1>8, Counters, SendSlot

\* The end of a slot's work on a message: what is counted as submitted (d) and as
\* doubtful (e) by then.
Ended(p, mail, j, d, e) ==
  /\ StartJob(p, j) /\ JobInv(j) /\ j.step = "done" /\ j.reply.oof = "none"
  /\ \A m \in Mails \ {mail} : ~Tells(j, m) /\ (m \in outbox' <=> m \in outbox)
  /\ submitted' = [submitted EXCEPT ![mail] = @ + d] /\ doubts' = [doubts EXCEPT ![mail] = @ + e]
  /\ UNCHANGED <<copies, tries>>
  /\ outbox' \subseteq outbox /\ silent \subseteq silent' /\ silent' \subseteq Mails
  /\ d = 1 => Submits(jobs[p], mail) /\ (Tells(j, mail) \/ e = 1)
  /\ e = 1 => ~Tells(j, mail) /\ (Submits(jobs[p], mail) \/ Tells(jobs[p], mail))
  /\ Tells(j, mail) => Submits(jobs[p], mail) /\ (d = 1 \/ mail \in silent')
  /\ Tells(jobs[p], mail) => e = 1 \/ mail \notin outbox'
  /\ mail \in outbox \ outbox' => Tells(jobs[p], mail)
  /\ Follow /\ UNCHANGED <<server, oofVars>>

LEMMA EndMail ==
  ASSUME GatewayInv, NEW p \in Procs, NEW mail \in Mails, jobs[p].req.mail = mail,
         NEW j, NEW d \in {0, 1}, NEW e \in {0, 1}, Ended(p, mail, j, d, e)
  PROVE  GatewayInv'
<1> USE DEF Ended
<1>1. JobsInv' /\ jobs'[p] = j /\ Only(p)
  BY SlotStep DEF GatewayInv, Only, JobsInv, StartJob
<1>2. ~Submits(j, mail) /\ ~Imports(j, mail)
  BY DEF Submits, Imports, SendSteps
<1>3. /\ Counts(Submitting(mail), Submitting(mail)', Submits(jobs[p], mail), Submits(j, mail))
      /\ Counts(Importing(mail), Importing(mail)', Imports(jobs[p], mail), Imports(j, mail))
      /\ Counts(InHand(mail), InHand(mail)', Submits(jobs[p], mail) \/ Tells(jobs[p], mail),
                 Submits(j, mail) \/ Tells(j, mail))
  BY <1>1, HandsStep
<1>4. SendInv /\ MailInv(mail)
  BY DEF GatewayInv, SendInv
<1>5. /\ copies[mail] \in Nat /\ submitted[mail] \in Nat /\ tries[mail] \in Nat /\ doubts[mail] \in Nat
      /\ submitted'[mail] = submitted[mail] + d /\ doubts'[mail] = doubts[mail] + e
      /\ copies'[mail] = copies[mail] /\ tries'[mail] = tries[mail]
  BY <1>4, Counters
<1>6. /\ Cardinality(Submitting(mail)) \in Nat /\ Cardinality(Submitting(mail)') \in Nat
      /\ Cardinality(Importing(mail)) \in Nat /\ Cardinality(Importing(mail)') \in Nat
      /\ Cardinality(InHand(mail)) \in Nat /\ Cardinality(InHand(mail)') \in Nat
      /\ (InHand(mail)' = {} <=> Cardinality(InHand(mail)') = 0)
      /\ (InHand(mail) = {} <=> Cardinality(InHand(mail)) = 0)
  BY <1>3 DEF Counts
<1>7. /\ d = 1 => Cardinality(Submitting(mail)') = Cardinality(Submitting(mail)) - 1
      /\ Cardinality(Submitting(mail)') <= Cardinality(Submitting(mail))
      /\ Submits(jobs[p], mail) => Cardinality(Submitting(mail)') = Cardinality(Submitting(mail)) - 1
  BY <1>2, <1>3, <1>6 DEF Counts
<1>8. Cardinality(Importing(mail)') <= Cardinality(Importing(mail))
  BY <1>2, <1>3, <1>6 DEF Counts
<1>9. /\ e = 1 => Cardinality(InHand(mail)') = Cardinality(InHand(mail)) - 1
      /\ Cardinality(InHand(mail)') <= Cardinality(InHand(mail))
  BY <1>2, <1>3, <1>6 DEF Counts
<1>10. /\ Tells(j, mail) => InHand(mail)' # {}
       /\ ~Submits(jobs[p], mail) /\ ~Tells(jobs[p], mail) => InHand(mail)' = InHand(mail)
  <2>1. Tells(j, mail) => p \in InHand(mail)'
    BY <1>1 DEF InHand, Tells
  <2> QED
    BY <1>2, <1>3, <2>1 DEF Counts
<1>11. /\ submitted[mail] + d + Cardinality(Submitting(mail)') <= tries[mail]
       /\ copies[mail] + Cardinality(Importing(mail)') <= tries[mail]
       /\ doubts[mail] + e + Cardinality(InHand(mail)') <= 2 * tries[mail]
       /\ tries[mail] <= MaxTries
  BY <1>4, <1>5, <1>6, <1>7, <1>8, <1>9 DEF MailInv
<1>12. submitted[mail] + d + Cardinality(Submitting(mail)')
         <= doubts[mail] + e + IF mail \in outbox' /\ InHand(mail)' = {} THEN 0 ELSE 1
  <2>1. submitted[mail] + Cardinality(Submitting(mail))
          <= doubts[mail] + IF mail \in outbox /\ InHand(mail) = {} THEN 0 ELSE 1
    BY <1>4 DEF MailInv
  <2>2. CASE Submits(jobs[p], mail)
    BY <1>5, <1>6, <1>7, <1>10, <2>1, <2>2
  <2>3. CASE ~Submits(jobs[p], mail)
    BY <1>5, <1>6, <1>7, <1>10, <2>1, <2>3
  <2> QED
    BY <2>2, <2>3
<1>13. mail \notin outbox' \/ (\E q \in Procs : Tells(jobs[q], mail))' =>
         submitted'[mail] > 0 \/ mail \in silent'
  <2>1. mail \notin outbox \/ (\E q \in Procs : Tells(jobs[q], mail)) =>
          submitted[mail] > 0 \/ mail \in silent
    BY <1>4 DEF MailInv
  <2>2. (\E q \in Procs : Tells(jobs[q], mail))' => Tells(j, mail) \/ \E q \in Procs : Tells(jobs[q], mail)
    BY <1>1 DEF Only, Tells
  <2>3. Tells(j, mail) => submitted'[mail] > 0 \/ mail \in silent'
    BY <1>5
  <2>4. mail \notin outbox' => mail \notin outbox \/ \E q \in Procs : Tells(jobs[q], mail)
    OBVIOUS
  <2>5. submitted[mail] > 0 => submitted'[mail] > 0
    BY <1>5
  <2> QED
    BY <2>1, <2>2, <2>3, <2>4, <2>5
<1>14. MailInv(mail)'
  BY <1>5, <1>11, <1>12, <1>13 DEF MailInv
<1>15. \A m \in Mails \ {mail} : SameFor(m) /\ ~Submits(j, m) /\ ~Tells(j, m)
  BY <1>4, Counters DEF SameFor, Submits, SendSteps
<1>16. /\ submitted' \in [Mails -> Nat] /\ doubts' \in [Mails -> Nat] /\ copies' \in [Mails -> Nat]
       /\ tries' \in [Mails -> Nat] /\ outbox' \subseteq Mails
  BY <1>4, Counters
<1> QED
  BY <1>14, <1>15, <1>16, SendSlot

\* A submission, or a failure, answers the request.
LEMMA SubmitStep ==
  ASSUME GatewayInv, NEW p \in Procs,
         Submit(p) \/ SubmitUnanswered(p) \/ SubmitRejected(p) \/ SubmitSilent(p) \/ SendFails(p)
  PROVE  GatewayInv'
<1>1. jobs[p].step \in SendSteps
  BY DEF Submit, SubmitUnanswered, SubmitMail, SubmitRejected, SubmitSilent, SendFails, At, SendSteps
<1>2. PICK mail \in Mails : mail = jobs[p].req.mail
  BY <1>1, SenderIs
<1>3. SendInv /\ Submits(jobs[p], mail) /\ ~Tells(jobs[p], mail)
  BY <1>1, <1>2, SenderIs DEF GatewayInv
<1>4. PICK s \in {200, 500}, d \in {0, 1}, e \in {0, 1} :
        /\ Answer(p, Status(s))
        /\ submitted' = [submitted EXCEPT ![mail] = @ + d]
        /\ doubts' = [doubts EXCEPT ![mail] = @ + e]
        /\ UNCHANGED <<server, copies, outbox, tries, oofVars>> /\ Follow
        /\ silent \subseteq silent' /\ silent' \subseteq silent \cup {mail}
        /\ s = 200 => e = 0 /\ (d = 1 \/ mail \in silent')
        /\ s = 500 => d = e
  <2>0. /\ [submitted EXCEPT ![mail] = @ + 0] = submitted /\ [doubts EXCEPT ![mail] = @ + 0] = doubts
    BY <1>3, Counters
  <2>1. CASE Submit(p)
    <3>1. /\ Answer(p, Status(200)) /\ submitted' = [submitted EXCEPT ![mail] = @ + 1]
          /\ UNCHANGED <<server, copies, outbox, tries, doubts, silent, oofVars>> /\ Follow
      BY <1>2, <2>1 DEF Submit, SubmitMail, AckSubmission
    <3> QED
      BY <2>0, <3>1
  <2>2. CASE SubmitUnanswered(p)
    <3>1. /\ Answer(p, Status(500)) /\ submitted' = [submitted EXCEPT ![mail] = @ + 1]
          /\ doubts' = [doubts EXCEPT ![mail] = @ + 1]
          /\ UNCHANGED <<server, copies, outbox, tries, silent, oofVars>> /\ Follow
      BY <1>2, <2>2 DEF SubmitUnanswered, SubmitMail
    <3> QED
      BY <3>1
  <2>3. CASE SubmitRejected(p) \/ SendFails(p)
    <3>1. /\ Answer(p, Status(500)) /\ UNCHANGED <<server, sendVars, oofVars>> /\ Follow
      BY <2>3 DEF SubmitRejected, RejectSubmission, SendFails
    <3> QED
      BY <2>0, <3>1 DEF sendVars
  <2>4. CASE SubmitSilent(p)
    <3>1. /\ Answer(p, Status(200)) /\ silent' = silent \cup {mail}
          /\ UNCHANGED <<server, copies, submitted, outbox, tries, doubts, oofVars>> /\ Follow
      BY <1>2, <2>4 DEF SubmitSilent, AckSubmission
    <3> QED
      BY <2>0, <3>1
  <2> QED
    BY <2>1, <2>2, <2>3, <2>4
<1>5. PICK j : /\ StartJob(p, j) /\ JobInv(j) /\ j.step = "done" /\ j.reply.oof = "none"
               /\ j.req.op = "SendMail" /\ j.req.mail = mail /\ j.reply.status = s
  BY <1>1, <1>2, <1>4, SendAnswer
<1>6. (Tells(j, mail) <=> s = 200) /\ \A m \in Mails \ {mail} : ~Tells(j, m)
  BY <1>5 DEF Tells
<1>7. silent' \subseteq Mails
  BY <1>3, <1>4, Counters
<1>8. Ended(p, mail, j, d, e)
  BY <1>3, <1>4, <1>5, <1>6, <1>7 DEF Ended
<1> QED
  BY <1>2, <1>8, EndMail

LEMMA SendMailStep ==
  ASSUME GatewayInv, NEW p \in Procs, SendMail(p)
  PROVE  GatewayInv'
BY PrepareStep, ImportStep, SubmitStep DEF SendMail

-----------------------------------------------------------------------------
(* The end and the beginning of a request *)

\* A slot that works on no message becomes free.
LEMMA FreeStep ==
  ASSUME GatewayInv, NEW p \in Procs, StartJob(p, NoJob),
         jobs[p].step \notin SendSteps, jobs[p].reply.status = 200 => jobs[p].req.op # "SendMail",
         Follow, UNCHANGED <<server, sendVars, oofVars>>
  PROVE  GatewayInv'
<1>1. JobInv(NoJob) /\ Plain(NoJob)
  BY NoJobInv, NoJobIs, ReplyIs DEF Plain, SendSteps
<1>2. ServerTypes'
  BY DEF GatewayInv, server, ServerTypes, Live
<1> QED
  BY <1>1, <1>2, NoOne, PlainStep DEF Follow

LEMMA ReceiveStep ==
  ASSUME GatewayInv, NEW p \in Procs, Receive(p)
  PROVE  GatewayInv'
<1>1. /\ jobs[p].step = "done" /\ StartJob(p, NoJob)
      /\ UNCHANGED <<server, copies, submitted, tries, doubts, silent, oofVars>> /\ Follow
      /\ outbox' = IF jobs[p].req.op = "SendMail" /\ jobs[p].reply.status = 200
                     THEN outbox \ {jobs[p].req.mail} ELSE outbox
  BY DEF Receive, At
<1>2. CASE jobs[p].req.op = "SendMail" /\ jobs[p].reply.status = 200
  <2>1. PICK mail \in Mails : mail = jobs[p].req.mail
    BY <1>2 DEF GatewayInv, JobsInv, JobInv
  <2>2. Tells(jobs[p], mail) /\ outbox' = outbox \ {mail}
    BY <1>1, <1>2, <2>1 DEF Tells
  <2>3. \A m : ~Tells(NoJob, m)
    BY NoJobIs DEF Tells
  <2>4. /\ submitted' = [submitted EXCEPT ![mail] = @ + 0] /\ doubts' = [doubts EXCEPT ![mail] = @ + 0]
        /\ silent' \subseteq Mails
    BY <1>1, Counters DEF GatewayInv
  <2>5. JobInv(NoJob) /\ NoJob.step = "done" /\ NoJob.reply.oof = "none"
    BY NoJobInv, NoJobIs, ReplyIs
  <2>6. /\ UNCHANGED <<copies, tries>> /\ Follow /\ UNCHANGED <<server, oofVars>>
        /\ outbox' \subseteq outbox /\ silent \subseteq silent'
        /\ \A m \in Mails \ {mail} : m \in outbox' <=> m \in outbox
        /\ mail \notin outbox'
    BY <1>1, <2>2
  <2>7. PICK n \in {0, 1} : n # 1
    OBVIOUS
  <2>8. submitted' = [submitted EXCEPT ![mail] = @ + n] /\ doubts' = [doubts EXCEPT ![mail] = @ + n]
    BY <2>4, <2>7
  <2>9. Ended(p, mail, NoJob, n, n)
    BY <1>1, <2>2, <2>3, <2>4, <2>5, <2>6, <2>7, <2>8 DEF Ended
  <2> QED
    BY <2>1, <2>9, EndMail
<1>3. CASE ~(jobs[p].req.op = "SendMail" /\ jobs[p].reply.status = 200)
  <2>1. jobs[p].step \notin SendSteps
    BY <1>1 DEF SendSteps
  <2> QED
    BY <1>1, <1>3, <2>1, FreeStep DEF sendVars
<1> QED
  BY <1>2, <1>3

LEMMA DropStep ==
  ASSUME GatewayInv, NEW p \in Procs, Drop(p)
  PROVE  GatewayInv'
<1>1. /\ StartJob(p, NoJob) /\ Follow
      /\ UNCHANGED <<server, copies, submitted, outbox, tries, silent, oofVars>>
      /\ doubts' = IF jobs[p].req.op = "SendMail" /\ jobs[p].reply.status = 200
                     THEN [doubts EXCEPT ![jobs[p].req.mail] = @ + 1] ELSE doubts
  BY DEF Drop
<1>2. CASE jobs[p].req.op = "SendMail"
  <2>1. PICK mail \in Mails : mail = jobs[p].req.mail
    BY <1>2 DEF GatewayInv, JobsInv, JobInv
  <2>2. PICK e \in {0, 1} : e = 1 <=> jobs[p].reply.status = 200
    OBVIOUS
  <2>3. Tells(jobs[p], mail) <=> e = 1
    BY <1>2, <2>1, <2>2 DEF Tells
  <2>0. PICK n \in {0, 1} : n # 1
    OBVIOUS
  <2>4. /\ submitted' = [submitted EXCEPT ![mail] = @ + n] /\ doubts' = [doubts EXCEPT ![mail] = @ + e]
        /\ silent' \subseteq Mails
    <3>1. SendInv /\ [doubts EXCEPT ![mail] = @ + 0] = doubts /\ [submitted EXCEPT ![mail] = @ + 0] = submitted
      BY Counters DEF GatewayInv
    <3>2. e = 0 \/ e = 1
      OBVIOUS
    <3> QED
      BY <1>1, <1>2, <2>1, <2>2, <2>0, <3>1, <3>2, Counters
  <2>5. /\ JobInv(NoJob) /\ NoJob.step = "done" /\ NoJob.reply.oof = "none"
        /\ \A m : ~Tells(NoJob, m)
    BY NoJobInv, NoJobIs, ReplyIs DEF Tells
  <2>6. /\ UNCHANGED <<copies, tries>> /\ Follow /\ UNCHANGED <<server, oofVars>>
        /\ outbox' = outbox /\ silent \subseteq silent'
    BY <1>1
  <2>7. Ended(p, mail, NoJob, n, e)
    BY <1>1, <2>0, <2>3, <2>4, <2>5, <2>6 DEF Ended
  <2> QED
    BY <2>1, <2>7, EndMail
<1>3. CASE jobs[p].req.op # "SendMail"
  <2>1. jobs[p].step \notin SendSteps
    BY <1>3 DEF GatewayInv, JobsInv, JobInv
  <2> QED
    BY <1>1, <1>3, <2>1, FreeStep DEF sendVars
<1> QED
  BY <1>2, <1>3

LEMMA RefusedStep ==
  ASSUME GatewayInv, NEW p \in Procs, Refused(p)
  PROVE  GatewayInv'
<1>1. PICK e \in Envelope : /\ post_handler(e) # 0
                            /\ StartJob(p, Answered([op |-> "Invalid"], Status(post_handler(e))))
  BY DEF Refused
<1>2. jobs[p] = NoJob /\ UNCHANGED <<server, sendVars, oofVars>> /\ FollowWith({})
  BY DEF Refused, Follow
<1> DEFINE s == post_handler(e)
           r == [op |-> "Invalid"]
           j == Answered(r, Status(s))
<1>3. s \in {413, 401, 400, 501}
  BY <1>1 DEF post_handler, Envelope
<1>4. r.op = "Invalid"
  OBVIOUS
<1>5. StartJob(p, j)
  BY <1>1
<1> HIDE DEF s, r
<1>6. JobInv(j) /\ j.step = "done" /\ j.reply = Status(s)
  BY <1>3, <1>4, StatusInv, AnsweredIs DEF Replies
<1> HIDE DEF j
<1>7. Plain(j)
  BY <1>3, <1>6, ReplyIs DEF Plain, SendSteps
<1>8. jobs[p].step \notin SendSteps /\ jobs[p].reply.status # 200
  BY <1>2, NoJobIs, ReplyIs DEF SendSteps
<1>9. ServerTypes'
  BY <1>2 DEF GatewayInv, server, ServerTypes, Live
<1> QED
  BY <1>2, <1>5, <1>6, <1>7, <1>8, <1>9, NoOne, PlainStep

-----------------------------------------------------------------------------
(* Settings *)

LEMMA SettingsSlot ==
  ASSUME GatewayInv, NEW p \in Procs, jobs[p].step \in {"setOof", "getOof"},
         NEW j, StartJob(p, j), JobInv(j), j.step \in {"getOof", "done"}, j.reply.status # 200,
         Follow, UNCHANGED <<server, sendVars>>, OofInv'
  PROVE  GatewayInv'
<1>1. JobsInv' /\ jobs'[p] = j /\ Only(p)
  BY SlotStep DEF GatewayInv, Only, JobsInv, StartJob
<1>2. ServerTypes' /\ HistoryTypes'
  BY NoOne, FollowTypes DEF GatewayInv, Follow, server, ServerTypes, Live
<1>3. ListInv'
  BY <1>1, NoOne, ListKeptBy DEF GatewayInv, Follow
<1>4. jobs[p].reply.status # 200
  BY BusyIs DEF GatewayInv, JobsInv
<1>5. \A m \in Mails : /\ ~Submits(jobs[p], m) /\ ~Imports(jobs[p], m) /\ ~Tells(jobs[p], m)
                       /\ ~Submits(j, m) /\ ~Imports(j, m) /\ ~Tells(j, m)
  BY <1>4 DEF Submits, Imports, Tells, SendSteps
<1>6. SendInv'
  BY <1>1, <1>5, SendKept DEF GatewayInv
<1> QED
  BY <1>1, <1>2, <1>3, <1>6 DEF GatewayInv

\* A Settings answer, and the step that reads the state.
LEMMA GetOofStep ==
  ASSUME GatewayInv, NEW p \in Procs, GetOof(p) \/ GetOofFails(p)
  PROVE  GatewayInv'
<1>1. /\ jobs[p].step = "getOof" /\ Follow /\ UNCHANGED <<server, sendVars>>
  BY DEF GetOof, GetOofFails, At
<1>2. PICK o \in {"on", "off"} :
        /\ Answer(p, [Status(1) EXCEPT !.oof = o]) /\ UNCHANGED oof
        /\ \/ o = oof /\ UNCHANGED oofs
           \/ oofs' = [oofs EXCEPT ![p] = @ \cup {"unread"}]
  BY DEF GetOof, GetOofFails, oof_read, oofVars, GatewayInv, OofInv, OofTypes
<1> DEFINE rep == [Status(1) EXCEPT !.oof = o]
           j   == Answered(jobs[p].req, rep)
<1>3. /\ DOMAIN rep = {"status", "list", "id", "moved", "oof"}
      /\ rep.status = 1 /\ rep.list = {} /\ rep.moved \in Seq({3, 4, 5}) /\ rep.oof = o
  BY ReplyIs
<1>4. StartJob(p, j)
  BY <1>2 DEF Answer
<1>5. JobInv(jobs[p])
  BY DEF GatewayInv, JobsInv
<1> HIDE DEF rep
<1>6. JobInv(j) /\ j.step = "done" /\ j.reply = rep
  BY <1>3, <1>5, AnsweredInv, AnsweredIs DEF Replies, JobInv
<1> HIDE DEF j
<1>7. jobs'[p] = j /\ Only(p)
  BY <1>4 DEF Only, StartJob, GatewayInv, JobsInv
<1>8. /\ oof \in oofs[p] /\ OofTypes /\ OofTold
      /\ \A q \in Procs : jobs[q].step \in {"setOof", "getOof"} => oof \in oofs[q]
  BY <1>1 DEF GatewayInv, OofInv
<1>9. oofs' \in [Procs -> SUBSET {"on", "off", "unread"}] /\ \A q \in Procs : oofs[q] \subseteq oofs'[q]
  BY <1>2, <1>8 DEF OofTypes
<1>10. o \in oofs'[p] \/ "unread" \in oofs'[p]
  BY <1>2, <1>8 DEF OofTypes
<1>11. OofInv'
  <2>1. \A q \in Procs : jobs'[q].reply.oof # "none" => jobs'[q].reply.oof \in oofs'[q] \/ "unread" \in oofs'[q]
    BY <1>3, <1>6, <1>7, <1>8, <1>9, <1>10 DEF Only, OofTold
  <2>2. \A q \in Procs : jobs'[q].step \in {"setOof", "getOof"} => oof' \in oofs'[q]
    BY <1>2, <1>6, <1>7, <1>8, <1>9 DEF Only
  <2> QED
    BY <1>2, <1>8, <1>9, <2>1, <2>2 DEF OofInv, OofTypes, OofTold
<1> QED
  BY <1>1, <1>3, <1>4, <1>6, <1>11, SettingsSlot

LEMMA SetOofStep ==
  ASSUME GatewayInv, NEW p \in Procs, SetOof(p) \/ SetOofFails(p)
  PROVE  GatewayInv'
<1>1. /\ jobs[p].step = "setOof" /\ Goto(p, "getOof") /\ Follow /\ UNCHANGED <<server, sendVars>>
  BY DEF SetOof, SetOofFails, At
<1> DEFINE j == [jobs[p] EXCEPT !.step = "getOof"]
<1>2. StartJob(p, j)
  BY <1>1 DEF Goto, StartJob
<1>3. JobInv(jobs[p]) /\ jobs[p].reply.status = 0 /\ jobs[p].reply.oof = "none"
  BY <1>1, BusyIs DEF GatewayInv, JobsInv
<1>4. /\ DOMAIN j = {"req", "step", "reply", "todo"}
      /\ j.step = "getOof" /\ j.req = jobs[p].req /\ j.reply = jobs[p].reply /\ j.todo = jobs[p].todo
  BY <1>3 DEF JobInv, JobTypes
<1> HIDE DEF j
<1>5. JobTypes(j)
  BY <1>3, <1>4 DEF JobInv, JobTypes
<1>6. JobInv(j)
  BY <1>1, <1>3, <1>4, <1>5 DEF JobInv, SendSteps
<1>7. jobs'[p] = j /\ Only(p)
  BY <1>2 DEF Only, StartJob, GatewayInv, JobsInv
<1>8. /\ oof \in oofs[p] /\ OofTypes /\ OofTold
      /\ \A q \in Procs : jobs[q].step \in {"setOof", "getOof"} => oof \in oofs[q]
  BY <1>1 DEF GatewayInv, OofInv
<1>9. OofTypes' /\ \A q \in Procs \ {p} : oofs[q] \subseteq oofs'[q]
  <2>1. CASE SetOof(p)
    <3>1. jobs[p].req.oof \in {"on", "off"}
      BY <1>1, <1>3 DEF JobInv
    <3> QED
      BY <2>1, <1>8, <3>1 DEF SetOof, OofTypes
  <2>2. CASE SetOofFails(p)
    BY <2>2, <1>8 DEF SetOofFails, OofTypes, oofVars
  <2> QED
    BY <2>1, <2>2
<1>10. \A q \in Procs : q = p \/ oof \in oofs[q] => oof' \in oofs'[q]
  BY <1>8 DEF SetOof, SetOofFails, oofVars
<1>11. OofInv'
  <2>1. \A q \in Procs : jobs'[q].reply.oof # "none" => jobs'[q].reply.oof \in oofs'[q] \/ "unread" \in oofs'[q]
    BY <1>3, <1>4, <1>7, <1>8, <1>9 DEF Only, OofTold
  <2>2. \A q \in Procs : jobs'[q].step \in {"setOof", "getOof"} => oof' \in oofs'[q]
    BY <1>4, <1>7, <1>8, <1>10 DEF Only
  <2> QED
    BY <1>9, <2>1, <2>2 DEF OofInv, OofTold
<1> QED
  BY <1>1, <1>2, <1>3, <1>4, <1>6, <1>11, SettingsSlot

-----------------------------------------------------------------------------
(* The beginning of a request *)

LEMMA RequestIs ==
  ASSUME GatewayInv, NEW cmd \in Handlers, NEW req \in Requests(cmd)
  PROVE  /\ req.op = cmd
         /\ cmd = "SendMail" => req.mail \in outbox /\ tries[req.mail] < MaxTries
         /\ cmd = "Settings" => req.oof \in {"none", "on", "off"}
         /\ cmd \in {"FolderCreate", "FolderUpdate"} => req.name \in Names \cup {NotesName, ""}
         /\ cmd = "MoveItems" => req.msgs \in Orders
<1>1. CASE cmd = "SendMail"
  BY <1>1 DEF Requests
<1>2. CASE cmd = "Settings"
  BY <1>2 DEF Requests
<1>3. CASE cmd = "Ping"
  BY <1>3 DEF Requests
<1>4. CASE cmd \notin {"SendMail", "Settings", "Ping"}
  <2>1. req \in MailboxRequests(cmd, Ids)
    BY <1>4 DEF Requests
  <2>2. CASE cmd = "FolderSync"
    BY <2>1, <2>2 DEF MailboxRequests
  <2>3. CASE cmd = "FolderCreate"
    BY <2>1, <2>3 DEF MailboxRequests
  <2>4. CASE cmd = "FolderUpdate"
    BY <2>1, <2>4 DEF MailboxRequests
  <2>5. CASE cmd = "FolderDelete"
    BY <2>1, <2>5 DEF MailboxRequests
  <2>6. CASE cmd = "MoveItems"
    BY <2>1, <2>6 DEF MailboxRequests
  <2> QED
    BY <1>4, <2>2, <2>3, <2>4, <2>5, <2>6 DEF Handlers
<1> QED
  BY <1>1, <1>2, <1>3, <1>4

\* A job that has made no call yet.
Fresh(req, step, todo) == [NoJob EXCEPT !.req = req, !.step = step, !.todo = todo]

LEMMA FreshJob ==
  ASSUME NEW req, NEW step, NEW todo \in Orders, NEW j, j = Fresh(req, step, todo),
         step \in {"list", "set", "move", "identity", "setOof", "getOof"},
         step = "set" => /\ req.op \in {"FolderCreate", "FolderUpdate", "FolderDelete"}
                         /\ req.op # "FolderDelete" => req.name \in Names \cup {NotesName},
         step = "move" => req.op = "MoveItems" /\ todo # <<>>,
         step = "identity" <=> req.op = "SendMail", req.op = "SendMail" => req.mail \in Mails,
         step = "setOof" => req.oof \in {"on", "off"},
         step \in {"setOof", "getOof"} => req.op = "Settings"
  PROVE  JobInv(j) /\ j.step = step /\ j.req = req /\ j.reply = Blank
<1>1. /\ DOMAIN j = {"req", "step", "reply", "todo"}
      /\ j.step = step /\ j.req = req /\ j.todo = todo /\ j.reply = Blank
  BY NoJobIs DEF Fresh
<1>2. JobTypes(j)
  BY <1>1, ReplyIs DEF JobTypes
<1>3. JobInv(j)
  BY <1>1, <1>2, ReplyIs DEF JobInv, SendSteps
<1> QED
  BY <1>1, <1>3

\* The statuses a command is refused with.
LEMMA RefusalIs ==
  ASSUME NEW req
  PROVE  Refusal(req) \in {0, 400, 10, 5, 4}
<1>1. CASE req.op = "FolderSync"
  BY <1>1 DEF Refusal
<1>2. CASE req.op = "MoveItems"
  BY <1>2 DEF Refusal
<1>3. CASE req.op = "FolderCreate"
  BY <1>3 DEF Refusal
<1>4. CASE req.op = "FolderUpdate"
  BY <1>4 DEF Refusal
<1>5. CASE req.op = "FolderDelete"
  BY <1>5 DEF Refusal
<1>6. CASE req.op \notin {"FolderSync", "MoveItems", "FolderCreate", "FolderUpdate", "FolderDelete"}
  BY <1>6 DEF Refusal
<1> QED
  BY <1>1, <1>2, <1>3, <1>4, <1>5, <1>6

\* What a request other than SendMail begins with.
LEMMA AcceptIs ==
  ASSUME GatewayInv, NEW cmd \in Handlers \ {"SendMail"}, NEW req \in Requests(cmd), NEW j,
         j = IF req.op \in {"SendMail", "Settings", "Ping"} THEN AcceptOther(req) ELSE Accept(req)
  PROVE  /\ JobInv(j) /\ j.reply.oof = "none" /\ j.reply.status # 200
         /\ j.step \in {"done", "list", "set", "move", "setOof", "getOof"}
         /\ j.step \in {"setOof", "getOof"} => req.op = "Settings"
<1>1. /\ req.op = cmd
      /\ cmd = "Settings" => req.oof \in {"none", "on", "off"}
      /\ cmd \in {"FolderCreate", "FolderUpdate"} => req.name \in Names \cup {NotesName, ""}
      /\ cmd = "MoveItems" => req.msgs \in Orders
  BY RequestIs
<1>2. Blank.oof = "none" /\ Blank.status = 0 /\ <<>> \in Orders /\ NoJob.todo = <<>>
  BY ReplyIs, EmptyOrder, NoJobIs
<1>3. ASSUME NEW s \in Replies \ {0, 200}, j = Answered(req, Status(s))
      PROVE  JobInv(j) /\ j.reply.oof = "none" /\ j.reply.status # 200 /\ j.step = "done"
  <2>1. req.op # "SendMail"
    BY <1>1
  <2>2. JobInv(j)
    BY <1>3, <2>1, StatusInv
  <2>3. j.step = "done" /\ j.reply = Status(s)
    BY <1>3, AnsweredIs
  <2> QED
    BY <2>2, <2>3, ReplyIs
<1>4. CASE cmd = "Ping"
  <2>1. j = Answered(req, Status(1)) /\ 1 \in Replies \ {0, 200}
    BY <1>1, <1>4 DEF AcceptOther, Replies
  <2> QED
    BY <1>3, <2>1
<1>5. CASE cmd = "Settings"
  <2> DEFINE step == IF req.oof = "none" THEN "getOof" ELSE "setOof"
  <2>1. j = [NoJob EXCEPT !.req = req, !.step = step]
    BY <1>1, <1>5 DEF AcceptOther
  <2>2. j = Fresh(req, step, <<>>)
    BY <1>2, <2>1 DEF Fresh, NoJob
  <2>3. step \in {"getOof", "setOof"} /\ (step = "setOof" => req.oof \in {"on", "off"})
    BY <1>1, <1>5
  <2> HIDE DEF step
  <2>4. JobInv(j) /\ j.step = step /\ j.reply = Blank
    BY <1>1, <1>2, <1>5, <2>2, <2>3, FreshJob
  <2> QED
    BY <1>1, <1>2, <1>5, <2>3, <2>4
<1>6. CASE cmd \in {"FolderSync", "FolderCreate", "FolderUpdate", "FolderDelete", "MoveItems"}
  <2>1. j = Accept(req)
    BY <1>1, <1>6
  <2>2. CASE Refusal(req) # 0
    <3>1. Refusal(req) \in {400, 10, 5, 4}
      BY <2>2, RefusalIs
    <3>2. j = Answered(req, Status(Refusal(req))) /\ Refusal(req) \in Replies \ {0, 200}
      BY <2>1, <2>2, <3>1 DEF Accept, Replies
    <3> QED
      BY <1>3, <3>2
  <2>3. CASE Refusal(req) = 0
    <3>1. CASE cmd = "FolderSync"
      <4>1. j = [NoJob EXCEPT !.req = req, !.step = "list"]
        BY <1>1, <2>1, <2>3, <3>1 DEF Accept
      <4>2. j = Fresh(req, "list", <<>>)
        BY <1>2, <4>1 DEF Fresh, NoJob
      <4>3. JobInv(j) /\ j.step = "list" /\ j.reply = Blank
        BY <1>1, <1>2, <3>1, <4>2, FreshJob
      <4> QED
        BY <1>2, <4>3
    <3>2. CASE cmd = "MoveItems"
      <4>1. j = Fresh(req, "move", req.msgs)
        BY <1>1, <2>1, <2>3, <3>2 DEF Fresh, Accept
      <4>2. req.msgs \in Orders /\ req.msgs # <<>>
        BY <1>1, <2>3, <3>2 DEF Refusal
      <4>3. JobInv(j) /\ j.step = "move" /\ j.reply = Blank
        BY <1>1, <3>2, <4>1, <4>2, FreshJob
      <4> QED
        BY <1>2, <4>3
    <3>3. CASE cmd \in {"FolderCreate", "FolderUpdate", "FolderDelete"}
      <4>1. j = [NoJob EXCEPT !.req = req, !.step = "set"]
        BY <1>1, <2>1, <2>3, <3>3 DEF Accept
      <4>2. j = Fresh(req, "set", <<>>)
        BY <1>2, <4>1 DEF Fresh, NoJob
      <4>3. req.op # "FolderDelete" => req.name \in Names \cup {NotesName}
        <5>1. CASE cmd = "FolderCreate"
          <6>1. req.op = "FolderCreate"
            BY <1>1, <5>1
          <6>2. Refusal(req) = IF Missing = req.parent \/ req.name = "" THEN 10
                               ELSE IF is_non_mail_collection_id(req.parent) THEN 5 ELSE 0
            BY <6>1 DEF Refusal
          <6>3. req.name = "" => Refusal(req) = 10
            BY <6>2, Zenon
          <6>4. Refusal(req) # 10
            BY <2>3
          <6>5. req.name # ""
            BY <6>3, <6>4, Zenon
          <6> QED
            BY <1>1, <5>1, <6>5
        <5>2. CASE cmd = "FolderUpdate"
          <6>1. req.op = "FolderUpdate"
            BY <1>1, <5>2
          <6>2. Refusal(req) =
                  IF Missing \in {req.id, req.parent} \/ req.name = "" THEN 10
                  ELSE IF is_non_mail_collection_id(req.id) \/ is_non_mail_collection_id(req.parent)
                    THEN 4 ELSE 0
            BY <6>1 DEF Refusal
          <6>3. req.name = "" => Refusal(req) = 10
            BY <6>2, Zenon
          <6>4. Refusal(req) # 10
            BY <2>3
          <6>5. req.name # ""
            BY <6>3, <6>4, Zenon
          <6> QED
            BY <1>1, <5>2, <6>5
        <5> QED
          BY <1>1, <3>3, <5>1, <5>2
      <4>4. JobInv(j) /\ j.step = "set" /\ j.reply = Blank
        <5>1. /\ req.op \in {"FolderCreate", "FolderUpdate", "FolderDelete"} /\ req.op # "SendMail"
              /\ <<>> \in Orders
          BY <1>1, <1>2, <3>3
        <5> QED
          BY <4>2, <4>3, <5>1, FreshJob
      <4> QED
        BY <1>2, <4>4
    <3> QED
      BY <1>6, <3>1, <3>2, <3>3
  <2> QED
    BY <2>2, <2>3
<1> QED
  BY <1>4, <1>5, <1>6 DEF Handlers

LEMMA BeginSlot ==
  ASSUME GatewayInv, NEW p \in Procs, jobs[p] = NoJob, NEW j, StartJob(p, j), JobInv(j),
         j.step \notin {"findNotes", "createNotes"}, j.reply.oof = "none", oof' = oof,
         NEW O \in SUBSET {"on", "off"}, oofs' = [oofs EXCEPT ![p] = O],
         j.step \in {"setOof", "getOof"} => oof \in O,
         SendInv', Follow, UNCHANGED server
  PROVE  GatewayInv'
<1>1. JobsInv' /\ jobs'[p] = j /\ Only(p)
  BY SlotStep DEF GatewayInv, Only, JobsInv, StartJob
<1>2. ServerTypes' /\ HistoryTypes'
  BY NoOne, FollowTypes DEF GatewayInv, Follow, server, ServerTypes, Live
<1>3. ListInv'
  BY <1>1, NoOne, ListKeptBy DEF GatewayInv, Follow
<1>4. OofTypes /\ OofTold /\ \A q \in Procs : jobs[q].step \in {"setOof", "getOof"} => oof \in oofs[q]
  BY DEF GatewayInv, OofInv
<1>5. OofTypes' /\ oofs'[p] = O /\ \A q \in Procs \ {p} : oofs'[q] = oofs[q]
  BY <1>4 DEF OofTypes
<1>6. OofInv'
  <2>1. \A q \in Procs : jobs'[q].reply.oof # "none" => jobs'[q].reply.oof \in oofs'[q] \/ "unread" \in oofs'[q]
    BY <1>1, <1>4, <1>5 DEF Only, OofTold
  <2>2. \A q \in Procs : jobs'[q].step \in {"setOof", "getOof"} => oof' \in oofs'[q]
    BY <1>1, <1>4, <1>5 DEF Only
  <2> QED
    BY <1>5, <2>1, <2>2 DEF OofInv, OofTold
<1> QED
  BY <1>1, <1>2, <1>3, <1>6 DEF GatewayInv

\* A device tries a message: it doubts one more when a slot still has the message.
LEMMA BeginSend ==
  ASSUME GatewayInv, NEW p \in Procs, jobs[p] = NoJob, NEW j, StartJob(p, j), JobInv(j),
         NEW mail \in Mails, mail \in outbox, tries[mail] < MaxTries,
         j.step = "identity", j.req.mail = mail, j.reply = Blank,
         tries' = [tries EXCEPT ![mail] = @ + 1],
         doubts' = IF \E q \in Procs : jobs[q].req.op = "SendMail" /\ jobs[q].req.mail = mail
                     THEN [doubts EXCEPT ![mail] = @ + 1] ELSE doubts,
         UNCHANGED <<copies, submitted, outbox, silent>>
  PROVE  SendInv'
<1>1. JobsInv' /\ jobs'[p] = j /\ Only(p)
  BY SlotStep DEF GatewayInv, Only, JobsInv, StartJob
<1>2. SendInv /\ MailInv(mail)
  BY DEF GatewayInv, SendInv
<1>3. \A m \in Mails : /\ ~Submits(jobs[p], m) /\ ~Imports(jobs[p], m) /\ ~Tells(jobs[p], m) /\ ~Tells(j, m)
                       /\ (Submits(j, m) <=> m = mail) /\ (Imports(j, m) <=> m = mail)
  BY NoJobIs, ReplyIs DEF Submits, Imports, Tells, SendSteps
<1>4. PICK e \in {0, 1} : e = 1 <=> \E q \in Procs : jobs[q].req.op = "SendMail" /\ jobs[q].req.mail = mail
  OBVIOUS
<1>5. /\ copies[mail] \in Nat /\ submitted[mail] \in Nat /\ tries[mail] \in Nat /\ doubts[mail] \in Nat
      /\ submitted' = submitted /\ copies' = copies
      /\ tries'[mail] = tries[mail] + 1 /\ doubts'[mail] = doubts[mail] + e
  BY <1>2, <1>4, Counters
<1>6. /\ Counts(Submitting(mail), Submitting(mail)', Submits(jobs[p], mail), Submits(j, mail))
      /\ Counts(Importing(mail), Importing(mail)', Imports(jobs[p], mail), Imports(j, mail))
      /\ Counts(InHand(mail), InHand(mail)', Submits(jobs[p], mail) \/ Tells(jobs[p], mail),
                 Submits(j, mail) \/ Tells(j, mail))
  BY <1>1, HandsStep
<1>7. /\ Cardinality(Submitting(mail)) \in Nat /\ Cardinality(Importing(mail)) \in Nat
      /\ Cardinality(InHand(mail)) \in Nat
      /\ Cardinality(Submitting(mail)') = Cardinality(Submitting(mail)) + 1
      /\ Cardinality(Importing(mail)') = Cardinality(Importing(mail)) + 1
      /\ Cardinality(InHand(mail)') = Cardinality(InHand(mail)) + 1
      /\ InHand(mail)' # {}
  BY <1>3, <1>6 DEF Counts
<1>8. e = 0 => InHand(mail) = {}
  BY <1>4 DEF InHand, Submits, Tells, GatewayInv, JobsInv, JobInv
<1>9. MaxTries \in Nat
  BY MailsAssumption
<1>10. /\ submitted[mail] + Cardinality(Submitting(mail)') <= tries[mail] + 1
       /\ copies[mail] + Cardinality(Importing(mail)') <= tries[mail] + 1
       /\ doubts[mail] + e + Cardinality(InHand(mail)') <= 2 * (tries[mail] + 1)
       /\ tries[mail] + 1 <= MaxTries
  BY <1>2, <1>5, <1>7, <1>9 DEF MailInv
<1>11. submitted[mail] + Cardinality(Submitting(mail)') <= doubts[mail] + e + 1
  <2>1. submitted[mail] + Cardinality(Submitting(mail))
          <= doubts[mail] + IF mail \in outbox /\ InHand(mail) = {} THEN 0 ELSE 1
    BY <1>2 DEF MailInv
  <2> QED
    BY <1>5, <1>7, <1>8, <2>1
<1>12. mail \notin outbox' \/ (\E q \in Procs : Tells(jobs[q], mail))' =>
         submitted'[mail] > 0 \/ mail \in silent'
  <2>1. (\E q \in Procs : Tells(jobs[q], mail))' => \E q \in Procs : Tells(jobs[q], mail)
    BY <1>1, <1>3 DEF Only, Tells
  <2> QED
    BY <1>2, <1>5, <2>1 DEF MailInv
<1>13. MailInv(mail)'
  BY <1>5, <1>7, <1>10, <1>11, <1>12 DEF MailInv
<1>14. ASSUME NEW m \in Mails, m # mail PROVE MailInv(m)'
  <2>1. SameFor(m)
    BY <1>2, <1>14, Counters DEF SameFor
  <2> QED
    BY <1>1, <1>2, <1>3, <1>14, <2>1, MailKept DEF SameFor
<1>15. tries' \in [Mails -> Nat] /\ doubts' \in [Mails -> Nat]
  BY <1>2, Counters
<1> QED
  BY <1>2, <1>13, <1>14, <1>15, Counters, SendTyped

LEMMA BeginStep ==
  ASSUME GatewayInv, NEW p \in Procs, Begin(p)
  PROVE  GatewayInv'
<1>0. PICK cmd \in Handlers : cmd \in uses /\ \E req \in Requests(cmd) :
        /\ StartJob(p, IF req.op \in {"SendMail", "Settings", "Ping"} THEN AcceptOther(req)
                                                                     ELSE Accept(req))
        /\ oofs' = [oofs EXCEPT ![p] = IF req.op = "Settings" THEN {oof} ELSE {}]
        /\ \/ req.op = "SendMail"
              /\ tries' = [tries EXCEPT ![req.mail] = @ + 1]
              /\ doubts' = IF \E q \in Procs : jobs[q].req.op = "SendMail" /\ jobs[q].req.mail = req.mail
                   THEN [doubts EXCEPT ![req.mail] = @ + 1] ELSE doubts
           \/ req.op # "SendMail" /\ UNCHANGED <<tries, doubts>>
  BY DEF Begin
<1>req. PICK req \in Requests(cmd) :
        /\ StartJob(p, IF req.op \in {"SendMail", "Settings", "Ping"} THEN AcceptOther(req) ELSE Accept(req))
        /\ oofs' = [oofs EXCEPT ![p] = IF req.op = "Settings" THEN {oof} ELSE {}]
        /\ \/ req.op = "SendMail"
              /\ tries' = [tries EXCEPT ![req.mail] = @ + 1]
              /\ doubts' = IF \E q \in Procs : jobs[q].req.op = "SendMail" /\ jobs[q].req.mail = req.mail
                   THEN [doubts EXCEPT ![req.mail] = @ + 1] ELSE doubts
           \/ req.op # "SendMail" /\ UNCHANGED <<tries, doubts>>
  BY <1>0
<1>job. PICK j : j = IF req.op \in {"SendMail", "Settings", "Ping"} THEN AcceptOther(req) ELSE Accept(req)
  OBVIOUS
<1>1. /\ j = IF req.op \in {"SendMail", "Settings", "Ping"} THEN AcceptOther(req) ELSE Accept(req)
      /\ StartJob(p, j)
      /\ oofs' = [oofs EXCEPT ![p] = IF req.op = "Settings" THEN {oof} ELSE {}]
      /\ \/ req.op = "SendMail"
            /\ tries' = [tries EXCEPT ![req.mail] = @ + 1]
            /\ doubts' = IF \E q \in Procs : jobs[q].req.op = "SendMail" /\ jobs[q].req.mail = req.mail
                 THEN [doubts EXCEPT ![req.mail] = @ + 1] ELSE doubts
         \/ req.op # "SendMail" /\ UNCHANGED <<tries, doubts>>
  BY <1>req, <1>job
<1>2. /\ jobs[p] = NoJob /\ oof \in {"on", "off"} /\ oof' = oof
      /\ UNCHANGED <<server, copies, submitted, outbox, silent>> /\ Follow
  BY DEF Begin, GatewayInv, OofInv, OofTypes
<1>3. /\ req.op = cmd
      /\ cmd = "SendMail" => req.mail \in outbox /\ tries[req.mail] < MaxTries
  BY RequestIs
<1>4. PICK O \in SUBSET {"on", "off"} : O = IF req.op = "Settings" THEN {oof} ELSE {}
  BY <1>2
<1>5. oofs' = [oofs EXCEPT ![p] = O]
  BY <1>1, <1>4
<1>6. CASE cmd = "SendMail"
  <2>1. PICK mail \in Mails : mail = req.mail
    BY <1>3, <1>6, Counters DEF GatewayInv
  <2>2. j = Fresh(req, "identity", <<>>)
    BY <1>1, <1>3, <1>6, NoJobIs DEF Fresh, AcceptOther, NoJob
  <2>3. JobInv(j) /\ j.step = "identity" /\ j.req = req /\ j.reply = Blank
    BY <1>3, <1>6, <2>1, <2>2, EmptyOrder, FreshJob
  <2>4. SendInv'
    BY <1>1, <1>2, <1>3, <1>6, <2>1, <2>3, BeginSend
  <2>5. j.step \notin {"findNotes", "createNotes", "setOof", "getOof"} /\ j.reply.oof = "none"
    BY <2>3, ReplyIs
  <2> QED
    BY <1>1, <1>2, <1>5, <2>3, <2>4, <2>5, BeginSlot
<1>7. CASE cmd # "SendMail"
  <2>1. /\ JobInv(j) /\ j.reply.oof = "none" /\ j.reply.status # 200
        /\ j.step \in {"done", "list", "set", "move", "setOof", "getOof"}
        /\ j.step \in {"setOof", "getOof"} => req.op = "Settings"
    BY <1>1, <1>7, AcceptIs
  <2>2. jobs'[p] = j /\ Only(p)
    BY <1>1 DEF Only, StartJob, GatewayInv, JobsInv
  <2>3. \A m \in Mails : /\ ~Submits(jobs[p], m) /\ ~Imports(jobs[p], m) /\ ~Tells(jobs[p], m)
                         /\ ~Submits(j, m) /\ ~Imports(j, m) /\ ~Tells(j, m)
    BY <1>2, <2>1, NoJobIs, ReplyIs DEF Submits, Imports, Tells, SendSteps
  <2>4. UNCHANGED sendVars
    BY <1>1, <1>2, <1>3, <1>7 DEF sendVars
  <2>5. SendInv'
    BY <2>2, <2>3, <2>4, SendKept DEF GatewayInv
  <2> QED
    <3>1. j.step \notin {"findNotes", "createNotes"}
      BY <2>1
    <3>2. j.step \in {"setOof", "getOof"} => oof \in O
      BY <1>4, <2>1
    <3>3. StartJob(p, j) /\ JobInv(j) /\ j.reply.oof = "none"
      BY <1>1, <2>1
    <3>4. jobs[p] = NoJob /\ oof' = oof /\ Follow /\ UNCHANGED server
      BY <1>2
    <3> QED
      BY <1>4, <1>5, <2>5, <3>1, <3>2, <3>3, <3>4, BeginSlot
<1> QED
  BY <1>6, <1>7

-----------------------------------------------------------------------------
(* Other clients, and the invariant *)

LEMMA SendSame ==
  ASSUME SendInv, UNCHANGED <<jobs, sendVars>>
  PROVE  SendInv'
<1>1. ASSUME NEW m \in Mails PROVE MailInv(m)'
  <2>1. /\ Submitting(m)' = Submitting(m) /\ Importing(m)' = Importing(m) /\ InHand(m)' = InHand(m)
        /\ (\E q \in Procs : Tells(jobs[q], m))' => \E q \in Procs : Tells(jobs[q], m)
    BY DEF Submitting, Importing, InHand, Submits, Imports, Tells
  <2> QED
    BY <2>1 DEF SendInv, MailInv, sendVars
<1> QED
  BY <1>1 DEF SendInv, SendTypes, sendVars

LEMMA OthersStep ==
  ASSUME GatewayInv, Others
  PROVE  GatewayInv'
<1>1. /\ OthersUpdate \/ OthersCreate \/ OthersDestroy \/ OthersMove
      /\ UNCHANGED <<jobs, sendVars, oofVars>> /\ FollowWith({}) /\ ServerTypes
  BY DEF Others, Follow, GatewayInv
<1>2. ServerTypes'
  <2>1. CASE OthersUpdate
    BY <1>1, <2>1, UpdateBoxStep DEF OthersUpdate
  <2>2. CASE OthersCreate
    BY <1>1, <2>2, CreateBoxStep DEF OthersCreate
  <2>3. CASE OthersDestroy
    BY <1>1, <2>3, DestroyBoxStep DEF OthersDestroy
  <2>4. CASE OthersMove
    <3>1. PICK m \in Msgs, to \in {{}} \cup {{b} : b \in Live} :
            at' = [at EXCEPT ![m] = to] /\ UNCHANGED <<box, made>>
      BY <2>4 DEF OthersMove
    <3>2. to \in SUBSET Boxes
      BY <3>1 DEF Live
    <3> QED
      BY <1>1, <3>1, <3>2 DEF ServerTypes, Live
  <2> QED
    BY <1>1, <2>1, <2>2, <2>3, <2>4
<1>3. HistoryTypes'
  BY <1>1, NoOne, FollowTypes DEF GatewayInv
<1>4. JobsInv'
  BY <1>1 DEF GatewayInv, JobsInv, JobInv, JobTypes
<1>5. ListInv'
  BY <1>1, NoOne, ListKept DEF GatewayInv
<1>6. SendInv'
  BY <1>1, SendSame DEF GatewayInv
<1>7. OofInv'
  BY <1>1 DEF GatewayInv, OofInv, OofTypes, OofTold, oofVars
<1> QED
  BY <1>2, <1>3, <1>4, <1>5, <1>6, <1>7 DEF GatewayInv

LEMMA InitInv == Init => GatewayInv
<1> SUFFICES ASSUME Init PROVE GatewayInv
  OBVIOUS
<1>1. ServerTypes /\ HistoryTypes
  <2>1. [parent |-> Top, name |-> "Inbox"] \in Box
    BY DEF Box
  <2> QED
    BY <2>1, BoxesAssumption DEF Init, ServerTypes, HistoryTypes, Live
<1>2. JobsInv /\ \A p \in Procs : jobs[p] = NoJob
  BY NoJobInv DEF Init, JobsInv
<1>3. ListInv
  BY <1>2, NoJobIs DEF ListInv, At
<1>4. SendInv
  <2>1. ASSUME NEW m \in Mails PROVE MailInv(m)
    <3>1. Submitting(m) = {} /\ Importing(m) = {} /\ InHand(m) = {} /\ ~\E p \in Procs : Tells(jobs[p], m)
      BY <1>2, NoJobIs, ReplyIs DEF Submitting, Importing, InHand, Submits, Imports, Tells, SendSteps
    <3>2. Cardinality({}) = 0
      BY FS_EmptySet
    <3> QED
      BY <3>1, <3>2, MailsAssumption DEF Init, MailInv
  <2> QED
    BY <2>1, MailsAssumption DEF Init, SendInv, SendTypes
<1>5. OofInv
  BY <1>2, NoJobIs, ReplyIs DEF Init, OofInv, OofTypes, OofTold
<1> QED
  BY <1>1, <1>2, <1>3, <1>4, <1>5 DEF GatewayInv

LEMMA StepInv == GatewayInv /\ [Next]_vars => GatewayInv'
<1> SUFFICES ASSUME GatewayInv, [Next]_vars PROVE GatewayInv'
  OBVIOUS
<1>1. ASSUME NEW p \in Procs,
             \/ Refused(p) \/ Begin(p) \/ Receive(p) \/ Drop(p)
             \/ Mailbox(p) \/ SendMail(p) \/ Settings(p)
      PROVE  GatewayInv'
  BY <1>1, RefusedStep, BeginStep, ReceiveStep, DropStep, MailboxStep, SendMailStep, GetOofStep, SetOofStep
  DEF Settings
<1>2. CASE Others
  BY <1>2, OthersStep
<1>3. CASE UNCHANGED vars
  <2>1. UNCHANGED server /\ UNCHANGED history /\ UNCHANGED <<jobs, sendVars, oofVars>>
    BY <1>3 DEF vars, mbVars, server, history, sendVars, oofVars
  <2>2. ServerTypes' /\ HistoryTypes'
    BY <2>1 DEF server, history, ServerTypes, Live, HistoryTypes, GatewayInv
  <2>3. JobsInv'
    BY <2>1 DEF GatewayInv, JobsInv, JobInv, JobTypes
  <2>4. SendInv'
    BY <2>1, SendSame DEF GatewayInv
  <2>5. OofInv'
    BY <2>1 DEF GatewayInv, OofInv, OofTypes, OofTold, oofVars
  <2>6. ListInv'
    <3>1. \A b \in Boxes : KindOf(b)' = KindOf(b)
      BY <2>1 DEF KindOf, server
    <3>2. NotesBoxes' = NotesBoxes
      BY <2>1 DEF NotesBoxes, Live, is_notes, server
    <3> QED
      BY <2>1, <3>1, <3>2 DEF GatewayInv, ListInv, ShownAs, At, history
  <2> QED
    BY <2>2, <2>3, <2>4, <2>5, <2>6 DEF GatewayInv
<1> QED
  BY <1>1, <1>2, <1>3 DEF Next

\* Requests that act on the mail server at once keep GatewayInv.
THEOREM GatewayInvariant == Spec => []GatewayInv
BY InitInv, StepInv, PTL DEF Spec

-----------------------------------------------------------------------------
(* What the invariant is for *)

LEMMA GatewayTypes == GatewayInv => TypeOK
BY DEF GatewayInv, TypeOK, JobsInv, JobInv, SendInv, OofInv

\* The types of the module, bounds of the counters included.
THEOREM GatewayTyped == Spec => []TypeOK
BY GatewayInvariant, GatewayTypes, PTL

\* No interleaving of tries, losses and failures has a device stop sending a
\* message that was not submitted, unless it was told so by mistake.
THEOREM SendsAreSubmitted == Spec => []SentIsSubmitted
<1>1. GatewayInv => SentIsSubmitted
  BY DEF GatewayInv, SendInv, MailInv, SentIsSubmitted
<1> QED
  BY <1>1, GatewayInvariant, PTL

\* A message is submitted at most once more than a device had reason to doubt.
THEOREM SendsAreOnce == Spec => []SentOnce
<1>1. ASSUME GatewayInv, NEW m \in Mails PROVE submitted[m] <= 1 + doubts[m]
  <2>1. Submitting(m) \in SUBSET Procs
    BY DEF Submitting
  <2>2. Cardinality(Submitting(m)) \in Nat
    BY <2>1, ProcsAssumption, FS_Subset, FS_CardinalityType
  <2>3. MailInv(m) /\ submitted[m] \in Nat /\ doubts[m] \in Nat
    BY <1>1, Counters DEF GatewayInv, SendInv
  <2> QED
    BY <2>2, <2>3 DEF MailInv
<1>2. GatewayInv => SentOnce
  BY <1>1 DEF SentOnce
<1> QED
  BY <1>2, GatewayInvariant, PTL

\* A Settings answer tells a state the account had since its own Set.
THEOREM OofIsTold == Spec => []OofTold
<1>1. GatewayInv => OofTold
  BY DEF GatewayInv, OofInv
<1> QED
  BY <1>1, GatewayInvariant, PTL

-----------------------------------------------------------------------------
(* What one step of a request may do *)

LEMMA MailboxAlone ==
  ASSUME GatewayInv, NEW p \in Procs, Mailbox(p)
  PROVE  Only(p)
<1>1. CASE ListBoxes(p)
  BY <1>1 DEF ListBoxes, Answer, StartJob, Only, GatewayInv, JobsInv
<1>2. CASE FindNotes(p) \/ FindNotesErrs(p)
  BY <1>2 DEF FindNotes, FindNotesErrs, Listed, Answer, StartJob, Only, GatewayInv, JobsInv
<1>3. CASE CreateNotes(p) \/ CreateNotesUnanswered(p) \/ NotesFail(p)
  BY <1>3 DEF CreateNotes, CreateNotesUnanswered, NotesFail, Listed, Answer, StartJob, Only, GatewayInv, JobsInv
<1>4. CASE SetBox(p)
  BY <1>4 DEF SetBox, FolderCreate, FolderUpdate, FolderDelete, Answer, StartJob, Only, GatewayInv, JobsInv
<1>5. CASE ListFails(p) \/ SetBoxFails(p) \/ SetBoxUnanswered(p)
  <2>1. \E s : Answer(p, Status(s))
    BY <1>5, Zenon DEF ListFails, SetBoxFails, SetBoxUnanswered
  <2> QED
    BY <2>1 DEF Answer, StartJob, Only, GatewayInv, JobsInv
<1>6. CASE MoveNext(p) \/ MoveFails(p) \/ MoveUnanswered(p)
  <2>1. \E s : Moved(p, s)
    BY <1>6 DEF MoveNext, MoveFails, MoveUnanswered
  <2> QED
    BY <2>1 DEF Moved, Answer, StartJob, Only, GatewayInv, JobsInv
<1> QED
  BY <1>1, <1>2, <1>3, <1>4, <1>5, <1>6 DEF Mailbox, MailboxWorks, MailboxFails

LEMMA OthersAlone ==
  ASSUME GatewayInv, NEW p \in Procs,
         Refused(p) \/ Begin(p) \/ Receive(p) \/ Drop(p) \/ SendMail(p) \/ Settings(p)
  PROVE  Only(p)
<1>1. CASE Refused(p) \/ Begin(p) \/ Receive(p) \/ Drop(p)
  <2>1. \E j : StartJob(p, j)
    BY <1>1 DEF Refused, Begin, Receive, Drop
  <2> QED
    BY <2>1 DEF StartJob, Only, GatewayInv, JobsInv
<1>2. CASE SendMail(p) \/ Settings(p)
  <2>1. (\E s : Goto(p, s)) \/ \E rep : Answer(p, rep)
    BY <1>2 DEF SendMail, Prepare, Import, ImportUnanswered, Submit, SubmitUnanswered, SubmitRejected,
                SubmitSilent, SendFails, AckSubmission, RejectSubmission,
                Settings, SetOof, SetOofFails, GetOof, GetOofFails
  <2> QED
    BY <2>1 DEF Goto, Answer, StartJob, Only, GatewayInv, JobsInv
<1> QED
  BY <1>1, <1>2

\* A request of Mailboxes goes on by its own step, or is dropped.
LEMMA MailboxActs ==
  ASSUME GatewayInv, [Next]_vars, NEW p \in Procs, jobs'[p] # jobs[p],
         jobs[p].step \in {"list", "findNotes", "createNotes", "set", "move"}
  PROVE  Mailbox(p) \/ jobs'[p] = NoJob
<1>1. jobs' # jobs
  OBVIOUS
<1>2. ~Others /\ ~UNCHANGED vars
  BY <1>1 DEF Others, vars, mbVars
<1>3. PICK q \in Procs : \/ Refused(q) \/ Begin(q) \/ Receive(q) \/ Drop(q)
                         \/ Mailbox(q) \/ SendMail(q) \/ Settings(q)
  BY <1>2 DEF Next
<1>4. Only(q)
  BY <1>3, MailboxAlone, OthersAlone
<1>5. q = p
  BY <1>4 DEF Only
<1>6. ~Refused(p) /\ ~Begin(p) /\ ~Receive(p)
  BY NoJobIs DEF Refused, Begin, Receive, At
<1>7. ~SendMail(p) /\ ~Settings(p)
  BY DEF SendMail, Prepare, Import, ImportUnanswered, ImportMail, Submit, SubmitUnanswered, SubmitMail,
         SubmitRejected, SubmitSilent, SendFails, Settings, SetOof, SetOofFails, GetOof, GetOofFails, At
<1>8. Drop(p) => jobs'[p] = NoJob
  BY DEF Drop, StartJob, GatewayInv, JobsInv
<1> QED
  BY <1>3, <1>5, <1>6, <1>7, <1>8

\* A FolderSync is answered by one of these steps.
LEMMA ListerActs ==
  ASSUME GatewayInv, [Next]_vars, NEW p \in Procs, Lists(p)
  PROVE  /\ ListBoxes(p) \/ FindNotes(p) \/ CreateNotes(p) \/ CreateNotesUnanswered(p) \/ NotesFail(p)
         /\ jobs[p].step \in {"list", "findNotes", "createNotes"} /\ DOMAIN jobs = Procs
<1>1. /\ jobs[p].step \in {"list", "findNotes", "createNotes"}
      /\ jobs'[p].step = "done" /\ jobs'[p].reply.status = 1 /\ DOMAIN jobs = Procs
  BY DEF Lists, Listers, At, GatewayInv, JobsInv
<1>2. Mailbox(p)
  BY <1>1, MailboxActs, NoJobIs, ReplyIs
<1>3. ~SetBox(p) /\ ~MoveNext(p) /\ ~SetBoxFails(p) /\ ~MoveFails(p) /\ ~MoveUnanswered(p)
  BY <1>1 DEF SetBox, MoveNext, SetBoxFails, MoveFails, MoveUnanswered, At
<1>4. ~SetBoxUnanswered(p)
  BY <1>1, Zenon DEF SetBoxUnanswered, At
<1>5. ~ListFails(p)
  <2>1. ListFails(p) => jobs'[p].reply = Status(502)
    BY <1>1, AnsweredIs DEF ListFails, Answer, StartJob
  <2> QED
    BY <1>1, <2>1, ReplyIs
<1>6. ~FindNotesErrs(p)
  BY <1>1 DEF FindNotesErrs, GatewayInv, JobsInv, JobInv, JobTypes
<1> QED
  BY <1>1, <1>2, <1>3, <1>4, <1>5, <1>6 DEF Mailbox, MailboxWorks, MailboxFails

\* What the answer has besides what was listed.
LEMMA ListedIs ==
  ASSUME GatewayInv, NEW p \in Procs, NEW notes, Listed(p, notes)
  PROVE  jobs'[p].reply.list = jobs[p].reply.list \cup {[kind |-> "note", id |-> b] : b \in notes}
<1> DEFINE rep == [jobs[p].reply EXCEPT !.status = 1,
                     !.list = @ \cup {[kind |-> "note", id |-> b] : b \in notes}]
<1>1. JobInv(jobs[p]) /\ DOMAIN jobs = Procs
  BY DEF GatewayInv, JobsInv
<1>2. rep.list = jobs[p].reply.list \cup {[kind |-> "note", id |-> b] : b \in notes}
  BY <1>1 DEF JobInv
<1>3. StartJob(p, Answered(jobs[p].req, rep))
  BY DEF Listed, Answer
<1> HIDE DEF rep
<1>4. jobs'[p].reply = rep
  BY <1>1, <1>3, AnsweredIs DEF StartJob
<1> QED
  BY <1>2, <1>4

LEMMA ShownMore ==
  ASSUME NEW list, NEW notes, NEW b, b \notin notes
  PROVE  ShownAs(list \cup {[kind |-> "note", id |-> c] : c \in notes}, b) = ShownAs(list, b)
<1> DEFINE more == {[kind |-> "note", id |-> c] : c \in notes}
<1>1. \A d \in more : d.id # b
  OBVIOUS
<1> HIDE DEF more
<1>2. {d \in list \cup more : d.id = b /\ d.kind \in {"mail", "note"}}
        = {d \in list : d.id = b /\ d.kind \in {"mail", "note"}}
  BY <1>1
<1> QED
  BY <1>2 DEF ShownAs, more

LEMMA StepLists ==
  ASSUME GatewayInv, [Next]_vars, NEW p \in Procs, Lists(p),
         NEW b \in Boxes \ churn[p], box'[b] = box[b]
  PROVE  ShownAs(jobs'[p].reply.list, b) = KindOf(b)
<1>1. /\ ListBoxes(p) \/ FindNotes(p) \/ CreateNotes(p) \/ CreateNotesUnanswered(p) \/ NotesFail(p)
      /\ DOMAIN jobs = Procs /\ jobs'[p].step = "done" /\ ServerTypes
  BY ListerActs DEF Lists, At, GatewayInv
<1>2. CASE ListBoxes(p)
  <2>1. \E c \in Listing : c.kind = "note"
    BY <1>1, <1>2 DEF ListBoxes, GatewayInv, JobsInv, JobInv, JobTypes
  <2>2. Answer(p, [Blank EXCEPT !.status = 1, !.list = Listing])
    BY <1>2, <2>1 DEF ListBoxes
  <2> DEFINE rep == [Blank EXCEPT !.status = 1, !.list = Listing]
  <2>3. rep.list = Listing
    BY ReplyIs
  <2>4. StartJob(p, Answered(jobs[p].req, rep))
    BY <2>2 DEF Answer
  <2> HIDE DEF rep
  <2>5. jobs'[p].reply = rep
    BY <1>1, <2>4, AnsweredIs DEF StartJob
  <2>6. jobs'[p].reply.list = Listing
    BY <2>3, <2>5
  <2> QED
    BY <1>1, <2>6, ListingIs
<1>3. CASE ~ListBoxes(p)
  <2>1. jobs[p].step \in {"findNotes", "createNotes"}
    BY <1>1, <1>3 DEF FindNotes, CreateNotes, CreateNotesUnanswered, NotesFail, At
  <2>2. /\ ShownAs(jobs[p].reply.list, b) = KindOf(b)
        /\ \A c \in jobs[p].reply.list : c.kind # "note"
    BY <2>1 DEF GatewayInv, ListInv
  <2>3. PICK notes : Listed(p, notes) /\ b \notin notes
    <3>1. CASE FindNotes(p)
      <4>1. Listed(p, NotesBoxes)
        BY <1>1, <3>1 DEF FindNotes, GatewayInv, JobsInv, JobInv, JobTypes
      <4>2. "note" \notin ShownAs(jobs[p].reply.list, b)
        BY <2>2 DEF ShownAs
      <4>3. b \notin NotesBoxes
        BY <1>1, <2>2, <4>2, ListingIs DEF KindOf, NotesBoxes, Live
      <4> QED
        BY <4>1, <4>3
    <3>2. CASE CreateNotes(p)
      <4>1. Listed(p, made' \ made) /\ CreateBox(Top, NotesName)
        BY <3>2 DEF CreateNotes
      <4>2. b \notin made' \ made
        <5>1. CASE CreateResult(Top, NotesName) = "created"
          <6>1. /\ NextBox \in Boxes /\ box[NextBox] = NoBox
                /\ box' = [box EXCEPT ![NextBox] = [parent |-> Top, name |-> NotesName]]
                /\ made' = made \cup {NextBox}
            BY <1>1, <4>1, <5>1, CreateBoxStep
          <6>2. [parent |-> Top, name |-> NotesName] # NoBox
            BY DEF NoBox, NotesName
          <6>3. b # NextBox
            BY <1>1, <6>1, <6>2 DEF ServerTypes
          <6> QED
            BY <6>1, <6>3
        <5>2. CASE CreateResult(Top, NotesName) # "created"
          BY <4>1, <5>2 DEF CreateBox, server
        <5> QED
          BY <5>1, <5>2
      <4> QED
        BY <4>1, <4>2
    <3>3. CASE CreateNotesUnanswered(p) \/ NotesFail(p)
      BY <3>3 DEF CreateNotesUnanswered, NotesFail
    <3> QED
      BY <1>1, <1>3, <3>1, <3>2, <3>3
  <2>4. jobs'[p].reply.list = jobs[p].reply.list \cup {[kind |-> "note", id |-> c] : c \in notes}
    BY <2>3, ListedIs
  <2> QED
    BY <2>2, <2>3, <2>4, ShownMore
<1> QED
  BY <1>2, <1>3

\* Every FolderSync answer shows the mailboxes nobody changed as they are, once each.
THEOREM ListingIsTrue == Spec => ListingTrue
<1>1. GatewayInv /\ [Next]_vars => [\A p \in Procs : Lists(p) => \A b \in Boxes \ churn[p] :
       box'[b] = box[b] => ShownAs(jobs'[p].reply.list, b) = KindOf(b)]_vars
  BY StepLists
<1> QED
  BY <1>1, GatewayInvariant, PTL DEF Spec, ListingTrue

\* A FolderSync that is excused from nothing ends with a Notes folder.
LEMMA StepShows ==
  ASSUME GatewayInv, [Next]_vars, NEW p \in Procs \ (excused \cup excused'), Lists(p)
  PROVE  \E b \in Boxes : [kind |-> "note", id |-> b] \in jobs'[p].reply.list /\ box'[b] = TopNotes
<1>1. /\ ListBoxes(p) \/ FindNotes(p) \/ CreateNotes(p) \/ CreateNotesUnanswered(p) \/ NotesFail(p)
      /\ DOMAIN jobs = Procs /\ jobs'[p].step = "done" /\ ServerTypes
  BY ListerActs DEF Lists, At, GatewayInv
<1>2. CASE ListBoxes(p)
  <2>1. PICK c \in Listing : c.kind = "note"
    BY <1>1, <1>2 DEF ListBoxes, GatewayInv, JobsInv, JobInv, JobTypes
  <2>2. PICK b \in Live : c = [kind |-> "note", id |-> b] /\ is_notes(b)
    BY <2>1 DEF Listing
  <2>3. b \in Boxes /\ box'[b] = TopNotes
    <3>1. b \in NotesBoxes
      BY <2>2 DEF NotesBoxes
    <3> QED
      BY <1>1, <1>2, <3>1, ListingIs DEF ListBoxes, server
  <2> DEFINE rep == [Blank EXCEPT !.status = 1, !.list = Listing]
  <2>4. rep.list = Listing
    BY ReplyIs
  <2>5. StartJob(p, Answered(jobs[p].req, rep))
    BY <1>2, <2>1 DEF ListBoxes, Answer
  <2> HIDE DEF rep
  <2>6. jobs'[p].reply = rep
    BY <1>1, <2>5, AnsweredIs DEF StartJob
  <2> QED
    BY <2>1, <2>2, <2>3, <2>4, <2>6
<1>3. CASE FindNotes(p)
  <2>1. Listed(p, NotesBoxes) /\ NotesBoxes # {}
    BY <1>1, <1>3 DEF FindNotes, GatewayInv, JobsInv, JobInv, JobTypes
  <2>2. jobs'[p].reply.list = jobs[p].reply.list \cup {[kind |-> "note", id |-> b] : b \in NotesBoxes}
    BY <2>1, ListedIs
  <2>3. PICK b \in NotesBoxes : TRUE
    BY <2>1
  <2>4. b \in Boxes /\ box'[b] = TopNotes
    BY <1>1, <1>3, ListingIs DEF FindNotes, server
  <2> QED
    BY <2>2, <2>3, <2>4
<1>4. CASE CreateNotes(p)
  <2>1. /\ Listed(p, made' \ made) /\ CreateBox(Top, NotesName)
        /\ FollowWith(IF made = Boxes THEN {p} ELSE {}) /\ At(p, "createNotes")
    BY <1>4 DEF CreateNotes
  <2>2. made # Boxes
    BY <2>1 DEF FollowWith
  <2>3. NotesBoxes = {}
    BY <2>1 DEF GatewayInv, ListInv
  <2>4. ~NameTaken(Top, NotesName, Top)
    <3>1. \A o \in Live : box[o] # TopNotes
      BY <1>1, <2>3, ListingIs DEF Live
    <3> QED
      BY <3>1 DEF NameTaken, TopNotes
  <2>5. CreateResult(Top, NotesName) = "created"
    BY <2>2, <2>4 DEF CreateResult
  <2>6. /\ NextBox \in Boxes \ made
        /\ box' = [box EXCEPT ![NextBox] = [parent |-> Top, name |-> NotesName]]
        /\ made' = made \cup {NextBox}
    BY <1>1, <2>1, <2>5, CreateBoxStep
  <2>7. box'[NextBox] = TopNotes
    BY <1>1, <2>6 DEF TopNotes, ServerTypes
  <2>8. jobs'[p].reply.list
          = jobs[p].reply.list \cup {[kind |-> "note", id |-> b] : b \in made' \ made}
    BY <2>1, ListedIs
  <2>9. NextBox \in made' \ made
    BY <2>6
  <2> QED
    BY <2>6, <2>7, <2>8, <2>9
<1>5. ~CreateNotesUnanswered(p) /\ ~NotesFail(p)
  BY DEF CreateNotesUnanswered, NotesFail, FollowWith
<1> QED
  BY <1>1, <1>2, <1>3, <1>4, <1>5

\* Every FolderSync answer has the Notes folder, unless a call failed or it was
\* created by somebody else meanwhile.
THEOREM NotesAreShown == Spec => NotesShown
<1>1. GatewayInv /\ [Next]_vars =>
        [\A p \in Procs \ (excused \cup excused') : Lists(p) =>
           \E b \in Boxes : /\ [kind |-> "note", id |-> b] \in jobs'[p].reply.list
                            /\ box'[b] = TopNotes \/ b \in churn[p]]_vars
  BY StepShows
<1> QED
  BY <1>1, GatewayInvariant, PTL DEF Spec, NotesShown

-----------------------------------------------------------------------------
(* Folder commands *)

\* A folder command is answered by its call.
LEMMA SetterActs ==
  ASSUME GatewayInv, [Next]_vars, NEW p \in Procs, At(p, "set"), At(p, "done")'
  PROVE  /\ SetBox(p) \/ SetBoxFails(p) \/ SetBoxUnanswered(p) \/ jobs'[p] = NoJob
         /\ DOMAIN jobs = Procs
<1>1. Mailbox(p) \/ jobs'[p] = NoJob
  BY MailboxActs DEF At
<1>2. /\ ~ListBoxes(p) /\ ~FindNotes(p) /\ ~CreateNotes(p) /\ ~MoveNext(p) /\ ~ListFails(p)
      /\ ~FindNotesErrs(p) /\ ~NotesFail(p) /\ ~CreateNotesUnanswered(p) /\ ~MoveFails(p) /\ ~MoveUnanswered(p)
  BY DEF ListBoxes, FindNotes, FindNotesErrs, CreateNotes, MoveNext, ListFails, NotesFail, CreateNotesUnanswered,
         MoveFails, MoveUnanswered, At
<1> QED
  BY <1>1, <1>2 DEF Mailbox, MailboxWorks, MailboxFails, GatewayInv, JobsInv

LEMMA StepStatus ==
  ASSUME GatewayInv, [Next]_vars, NEW p \in Procs, At(p, "set"), At(p, "done")',
         NEW req, req = jobs[p].req, NEW s, s = jobs'[p].reply.status,
         NEW b, b = IF req.op = "FolderCreate" THEN jobs'[p].reply.id ELSE req.id.id
  PROVE  /\ s \in 2..5 => box' = box
         /\ s = 1 => IF req.op = "FolderDelete" THEN box'[b] = NoBox
                     ELSE box'[b] = [parent |-> req.parent.id, name |-> req.name]
         /\ s = 2 => b \in Protected \/ NameTaken(req.parent.id, req.name, b)
         /\ s = 4 => b \notin Live
         /\ s = 5 => req.parent.id \notin Live \cup {Top}
<1>1. /\ ServerTypes /\ DOMAIN jobs = Procs
      /\ req.op \in {"FolderCreate", "FolderUpdate", "FolderDelete"}
      /\ req.op # "FolderDelete" => req.name \in Names \cup {NotesName}
  BY SetRequest, SetterActs
<1>2. CASE FolderCreate(p, req)
  <2> DEFINE r == CreateResult(req.parent.id, req.name)
             c == StatusOf(r, create_status)
             rep == [Status(c) EXCEPT !.id = IF made' # made THEN NextBox ELSE Top]
  <2>1. rep.status = c /\ rep.id = IF made' # made THEN NextBox ELSE Top
    BY ReplyIs
  <2>2. StartJob(p, Answered(jobs[p].req, rep)) /\ req.op = "FolderCreate"
    BY <1>2 DEF FolderCreate, Answer
  <2>3. c = IF r = "created" THEN 1 ELSE IF r = "alreadyExists" THEN 2
            ELSE IF r = "invalidProperties" THEN 5 ELSE 6
    BY StatusOfIs
  <2>4. CreateBox(req.parent.id, req.name)
    BY <1>2 DEF FolderCreate
  <2>5. /\ r # "created" => UNCHANGED server
        /\ r = "created" =>
              /\ NextBox \in Boxes \ made
              /\ box' = [box EXCEPT ![NextBox] = [parent |-> req.parent.id, name |-> req.name]]
              /\ made' = made \cup {NextBox}
    BY <1>1, <2>2, <2>4, CreateBoxStep
  <2>6. r = "alreadyExists" => NameTaken(req.parent.id, req.name, Top)
    BY DEF CreateResult
  <2>7. r = "invalidProperties" => req.parent.id \notin Live \cup {Top}
    BY DEF CreateResult
  <2> HIDE DEF rep, c, r
  <2>8. jobs'[p].reply = rep
    BY <1>1, <2>2, AnsweredIs DEF StartJob
  <2>9. s = c /\ b = IF made' # made THEN NextBox ELSE Top
    BY <2>1, <2>2, <2>8
  <2>10. CASE r = "created"
    <3>1. s = 1 /\ b = NextBox /\ req.op # "FolderDelete"
      BY <2>2, <2>3, <2>5, <2>9, <2>10
    <3>2. box'[b] = [parent |-> req.parent.id, name |-> req.name]
      BY <1>1, <2>5, <2>10, <3>1 DEF ServerTypes
    <3> QED
      BY <3>1, <3>2
  <2>11. CASE r # "created"
    <3>1. box' = box /\ b = Top /\ s # 1 /\ s # 4
      BY <2>3, <2>5, <2>9, <2>11 DEF server
    <3>2. (s = 2 => r = "alreadyExists") /\ (s = 5 => r = "invalidProperties")
      BY <2>3, <2>9
    <3> QED
      BY <2>6, <2>7, <3>1, <3>2
  <2> QED
    BY <2>10, <2>11
<1>3. CASE FolderUpdate(p, req)
  <2> DEFINE r == UpdateResult(req.id.id, req.parent.id, req.name)
             c == StatusOf(r, update_status)
  <2>1. StartJob(p, Answered(jobs[p].req, Status(c))) /\ req.op = "FolderUpdate"
    BY <1>3 DEF FolderUpdate, Answer
  <2>2. c = IF r = "updated" THEN 1 ELSE IF r \in {"forbidden", "alreadyExists"} THEN 2
            ELSE IF r = "notFound" THEN 4 ELSE 6
    BY StatusOfIs
  <2>3. UpdateBox(req.id.id, req.parent.id, req.name)
    BY <1>3 DEF FolderUpdate
  <2>4. b = req.id.id
    BY <2>1
  <2>5. /\ r # "updated" => UNCHANGED server
        /\ r = "updated" =>
             b \in Live /\ box' = [box EXCEPT ![b] = [parent |-> req.parent.id, name |-> req.name]]
    BY <1>1, <2>1, <2>3, <2>4, UpdateBoxStep
  <2>6. /\ r = "forbidden" => b \in Protected
        /\ r = "alreadyExists" => NameTaken(req.parent.id, req.name, b)
        /\ r = "notFound" => b \notin Live
    BY <2>4 DEF UpdateResult
  <2> HIDE DEF c, r
  <2>7. s = c
    BY <1>1, <2>1, AnsweredIs, ReplyIs DEF StartJob
  <2>8. CASE r = "updated"
    <3>1. s = 1 /\ req.op # "FolderDelete"
      BY <2>1, <2>2, <2>7, <2>8
    <3>2. box'[b] = [parent |-> req.parent.id, name |-> req.name]
      BY <1>1, <2>5, <2>8 DEF ServerTypes, Live
    <3> QED
      BY <3>1, <3>2
  <2>9. CASE r # "updated"
    <3>1. box' = box /\ s # 1 /\ s # 5
      BY <2>2, <2>5, <2>7, <2>9 DEF server
    <3>2. (s = 2 => r \in {"forbidden", "alreadyExists"}) /\ (s = 4 => r = "notFound")
      BY <2>2, <2>7
    <3> QED
      BY <2>6, <3>1, <3>2
  <2> QED
    BY <2>8, <2>9
<1>4. CASE FolderDelete(p, req)
  <2> DEFINE r == DestroyResult(req.id.id)
             c == StatusOf(r, delete_status)
  <2>1. StartJob(p, Answered(jobs[p].req, Status(c))) /\ req.op = "FolderDelete"
    BY <1>4 DEF FolderDelete, Answer
  <2>2. c = IF r = "destroyed" THEN 1 ELSE IF r = "forbidden" THEN 3
            ELSE IF r = "notFound" THEN 4 ELSE 6
    BY StatusOfIs
  <2>3. DestroyBox(req.id.id)
    BY <1>4 DEF FolderDelete
  <2>4. b = req.id.id
    BY <2>1
  <2>5. /\ r # "destroyed" => UNCHANGED server
        /\ r = "destroyed" => b \in Live /\ box' = [box EXCEPT ![b] = NoBox]
    BY <1>1, <2>3, <2>4, DestroyBoxStep
  <2>6. r = "notFound" => b \notin Live
    BY <2>4 DEF DestroyResult
  <2> HIDE DEF c, r
  <2>7. s = c
    BY <1>1, <2>1, AnsweredIs, ReplyIs DEF StartJob
  <2>8. CASE r = "destroyed"
    <3>1. s = 1 /\ box'[b] = NoBox
      BY <1>1, <2>2, <2>5, <2>7, <2>8 DEF ServerTypes, Live
    <3> QED
      BY <2>1, <3>1
  <2>9. CASE r # "destroyed"
    <3>1. box' = box /\ s # 1 /\ s # 2 /\ s # 5 /\ (s = 4 => r = "notFound")
      BY <2>2, <2>5, <2>7, <2>9 DEF server
    <3> QED
      BY <2>6, <3>1
  <2> QED
    BY <2>8, <2>9
<1>5. CASE SetBoxFails(p) \/ SetBoxUnanswered(p)
  <2>1. Answer(p, Status(6))
    BY <1>5, Zenon DEF SetBoxFails, SetBoxUnanswered
  <2>2. s = 6
    BY <1>1, <2>1, AnsweredIs, ReplyIs DEF Answer, StartJob
  <2> QED
    BY <2>2
<1>6. CASE jobs'[p] = NoJob
  <2>1. s = 0
    BY <1>6, NoJobIs, ReplyIs
  <2> QED
    BY <2>1
<1> QED
  BY <1>2, <1>3, <1>4, <1>5, <1>6, SetterActs DEF SetBox

\* The status of a folder command tells what became of it.
THEOREM StatusTells == Spec => FolderStatus
<1>1. GatewayInv /\ [Next]_vars =>
        [\A p \in Procs : At(p, "set") /\ At(p, "done")' =>
           LET req == jobs[p].req
               s   == jobs'[p].reply.status
               b   == IF req.op = "FolderCreate" THEN jobs'[p].reply.id ELSE req.id.id
           IN  /\ s \in 2..5 => box' = box
               /\ s = 1 => IF req.op = "FolderDelete" THEN box'[b] = NoBox
                           ELSE box'[b] = [parent |-> req.parent.id, name |-> req.name]
               /\ s = 2 => b \in Protected \/ NameTaken(req.parent.id, req.name, b)
               /\ s = 4 => b \notin Live
               /\ s = 5 => req.parent.id \notin Live \cup {Top}]_vars
  BY StepStatus
<1> QED
  BY <1>1, GatewayInvariant, PTL DEF Spec, FolderStatus

-----------------------------------------------------------------------------
(* MoveItems *)

LEMMA StepMoves ==
  ASSUME GatewayInv, [Next]_vars, NEW p \in Procs, Moves(p),
         Movable(Head(jobs[p].todo), jobs[p].req.dst)
  PROVE  jobs[p].req.dst.id \in at'[Head(jobs[p].todo)]
<1> DEFINE old == jobs[p].reply.moved
           new == jobs'[p].reply.moved
<1>1. /\ At(p, "move") /\ jobs[p].step = "move" /\ Len(new) > Len(old) /\ new[Len(new)] = 3
      /\ old \in Seq({3, 4, 5}) /\ ServerTypes /\ DOMAIN jobs = Procs
  BY DEF Moves, At, GatewayInv, JobsInv, JobInv
<1>2. Len(old) \in Nat
  BY <1>1, LenProperties
<1>3. jobs'[p] # jobs[p]
  <2>1. jobs'[p] = jobs[p] => Len(new) = Len(old)
    OBVIOUS
  <2> HIDE DEF old, new
  <2> QED
    BY <1>1, <1>2, <2>1
<1>4. jobs'[p] # NoJob
  <2>1. jobs'[p] = NoJob => Len(new) = 0
    BY NoJobIs, ReplyIs, EmptySeq
  <2> HIDE DEF old, new
  <2> QED
    BY <1>1, <1>2, <2>1
<1>5. Mailbox(p)
  BY <1>1, <1>3, <1>4, MailboxActs
<1>6. /\ ~ListBoxes(p) /\ ~FindNotes(p) /\ ~CreateNotes(p) /\ ~SetBox(p) /\ ~ListFails(p)
      /\ ~FindNotesErrs(p) /\ ~NotesFail(p) /\ ~CreateNotesUnanswered(p) /\ ~SetBoxFails(p)
  BY <1>1 DEF ListBoxes, FindNotes, FindNotesErrs, CreateNotes, SetBox, ListFails, NotesFail, CreateNotesUnanswered,
         SetBoxFails, At
<1>7. ~SetBoxUnanswered(p)
  BY <1>1, Zenon DEF SetBoxUnanswered, At
<1>8. /\ MoveNext(p) \/ MoveFails(p) \/ MoveUnanswered(p)
      /\ UNCHANGED <<sendVars, oofVars>>
  BY <1>5, <1>6, <1>7 DEF Mailbox, MailboxWorks, MailboxFails
<1>9. PICK s \in {3, 4, 5} :
        /\ Moved(p, s) /\ FollowWith({})
        /\ s = 3 => MoveEmail(Head(jobs[p].todo), jobs[p].req.src, jobs[p].req.dst)
  BY <1>8 DEF MoveNext, MoveFails, MoveUnanswered, Follow
<1>10. new = Append(old, s)
  <2>1. ServerTypes'
    BY StepInv DEF GatewayInv
  <2> QED
    BY <1>1, <1>8, <1>9, <2>1, MovedStep
<1>11. s = 3
  <2> HIDE DEF old, new
  <2>1. Len(new) = Len(old) + 1 /\ new[Len(old) + 1] = s
    BY <1>1, <1>9, <1>10, AppendProperties
  <2> QED
    BY <1>1, <2>1
<1>12. Head(jobs[p].todo) \in Msgs
  BY <1>1, OrderIs DEF GatewayInv, JobsInv, JobInv, JobTypes
<1> QED
  BY <1>1, <1>9, <1>11, <1>12, MoveEmailStep

\* An email whose move is answered with success is in the destination.
THEOREM MovedAreThere == Spec => MovedIsThere
<1>1. GatewayInv /\ [Next]_vars =>
        [\A p \in Procs : Moves(p) =>
           LET m == Head(jobs[p].todo) IN
           Movable(m, jobs[p].req.dst) => jobs[p].req.dst.id \in at'[m]]_vars
  BY StepMoves
<1> QED
  BY <1>1, GatewayInvariant, PTL DEF Spec, MovedIsThere
=============================================================================
