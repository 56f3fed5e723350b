----------------------------- MODULE NoteProofs -----------------------------
(***************************************************************************)
(* For every set of requests, notes, emails, bodies and faults: no overlap *)
(* and no failure loses the newest revision of a note, and a note keeps    *)
(* its id.  NoteInv is inductive; both follow from it.  A note has one     *)
(* email, and a deleted one has none, but for what an edit is about to     *)
(* clean up and for the named ways to leave one behind: EditInv is         *)
(* inductive together with NoteInv.  A step that changes no email and lets *)
(* no edit begin keeps it by KeepStep; the others add an email, an id or   *)
(* an edit, and have a lemma each.                                         *)
(***************************************************************************)
EXTENDS NoteStore, FiniteSetTheorems, WellFoundedInduction, TLAPS

-----------------------------------------------------------------------------
(* Numbers *)

\* Least is what its name says: the numbers below some element are a smallest set.
LEMMA LeastIs ==
  ASSUME NEW S \in SUBSET Nat, IsFiniteSet(S), S # {}
  PROVE  Least(S) \in S /\ \A o \in S : Least(S) <= o
<1> DEFINE Below(m) == {o \in S : o < m}
           T == {Below(m) : m \in S}
<1>1. T \subseteq FiniteSubsetsOf(S) /\ T # {}
  <2>1. \A m \in S : Below(m) \in SUBSET S /\ IsFiniteSet(Below(m))
    BY FS_Subset
  <2> QED
    BY <2>1 DEF FiniteSubsetsOf
<1>2. PICK x \in T : \A y \in T : ~(<<y, x>> \in StrictSubsetOrdering(S))
  <2> HIDE DEF T
  <2> QED
    BY <1>1, FS_StrictSubsetOrderingWellFounded, WFMin
<1>3. PICK m \in S : x = Below(m)
  BY <1>2
<1>4. \A o \in S : m <= o
  <2> SUFFICES ASSUME NEW o \in S, ~(m <= o) PROVE FALSE
    OBVIOUS
  <2>1. m \in Nat /\ o \in Nat /\ o < m /\ \A q \in S : q \in Nat
    OBVIOUS
  <2>2. ASSUME NEW q \in Below(o) PROVE q \in Below(m)
    <3>1. q \in S /\ q \in Nat /\ q < o
      BY <2>1
    <3> QED
      BY <2>1, <3>1
  <2>3. o \in Below(m) /\ o \notin Below(o)
    BY <2>1
  <2>4. <<Below(o), Below(m)>> \in StrictSubsetOrdering(S)
    BY <2>2, <2>3 DEF StrictSubsetOrdering
  <2> QED
    BY <1>2, <1>3, <2>4
<1> QED
  BY <1>4 DEF Least

\* The next id is one that was not given yet.
LEMMA NextEmailIsNew ==
  ASSUME NotesTypeOK, born # EmailIds
  PROVE  NextEmail \in EmailIds /\ NextEmail \notin born /\ NextEmail # None
<1> DEFINE F == EmailIds \ born
<1>1. F \in SUBSET Nat /\ F # {} /\ IsFiniteSet(F)
  BY FS_Subset, IdsAssumption, SizesAssumption DEF NotesTypeOK
<1>2. Least(F) \in F
  <2> HIDE DEF F
  <2> QED
    BY <1>1, LeastIs
<1> QED
  BY <1>2, IdsAssumption DEF NextEmail, None

\* An email that is imported is not later than the number of emails by then.
LEMMA ClockIsBounded ==
  ASSUME NotesTypeOK, SecInv, born # EmailIds, NEW s \in Seconds
  PROVE  /\ s \in Secs
         /\ IsFiniteSet(born \cup {NextEmail})
         /\ Cardinality(born \cup {NextEmail}) = Cardinality(born) + 1
         /\ s <= Cardinality(born) + 1
         /\ Cardinality(born) \in Nat
         /\ LastSecond \in Nat /\ \A e \in born : mail[e].sec <= LastSecond
<1> DEFINE c == Cardinality(born)
           n == Cardinality(EmailIds)
           G == {t \in Secs : \A e \in born : mail[e].sec <= t}
<1>1. IsFiniteSet(born) /\ born \cup {NextEmail} \in SUBSET EmailIds /\ NextEmail \notin born
  BY FS_Subset, NextEmailIsNew, SizesAssumption DEF NotesTypeOK
<1>2. c \in Nat /\ n \in Nat
  BY <1>1, FS_CardinalityType, SizesAssumption
<1>3. /\ IsFiniteSet(born \cup {NextEmail})
      /\ Cardinality(born \cup {NextEmail}) = c + 1
  BY <1>1, FS_AddElement
<1>4. c + 1 <= n
  BY <1>1, <1>3, FS_Subset, SizesAssumption
<1>5. c \in G
  BY <1>2, <1>4 DEF Secs, SecInv
<1>6. G \in SUBSET Nat /\ IsFiniteSet(G)
  <2>1. G \in SUBSET (0..n)
    BY DEF Secs
  <2>2. IsFiniteSet(0..n)
    BY <1>2, FS_Interval
  <2> HIDE DEF G
  <2>3. IsFiniteSet(G)
    BY <2>1, <2>2, FS_Subset
  <2> QED
    BY <1>2, <2>1, <2>3
<1>7. Least(G) \in Nat /\ Least(G) <= c /\ Least(G) \in G
  <2> HIDE DEF G, c
  <2> QED
    BY <1>5, <1>6, LeastIs
<1>8. LastSecond = Least(G)
  BY DEF LastSecond
<1>9. s \in {LastSecond, LastSecond + 1}
  BY DEF Seconds
<1>10. \A e \in born : mail[e].sec <= LastSecond
  BY <1>7, <1>8
<1> HIDE DEF G
<1> QED
  BY <1>2, <1>3, <1>4, <1>7, <1>8, <1>9, <1>10 DEF Secs

-----------------------------------------------------------------------------
(* Steps that change the jobs and take emails away *)

LEMMA QuietStep ==
  ASSUME NoteInv,
         born' = born, mail' = mail, newest' = newest, raced' = raced,
         stored' \subseteq stored, given' \subseteq NoteIds,
         gone \subseteq gone', gone' \subseteq NoteIds,
         messy' \subseteq NoteIds, deleted' \subseteq NoteIds, overlooked' \subseteq NoteIds,
         jobs' \in [Procs -> Job],
         \A q \in Procs : JobInv(jobs'[q]),
         \A q \in Procs : \A e \in EmailIds : Adopting(jobs'[q], e) => Adopting(jobs[q], e),
         \A n \in NoteIds \ Losable : n \notin gone' /\ newest[n] # None => newest[n] \in stored'
  PROVE  NoteInv'
<1>1. NotesTypeOK'
  BY DEF NoteInv, NotesTypeOK
<1>2. TagsInv' /\ SecInv'
  BY DEF NoteInv, TagsInv, SecInv
<1>3. RaceInv'
  BY DEF NoteInv, RaceInv, Adopting
<1>4. \A q \in Procs : JobInv(jobs[q])'
  BY DEF JobInv, Adopting
<1>5. Losable \cup gone' \subseteq Losable'
  BY DEF Losable
<1>6. NewestSurvives'
  BY <1>5 DEF NewestSurvives
<1> QED
  BY <1>1, <1>2, <1>3, <1>4, <1>6 DEF NoteInv

\* A request that ends its function keeps what it looked up.
LEMMA FinishStep ==
  ASSUME NoteInv, NEW p \in Procs, NEW ok \in BOOLEAN, Finish(p, ok)
  PROVE  /\ jobs' \in [Procs -> Job]
         /\ \A q \in Procs : JobInv(jobs'[q])
         /\ \A q \in Procs : \A e \in EmailIds : Adopting(jobs'[q], e) => Adopting(jobs[q], e)
<1> DEFINE j == [jobs[p] EXCEPT !.step = "done", !.ok = ok]
<1>1. jobs \in [Procs -> Job] /\ jobs[p] \in Job /\ \A q \in Procs : JobInv(jobs[q])
  BY DEF NoteInv, NotesTypeOK
<1>2. /\ j \in Job /\ j.op = jobs[p].op /\ j.step = "done" /\ j.note = jobs[p].note
      /\ j.old = jobs[p].old
  BY <1>1 DEF Job, Steps
<1>3. jobs' = [jobs EXCEPT ![p] = j]
  BY <1>1 DEF Finish, Job
<1>4. JobInv(j) /\ \A e : ~Adopting(j, e)
  BY <1>1, <1>2 DEF JobInv, Adopting
<1> HIDE DEF j
<1> QED
  BY <1>1, <1>2, <1>3, <1>4

\* A request that starts a function has looked nothing up, or what it keeps is in order.
LEMMA StartStep ==
  ASSUME NoteInv, NEW p \in Procs, NEW j \in Job, StartJob(p, j),
         JobInv(j), \A e \in EmailIds : ~Adopting(j, e)
  PROVE  /\ jobs' \in [Procs -> Job]
         /\ \A q \in Procs : JobInv(jobs'[q])
         /\ \A q \in Procs : \A e \in EmailIds : Adopting(jobs'[q], e) => Adopting(jobs[q], e)
<1>1. jobs \in [Procs -> Job] /\ \A q \in Procs : JobInv(jobs[q])
  BY DEF NoteInv, NotesTypeOK
<1> QED
  BY <1>1 DEF StartJob

LEMMA NoJobIsJob ==
  NoJob \in Job /\ \A j \in Job : j.op \in Ops
<1>1. None \notin NoteIds \cup EmailIds /\ NoHash \in Hash
  <2>1. Cardinality(EmailIds) \in Nat
    BY FS_CardinalityType, SizesAssumption
  <2> QED
    BY <2>1, IdsAssumption DEF None, NoHash, Hash, Secs
<1> QED
  BY <1>1 DEF NoJob, Job, Ops, Steps, None

\* A job that has looked nothing up and adopts nothing.
LEMMA FreshJob ==
  ASSUME NEW j \in Job, j.old = None, j.step # "cleanup", j.step # "adopt",
         j.note \in NoteIds \/ j.step \in {"query", "done"}
  PROVE  JobInv(j) /\ \A e \in EmailIds : ~Adopting(j, e)
BY DEF JobInv, Adopting

\* A lookup finds an email of the note, or none, be it for an error.
LEMMA ResolveStep ==
  ASSUME NoteInv, NEW p \in Procs, Resolve(p) \/ ResolveErrs(p)
  PROVE  NoteInv'
<1> DEFINE n == jobs[p].note
<1>1. jobs[p] \in Job /\ jobs \in [Procs -> Job] /\ JobInv(jobs[p]) /\ n \in NoteIds
  BY DEF Resolve, ResolveErrs, NoteInv, NotesTypeOK, JobInv
<1>2. PICK old \in Backing(n) \cup {None} :
        jobs' = [jobs EXCEPT ![p].old = old, ![p].step = AfterResolve(jobs[p].op, old)]
  BY DEF Resolve, ResolveErrs
<1> DEFINE j == [jobs[p] EXCEPT !.old = old, !.step = AfterResolve(jobs[p].op, old)]
<1>3. AfterResolve(jobs[p].op, old) \in {"import", "destroy", "fetch", "done"}
  BY DEF AfterResolve
<1>4. old # None => old \in born /\ old \in EmailIds /\ n \in mail[old].tags
  BY DEF Backing, NoteInv, NotesTypeOK
<1>5. /\ j \in Job /\ j.op = jobs[p].op /\ j.note = n /\ j.old = old
      /\ j.step \in {"import", "destroy", "fetch", "done"}
  BY <1>1, <1>3, <1>4 DEF Job, Steps
<1>6. StartJob(p, j)
  BY <1>1, <1>2 DEF StartJob, Job
<1>7. JobInv(j) /\ \A e \in EmailIds : ~Adopting(j, e)
  BY <1>1, <1>4, <1>5 DEF JobInv, Adopting
<1> HIDE DEF j
<1>8. /\ jobs' \in [Procs -> Job]
      /\ \A q \in Procs : JobInv(jobs'[q])
      /\ \A q \in Procs : \A e \in EmailIds : Adopting(jobs'[q], e) => Adopting(jobs[q], e)
  BY <1>5, <1>6, <1>7, StartStep
<1>9. messy' \subseteq NoteIds /\ deleted' \subseteq NoteIds /\ overlooked' \subseteq NoteIds
  BY <1>1 DEF Resolve, ResolveErrs, NoteInv, NotesTypeOK
<1>10. UNCHANGED <<mailbox, newest, gone, raced>>
  BY DEF Resolve, ResolveErrs
<1> QED
  BY <1>8, <1>9, <1>10, QuietStep DEF mailbox, NoteInv, NotesTypeOK, NewestSurvives

\* Failures, and calls that only read.
LEMMA FailureStep ==
  ASSUME NoteInv, NEW p \in Procs,
         \/ ResolveFails(p) \/ ImportFails(p) \/ CleanupFails(p) \/ DestroyFails(p)
         \/ FetchFails(p) \/ ListFails(p) \/ ListErrs(p) \/ AdoptFails(p)
  PROVE  NoteInv'
<1>1. \E ok \in BOOLEAN : Finish(p, ok)
  BY DEF ResolveFails, ImportFails, CleanupFails, DestroyFails, FetchFails, ListFails, ListErrs,
         AdoptFails
<1>2. UNCHANGED <<mailbox, newest, gone, deleted, overlooked, raced>>
  BY DEF ResolveFails, ImportFails, CleanupFails, DestroyFails, FetchFails, ListFails, ListErrs,
         AdoptFails, notesHistory
<1>3. messy' \subseteq NoteIds
  <2>1. At(p, "save", "cleanup") => jobs[p].note \in NoteIds
    BY DEF At, NoteInv, JobInv
  <2> QED
    BY <2>1 DEF ResolveFails, ImportFails, CleanupFails, DestroyFails, FetchFails, ListFails,
                ListErrs, AdoptFails, notesHistory, NoteInv, NotesTypeOK
<1> QED
  BY <1>1, <1>2, <1>3, FinishStep, QuietStep DEF mailbox, NoteInv, NotesTypeOK, NewestSurvives

LEMMA FetchStep ==
  ASSUME NoteInv, NEW p \in Procs, Fetch(p)
  PROVE  NoteInv'
<1> DEFINE em == IF jobs[p].old \in stored THEN jobs[p].old ELSE None
           j  == [jobs[p] EXCEPT !.step = "done", !.email = em]
<1>1. jobs[p] \in Job /\ jobs \in [Procs -> Job] /\ JobInv(jobs[p])
  BY DEF NoteInv, NotesTypeOK
<1>2. em \in EmailIds \cup {None}
  BY <1>1 DEF Job
<1>3. /\ j \in Job /\ j.op = jobs[p].op /\ j.note = jobs[p].note /\ j.old = jobs[p].old
      /\ j.step = "done"
  BY <1>1, <1>2 DEF Job, Steps
<1>4. StartJob(p, j)
  BY <1>1 DEF Fetch, StartJob, Job
<1>5. JobInv(j) /\ \A e \in EmailIds : ~Adopting(j, e)
  BY <1>1, <1>3 DEF JobInv, Adopting
<1> HIDE DEF j
<1>6. UNCHANGED <<mailbox, notesHistory>>
  BY DEF Fetch
<1> QED
  BY <1>3, <1>4, <1>5, <1>6, StartStep, QuietStep
  DEF mailbox, notesHistory, NoteInv, NotesTypeOK, NewestSurvives

LEMMA AbandonStep ==
  ASSUME NoteInv, NEW p \in Procs, Abandon(p)
  PROVE  NoteInv'
<1>1. NoJob \in Job /\ JobInv(NoJob) /\ \A e \in EmailIds : ~Adopting(NoJob, e)
  BY NoJobIsJob, FreshJob DEF NoJob
<1>2. messy' \subseteq NoteIds
  BY DEF Abandon, At, NoteInv, JobInv, NotesTypeOK
<1> QED
  BY <1>1, <1>2, StartStep, QuietStep
  DEF Abandon, mailbox, NoteInv, NotesTypeOK, NewestSurvives

LEMMA EndStep ==
  ASSUME NoteInv, NEW p \in Procs, End(p)
  PROVE  NoteInv'
<1>1. NoJob \in Job /\ JobInv(NoJob) /\ \A e \in EmailIds : ~Adopting(NoJob, e)
  BY NoJobIsJob, FreshJob DEF NoJob
<1> QED
  BY <1>1, StartStep, QuietStep
  DEF End, mailbox, notesHistory, NoteInv, NotesTypeOK, NewestSurvives

LEMMA BeginStep ==
  ASSUME NoteInv, NEW p \in Procs, Begin(p)
  PROVE  NoteInv'
<1> DEFINE Fits(j) == j \in Job /\ j.old = None /\ j.step \in {"import", "resolve", "query"}
                      /\ (j.note \in NoteIds \/ j.step = "query")
<1>1. \A n \in NoteIds, v \in Vals : Fits(SaveNew(n, v)) /\ Fits(SaveOld(n, v))
  <2> TAKE n \in NoteIds, v \in Vals
  <2>1. Fits(SaveNew(n, v))
    BY NoJobIsJob DEF SaveNew, NoJob, Job, Ops, Steps
  <2>2. Fits(SaveOld(n, v))
    BY NoJobIsJob DEF SaveOld, NoJob, Job, Ops, Steps
  <2> QED
    BY <2>1, <2>2
<1>2. \A n \in NoteIds : Fits(DestroyNote(n)) /\ Fits(GetNote(n))
  BY NoJobIsJob DEF DestroyNote, GetNote, NoJob, Job, Ops, Steps
<1>3. Fits(ListNotes)
  BY NoJobIsJob DEF ListNotes, NoJob, Job, Ops, Steps
<1>4. given \subseteq NoteIds
  BY DEF NoteInv, NotesTypeOK
<1> HIDE DEF Fits
<1>5. PICK j : Fits(j) /\ StartJob(p, j)
  BY <1>1, <1>2, <1>3, <1>4 DEF Begin
<1>6. given' \subseteq NoteIds
  BY <1>4 DEF Begin
<1>7. JobInv(j) /\ \A e \in EmailIds : ~Adopting(j, e)
  BY <1>5, FreshJob DEF Fits
<1>8. j \in Job
  BY <1>5 DEF Fits
<1>9. UNCHANGED <<stored, born, mail, notesHistory>>
  BY DEF Begin
<1> QED
  BY <1>5, <1>6, <1>7, <1>8, <1>9, StartStep, QuietStep
  DEF notesHistory, NoteInv, NotesTypeOK, NewestSurvives

-----------------------------------------------------------------------------
(* Emails that are destroyed *)

\* An email that is the newest one of a note and carries the id of another note
\* was adopted twice.
LEMMA OtherNote ==
  ASSUME NoteInv, NEW n \in NoteIds, NEW m, newest[n] # None, m \in mail[newest[n]].tags,
         n \notin Losable
  PROVE  n = m
<1>1. newest[n] \in born /\ newest[n] \in EmailIds /\ n \in mail[newest[n]].tags
  BY DEF NoteInv, TagsInv, NotesTypeOK
<1>2. newest[n] \notin raced
  BY <1>1 DEF Losable
<1> QED
  BY <1>1, <1>2 DEF NoteInv, TagsInv

LEMMA CleanupStep ==
  ASSUME NoteInv, NEW p \in Procs, Cleanup(p)
  PROVE  NoteInv'
<1>1. stored' = stored \ {jobs[p].old} /\ Finish(p, TRUE)
      /\ UNCHANGED <<born, mail, given, notesHistory>>
  BY DEF Cleanup, Superseded
<1>2. JobInv(jobs[p]) /\ jobs[p].op = "save" /\ jobs[p].step = "cleanup"
  BY DEF Cleanup, At, NoteInv
<1>3. ASSUME NEW n \in NoteIds \ Losable, newest[n] # None PROVE newest[n] \in stored'
  <2>1. newest[n] \in stored
    BY <1>3 DEF NoteInv, NewestSurvives
  <2>2. newest[n] # jobs[p].old
    <3> SUFFICES ASSUME newest[n] = jobs[p].old PROVE FALSE
      OBVIOUS
    <3>1. jobs[p].note = n
      BY <1>2, <1>3, OtherNote DEF JobInv
    <3>2. jobs[p].old \in raced
      BY <1>2, <3>1 DEF JobInv
    <3>3. n \in mail[jobs[p].old].tags
      BY <1>2, <1>3, <3>1 DEF JobInv
    <3> QED
      BY <3>2, <3>3 DEF Losable
  <2> QED
    BY <1>1, <2>1, <2>2
<1> QED
  BY <1>1, <1>3, FinishStep, QuietStep DEF notesHistory, NoteInv, NotesTypeOK

LEMMA DestroyStep ==
  ASSUME NoteInv, NEW p \in Procs, Destroy(p)
  PROVE  NoteInv'
<1>1. /\ stored' = stored \ {jobs[p].old} /\ Finish(p, TRUE) /\ gone' = gone \cup {jobs[p].note}
      /\ UNCHANGED <<born, mail, given, newest, messy, raced>>
  BY DEF Destroy
<1>2. JobInv(jobs[p]) /\ jobs[p].note \in NoteIds
  BY DEF Destroy, At, NoteInv, JobInv
<1>3. ASSUME NEW n \in NoteIds \ Losable, n \notin gone', newest[n] # None
      PROVE  newest[n] \in stored'
  <2>1. newest[n] \in stored
    BY <1>3 DEF NoteInv, NewestSurvives
  <2>2. newest[n] # jobs[p].old
    BY <1>1, <1>2, <1>3, OtherNote DEF JobInv
  <2> QED
    BY <1>1, <2>1, <2>2
<1>4. deleted' \subseteq NoteIds /\ gone' \subseteq NoteIds /\ overlooked' \subseteq NoteIds
  BY <1>1, <1>2 DEF Destroy, NoteInv, NotesTypeOK
<1> QED
  BY <1>1, <1>3, <1>4, FinishStep, QuietStep DEF NoteInv, NotesTypeOK

LEMMA OthersRemoveStep ==
  ASSUME NoteInv, OthersRemove
  PROVE  NoteInv'
<1>1. PICK e \in stored : stored' = stored \ {e} /\ gone' = gone \cup mail[e].tags
  BY DEF OthersRemove
<1>2. UNCHANGED <<born, mail, given, jobs, newest, messy, deleted, overlooked, raced>>
  BY DEF OthersRemove
<1>3. mail[e].tags \subseteq NoteIds
  BY DEF NoteInv, NotesTypeOK, Email
<1>4. ASSUME NEW n \in NoteIds \ Losable, n \notin gone', newest[n] # None
      PROVE  newest[n] \in stored'
  BY <1>1, <1>4 DEF NoteInv, NewestSurvives, TagsInv
<1>5. /\ jobs' \in [Procs -> Job]
      /\ \A q \in Procs : JobInv(jobs'[q])
      /\ \A q \in Procs : \A o \in EmailIds : Adopting(jobs'[q], o) => Adopting(jobs[q], o)
  BY <1>2 DEF NoteInv, NotesTypeOK
<1> QED
  BY <1>1, <1>2, <1>3, <1>4, <1>5, QuietStep DEF NoteInv, NotesTypeOK

-----------------------------------------------------------------------------
(* Emails that appear *)

\* An email that replaces the newest one of a note is the newest.
LEMMA NewEmailStep ==
  ASSUME NoteInv, born # EmailIds,
         NEW s \in Seconds, NEW v \in Vals \cup {None},
         NEW T \in SUBSET NoteIds, \A n, m \in T : n = m,
         mail' = [mail EXCEPT ![NextEmail] = [tags |-> T, val |-> v, sec |-> s]],
         stored' \subseteq stored \cup {NextEmail}, NextEmail \in stored', born' = born \cup {NextEmail},
         \A n \in NoteIds : newest[n] \in stored \ stored' => newest'[n] = NextEmail,
         given' = given, gone' = gone, raced' = raced,
         messy' \subseteq NoteIds, deleted' \subseteq NoteIds, overlooked' \subseteq NoteIds,
         \/ newest' = newest
         \/ \E n \in T : newest' = [newest EXCEPT ![n] = NextEmail],
         jobs' \in [Procs -> Job],
         \A q \in Procs :
           \/ jobs'[q] = jobs[q]
           \/ /\ jobs'[q].old = jobs[q].old /\ jobs'[q].note = jobs[q].note
              /\ \/ jobs'[q].step = "done"
                 \/ /\ jobs'[q].step = "cleanup" /\ jobs[q].note \in NoteIds
                    /\ newest'[jobs[q].note] = NextEmail
  PROVE  NoteInv'
<1> DEFINE x == NextEmail
<1>1. x \in EmailIds /\ x \notin born /\ x # None
  BY NextEmailIsNew DEF NoteInv
<1>2. s \in Secs /\ Cardinality(born') = Cardinality(born) + 1 /\ Cardinality(born) \in Nat
      /\ s <= Cardinality(born) + 1
  BY ClockIsBounded DEF NoteInv
<1>3. /\ mail \in [EmailIds -> Email] /\ mail' \in [EmailIds -> Email]
      /\ mail'[x] = [tags |-> T, val |-> v, sec |-> s]
      /\ \A e \in EmailIds : e # x => mail'[e] = mail[e]
      /\ born \subseteq EmailIds
  BY <1>1, <1>2 DEF NoteInv, NotesTypeOK, Email
<1>4. /\ newest' \in [NoteIds -> EmailIds \cup {None}]
      /\ \A n \in NoteIds : newest'[n] = newest[n] \/ (newest'[n] = x /\ n \in T)
  BY <1>1 DEF NoteInv, NotesTypeOK
<1> HIDE DEF x
<1>5. NotesTypeOK'
  <2>1. stored' \subseteq born' /\ born' \subseteq EmailIds
    BY <1>1 DEF NoteInv, NotesTypeOK, x
  <2> QED
    BY <1>3, <1>4, <2>1 DEF NoteInv, NotesTypeOK
<1>6. TagsInv'
  <2>1. raced' \subseteq born'
    BY DEF NoteInv, TagsInv
  <2>2. ASSUME NEW n \in NoteIds, newest'[n] # None
        PROVE  newest'[n] \in born' /\ n \in mail'[newest'[n]].tags
    <3>1. CASE newest'[n] = x /\ n \in T
      BY <1>3, <3>1 DEF x
    <3>2. CASE newest'[n] = newest[n]
      <4>1. newest[n] \in born /\ n \in mail[newest[n]].tags
        BY <2>2, <3>2 DEF NoteInv, TagsInv
      <4> QED
        BY <1>1, <1>3, <3>2, <4>1
    <3> QED
      BY <1>4, <3>1, <3>2
  <2>3. ASSUME NEW e \in born' \ raced', NEW n \in mail'[e].tags, NEW m \in mail'[e].tags
        PROVE  n = m
    <3>1. CASE e = x
      BY <1>3, <2>3, <3>1
    <3>2. CASE e # x
      BY <1>3, <2>3, <3>2 DEF NoteInv, TagsInv, x
    <3> QED
      BY <3>1, <3>2
  <2> QED
    BY <2>1, <2>2, <2>3 DEF TagsInv
<1>7. SecInv'
  <2> SUFFICES ASSUME NEW e \in born' PROVE mail'[e].sec <= Cardinality(born')
    BY DEF SecInv
  <2>1. CASE e = x
    BY <1>2, <1>3, <2>1
  <2>2. CASE e # x
    <3>1. e \in born /\ mail[e].sec <= Cardinality(born) /\ mail[e].sec \in Secs
      BY <1>3, <2>2 DEF NoteInv, SecInv, Email, x
    <3>2. mail[e].sec \in Int
      BY <3>1 DEF Secs
    <3> QED
      BY <1>2, <1>3, <2>2, <3>1, <3>2
  <2> QED
    BY <2>1, <2>2
<1>8. \A q \in Procs : \A e \in EmailIds : Adopting(jobs'[q], e) => Adopting(jobs[q], e)
  BY DEF Adopting
<1>9. RaceInv'
  BY <1>8 DEF RaceInv, NoteInv, Adopting
<1>10. ASSUME NEW q \in Procs PROVE JobInv(jobs[q])'
  <2>1. JobInv(jobs[q]) /\ jobs[q] \in Job
    BY DEF NoteInv, NotesTypeOK
  <2>2. jobs'[q].old = jobs[q].old /\ jobs'[q].note = jobs[q].note
    OBVIOUS
  <2>3. jobs'[q].step \in {"resolve", "import", "cleanup", "destroy", "fetch"}
          => jobs'[q].note \in NoteIds
    BY <2>1, <2>2 DEF JobInv
  <2>4. jobs'[q].old # None => /\ jobs'[q].old \in born' /\ jobs'[q].old # x
                               /\ jobs'[q].note \in mail'[jobs'[q].old].tags
    BY <1>1, <1>3, <2>1, <2>2 DEF JobInv
  <2>5. jobs'[q].op = "save" /\ jobs'[q].step = "cleanup" =>
          jobs'[q].old \in raced' \/ newest'[jobs'[q].note] # jobs'[q].old
    <3> SUFFICES ASSUME jobs'[q].op = "save", jobs'[q].step = "cleanup", jobs'[q].old \notin raced'
                 PROVE  newest'[jobs'[q].note] # jobs'[q].old
      OBVIOUS
    <3>1. jobs[q].note \in NoteIds /\ (jobs[q].old # x)
      BY <1>1, <2>2, <2>3, <2>4
    <3>2. CASE jobs'[q] = jobs[q]
      BY <1>4, <2>1, <3>1, <3>2 DEF JobInv
    <3>3. CASE newest'[jobs[q].note] = x
      BY <2>2, <3>1, <3>3
    <3> QED
      BY <3>2, <3>3 DEF x
  <2>6. ASSUME NEW e \in EmailIds, Adopting(jobs'[q], e)
        PROVE  e \in born' /\ (mail'[e].tags = {} \/ e \in raced')
    BY <1>1, <1>3, <1>8, <2>1, <2>6 DEF JobInv
  <2> QED
    BY <2>3, <2>4, <2>5, <2>6 DEF JobInv, Adopting
<1>11. NewestSurvives'
  <2>1. Losable \subseteq Losable'
    BY <1>1, <1>3 DEF Losable, NoteInv, TagsInv
  <2> QED
    BY <1>4, <2>1 DEF NewestSurvives, NoteInv, x
<1> QED
  BY <1>5, <1>6, <1>7, <1>9, <1>10, <1>11 DEF NoteInv

LEMMA ImportStep ==
  ASSUME NoteInv, NEW p \in Procs, Import(p) \/ ImportUnanswered(p)
  PROVE  NoteInv'
<1> DEFINE n == jobs[p].note
<1>1. Imported(p) /\ jobs[p].step = "import" /\ born # EmailIds
  BY DEF Import, ImportUnanswered, Imported
<1>2. /\ jobs \in [Procs -> Job] /\ jobs[p] \in Job /\ n \in NoteIds
      /\ jobs[p].val \in Vals \cup {None}
  BY <1>1 DEF NoteInv, NotesTypeOK, JobInv, Job
<1>3. PICK s \in Seconds :
        mail' = [mail EXCEPT ![NextEmail] = [tags |-> {n}, val |-> jobs[p].val, sec |-> s]]
  BY <1>1 DEF Imported
<1>4. newest' = [newest EXCEPT ![n] = NextEmail] /\ newest'[n] = NextEmail
  BY <1>1, <1>2 DEF Imported, NoteInv, NotesTypeOK
<1>5. messy' \subseteq NoteIds /\ deleted' \subseteq NoteIds /\ overlooked' \subseteq NoteIds
  BY <1>1, <1>2 DEF Import, ImportUnanswered, Imported, NoteInv, NotesTypeOK
<1>6. PICK j \in Job : /\ jobs' = [jobs EXCEPT ![p] = j] /\ j.old = jobs[p].old /\ j.note = n
                       /\ j.step \in {"done", "cleanup"}
  <2>1. CASE Import(p)
    <3> DEFINE st == IF jobs[p].old = None THEN "done" ELSE "cleanup"
               j  == [jobs[p] EXCEPT !.email = NextEmail, !.step = st]
    <3>1. NextEmail \in EmailIds
      BY <1>1, NextEmailIsNew DEF NoteInv
    <3>2. j \in Job /\ j.old = jobs[p].old /\ j.note = n /\ j.step \in {"done", "cleanup"}
      BY <1>2, <3>1 DEF Job, Steps
    <3>3. jobs' = [jobs EXCEPT ![p] = j]
      BY <1>2, <2>1 DEF Import, Job
    <3> QED
      BY <3>2, <3>3
  <2>2. CASE ImportUnanswered(p)
    <3> DEFINE j == [jobs[p] EXCEPT !.step = "done", !.ok = FALSE]
    <3>1. j \in Job /\ j.old = jobs[p].old /\ j.note = n /\ j.step = "done"
      BY <1>2 DEF Job, Steps
    <3>2. jobs' = [jobs EXCEPT ![p] = j]
      BY <1>2, <2>2 DEF ImportUnanswered, Finish, Job
    <3> QED
      BY <3>1, <3>2
  <2> QED
    BY <2>1, <2>2
<1>7. /\ jobs' \in [Procs -> Job]
      /\ \A q \in Procs :
           \/ jobs'[q] = jobs[q]
           \/ /\ jobs'[q].old = jobs[q].old /\ jobs'[q].note = jobs[q].note
              /\ \/ jobs'[q].step = "done"
                 \/ /\ jobs'[q].step = "cleanup" /\ jobs[q].note \in NoteIds
                    /\ newest'[jobs[q].note] = NextEmail
  BY <1>2, <1>4, <1>6
<1>8. /\ stored' = stored \cup {NextEmail} /\ born' = born \cup {NextEmail}
      /\ given' = given /\ gone' = gone /\ raced' = raced
  BY <1>1 DEF Imported
<1>9. PICK T \in SUBSET NoteIds, v \in Vals \cup {None} :
        /\ \A a, b \in T : a = b
        /\ mail' = [mail EXCEPT ![NextEmail] = [tags |-> T, val |-> v, sec |-> s]]
        /\ \E a \in T : newest' = [newest EXCEPT ![a] = NextEmail]
  <2>1. {n} \in SUBSET NoteIds /\ \A a, b \in {n} : a = b
    BY <1>2
  <2>2. \E a \in {n} : newest' = [newest EXCEPT ![a] = NextEmail]
    BY <1>4
  <2> QED
    BY <1>2, <1>3, <2>1, <2>2
<1>10. \/ newest' = newest
       \/ \E a \in T : newest' = [newest EXCEPT ![a] = NextEmail]
  BY <1>9
<1>11. /\ stored' \subseteq stored \cup {NextEmail} /\ NextEmail \in stored'
       /\ \A m \in NoteIds : newest[m] \in stored \ stored' => newest'[m] = NextEmail
  BY <1>8
<1> HIDE DEF n
<1> QED
  BY <1>1, <1>5, <1>7, <1>8, <1>9, <1>10, <1>11, NewEmailStep

LEMMA OthersCreateStep ==
  ASSUME NoteInv, OthersCreate
  PROVE  NoteInv'
<1>1. PICK v \in Vals, s \in Seconds :
        mail' = [mail EXCEPT ![NextEmail] = [tags |-> {}, val |-> v, sec |-> s]]
  BY DEF OthersCreate
<1>2. born # EmailIds /\ stored' = stored \cup {NextEmail} /\ born' = born \cup {NextEmail}
      /\ UNCHANGED <<given, jobs, notesHistory>>
  BY DEF OthersCreate
<1>3. /\ jobs' \in [Procs -> Job] /\ \A q \in Procs : jobs'[q] = jobs[q]
      /\ messy' \subseteq NoteIds /\ deleted' \subseteq NoteIds /\ overlooked' \subseteq NoteIds
      /\ given' = given /\ gone' = gone /\ raced' = raced /\ newest' = newest
  BY <1>2 DEF notesHistory, NoteInv, NotesTypeOK
<1>4. PICK T \in SUBSET NoteIds, w \in Vals \cup {None} :
        /\ \A a, b \in T : a = b
        /\ mail' = [mail EXCEPT ![NextEmail] = [tags |-> T, val |-> w, sec |-> s]]
  BY <1>1
<1>5. /\ stored' \subseteq stored \cup {NextEmail} /\ NextEmail \in stored'
      /\ \A n \in NoteIds : newest[n] \in stored \ stored' => newest'[n] = NextEmail
  BY <1>2
<1> QED
  BY <1>2, <1>3, <1>4, <1>5, NewEmailStep

-----------------------------------------------------------------------------
(* Adoption *)

LEMMA ListStep ==
  ASSUME NoteInv, NEW p \in Procs, List(p)
  PROVE  NoteInv'
<1>1. PICK adopted \in Adoptions, last \in [NoteIds -> Listed \cup {None}] :
        LET fresh == {adopted[e] : e \in EmailIds} \ {None} IN
        /\ given' = given \cup fresh
        /\ jobs' = [jobs EXCEPT
             ![p].adopted = adopted,
             ![p].found = [n \in NoteIds |-> IF last[n] = None THEN NoHash ELSE note_hash(last[n])],
             ![p].step = IF fresh = {} THEN "done" ELSE "adopt"]
        /\ raced' = raced \cup {e \in EmailIds : adopted[e] # None /\
             \E q \in Procs \ {p} : At(q, "list", "adopt") /\ jobs[q].adopted[e] # None}
  BY DEF List
<1> DEFINE found == [n \in NoteIds |-> IF last[n] = None THEN NoHash ELSE note_hash(last[n])]
           st    == IF {adopted[e] : e \in EmailIds} \ {None} = {} THEN "done" ELSE "adopt"
           j     == [jobs[p] EXCEPT !.adopted = adopted, !.found = found, !.step = st]
<1>2. /\ jobs \in [Procs -> Job] /\ jobs[p] \in Job /\ JobInv(jobs[p])
      /\ \A q \in Procs : JobInv(jobs[q])
      /\ UNCHANGED <<stored, born, mail, newest, gone, messy, deleted, overlooked>>
      /\ jobs[p].op = "list" /\ jobs[p].step = "query"
  BY DEF List, At, NoteInv, NotesTypeOK
<1>3. /\ adopted \in [EmailIds -> NoteIds \cup {None}]
      /\ \A e \in EmailIds : adopted[e] # None => e \in stored /\ mail[e].tags = {}
  BY DEF Adoptions, Tagging, Listed
<1>4. found \in [NoteIds -> Hash]
  <2>1. NoHash \in Hash
    BY FS_CardinalityType, SizesAssumption DEF NoHash, Hash, Secs
  <2>2. \A e \in EmailIds : note_hash(e) \in Hash
    BY DEF note_hash, Hash, Email, NoteInv, NotesTypeOK
  <2>3. Listed \subseteq EmailIds
    BY DEF Listed, NoteInv, NotesTypeOK
  <2> QED
    BY <2>1, <2>2, <2>3
<1> HIDE DEF found, st
<1>5. st \in {"done", "adopt"}
  BY DEF st
<1>6. /\ j \in Job /\ j.op = "list" /\ j.step = st /\ j.note = jobs[p].note
      /\ j.old = jobs[p].old /\ j.adopted = adopted
  BY <1>2, <1>3, <1>4, <1>5 DEF Job, Steps
<1>7. jobs' = [jobs EXCEPT ![p] = j]
  BY <1>1, <1>2 DEF Job, found, st
<1> HIDE DEF j
<1>8. raced \subseteq raced' /\ raced' \subseteq born
  <2>1. \A e \in EmailIds : adopted[e] # None => e \in born
    BY <1>3 DEF NoteInv, NotesTypeOK
  <2> QED
    BY <1>1, <2>1 DEF NoteInv, TagsInv
<1>9. NotesTypeOK'
  <2>1. given' \subseteq NoteIds
    BY <1>1, <1>3 DEF NoteInv, NotesTypeOK
  <2>2. jobs' \in [Procs -> Job]
    BY <1>2, <1>6, <1>7
  <2> QED
    BY <1>2, <1>8, <2>1, <2>2 DEF NoteInv, NotesTypeOK
<1>10. TagsInv' /\ SecInv'
  BY <1>2, <1>8 DEF NoteInv, TagsInv, SecInv
<1>11. ASSUME NEW q \in Procs PROVE JobInv(jobs[q])'
  <2>1. CASE q = p
    <3>1. jobs'[q] = j
      BY <1>2, <1>7, <2>1
    <3>2. \A e \in EmailIds : adopted[e] # None => e \in born' /\ mail'[e].tags = {}
      BY <1>2, <1>3 DEF NoteInv, NotesTypeOK
    <3> QED
      BY <1>2, <1>5, <1>6, <3>1, <3>2 DEF JobInv, Adopting
  <2>2. CASE q # p
    <3>1. jobs'[q] = jobs[q] /\ JobInv(jobs[q])
      BY <1>2, <1>7, <2>2
    <3> QED
      BY <1>2, <1>8, <3>1 DEF JobInv, Adopting
  <2> QED
    BY <2>1, <2>2
<1>12. RaceInv'
  <2> SUFFICES ASSUME NEW q \in Procs, NEW o \in Procs, NEW e \in EmailIds, q # o,
                      Adopting(jobs'[q], e), Adopting(jobs'[o], e)
               PROVE  e \in raced'
    BY DEF RaceInv, Adopting
  <2>1. ASSUME NEW a \in Procs, a # p, Adopting(jobs'[a], e), Adopting(jobs'[p], e)
        PROVE  e \in raced'
    <3>1. jobs'[a] = jobs[a] /\ jobs'[p] = j
      BY <1>2, <1>7, <2>1
    <3>2. At(a, "list", "adopt") /\ jobs[a].adopted[e] # None /\ adopted[e] # None
      BY <1>6, <2>1, <3>1 DEF Adopting, At
    <3> QED
      BY <1>1, <2>1, <3>2
  <2>2. CASE q # p /\ o # p
    <3>1. jobs'[q] = jobs[q] /\ jobs'[o] = jobs[o]
      BY <1>2, <1>7, <2>2
    <3> QED
      BY <1>8, <3>1 DEF RaceInv, NoteInv
  <2> QED
    BY <2>1, <2>2
<1>13. NewestSurvives'
  BY <1>2, <1>8 DEF NewestSurvives, NoteInv, Losable
<1> QED
  BY <1>9, <1>10, <1>11, <1>12, <1>13 DEF NoteInv

\* What Adopt makes of an email: it was without an id, or two listings adopt it.
LEMMA AdoptedTags ==
  ASSUME NoteInv, NEW p \in Procs, Adopt(p), NEW e \in EmailIds
  PROVE  /\ mail[e].tags \subseteq mail'[e].tags
         /\ mail'[e].tags # mail[e].tags =>
              /\ Adopting(jobs[p], e) /\ e \in stored
              /\ mail'[e].tags = mail[e].tags \cup {jobs[p].adopted[e]}
              /\ mail[e].tags = {} \/ e \in raced
<1>1. mail' = [o \in EmailIds |-> IF o \in stored THEN [mail[o] EXCEPT !.tags = Patched(p, o)]
                                                  ELSE mail[o]]
  BY DEF Adopt
<1>2. mail[e] \in Email /\ JobInv(jobs[p]) /\ At(p, "list", "adopt")
  BY DEF Adopt, NoteInv, NotesTypeOK
<1>3. e \in stored => mail'[e].tags = Patched(p, e)
  BY <1>1, <1>2 DEF Email
<1>4. e \notin stored => mail'[e] = mail[e]
  BY <1>1
<1> QED
  BY <1>2, <1>3, <1>4 DEF Patched, At, Adopting, JobInv

LEMMA AdoptStep ==
  ASSUME NoteInv, NEW p \in Procs, Adopt(p)
  PROVE  NoteInv'
<1> DEFINE Mine(n) == {e \in stored : jobs[p].adopted[e] = n}
<1>1. /\ UNCHANGED <<stored, born, given, gone, messy, overlooked, raced>>
      /\ Finish(p, TRUE)
      /\ At(p, "list", "adopt")
  BY DEF Adopt
<1>2. /\ jobs \in [Procs -> Job] /\ jobs[p] \in Job
      /\ jobs[p].adopted \in [EmailIds -> NoteIds \cup {None}]
      /\ stored \subseteq born /\ born \subseteq EmailIds /\ raced \subseteq born
      /\ mail \in [EmailIds -> Email]
  BY DEF NoteInv, NotesTypeOK, TagsInv, Job
<1>3. None \notin NoteIds \cup EmailIds
  BY IdsAssumption DEF None
<1>4. /\ newest' \in [NoteIds -> EmailIds \cup {None}]
      /\ \A n \in NoteIds : newest'[n] = newest[n] \/ newest'[n] \in Mine(n)
  <2>1. newest' = [n \in NoteIds |->
          IF \E e \in stored : jobs[p].adopted[e] = n
            THEN CHOOSE e \in stored : jobs[p].adopted[e] = n ELSE newest[n]]
    BY DEF Adopt
  <2>2. newest \in [NoteIds -> EmailIds \cup {None}]
    BY DEF NoteInv, NotesTypeOK
  <2> QED
    BY <1>2, <2>1, <2>2
<1>5. \A e \in EmailIds : /\ mail[e].tags \subseteq mail'[e].tags
                          /\ mail'[e].sec = mail[e].sec
                          /\ mail'[e] \in Email
  BY <1>2 DEF Adopt, Email, Patched
<1>6. \A n \in NoteIds : \A e \in Mine(n) : n \in mail'[e].tags
  BY <1>2, <1>3 DEF Adopt, Email, Patched
<1>7. /\ jobs' \in [Procs -> Job]
      /\ \A q \in Procs : JobInv(jobs'[q])
      /\ \A q \in Procs : \A e \in EmailIds : Adopting(jobs'[q], e) => Adopting(jobs[q], e) /\ q # p
  <2>1. jobs'[p].step = "done"
    BY <1>1, <1>2 DEF Finish, Job
  <2> QED
    BY <1>1, <2>1, FinishStep DEF Adopting
<1>8. NotesTypeOK'
  <2>1. mail' \in [EmailIds -> Email]
    BY <1>5 DEF Adopt
  <2>2. deleted' \subseteq NoteIds
    BY DEF Adopt, NoteInv, NotesTypeOK
  <2> QED
    BY <1>1, <1>4, <1>7, <2>1, <2>2 DEF NoteInv, NotesTypeOK
<1>9. TagsInv'
  <2>1. ASSUME NEW n \in NoteIds, newest'[n] # None
        PROVE  newest'[n] \in born' /\ n \in mail'[newest'[n]].tags
    <3>1. CASE newest'[n] \in Mine(n)
      BY <1>1, <1>2, <1>6, <3>1
    <3>2. CASE newest'[n] = newest[n]
      <4>1. newest[n] \in born /\ n \in mail[newest[n]].tags
        BY <2>1, <3>2 DEF NoteInv, TagsInv
      <4> QED
        BY <1>1, <1>2, <1>5, <3>2, <4>1
    <3> QED
      BY <1>4, <3>1, <3>2
  <2>2. ASSUME NEW e \in born' \ raced', NEW n \in mail'[e].tags, NEW m \in mail'[e].tags
        PROVE  n = m
    <3>1. e \in EmailIds /\ e \in born \ raced
      BY <1>1, <1>2, <2>2
    <3>2. CASE mail'[e].tags = mail[e].tags
      BY <2>2, <3>1, <3>2 DEF NoteInv, TagsInv
    <3>3. CASE mail'[e].tags # mail[e].tags
      BY <2>2, <3>1, <3>3, AdoptedTags
    <3> QED
      BY <3>2, <3>3
  <2> QED
    BY <1>1, <1>2, <2>1, <2>2 DEF TagsInv
<1>10. SecInv'
  BY <1>1, <1>2, <1>5 DEF SecInv, NoteInv
<1>11. RaceInv'
  BY <1>1, <1>7 DEF RaceInv, NoteInv, Adopting
<1>12. ASSUME NEW q \in Procs PROVE JobInv(jobs[q])'
  <2> DEFINE j == jobs'[q]
  <2>1. JobInv(j) /\ j \in Job
    BY <1>7
  <2>2. j.old # None => j.old \in born' /\ j.note \in mail'[j.old].tags
    BY <1>1, <1>2, <1>5, <2>1 DEF JobInv
  <2>3. j.op = "save" /\ j.step = "cleanup" => j.old \in raced' \/ newest'[j.note] # j.old
    <3> SUFFICES ASSUME j.op = "save", j.step = "cleanup", j.old \notin raced,
                        newest'[j.note] = j.old
                 PROVE  FALSE
      BY <1>1
    <3>1. j.note \in NoteIds /\ newest[j.note] # j.old
      BY <2>1 DEF JobInv
    <3>2. j.old \in Mine(j.note)
      BY <1>4, <3>1
    <3>3. j.old # None /\ j.old \in EmailIds /\ Adopting(jobs[p], j.old)
      BY <1>1, <1>2, <1>3, <3>1, <3>2 DEF Adopting, At
    <3>4. j.note \in mail[j.old].tags /\ mail[j.old].tags = {}
      BY <2>1, <3>3 DEF JobInv, NoteInv
    <3> QED
      BY <3>4
  <2>4. ASSUME NEW e \in EmailIds, Adopting(j, e)
        PROVE  e \in born' /\ (mail'[e].tags = {} \/ e \in raced')
    <3>1. Adopting(jobs[q], e) /\ q # p /\ e \in born /\ (mail[e].tags = {} \/ e \in raced)
      BY <1>7, <2>1, <2>4 DEF JobInv
    <3>2. Adopting(jobs[p], e) => e \in raced
      BY <3>1 DEF NoteInv, RaceInv
    <3> QED
      BY <1>1, <3>1, <3>2, AdoptedTags
  <2> QED
    BY <2>1, <2>2, <2>3, <2>4 DEF JobInv, Adopting
<1>13. NewestSurvives'
  <2>1. Losable \subseteq Losable'
    BY <1>1, <1>2, <1>5 DEF Losable
  <2>2. ASSUME NEW n \in NoteIds \ Losable, newest'[n] # None PROVE newest'[n] \in stored
    BY <1>4, <2>2 DEF NoteInv, NewestSurvives
  <2> QED
    BY <1>1, <2>1, <2>2 DEF NewestSurvives
<1> QED
  BY <1>8, <1>9, <1>10, <1>11, <1>12, <1>13 DEF NoteInv

-----------------------------------------------------------------------------
(* The theorems *)

LEMMA InitInv == NotesInit => NoteInv
<1> SUFFICES ASSUME NotesInit PROVE NoteInv
  OBVIOUS
<1>1. NoEmail \in Email /\ Cardinality(born) \in Nat
  BY FS_CardinalityType, FS_EmptySet, SizesAssumption
  DEF NoEmail, Email, Secs, None, NotesInit
<1>2. NotesTypeOK
  BY <1>1, NoJobIsJob DEF NotesInit, NotesTypeOK
<1>3. \A p \in Procs : JobInv(jobs[p]) /\ \A e \in EmailIds : ~Adopting(jobs[p], e)
  BY NoJobIsJob, FreshJob DEF NotesInit, NoJob
<1> QED
  BY <1>2, <1>3
  DEF NoteInv, NotesInit, TagsInv, SecInv, RaceInv, NewestSurvives, None

LEMMA StepInv == NoteInv /\ [NotesNext]_notesVars => NoteInv'
<1> SUFFICES ASSUME NoteInv, [NotesNext]_notesVars PROVE NoteInv'
  OBVIOUS
<1>1. CASE UNCHANGED notesVars
  BY <1>1 DEF notesVars, mailbox, notesHistory, NoteInv, NotesTypeOK, TagsInv, SecInv, RaceInv,
              JobInv, Adopting, NewestSurvives, Losable
<1>2. ASSUME NEW p \in Procs, JobWorks(p) PROVE NoteInv'
  BY <1>2, ResolveStep, ImportStep, CleanupStep, DestroyStep, FetchStep, ListStep, AdoptStep
  DEF JobWorks
<1>3. ASSUME NEW p \in Procs, JobFails(p) PROVE NoteInv'
  BY <1>3, FailureStep, ResolveStep, ImportStep DEF JobFails
<1>4. ASSUME NEW p \in Procs, Begin(p) \/ ListErrs(p) \/ End(p) \/ Dropped(p) PROVE NoteInv'
  BY <1>4, BeginStep, FailureStep, EndStep, AbandonStep DEF Dropped
<1> QED
  BY <1>1, <1>2, <1>3, <1>4, OthersCreateStep, OthersRemoveStep DEF NotesNext

\* The invariant of the run: looked up emails belong to their note, no edit is about
\* to destroy the newest one, and two ids mean two adoptions.
THEOREM NotesInvariant == NotesSpec => []NoteInv
<1> QED
  BY InitInv, StepInv, PTL DEF NotesSpec

\* However many requests edit, delete and adopt notes at once, and whatever call
\* fails, the revision imported last is still in the mailbox, unless somebody
\* deleted the note or two listings adopted its email.
THEOREM NewestIsKept == NotesSpec => []NewestSurvives
<1>1. NoteInv => NewestSurvives
  BY DEF NoteInv
<1> QED
  BY <1>1, NotesInvariant, PTL

\* A note keeps its id as long as its email lives, unless two listings adopted
\* the email at once.
THEOREM IdIsStable == NotesSpec => StableId
<1> DEFINE Keeps == \A e \in (stored \cap stored') \ raced' :
              extract_stable_id(e) # None => extract_stable_id(e)' = extract_stable_id(e)
<1>1. NoteInv /\ [NotesNext]_notesVars => [Keeps]_notesVars
  <2> SUFFICES ASSUME NoteInv, [NotesNext]_notesVars,
                      NEW e \in stored, e \in stored', e \notin raced', extract_stable_id(e) # None
               PROVE  extract_stable_id(e)' = extract_stable_id(e)
    OBVIOUS
  <2>1. e \in born /\ e \in EmailIds
    BY DEF NoteInv, NotesTypeOK
  <2>2. mail[e].tags # {}
    BY DEF extract_stable_id
  <2>3. ASSUME NEW p \in Procs, Adopt(p) PROVE mail'[e].tags = mail[e].tags
    <3>1. raced' = raced
      BY <2>3 DEF Adopt
    <3> QED
      BY <2>1, <2>2, <2>3, <3>1, AdoptedTags
  <2>4. ASSUME born # EmailIds, \E m : mail' = [mail EXCEPT ![NextEmail] = m]
        PROVE  mail'[e].tags = mail[e].tags
    BY <2>1, <2>4, NextEmailIsNew DEF NoteInv, NotesTypeOK
  <2>5. ASSUME NEW p \in Procs, Imported(p) PROVE mail'[e].tags = mail[e].tags
    BY <2>4, <2>5 DEF Imported
  <2>6. ASSUME OthersCreate PROVE mail'[e].tags = mail[e].tags
    BY <2>4, <2>6 DEF OthersCreate
  <2>7. mail'[e].tags = mail[e].tags
    <3>1. \/ mail' = mail
          \/ \E p \in Procs : Adopt(p) \/ Imported(p)
          \/ OthersCreate
      BY DEF NotesNext, notesVars, mailbox, notesHistory, JobWorks, JobFails, Resolve, Import,
             Cleanup, Destroy, Fetch, List, ResolveFails, ImportFails, ImportUnanswered,
             CleanupFails, DestroyFails, FetchFails, ListFails, AdoptFails, ResolveErrs,
             ListErrs, Begin, End, Dropped, Abandon, OthersRemove
    <3> QED
      BY <2>3, <2>5, <2>6, <3>1
  <2> QED
    BY <2>7 DEF extract_stable_id
<1> QED
  BY <1>1, NotesInvariant, PTL DEF NotesSpec, StableId

-----------------------------------------------------------------------------
(* Slots *)

LEMMA Slots ==
  ASSUME NoteInv
  PROVE  /\ jobs \in [Procs -> Job] /\ \A q \in Procs : jobs[q] \in Job /\ JobInv(jobs[q])
         /\ stored \subseteq born /\ born \subseteq EmailIds
         /\ mail \in [EmailIds -> Email] /\ given \subseteq NoteIds
         /\ newest \in [NoteIds -> EmailIds \cup {None}]
         /\ \A n \in NoteIds : newest[n] # None => newest[n] \in born
         /\ deleted \subseteq NoteIds
         /\ None \notin NoteIds /\ None \notin EmailIds
BY IdsAssumption DEF NoteInv, NotesTypeOK, TagsInv, None

LEMMA StartIs ==
  ASSUME NoteInv, NEW p \in Procs, NEW j, StartJob(p, j)
  PROVE  jobs'[p] = j /\ \A q \in Procs : q # p => jobs'[q] = jobs[q]
BY Slots DEF StartJob

LEMMA FinishIs ==
  ASSUME NoteInv, NEW p \in Procs, NEW ok, Finish(p, ok)
  PROVE  /\ jobs'[p].step = "done" /\ jobs'[p].note = jobs[p].note
         /\ \A q \in Procs : q # p => jobs'[q] = jobs[q]
BY Slots DEF Finish, Job

\* Nothing that EditInv speaks of is begun.
Keeps(i, j) ==
  /\ \A n \in NoteIds : Saves(j, n) => Saves(i, n) /\ j.step = i.step /\ j.old = i.old
  /\ \A e \in EmailIds, n \in NoteIds : Gives(j, e, n) => Gives(i, e, n)
  /\ j.note # i.note => j.note \notin NoteIds \/ newest[j.note] # None
  /\ j.step = "import" => i.step = "import" /\ j.op = i.op

\* No note has more emails, and one that is to be cleaned up is still to be, or gone.
LEMMA KeepStep ==
  ASSUME NoteInv, EditInv, mail' = mail, newest' = newest,
         stored' \subseteq stored, given \subseteq given', messy \subseteq messy',
         \A q \in Procs : Keeps(jobs[q], jobs'[q]),
         \A q \in Procs : At(q, "save", "cleanup") =>
           jobs'[q] = jobs[q] \/ jobs[q].old \notin stored' \/ jobs[q].note \in messy',
         \A n \in deleted' \ overlooked' : n \in deleted \ overlooked \/ newest[n] \notin stored'
  PROVE  EditInv'
<1>1. \A n : Backing(n)' \subseteq Backing(n)
  BY DEF Backing
<1>2. \A n \in NoteIds : Used(n)' => Used(n)
  BY <1>1 DEF Used, Keeps
<1>3. GivenInv'
  <2>1. \A p \in Procs : \A e \in EmailIds, n \in NoteIds : Gives(jobs'[p], e, n) => Gives(jobs[p], e, n)
    BY DEF Keeps
  <2>2. \A p, e, n : Gives(jobs[p], e, n)' <=> Gives(jobs'[p], e, n)
    BY DEF Gives, Adopting
  <2> QED
    BY <1>2, <2>1, <2>2 DEF GivenInv, EditInv
<1>4. DeletedInv'
  BY DEF DeletedInv, EditInv
<1>5. ASSUME NEW n \in NoteIds \ messy' PROVE RevisionInv(n)'
  <2>1. RevisionInv(n)
    BY <1>5 DEF EditInv
  <2>2. \A q \in Procs : Saves(jobs'[q], n) =>
          Saves(jobs[q], n) /\ jobs'[q].step = jobs[q].step /\ jobs'[q].old = jobs[q].old
    BY DEF Keeps
  <2>3. ASSUME NEW e \in Backing(n)' PROVE e \in {newest[n]} \cup {jobs'[q].old : q \in CleaningUp(n)'}
    <3>1. e \in stored' /\ e \in {newest[n]} \cup {jobs[q].old : q \in CleaningUp(n)}
      BY <1>1, <2>1, <2>3 DEF RevisionInv, Backing
    <3>2. ASSUME NEW q \in CleaningUp(n), e = jobs[q].old
          PROVE  q \in CleaningUp(n)' /\ jobs'[q].old = e
      <4>1. jobs'[q] = jobs[q]
        BY <1>5, <3>1, <3>2 DEF CleaningUp
      <4> QED
        BY <3>2, <4>1 DEF CleaningUp, At
    <3> QED
      BY <3>1, <3>2
  <2>4. \A p, q \in Procs : Saves(jobs'[p], n) /\ Saves(jobs'[q], n) => p = q
    BY <2>1, <2>2 DEF RevisionInv
  <2>5. \A p \in Procs : Saves(jobs'[p], n) /\ jobs'[p].step = "import" =>
          Backing(n)' \subseteq {jobs'[p].old}
    BY <1>1, <2>1, <2>2 DEF RevisionInv
  <2> QED
    BY <2>3, <2>4, <2>5 DEF RevisionInv, Saves
<1>6. \A p \in Procs : jobs'[p].step = "import" => jobs'[p].op = "save"
  BY DEF Keeps, EditInv
<1> QED
  BY <1>3, <1>4, <1>5, <1>6 DEF EditInv

LEMMA KeptSlot ==
  ASSUME NoteInv, NEW q \in Procs, jobs'[q] = jobs[q]
  PROVE  Keeps(jobs[q], jobs'[q])
BY DEF Keeps

\* A function that ends.
LEMMA EndedSlot ==
  ASSUME NEW i, NEW j, j.step = "done", j.note = i.note \/ j.note \notin NoteIds
  PROVE  Keeps(i, j)
BY DEF Keeps, Saves, Gives, Adopting

-----------------------------------------------------------------------------
(* Steps that begin nothing *)

LEMMA KeepFailure ==
  ASSUME NoteInv, EditInv, NEW p \in Procs,
         \/ ResolveFails(p) \/ ImportFails(p) \/ CleanupFails(p) \/ DestroyFails(p)
         \/ FetchFails(p) \/ ListFails(p) \/ ListErrs(p) \/ AdoptFails(p)
  PROVE  EditInv'
<1>1. \E ok : Finish(p, ok)
  BY DEF ResolveFails, ImportFails, CleanupFails, DestroyFails, FetchFails, ListFails, ListErrs,
         AdoptFails
<1>2. UNCHANGED <<mailbox, newest, gone, deleted, overlooked, raced>>
  BY DEF ResolveFails, ImportFails, CleanupFails, DestroyFails, FetchFails, ListFails, ListErrs,
         AdoptFails, notesHistory
<1>3. messy \subseteq messy' /\ (At(p, "save", "cleanup") => jobs[p].note \in messy')
  BY DEF ResolveFails, ImportFails, CleanupFails, DestroyFails, FetchFails, ListFails, ListErrs,
         AdoptFails, notesHistory, At
<1>4. jobs'[p].step = "done" /\ jobs'[p].note = jobs[p].note
      /\ \A q \in Procs : q # p => jobs'[q] = jobs[q]
  BY <1>1, FinishIs
<1>5. \A q \in Procs : Keeps(jobs[q], jobs'[q])
  BY <1>4, KeptSlot, EndedSlot
<1> QED
  BY <1>2, <1>3, <1>4, <1>5, KeepStep DEF mailbox

LEMMA KeepFetch ==
  ASSUME NoteInv, EditInv, NEW p \in Procs, Fetch(p)
  PROVE  EditInv'
<1>1. jobs'[p].step = "done" /\ jobs'[p].note = jobs[p].note
      /\ \A q \in Procs : q # p => jobs'[q] = jobs[q]
  BY Slots DEF Fetch, Job
<1>2. \A q \in Procs : Keeps(jobs[q], jobs'[q])
  BY <1>1, KeptSlot, EndedSlot
<1>3. UNCHANGED <<mailbox, notesHistory>> /\ ~At(p, "save", "cleanup")
  BY DEF Fetch, At
<1> QED
  BY <1>1, <1>2, <1>3, KeepStep DEF mailbox, notesHistory

\* The old email goes.
LEMMA KeepCleanup ==
  ASSUME NoteInv, EditInv, NEW p \in Procs, Cleanup(p)
  PROVE  EditInv'
<1>1. stored' = stored \ {jobs[p].old} /\ Finish(p, TRUE) /\ UNCHANGED <<born, mail, given, notesHistory>>
  BY DEF Cleanup, Superseded
<1>2. jobs'[p].step = "done" /\ jobs'[p].note = jobs[p].note
      /\ \A q \in Procs : q # p => jobs'[q] = jobs[q]
  BY <1>1, FinishIs
<1>3. \A q \in Procs : Keeps(jobs[q], jobs'[q])
  BY <1>2, KeptSlot, EndedSlot
<1> QED
  BY <1>1, <1>2, <1>3, KeepStep DEF notesHistory

LEMMA KeepDestroy ==
  ASSUME NoteInv, EditInv, NEW p \in Procs, Destroy(p)
  PROVE  EditInv'
<1>1. /\ stored' = stored \ {jobs[p].old} /\ Finish(p, TRUE) /\ ~At(p, "save", "cleanup")
      /\ UNCHANGED <<born, mail, given, newest, messy, raced>>
      /\ IF newest[jobs[p].note] = jobs[p].old THEN deleted' = deleted \cup {jobs[p].note}
                                               ELSE UNCHANGED deleted
      /\ \A n : n # jobs[p].note \/ newest[n] # jobs[p].old => (n \in overlooked' <=> n \in overlooked)
  BY DEF Destroy, At
<1>2. jobs'[p].step = "done" /\ jobs'[p].note = jobs[p].note
      /\ \A q \in Procs : q # p => jobs'[q] = jobs[q]
  BY <1>1, FinishIs
<1>3. \A q \in Procs : Keeps(jobs[q], jobs'[q])
  BY <1>2, KeptSlot, EndedSlot
<1>4. \A n \in deleted' \ overlooked' : n \in deleted \ overlooked \/ newest[n] \notin stored'
  BY <1>1
<1> QED
  BY <1>1, <1>2, <1>3, <1>4, KeepStep

LEMMA KeepDropped ==
  ASSUME NoteInv, EditInv, NEW p \in Procs, End(p) \/ Dropped(p)
  PROVE  EditInv'
<1>1. StartJob(p, NoJob) /\ UNCHANGED <<mailbox, newest, gone, deleted, overlooked, raced>>
  BY DEF End, Dropped, Abandon, notesHistory
<1>2. messy \subseteq messy' /\ (At(p, "save", "cleanup") => jobs[p].note \in messy')
  BY DEF End, Dropped, Abandon, notesHistory, At
<1>3. NoJob.step = "done" /\ NoJob.note \notin NoteIds
  BY Slots DEF NoJob
<1>4. jobs'[p] = NoJob /\ \A q \in Procs : q # p => jobs'[q] = jobs[q]
  BY <1>1, StartIs
<1>5. \A q \in Procs : Keeps(jobs[q], jobs'[q])
  BY <1>3, <1>4, KeptSlot, EndedSlot
<1> QED
  BY <1>1, <1>2, <1>4, <1>5, KeepStep DEF mailbox

LEMMA KeepRemove ==
  ASSUME NoteInv, EditInv, OthersRemove
  PROVE  EditInv'
<1>1. PICK e \in stored : stored' = stored \ {e}
  BY DEF OthersRemove
<1>2. UNCHANGED <<born, mail, given, jobs, newest, messy, deleted, overlooked, raced>>
  BY DEF OthersRemove
<1>3. \A q \in Procs : Keeps(jobs[q], jobs'[q])
  BY <1>2, KeptSlot
<1> QED
  BY <1>1, <1>2, <1>3, KeepStep

\* A lookup that no edit makes.
LEMMA KeepLookup ==
  ASSUME NoteInv, EditInv, NEW p \in Procs, Resolve(p) \/ ResolveErrs(p), jobs[p].op # "save"
  PROVE  EditInv'
<1> DEFINE n == jobs[p].note
<1>1. PICK old : jobs' = [jobs EXCEPT ![p].old = old, ![p].step = AfterResolve(jobs[p].op, old)]
  BY DEF Resolve, ResolveErrs
<1>2. AfterResolve(jobs[p].op, old) \in {"destroy", "fetch", "done"}
  BY DEF AfterResolve
<1>3. /\ jobs'[p].step \in {"destroy", "fetch", "done"} /\ jobs'[p].note = n
      /\ \A q \in Procs : q # p => jobs'[q] = jobs[q]
  BY <1>1, <1>2, Slots DEF Job
<1>4. Keeps(jobs[p], jobs'[p])
  BY <1>3 DEF Keeps, Saves, Gives, Adopting
<1>5. \A q \in Procs : Keeps(jobs[q], jobs'[q])
  BY <1>3, <1>4, KeptSlot
<1>6. UNCHANGED <<mailbox, newest, gone, raced>> /\ messy' = messy /\ ~At(p, "save", "cleanup")
  BY DEF Resolve, ResolveErrs, At
<1>7. \A k \in deleted' \ overlooked' : k \in deleted \ overlooked \/ newest[k] \notin stored'
  <2>1. \/ deleted' = deleted /\ overlooked' = overlooked
        \/ deleted' = deleted \cup {n} /\ overlooked' = overlooked \cup {n}
        \/ Backing(n) = {} /\ deleted' = deleted \cup {n} /\ overlooked' = overlooked \ {n}
    BY DEF Resolve, ResolveErrs
  <2>2. n \in NoteIds /\ newest[n] \in stored => newest[n] \in Backing(n)
    BY Slots DEF Backing, NoteInv, TagsInv, NotesTypeOK
  <2>3. n \in NoteIds
    BY DEF Resolve, ResolveErrs, JobInv, NoteInv
  <2> QED
    BY <1>6, <2>1, <2>2, <2>3 DEF mailbox
<1> QED
  BY <1>3, <1>5, <1>6, <1>7, KeepStep DEF mailbox

-----------------------------------------------------------------------------
(* Edits *)

\* The id of a new note is nobody else's.
LEMMA KeepBegin ==
  ASSUME NoteInv, EditInv, NEW p \in Procs, Begin(p)
  PROVE  EditInv'
<1>1. UNCHANGED <<stored, born, mail, notesHistory>> /\ jobs[p] = NoJob
  BY DEF Begin
<1>2. jobs[p].step = "done" /\ jobs[p].op = "none" /\ jobs[p].note \notin NoteIds
  BY <1>1, Slots DEF NoJob
<1>3. CASE \E n \in NoteIds \ given, v \in Vals : StartJob(p, SaveNew(n, v)) /\ given' = given \cup {n}
  <2>1. PICK n \in NoteIds \ given : given' = given \cup {n} /\ \E v \in Vals : StartJob(p, SaveNew(n, v))
    BY <1>3
  <2>2. PICK v \in Vals : StartJob(p, SaveNew(n, v))
    BY <2>1
  <2>3. /\ jobs'[p].op = "save" /\ jobs'[p].step = "import" /\ jobs'[p].note = n
        /\ \A q \in Procs : q # p => jobs'[q] = jobs[q]
    <3>1. SaveNew(n, v).op = "save" /\ SaveNew(n, v).step = "import" /\ SaveNew(n, v).note = n
      BY DEF SaveNew, NoJob
    <3> QED
      BY <2>2, <3>1, StartIs
  <2>4. ~Used(n) /\ \A q \in Procs : \A e \in EmailIds : ~Gives(jobs[q], e, n)
    BY <2>1 DEF EditInv, GivenInv
  <2>5. /\ \A k : Backing(k)' = Backing(k)
        /\ \A k, q, e : Gives(jobs[q], e, k)' <=> Gives(jobs'[q], e, k)
        /\ \A k, q : Saves(jobs[q], k)' <=> Saves(jobs'[q], k)
    BY <1>1 DEF Backing, Gives, Adopting, Saves
  <2>6. \A k \in NoteIds : k # n => (Used(k)' => Used(k))
    BY <1>1, <2>3, <2>5 DEF Used, notesHistory
  <2>7. \A q \in Procs : \A e \in EmailIds, k \in NoteIds : Gives(jobs'[q], e, k) => Gives(jobs[q], e, k)
    BY <2>3 DEF Gives, Adopting
  <2>8. GivenInv'
    BY <2>1, <2>4, <2>5, <2>6, <2>7 DEF GivenInv, EditInv
  <2>9. DeletedInv'
    BY <1>1 DEF DeletedInv, EditInv, notesHistory
  <2>10. ASSUME NEW k \in NoteIds \ messy' PROVE RevisionInv(k)'
    <3>1. \A q \in Procs : Saves(jobs'[q], k) =>
            (Saves(jobs[q], k) /\ jobs'[q] = jobs[q]) \/ (q = p /\ k = n)
      BY <2>3 DEF Saves
    <3>2. \A q : q \in CleaningUp(k) => q \in CleaningUp(k)' /\ jobs'[q] = jobs[q]
      BY <1>2, <2>3 DEF CleaningUp, At
    <3>3. RevisionInv(k) /\ newest' = newest
      BY <1>1, <2>10 DEF EditInv, notesHistory
    <3>4. CASE k # n
      BY <2>5, <3>1, <3>2, <3>3, <3>4 DEF RevisionInv
    <3>5. CASE k = n
      <4>1. Backing(k) = {} /\ \A q \in Procs : ~Saves(jobs[q], k)
        BY <2>4, <3>5 DEF Used, Saves
      <4> QED
        BY <2>5, <3>1, <4>1 DEF RevisionInv
    <3> QED
      BY <3>4, <3>5
  <2>11. \A q \in Procs : jobs'[q].step = "import" => jobs'[q].op = "save"
    BY <2>3 DEF EditInv
  <2> QED
    BY <2>8, <2>9, <2>10, <2>11 DEF EditInv
<1>4. CASE ~\E n \in NoteIds \ given, v \in Vals : StartJob(p, SaveNew(n, v)) /\ given' = given \cup {n}
  <2>1. given' = given
    BY <1>4 DEF Begin
  <2>2. PICK j : /\ StartJob(p, j) /\ j.step \in {"resolve", "query"}
                 /\ j.note \notin NoteIds \/ newest[j.note] # None
    <3>1. CASE \E n \in {m \in given : newest[m] # None} :
                  \/ \E v \in Vals : StartJob(p, SaveOld(n, v))
                  \/ StartJob(p, DestroyNote(n)) \/ StartJob(p, GetNote(n))
      <4>1. PICK n \in {m \in given : newest[m] # None} :
                  \/ \E v \in Vals : StartJob(p, SaveOld(n, v))
                  \/ StartJob(p, DestroyNote(n)) \/ StartJob(p, GetNote(n))
        BY <3>1
      <4>2. \A v : SaveOld(n, v).step = "resolve" /\ SaveOld(n, v).note = n
        BY DEF SaveOld, NoJob
      <4>3. /\ DestroyNote(n).step = "resolve" /\ DestroyNote(n).note = n
            /\ GetNote(n).step = "resolve" /\ GetNote(n).note = n
        BY DEF DestroyNote, GetNote, NoJob
      <4> QED
        BY <4>1, <4>2, <4>3
    <3>2. CASE StartJob(p, ListNotes)
      <4>1. ListNotes.step = "query" /\ ListNotes.note \notin NoteIds
        BY Slots DEF ListNotes, NoJob
      <4> QED
        BY <3>2, <4>1
    <3> QED
      BY <1>4, <3>1, <3>2 DEF Begin
  <2>3. jobs'[p] = j /\ \A q \in Procs : q # p => jobs'[q] = jobs[q]
    BY <2>2, StartIs
  <2>4. Keeps(jobs[p], j)
    BY <2>2 DEF Keeps, Saves, Gives, Adopting
  <2>5. \A q \in Procs : Keeps(jobs[q], jobs'[q])
    BY <2>3, <2>4, KeptSlot
  <2>6. ~At(p, "save", "cleanup")
    BY <1>2 DEF At
  <2> QED
    BY <1>1, <2>1, <2>3, <2>5, <2>6, KeepStep DEF notesHistory
<1> QED
  BY <1>3, <1>4

\* An edit that looks its note up: if no other is at work and the lookup was not
\* answered with an error, it has found the only email.
LEMMA KeepSave ==
  ASSUME NoteInv, EditInv, NEW p \in Procs, Resolve(p) \/ ResolveErrs(p), jobs[p].op = "save"
  PROVE  EditInv'
<1>1. PICK n \in NoteIds : n = jobs[p].note
  BY DEF Resolve, ResolveErrs, NoteInv, JobInv
<1>2. PICK old :
        /\ jobs' = [jobs EXCEPT ![p].old = old, ![p].step = AfterResolve(jobs[p].op, old)]
        /\ old \in (IF Backing(n) = {} THEN {None} ELSE Backing(n)) \/ n \in messy'
  BY <1>1 DEF Resolve, ResolveErrs
<1>3. /\ jobs[p].step = "resolve" /\ UNCHANGED <<deleted, overlooked>>
      /\ messy \subseteq messy' /\ (Overlaps(p, n) => n \in messy')
      /\ UNCHANGED <<stored, born, mail, given, newest>>
  BY <1>1 DEF Resolve, ResolveErrs, mailbox
<1>4. AfterResolve(jobs[p].op, old) = "import"
  BY DEF AfterResolve
<1>5. /\ jobs'[p].op = "save" /\ jobs'[p].step = "import" /\ jobs'[p].note = n /\ jobs'[p].old = old
      /\ \A q \in Procs : q # p => jobs'[q] = jobs[q]
  BY <1>1, <1>2, <1>4, Slots DEF Job
<1>6. /\ \A k : Backing(k)' = Backing(k)
      /\ \A k, q, e : Gives(jobs[q], e, k)' <=> Gives(jobs'[q], e, k)
      /\ \A k, q : Saves(jobs[q], k)' <=> Saves(jobs'[q], k)
  BY <1>3 DEF Backing, Gives, Adopting, Saves
<1>7. \A k \in NoteIds : Used(k)' => Used(k)
  BY <1>1, <1>3, <1>5, <1>6 DEF Used
<1>8. \A q \in Procs : \A e \in EmailIds, k \in NoteIds : Gives(jobs'[q], e, k) => Gives(jobs[q], e, k)
  BY <1>5 DEF Gives, Adopting
<1>9. GivenInv'
  BY <1>3, <1>6, <1>7, <1>8 DEF GivenInv, EditInv
<1>10. DeletedInv'
  BY <1>3 DEF DeletedInv, EditInv
<1>11. ASSUME NEW k \in NoteIds \ messy' PROVE RevisionInv(k)'
  <2>1. RevisionInv(k)
    BY <1>3, <1>11 DEF EditInv
  <2>2. \A q \in Procs : Saves(jobs'[q], k) => (Saves(jobs[q], k) /\ jobs'[q] = jobs[q]) \/ (q = p /\ k = n)
    BY <1>5 DEF Saves
  <2>3. \A q : q \in CleaningUp(k) => q \in CleaningUp(k)' /\ jobs'[q] = jobs[q]
    BY <1>3, <1>5 DEF CleaningUp, At
  <2>4. CASE k # n
    BY <1>3, <1>6, <2>1, <2>2, <2>3, <2>4 DEF RevisionInv
  <2>5. CASE k = n
    <3>1. \A q \in Procs \ {p} : ~Saves(jobs[q], n)
      BY <1>3, <1>11, <2>5 DEF Overlaps, Saves
    <3>2. CleaningUp(n) = {}
      BY <1>3, <3>1 DEF CleaningUp, At, Saves
    <3>3. Backing(n) \subseteq {newest[n]} /\ Backing(n) \subseteq {old}
      BY <1>2, <1>11, <2>1, <2>5, <3>2 DEF RevisionInv
    <3>4. \A q \in Procs : Saves(jobs'[q], n) => q = p
      BY <1>5, <3>1
    <3> QED
      BY <1>3, <1>5, <1>6, <2>5, <3>3, <3>4 DEF RevisionInv
  <2> QED
    BY <2>4, <2>5
<1>12. \A q \in Procs : jobs'[q].step = "import" => jobs'[q].op = "save"
  BY <1>5 DEF EditInv
<1> QED
  BY <1>9, <1>10, <1>11, <1>12 DEF EditInv

\* The email of a new revision belongs to no other note.
LEMMA NewBacking ==
  ASSUME NoteInv, born # EmailIds, NEW T \in SUBSET NoteIds, NEW v, NEW s,
         mail' = [mail EXCEPT ![NextEmail] = [tags |-> T, val |-> v, sec |-> s]],
         stored' = stored \cup {NextEmail}
  PROVE  /\ \A n : Backing(n)' = IF n \in T THEN Backing(n) \cup {NextEmail} ELSE Backing(n)
         /\ NextEmail \notin stored /\ NextEmail \notin born /\ NextEmail # None
<1>1. NextEmail \in EmailIds /\ NextEmail \notin born /\ NextEmail # None
  BY NextEmailIsNew DEF NoteInv
<1>2. mail'[NextEmail].tags = T /\ \A e \in stored : mail'[e] = mail[e] /\ e # NextEmail
  BY <1>1, Slots
<1> HIDE DEF NextEmail
<1> QED
  BY <1>1, <1>2, Slots DEF Backing

LEMMA KeepImport ==
  ASSUME NoteInv, EditInv, NEW p \in Procs, Import(p) \/ ImportUnanswered(p)
  PROVE  EditInv'
<1>1. Imported(p) /\ jobs[p].step = "import" /\ born # EmailIds
  BY DEF Import, ImportUnanswered, Imported
<1>2. PICK n \in NoteIds : n = jobs[p].note
  BY <1>1 DEF NoteInv, JobInv
<1>3. PICK x : x = NextEmail
  OBVIOUS
<1>4. PICK s \in Seconds :
        mail' = [mail EXCEPT ![NextEmail] = [tags |-> {n}, val |-> jobs[p].val, sec |-> s]]
  BY <1>1, <1>2 DEF Imported
<1>5. /\ stored' = stored \cup {x} /\ given' = given
      /\ deleted' = deleted \ {n} /\ overlooked' = overlooked
      /\ newest' = [newest EXCEPT ![n] = x] /\ messy \subseteq messy'
  BY <1>1, <1>2, <1>3 DEF Import, ImportUnanswered, Imported
<1>6. /\ \A k : Backing(k)' = IF k = n THEN Backing(k) \cup {x} ELSE Backing(k)
      /\ x \notin stored /\ x \notin born /\ x # None
  BY <1>1, <1>3, <1>4, <1>5, NewBacking
<1>7. /\ jobs'[p].note = n /\ jobs'[p].op = jobs[p].op /\ jobs'[p].old = jobs[p].old
      /\ jobs'[p].step \in {"done", "cleanup"}
      /\ \A q \in Procs : q # p => jobs'[q] = jobs[q]
  BY <1>2, Slots DEF Import, ImportUnanswered, Finish, Job
<1>8. newest'[n] = x /\ \A k \in NoteIds \ {n} : newest'[k] = newest[k]
  BY <1>5, Slots
<1>9. /\ \A k, q, e : Gives(jobs[q], e, k)' <=> Gives(jobs'[q], e, k)
      /\ \A k, q : Saves(jobs[q], k)' <=> Saves(jobs'[q], k)
  BY DEF Gives, Adopting, Saves
<1>10. Used(n) /\ \A k \in NoteIds \ {n} : Used(k)' => Used(k)
  BY <1>2, <1>6, <1>7, <1>8 DEF Used
<1>11. \A q \in Procs : \A e \in EmailIds, k \in NoteIds : Gives(jobs'[q], e, k) => Gives(jobs[q], e, k)
  BY <1>7 DEF Gives, Adopting
<1>12. GivenInv'
  BY <1>5, <1>9, <1>10, <1>11 DEF GivenInv, EditInv
<1>13. DeletedInv'
  BY <1>5, <1>6, <1>8, Slots DEF DeletedInv, EditInv
<1>14. ASSUME NEW k \in NoteIds \ messy' PROVE RevisionInv(k)'
  <2>1. RevisionInv(k)
    BY <1>5, <1>14 DEF EditInv
  <2>2. CASE k # n
    <3>1. \A q \in Procs : Saves(jobs'[q], k) => Saves(jobs[q], k) /\ jobs'[q] = jobs[q]
      BY <1>7, <2>2 DEF Saves
    <3>2. \A q : q \in CleaningUp(k) => q \in CleaningUp(k)' /\ jobs'[q] = jobs[q]
      BY <1>2, <1>7, <2>2 DEF CleaningUp, At
    <3> QED
      BY <1>6, <1>8, <1>9, <2>1, <2>2, <3>1, <3>2 DEF RevisionInv
  <2>3. CASE k = n
    <3>1. Import(p)
      BY <1>2, <1>14, <2>3 DEF ImportUnanswered
    <3>2. Saves(jobs[p], n) /\ jobs[p].op = "save"
      BY <1>1, <1>2 DEF EditInv, Saves
    <3>3. Backing(n) \subseteq {jobs[p].old} /\ \A q \in Procs : Saves(jobs[q], n) => q = p
      BY <1>1, <2>1, <2>3, <3>2 DEF RevisionInv
    <3>4. \A q \in Procs : Saves(jobs'[q], n) => q = p
      BY <1>7, <3>3
    <3>5. Backing(n) = {} \/ p \in CleaningUp(n)'
      <4>1. jobs[p].old # None => jobs'[p].step = "cleanup"
        BY <3>1, Slots DEF Import, Job
      <4>2. jobs[p].old = None => Backing(n) = {}
        BY <3>3, Slots DEF Backing
      <4> QED
        BY <1>7, <3>2, <4>1, <4>2 DEF CleaningUp, At
    <3>6. Backing(n)' \subseteq {newest'[n]} \cup {jobs'[q].old : q \in CleaningUp(n)'}
      BY <1>6, <1>7, <1>8, <3>3, <3>5
    <3> QED
      BY <1>7, <1>9, <2>3, <3>4, <3>6 DEF RevisionInv
  <2> QED
    BY <2>2, <2>3
<1>15. \A q \in Procs : jobs'[q].step = "import" => jobs'[q].op = "save"
  BY <1>7 DEF EditInv
<1> QED
  BY <1>12, <1>13, <1>14, <1>15 DEF EditInv

LEMMA KeepCreate ==
  ASSUME NoteInv, EditInv, OthersCreate
  PROVE  EditInv'
<1>1. born # EmailIds /\ stored' = stored \cup {NextEmail} /\ UNCHANGED <<given, jobs, notesHistory>>
  BY DEF OthersCreate
<1>2. PICK v \in Vals, s \in Seconds :
        mail' = [mail EXCEPT ![NextEmail] = [tags |-> {}, val |-> v, sec |-> s]]
  BY DEF OthersCreate
<1> PICK T \in SUBSET NoteIds : T = {}
  OBVIOUS
<1>3. /\ \A k : Backing(k)' = Backing(k)
      /\ NextEmail \notin born /\ NextEmail # None
  <2>1. mail' = [mail EXCEPT ![NextEmail] = [tags |-> T, val |-> v, sec |-> s]]
    BY <1>2
  <2> QED
    BY <1>1, <2>1, NewBacking
<1>4. newest' = newest /\ deleted' = deleted /\ overlooked' = overlooked /\ messy' = messy
  BY <1>1 DEF notesHistory
<1>5. GivenInv'
  BY <1>1, <1>3, <1>4 DEF EditInv, GivenInv, Used, Gives, Adopting
<1>6. DeletedInv'
  BY <1>1, <1>3, <1>4, Slots DEF EditInv, DeletedInv
<1>7. \A k \in NoteIds \ messy' : RevisionInv(k)'
  BY <1>1, <1>3, <1>4 DEF EditInv, RevisionInv, Saves, CleaningUp, At
<1> QED
  BY <1>1, <1>5, <1>6, <1>7 DEF EditInv

-----------------------------------------------------------------------------
(* Adoption *)

\* A listing gives every email it adopts an id of its own that was never given.
LEMMA KeepList ==
  ASSUME NoteInv, EditInv, NEW p \in Procs, List(p)
  PROVE  EditInv'
<1>1. PICK adopted \in Adoptions : \E last \in [NoteIds -> Listed \cup {None}] :
        LET fresh == {adopted[e] : e \in EmailIds} \ {None} IN
        /\ given' = given \cup fresh
        /\ jobs' = [jobs EXCEPT
             ![p].adopted = adopted,
             ![p].found = [n \in NoteIds |-> IF last[n] = None THEN NoHash ELSE note_hash(last[n])],
             ![p].step = IF fresh = {} THEN "done" ELSE "adopt"]
  BY DEF List
<1>2. /\ adopted \in [EmailIds -> (NoteIds \ given) \cup {None}]
      /\ \A e, o \in EmailIds : adopted[e] # None /\ adopted[e] = adopted[o] => e = o
  BY DEF Adoptions, Tagging
<1>3. given' = given \cup ({adopted[e] : e \in EmailIds} \ {None})
  BY <1>1
<1>4. /\ jobs'[p].adopted = adopted /\ jobs'[p].op = jobs[p].op /\ jobs'[p].note = jobs[p].note
      /\ jobs'[p].step \in {"done", "adopt"}
      /\ \A q \in Procs : q # p => jobs'[q] = jobs[q]
  <2>1. PICK found, step : /\ jobs' = [jobs EXCEPT ![p].adopted = adopted, ![p].found = found, ![p].step = step]
                           /\ step \in {"done", "adopt"}
    BY <1>1
  <2> QED
    BY <2>1, Slots DEF Job
<1>5. UNCHANGED <<stored, mail, newest, messy, deleted, overlooked>> /\ jobs[p].op = "list" /\ jobs[p].step = "query"
  BY DEF List, At
<1>6. /\ \A k : Backing(k)' = Backing(k)
      /\ \A k, q, e : Gives(jobs[q], e, k)' <=> Gives(jobs'[q], e, k)
      /\ \A k, q : Saves(jobs[q], k)' <=> Saves(jobs'[q], k)
  BY <1>5 DEF Backing, Gives, Adopting, Saves
<1>7. \A k \in NoteIds : Used(k)' => Used(k)
  BY <1>4, <1>5, <1>6 DEF Used
<1>8. \A q \in Procs : \A e \in EmailIds, k \in NoteIds :
        Gives(jobs'[q], e, k) => Gives(jobs[q], e, k) \/ (q = p /\ adopted[e] = k)
  BY <1>4 DEF Gives, Adopting
<1>9. \A e \in EmailIds, k \in NoteIds : Gives(jobs[p], e, k) => FALSE
  BY <1>5 DEF Gives, Adopting
<1>10. GivenInv'
  <2>1. \A k \in NoteIds : Used(k)' => k \in given'
    BY <1>3, <1>7 DEF EditInv, GivenInv
  <2>2. ASSUME NEW k \in NoteIds, NEW q \in Procs, NEW e \in EmailIds, Gives(jobs'[q], e, k)
        PROVE  /\ k \in given' /\ ~Used(k)'
               /\ \A r \in Procs : \A o \in EmailIds : Gives(jobs'[r], o, k) => r = q /\ o = e
    <3>1. CASE Gives(jobs[q], e, k)
      <4>1. /\ k \in given /\ ~Used(k)
            /\ \A r \in Procs : \A o \in EmailIds : Gives(jobs[r], o, k) => r = q /\ o = e
        BY <3>1 DEF EditInv, GivenInv
      <4>2. \A o \in EmailIds : adopted[o] # k
        BY <1>2, <4>1, Slots
      <4> QED
        BY <1>3, <1>7, <1>8, <4>1, <4>2
    <3>2. CASE q = p /\ adopted[e] = k
      <4>1. k \in NoteIds \ given /\ k # None /\ k \in given'
        BY <1>2, <1>3, <3>2, Slots
      <4>2. ~Used(k) /\ \A r \in Procs : \A o \in EmailIds : ~Gives(jobs[r], o, k)
        BY <4>1 DEF EditInv, GivenInv
      <4> QED
        BY <1>2, <1>7, <1>8, <3>2, <4>1, <4>2
    <3> QED
      BY <1>8, <2>2, <3>1, <3>2
  <2> QED
    BY <1>6, <2>1, <2>2 DEF GivenInv
<1>11. DeletedInv'
  BY <1>5 DEF EditInv, DeletedInv
<1>12. ASSUME NEW k \in NoteIds \ messy' PROVE RevisionInv(k)'
  <2>1. RevisionInv(k)
    BY <1>5, <1>12 DEF EditInv
  <2>2. \A q \in Procs : Saves(jobs'[q], k) => Saves(jobs[q], k) /\ jobs'[q] = jobs[q]
    BY <1>4, <1>5 DEF Saves
  <2>3. \A q : q \in CleaningUp(k) => q \in CleaningUp(k)' /\ jobs'[q] = jobs[q]
    BY <1>4, <1>5 DEF CleaningUp, At
  <2> QED
    BY <1>5, <1>6, <2>1, <2>2, <2>3 DEF RevisionInv
<1>13. \A q \in Procs : jobs'[q].step = "import" => jobs'[q].op = "save"
  BY <1>4 DEF EditInv
<1> QED
  BY <1>10, <1>11, <1>12, <1>13 DEF EditInv

\* The emails of a note after an adoption, and its newest one.
LEMMA AdoptedNote ==
  ASSUME NoteInv, EditInv, NEW p \in Procs, Adopt(p), NEW n \in NoteIds
  PROVE  \/ /\ \E e \in stored : /\ Gives(jobs[p], e, n)
                                 /\ Backing(n)' = {e} /\ newest'[n] = e
            /\ n \notin deleted'
         \/ Backing(n)' = Backing(n) /\ newest'[n] = newest[n] /\ (n \in deleted' => n \in deleted)
<1> DEFINE Mine == {e \in stored : jobs[p].adopted[e] = n}
<1>1. At(p, "list", "adopt") /\ UNCHANGED <<stored, given>>
      /\ deleted' = deleted \ {jobs[p].adopted[e] : e \in stored}
  BY DEF Adopt
<1>2. newest'[n] = IF \E e \in stored : jobs[p].adopted[e] = n
                     THEN CHOOSE e \in stored : jobs[p].adopted[e] = n ELSE newest[n]
  BY DEF Adopt
<1>3. \A e \in EmailIds : jobs[p].adopted[e] = n => Gives(jobs[p], e, n)
  BY <1>1, Slots DEF Gives, Adopting, At
<1>4. \A e \in stored : e \in EmailIds /\ mail'[e].tags = Patched(p, e)
  BY <1>1, Slots DEF Adopt, Email
<1>5. Backing(n)' = Backing(n) \cup Mine
  BY <1>1, <1>4, Slots DEF Backing, Patched
<1>6. CASE Mine = {}
  BY <1>1, <1>2, <1>5, <1>6
<1>7. CASE Mine # {}
  <2>1. PICK e \in Mine : TRUE
    BY <1>7
  <2>2. e \in EmailIds /\ e \in stored /\ Gives(jobs[p], e, n)
    BY <1>3, <1>4, <2>1
  <2>3. Backing(n) = {} /\ \A o \in EmailIds : Gives(jobs[p], o, n) => o = e
    BY <2>2 DEF EditInv, GivenInv, Used
  <2>4. Mine = {e}
    BY <1>3, <1>4, <2>1, <2>3
  <2>5. newest'[n] = e
    BY <1>2, <2>2, <2>4
  <2> QED
    BY <1>1, <1>5, <2>1, <2>2, <2>3, <2>4, <2>5
<1> QED
  BY <1>6, <1>7

LEMMA KeepAdopt ==
  ASSUME NoteInv, EditInv, NEW p \in Procs, Adopt(p)
  PROVE  EditInv'
<1>1. UNCHANGED <<stored, given, messy, overlooked>> /\ At(p, "list", "adopt") /\ Finish(p, TRUE)
  BY DEF Adopt
<1>2. jobs'[p].step = "done" /\ jobs'[p].note = jobs[p].note
      /\ \A q \in Procs : q # p => jobs'[q] = jobs[q]
  BY <1>1, FinishIs
<1>3. /\ \A k, q, e : Gives(jobs[q], e, k)' <=> Gives(jobs'[q], e, k)
      /\ \A k, q : Saves(jobs[q], k)' <=> Saves(jobs'[q], k)
  BY DEF Gives, Adopting, Saves
<1>4. \A q \in Procs : \A e \in EmailIds, k \in NoteIds :
        Gives(jobs'[q], e, k) => Gives(jobs[q], e, k) /\ q # p
  BY <1>2 DEF Gives, Adopting
<1>5. ASSUME NEW n \in NoteIds PROVE (Used(n)' => Used(n)) \/ \E e \in EmailIds : Gives(jobs[p], e, n)
  <2>1. CASE Backing(n)' = Backing(n) /\ newest'[n] = newest[n]
    BY <1>2, <2>1 DEF Used
  <2> QED
    BY <2>1, AdoptedNote, Slots
<1>6. GivenInv'
  <2>1. ASSUME NEW n \in NoteIds, Used(n)' PROVE n \in given'
    BY <1>1, <1>5, <2>1 DEF EditInv, GivenInv
  <2>2. ASSUME NEW n \in NoteIds, NEW q \in Procs, NEW e \in EmailIds, Gives(jobs'[q], e, n)
        PROVE  /\ n \in given' /\ ~Used(n)'
               /\ \A r \in Procs : \A o \in EmailIds : Gives(jobs'[r], o, n) => r = q /\ o = e
    <3>1. /\ n \in given /\ ~Used(n) /\ q # p
          /\ \A r \in Procs : \A o \in EmailIds : Gives(jobs[r], o, n) => r = q /\ o = e
      BY <1>4, <2>2 DEF EditInv, GivenInv
    <3> QED
      BY <1>1, <1>4, <1>5, <3>1
  <2> QED
    BY <1>3, <2>1, <2>2 DEF GivenInv
<1>7. DeletedInv'
  <2>1. \A n \in deleted' : n \in deleted
    BY DEF Adopt
  <2>2. \A n \in deleted' : newest'[n] = newest[n]
    BY <2>1, AdoptedNote, Slots
  <2> QED
    BY <1>1, <2>1, <2>2 DEF EditInv, DeletedInv
<1>8. ASSUME NEW n \in NoteIds \ messy' PROVE RevisionInv(n)'
  <2>1. RevisionInv(n)
    BY <1>1, <1>8 DEF EditInv
  <2>2. \A q \in Procs : Saves(jobs'[q], n) => Saves(jobs[q], n) /\ jobs'[q] = jobs[q]
    BY <1>2 DEF Saves
  <2>3. \A q : q \in CleaningUp(n) => q \in CleaningUp(n)' /\ jobs'[q] = jobs[q]
    BY <1>1, <1>2 DEF CleaningUp, At
  <2>4. CASE Backing(n)' = Backing(n) /\ newest'[n] = newest[n]
    BY <1>3, <2>1, <2>2, <2>3, <2>4 DEF RevisionInv
  <2>5. CASE \E e \in stored : Gives(jobs[p], e, n) /\ Backing(n)' = {e} /\ newest'[n] = e
    <3>1. \A q \in Procs : jobs[q].note # n
      BY <2>5, Slots DEF EditInv, GivenInv, Used
    <3>2. \A q \in Procs : ~Saves(jobs'[q], n)
      BY <2>2, <3>1 DEF Saves
    <3> QED
      BY <1>3, <2>5, <3>2 DEF RevisionInv
  <2> QED
    BY <2>4, <2>5, AdoptedNote
<1>9. \A q \in Procs : jobs'[q].step = "import" => jobs'[q].op = "save"
  BY <1>2 DEF EditInv
<1> QED
  BY <1>6, <1>7, <1>8, <1>9 DEF EditInv

-----------------------------------------------------------------------------
(* The theorems *)

LEMMA EditInit == NotesInit => EditInv
<1> SUFFICES ASSUME NotesInit PROVE EditInv
  OBVIOUS
<1>1. \A p \in Procs : jobs[p].step = "done" /\ jobs[p].note \notin NoteIds
  BY IdsAssumption DEF NotesInit, NoJob, None
<1>2. \A n \in NoteIds : Backing(n) = {} /\ ~Used(n)
  BY <1>1 DEF NotesInit, Backing, Used
<1>3. \A p \in Procs : \A n : ~Saves(jobs[p], n) /\ \A e : ~Gives(jobs[p], e, n)
  BY <1>1 DEF Saves, Gives, Adopting
<1>4. GivenInv /\ DeletedInv
  BY <1>2, <1>3 DEF GivenInv, DeletedInv, NotesInit
<1>5. \A n \in NoteIds : RevisionInv(n)
  BY <1>2, <1>3 DEF RevisionInv
<1> QED
  BY <1>1, <1>4, <1>5 DEF EditInv

LEMMA EditStep == NoteInv /\ EditInv /\ [NotesNext]_notesVars => EditInv'
<1> SUFFICES ASSUME NoteInv, EditInv, [NotesNext]_notesVars PROVE EditInv'
  OBVIOUS
<1>1. CASE UNCHANGED notesVars
  <2>1. \A q \in Procs : Keeps(jobs[q], jobs'[q])
    BY <1>1, KeptSlot DEF notesVars
  <2> QED
    BY <1>1, <2>1, KeepStep DEF notesVars, mailbox, notesHistory
<1>2. ASSUME NEW p \in Procs, JobWorks(p) PROVE EditInv'
  BY <1>2, KeepSave, KeepLookup, KeepImport, KeepCleanup, KeepDestroy, KeepFetch, KeepList, KeepAdopt
  DEF JobWorks
<1>3. ASSUME NEW p \in Procs, JobFails(p) PROVE EditInv'
  BY <1>3, KeepFailure, KeepSave, KeepLookup, KeepImport DEF JobFails
<1>4. ASSUME NEW p \in Procs, Begin(p) \/ ListErrs(p) \/ End(p) \/ Dropped(p) PROVE EditInv'
  BY <1>4, KeepBegin, KeepFailure, KeepDropped
<1> QED
  BY <1>1, <1>2, <1>3, <1>4, KeepCreate, KeepRemove DEF NotesNext

\* Of a note that no failure, errored lookup, drop or overlap touched there is one
\* edit at a time,
\* and its emails are the newest one and what that edit is about to destroy.
THEOREM EditsInvariant == NotesSpec => []EditInv
<1> QED
  BY NotesInvariant, EditInit, EditStep, PTL DEF NotesSpec

\* Such a note has one email, and one more between the import and the cleanup of
\* an edit.
THEOREM RevisionIsOne == NotesSpec => []OneRevision
<1>1. NoteInv /\ EditInv => OneRevision
  <2> SUFFICES ASSUME NoteInv, EditInv, NEW n \in NoteIds \ messy
               PROVE  Cardinality(Backing(n)) <= 1 + Cardinality(CleaningUp(n))
    BY DEF OneRevision, CleaningUp
  <2>1. RevisionInv(n)
    BY DEF EditInv
  <2>2. \A a, b \in CleaningUp(n) : a = b
    BY <2>1 DEF RevisionInv, CleaningUp, At, Saves
  <2>3. CASE CleaningUp(n) = {}
    <3>1. Backing(n) \subseteq {newest[n]}
      BY <2>1, <2>3 DEF RevisionInv
    <3>2. IsFiniteSet({newest[n]}) /\ Cardinality({newest[n]}) = 1
      BY FS_Singleton
    <3>3. Cardinality(Backing(n)) <= 1
      BY <3>1, <3>2, FS_Subset
    <3> QED
      BY <2>3, <3>3, FS_EmptySet
  <2>4. CASE CleaningUp(n) # {}
    <3>1. PICK a : CleaningUp(n) = {a}
      BY <2>2, <2>4
    <3>2. Cardinality(CleaningUp(n)) = 1
      BY <3>1, FS_Singleton
    <3>3. Backing(n) \subseteq {newest[n]} \cup {jobs[a].old}
      BY <2>1, <3>1 DEF RevisionInv
    <3> DEFINE two == {newest[n]} \cup {jobs[a].old}
    <3>4. IsFiniteSet(two) /\ Cardinality(two) <= 2
      <4> PICK a1, b1 : a1 = newest[n] /\ b1 = jobs[a].old
        OBVIOUS
      <4>1. IsFiniteSet({a1}) /\ Cardinality({a1}) = 1
        BY FS_Singleton
      <4>2. IsFiniteSet({a1} \cup {b1}) /\ Cardinality({a1} \cup {b1}) \in {1, 2}
        BY <4>1, FS_AddElement
      <4> QED
        BY <4>2
    <3>5. Cardinality(Backing(n)) <= Cardinality(two) /\ Cardinality(Backing(n)) \in Nat
      BY <3>3, <3>4, FS_Subset, FS_CardinalityType
    <3>6. Cardinality(two) \in Nat
      BY <3>4, FS_CardinalityType
    <3> HIDE DEF two
    <3> QED
      BY <3>2, <3>4, <3>5, <3>6
  <2> QED
    BY <2>3, <2>4
<1> QED
  BY <1>1, NotesInvariant, EditsInvariant, PTL

\* A note that was deleted, its email not overlooked in a lookup answered with an
\* error, has no email but one that an edit is about to destroy.
THEOREM DeletedStaysGone == NotesSpec => []DeletedIsGone
<1>1. NoteInv /\ EditInv => DeletedIsGone
  <2> SUFFICES ASSUME NoteInv, EditInv, NEW n \in deleted \ (messy \cup overlooked),
                      NEW e \in Backing(n)
               PROVE  e \in {jobs[p].old : p \in {q \in Procs : At(q, "save", "cleanup")}}
    BY DEF DeletedIsGone
  <2>1. RevisionInv(n) /\ newest[n] \notin stored
    BY Slots DEF EditInv, DeletedInv
  <2>2. e \in stored /\ e \in {jobs[p].old : p \in CleaningUp(n)}
    BY <2>1 DEF RevisionInv, Backing
  <2> QED
    BY <2>2 DEF CleaningUp
<1> QED
  BY <1>1, NotesInvariant, EditsInvariant, PTL
=============================================================================
