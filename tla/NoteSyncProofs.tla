--------------------------- MODULE NoteSyncProofs ---------------------------
(***************************************************************************)
(* For every set of notes, emails, bodies and faults: what a Notes Sync    *)
(* request knows at each of its steps.  SyncInv carries the invariants of  *)
(* the note functions over to the requests of a device and relates the     *)
(* request to its function, its answer and the device.                     *)
(***************************************************************************)
EXTENDS NoteSync, NoteProofs

-----------------------------------------------------------------------------
(* Another device's save *)

LEMMA OnlyGw == Gw \in Procs /\ Gw # None /\ \A q \in Procs : q = Gw
BY GwAssumption

\* What OthersSave does, with the email it adds by name.
LEMMA SaveIs ==
  ASSUME NoteInv, MailInv, OthersSave
  PROVE  \E x, n, v, s, old :
           /\ x = NextEmail /\ x \in EmailIds /\ x \notin born /\ x # None
           /\ n \in NoteIds /\ v \in Vals /\ s \in Seconds
           /\ old \in stored /\ mail[old].tags = {n}
           /\ mail' = [mail EXCEPT ![x] = [tags |-> {n}, val |-> v, sec |-> s]]
           /\ stored' = (stored \ {old}) \cup {x} /\ born' = born \cup {x}
           /\ newest' = [newest EXCEPT ![n] = x] /\ deleted' = deleted \ {n}
           /\ messy' = IF Overlaps(None, n) THEN messy \cup {n} ELSE messy
<1>1. born # EmailIds
  BY DEF OthersSave
<1>2. PICK old \in stored, v \in Vals, s \in Seconds :
         LET n == extract_stable_id(old) IN
         /\ n # None
         /\ mail' = [mail EXCEPT ![NextEmail] = [tags |-> {n}, val |-> v, sec |-> s]]
         /\ stored' = (stored \ {old}) \cup {NextEmail}
         /\ born' = born \cup {NextEmail}
         /\ newest' = [newest EXCEPT ![n] = NextEmail]
         /\ deleted' = deleted \ {n}
         /\ messy' = IF Overlaps(None, n) THEN messy \cup {n} ELSE messy
  BY DEF OthersSave
<1>3. PICK n : n = extract_stable_id(old)
  OBVIOUS
<1>4. PICK x : x = NextEmail
  OBVIOUS
<1>5. x \in EmailIds /\ x \notin born /\ x # None
  BY <1>1, <1>4, NextEmailIsNew DEF NoteInv
<1>6. n \in NoteIds /\ mail[old].tags = {n}
  <2>1. old \in born /\ raced = {} /\ old \in EmailIds
    BY Slots DEF MailInv
  <2>2. mail[old].tags # {} /\ \A a, b \in mail[old].tags : a = b
    BY <1>2, <2>1 DEF extract_stable_id, NoteInv, TagsInv
  <2>3. PICK a : mail[old].tags = {a}
    BY <2>2
  <2>4. mail[old].tags \subseteq NoteIds
    BY <2>1, Slots DEF Email
  <2>5. a \in Nat /\ Least({a}) = a
    <3>1. a \in Nat /\ {a} \in SUBSET Nat /\ IsFiniteSet({a})
      BY <2>3, <2>4, IdsAssumption, FS_Singleton
    <3> QED
      BY <3>1, LeastIs
  <2> QED
    BY <1>3, <2>3, <2>4, <2>5 DEF extract_stable_id
<1> QED
  BY <1>2, <1>3, <1>4, <1>5, <1>6

LEMMA OthersSaveStep ==
  ASSUME NoteInv, MailInv, OthersSave
  PROVE  NoteInv'
<1>1. PICK x, n, v, s, old :
         /\ x = NextEmail /\ x \in EmailIds /\ x \notin born /\ x # None
         /\ n \in NoteIds /\ v \in Vals /\ s \in Seconds
         /\ old \in stored /\ mail[old].tags = {n}
         /\ mail' = [mail EXCEPT ![x] = [tags |-> {n}, val |-> v, sec |-> s]]
         /\ stored' = (stored \ {old}) \cup {x} /\ born' = born \cup {x}
         /\ newest' = [newest EXCEPT ![n] = x] /\ deleted' = deleted \ {n}
         /\ messy' = IF Overlaps(None, n) THEN messy \cup {n} ELSE messy
  BY SaveIs
<1>2. UNCHANGED <<given, jobs, gone, overlooked, raced>> /\ born # EmailIds
  BY DEF OthersSave
<1>3. messy' \subseteq NoteIds /\ deleted' \subseteq NoteIds /\ overlooked' \subseteq NoteIds
  BY <1>1, <1>2 DEF NoteInv, NotesTypeOK
<1>4. newest'[n] = x /\ \A k \in NoteIds : newest[k] # None => k \in mail[newest[k]].tags
  BY <1>1, Slots DEF NoteInv, TagsInv
<1>5. \A k \in NoteIds : newest[k] \in stored \ stored' => newest'[k] = x
  <2> SUFFICES ASSUME NEW k \in NoteIds, newest[k] \in stored \ stored' PROVE newest'[k] = x
    OBVIOUS
  <2>1. newest[k] = old /\ old # None
    BY <1>1, Slots
  <2>2. k = n
    BY <1>1, <1>4, <2>1
  <2> QED
    BY <1>4, <2>2
<1>6. /\ jobs' \in [Procs -> Job]
      /\ \A q \in Procs :
           \/ jobs'[q] = jobs[q]
           \/ /\ jobs'[q].old = jobs[q].old /\ jobs'[q].note = jobs[q].note
              /\ \/ jobs'[q].step = "done"
                 \/ /\ jobs'[q].step = "cleanup" /\ jobs[q].note \in NoteIds
                    /\ newest'[jobs[q].note] = NextEmail
  BY <1>2, Slots
<1>7. PICK T \in SUBSET NoteIds : T = {n}
  BY <1>1
<1>8. /\ mail' = [mail EXCEPT ![NextEmail] = [tags |-> T, val |-> v, sec |-> s]]
      /\ stored' \subseteq stored \cup {NextEmail} /\ NextEmail \in stored'
      /\ born' = born \cup {NextEmail}
      /\ \A k \in NoteIds : newest[k] \in stored \ stored' => newest'[k] = NextEmail
      /\ \E m \in T : newest' = [newest EXCEPT ![m] = NextEmail]
      /\ \A m, k \in T : m = k
  BY <1>1, <1>5, <1>7
<1>9. /\ \/ newest' = newest
         \/ \E m \in T : newest' = [newest EXCEPT ![m] = NextEmail]
      /\ v \in Vals \cup {None} /\ given' = given /\ gone' = gone /\ raced' = raced
  BY <1>1, <1>2, <1>8
<1>10. s \in Seconds
  BY <1>1
<1> QED
  BY <1>2, <1>3, <1>6, <1>8, <1>9, <1>10, NewEmailStep

\* Of a note nobody else is editing, the only email makes way for the new one.
LEMMA KeepOthersSave ==
  ASSUME NoteInv, EditInv, MailInv, OthersSave
  PROVE  EditInv'
<1>1. PICK x, n, v, s, old :
         /\ x = NextEmail /\ x \in EmailIds /\ x \notin born /\ x # None
         /\ n \in NoteIds /\ v \in Vals /\ s \in Seconds
         /\ old \in stored /\ mail[old].tags = {n}
         /\ mail' = [mail EXCEPT ![x] = [tags |-> {n}, val |-> v, sec |-> s]]
         /\ stored' = (stored \ {old}) \cup {x} /\ born' = born \cup {x}
         /\ newest' = [newest EXCEPT ![n] = x] /\ deleted' = deleted \ {n}
         /\ messy' = IF Overlaps(None, n) THEN messy \cup {n} ELSE messy
  BY SaveIs
<1>2. UNCHANGED <<given, jobs, gone, overlooked, raced>> /\ born # EmailIds
  BY DEF OthersSave
<1>3. newest'[n] = x /\ \A k \in NoteIds : k # n => newest'[k] = newest[k]
  BY <1>1, Slots
<1>4. /\ mail'[x].tags = {n} /\ x \notin stored
      /\ \A e \in stored : mail'[e] = mail[e] /\ e # x
  BY <1>1, Slots
<1>5. Backing(n)' = (Backing(n) \ {old}) \cup {x} /\ old \in Backing(n)
  BY <1>1, <1>4 DEF Backing
<1>6. \A k \in NoteIds : k # n => Backing(k)' = Backing(k)
  BY <1>1, <1>4 DEF Backing
<1>7. Used(n) /\ \A k \in NoteIds : Used(k)' => Used(k)
  <2>1. Used(n)
    BY <1>5 DEF Used
  <2> QED
    BY <1>2, <1>3, <1>6, <2>1 DEF Used
<1>8. GivenInv'
  BY <1>2, <1>7 DEF GivenInv, EditInv, Gives, Adopting
<1>9. DeletedInv'
  <2> SUFFICES ASSUME NEW k \in deleted' \ overlooked' PROVE newest'[k] \notin stored'
    BY DEF DeletedInv
  <2>1. k \in deleted \ overlooked /\ k # n /\ k \in NoteIds
    BY <1>1, <1>2, Slots
  <2>2. newest'[k] = newest[k] /\ newest[k] \notin stored
    BY <1>3, <2>1 DEF EditInv, DeletedInv
  <2>3. newest[k] # x
    BY <1>1, <2>1, Slots
  <2> QED
    BY <1>1, <2>2, <2>3
<1>10. ASSUME NEW k \in NoteIds \ messy' PROVE RevisionInv(k)'
  <2>1. RevisionInv(k)
    BY <1>1, <1>10 DEF EditInv
  <2>2. CASE k # n
    BY <1>2, <1>3, <1>6, <2>1, <2>2 DEF RevisionInv, Saves, CleaningUp, At
  <2>3. CASE k = n
    <3>1. ~Overlaps(None, n)
      BY <1>1, <1>10, <2>3
    <3>2. \A q \in Procs : ~Saves(jobs[q], n)
      BY <3>1, OnlyGw DEF Overlaps, Saves
    <3>3. CleaningUp(n) = {}
      BY <3>2 DEF CleaningUp, At, Saves
    <3>4. Backing(n)' \subseteq {newest'[n]}
      BY <1>3, <1>5, <2>1, <2>3, <3>3 DEF RevisionInv
    <3>5. \A q \in Procs : ~Saves(jobs[q], n)'
      BY <1>2, <3>2 DEF Saves
    <3> QED
      BY <2>3, <3>4, <3>5 DEF RevisionInv
  <2> QED
    BY <2>2, <2>3
<1>11. \A q \in Procs : jobs'[q].step = "import" => jobs'[q].op = "save"
  BY <1>2 DEF EditInv
<1> QED
  BY <1>8, <1>9, <1>10, <1>11 DEF EditInv

-----------------------------------------------------------------------------
(* What a step leaves of the mailbox *)

\* Emails stay what they are, and only gain notes.
Grows ==
  /\ born \subseteq born' /\ given \subseteq given' /\ raced' = {}
  /\ \A e \in born : /\ mail'[e].sec = mail[e].sec /\ mail'[e].val = mail[e].val
                     /\ mail[e].tags \subseteq mail'[e].tags
  /\ \A n \in NoteIds : newest[n] # None => newest'[n] # None

\* A new email has a body and a time, and is the newest one of its note.
NewMail(x) ==
  /\ x \notin born /\ born' = born \cup {x}
  /\ \A e \in born : mail'[e] = mail[e]
  /\ mail'[x].sec # 0 /\ mail'[x].val \in Vals
  /\ \A n \in mail'[x].tags : newest'[n] # None

LEMMA NewMailGrows ==
  ASSUME NoteInv, MailInv, NEW x, NewMail(x), raced' = raced, given' = given,
         \A n \in NoteIds : newest[n] # None => newest'[n] # None
  PROVE  Grows /\ MailInv'
<1>1. Grows
  BY DEF Grows, NewMail, MailInv
<1>2. \A e \in born : mail[e].tags \subseteq NoteIds
  BY Slots DEF Email
<1>3. MailInv'
  BY <1>2 DEF NewMail, MailInv
<1> QED
  BY <1>1, <1>3

\* The clock starts at one.
LEMMA SecondIsPositive ==
  ASSUME NoteInv, MailInv, born # EmailIds, NEW s \in Seconds
  PROVE  s \in Nat /\ s # 0
<1>1. LastSecond \in Nat /\ \A e \in born : mail[e].sec <= LastSecond
  BY ClockIsBounded DEF NoteInv
<1>2. CASE s = LastSecond + 1
  BY <1>1, <1>2
<1>3. CASE s = LastSecond /\ born # {}
  <2>1. PICK e \in born : mail[e].sec # 0 /\ mail[e].sec <= s
    BY <1>1, <1>3 DEF MailInv
  <2>2. mail[e].sec \in Nat
    <3>1. mail[e].sec \in Secs
      BY Slots DEF Email
    <3> QED
      BY <3>1 DEF Secs
  <2> QED
    BY <1>1, <1>3, <2>1, <2>2
<1> QED
  BY <1>2, <1>3 DEF Seconds

\* Only an edit of this request imports, and it has a body.
LEMMA ImportHasBody ==
  ASSUME SyncInv, jobs[Gw].step = "import"
  PROVE  jobs[Gw].val \in Vals /\ jobs[Gw].note \in NoteIds /\ jobs[Gw].op = "save"
<1>1. jobs[Gw].op = "save"
  BY OnlyGw DEF SyncInv, EditInv
<1>2. h.pc = "commands" /\ h.cmd # NoCommand
  BY <1>1 DEF SyncInv, JobFits, NoJob, PCs, TypeOK, Handler
<1>3. jobs[Gw].val = h.cmd.val /\ jobs[Gw].note \in NoteIds /\ h.cmd.op # "Delete"
  BY <1>1, <1>2 DEF SyncInv, JobFits
<1>4. h.cmd \in Command
  BY <1>2 DEF SyncInv, TypeOK, Handler
<1>5. h.cmd.val \in Vals
  BY <1>3, <1>4 DEF Command
<1> QED
  BY <1>1, <1>3, <1>5

LEMMA ImportGrows ==
  ASSUME SyncInv, Imported(Gw)
  PROVE  Grows /\ MailInv' /\ NewMail(NextEmail) /\ mail'[NextEmail].val = jobs[Gw].val
         /\ mail'[NextEmail].tags = {jobs[Gw].note} /\ NextEmail \in EmailIds
<1> USE DEF SyncInv
<1>1. PICK x : x = NextEmail
  OBVIOUS
<1>2. PICK n : n = jobs[Gw].note
  OBVIOUS
<1>3. n \in NoteIds /\ jobs[Gw].val \in Vals /\ born # EmailIds
  BY <1>2, ImportHasBody DEF Imported
<1>4. x \in EmailIds /\ x \notin born /\ x # None
  BY <1>1, <1>3, NextEmailIsNew DEF NoteInv
<1>5. PICK s \in Seconds : mail' = [mail EXCEPT ![x] = [tags |-> {n}, val |-> jobs[Gw].val, sec |-> s]]
  BY <1>1, <1>2 DEF Imported
<1>6. /\ born' = born \cup {x} /\ newest' = [newest EXCEPT ![n] = x]
      /\ given' = given /\ raced' = raced
  BY <1>1, <1>2 DEF Imported
<1>7. s # 0
  BY <1>3, SecondIsPositive
<1>8. /\ mail'[x] = [tags |-> {n}, val |-> jobs[Gw].val, sec |-> s]
      /\ \A e \in born : mail'[e] = mail[e]
  BY <1>4, <1>5, Slots
<1>9. newest'[n] = x /\ \A k \in NoteIds : newest[k] # None => newest'[k] # None
  BY <1>3, <1>4, <1>6, Slots
<1>10. NewMail(x)
  BY <1>3, <1>4, <1>6, <1>7, <1>8, <1>9 DEF NewMail
<1>11. Grows /\ MailInv'
  BY <1>6, <1>9, <1>10, NewMailGrows
<1> QED
  BY <1>1, <1>2, <1>4, <1>8, <1>10, <1>11

LEMMA CreateGrows ==
  ASSUME SyncInv, OthersCreate
  PROVE  Grows /\ MailInv' /\ NewMail(NextEmail) /\ mail'[NextEmail].tags = {}
<1> USE DEF SyncInv
<1>1. PICK x : x = NextEmail
  OBVIOUS
<1>2. born # EmailIds /\ born' = born \cup {x} /\ given' = given /\ newest' = newest /\ raced' = raced
  BY <1>1 DEF OthersCreate, notesHistory
<1>3. x \in EmailIds /\ x \notin born
  BY <1>1, <1>2, NextEmailIsNew DEF NoteInv
<1>4. PICK v \in Vals, s \in Seconds : mail' = [mail EXCEPT ![x] = [tags |-> {}, val |-> v, sec |-> s]]
  BY <1>1 DEF OthersCreate
<1>5. s # 0
  BY <1>2, SecondIsPositive
<1>6. mail'[x] = [tags |-> {}, val |-> v, sec |-> s] /\ \A e \in born : mail'[e] = mail[e]
  BY <1>3, <1>4, Slots
<1>7. NewMail(x)
  BY <1>2, <1>3, <1>5, <1>6 DEF NewMail
<1> QED
  BY <1>1, <1>2, <1>6, <1>7, NewMailGrows

LEMMA SaveGrows ==
  ASSUME SyncInv, OthersSave
  PROVE  Grows /\ MailInv' /\ NewMail(NextEmail)
<1> USE DEF SyncInv
<1>1. PICK x, n, v, s, old :
         /\ x = NextEmail /\ x \in EmailIds /\ x \notin born /\ x # None
         /\ n \in NoteIds /\ v \in Vals /\ s \in Seconds
         /\ old \in stored /\ mail[old].tags = {n}
         /\ mail' = [mail EXCEPT ![x] = [tags |-> {n}, val |-> v, sec |-> s]]
         /\ stored' = (stored \ {old}) \cup {x} /\ born' = born \cup {x}
         /\ newest' = [newest EXCEPT ![n] = x] /\ deleted' = deleted \ {n}
         /\ messy' = IF Overlaps(None, n) THEN messy \cup {n} ELSE messy
  BY SaveIs
<1>2. born # EmailIds /\ raced' = raced /\ given' = given
  BY DEF OthersSave
<1>3. s # 0
  BY <1>1, <1>2, SecondIsPositive
<1>4. mail'[x] = [tags |-> {n}, val |-> v, sec |-> s] /\ \A e \in born : mail'[e] = mail[e]
  BY <1>1, Slots
<1>5. newest'[n] = x /\ \A k \in NoteIds : newest[k] # None => newest'[k] # None
  BY <1>1, Slots
<1>6. NewMail(x)
  BY <1>1, <1>3, <1>4, <1>5 DEF NewMail
<1> QED
  BY <1>1, <1>2, <1>5, <1>6, NewMailGrows

\* An adopted email is the newest one of its note.
LEMMA AdoptGrows ==
  ASSUME SyncInv, Adopt(Gw)
  PROVE  Grows /\ MailInv'
<1> USE DEF SyncInv
<1>1. /\ UNCHANGED <<stored, born, given, gone, messy, overlooked, raced>>
      /\ mail' = [e \in EmailIds |-> IF e \in stored THEN [mail[e] EXCEPT !.tags = Patched(Gw, e)]
                                                     ELSE mail[e]]
  BY DEF Adopt
<1>2. \A e \in born : mail'[e].sec = mail[e].sec /\ mail'[e].val = mail[e].val
  BY <1>1, Slots DEF Email
<1>3. \A e \in born : mail[e].tags \subseteq mail'[e].tags
  BY OnlyGw, AdoptedTags, Slots
<1>4. ASSUME NEW n \in NoteIds PROVE newest[n] # None => newest'[n] # None
  BY OnlyGw, AdoptedNote, Slots
<1>5. Grows
  BY <1>1, <1>2, <1>3, <1>4 DEF Grows, MailInv
<1>6. ASSUME NEW e \in born, NEW n \in mail'[e].tags PROVE newest'[n] # None
  <2>1. CASE n \in mail[e].tags
    BY <1>4, <2>1, Slots DEF MailInv, Email
  <2>2. CASE n \notin mail[e].tags
    <3>1. Adopting(jobs[Gw], e) /\ e \in stored /\ n = jobs[Gw].adopted[e]
      BY <1>6, <2>2, OnlyGw, AdoptedTags, Slots
    <3>2. newest'[n] = CHOOSE o \in stored : jobs[Gw].adopted[o] = n
      <4>1. n \in NoteIds
        BY <3>1, OnlyGw, Slots DEF Adopting, Job
      <4> QED
        BY <3>1, <4>1 DEF Adopt
    <3>3. newest'[n] \in stored
      BY <3>1, <3>2
    <3> QED
      BY <3>3, Slots
  <2> QED
    BY <2>1, <2>2
<1>7. MailInv'
  BY <1>1, <1>2, <1>6 DEF MailInv
<1> QED
  BY <1>5, <1>7

\* A listing races with no other.
LEMMA ListGrows ==
  ASSUME SyncInv, List(Gw)
  PROVE  Grows /\ MailInv'
<1> USE DEF SyncInv
<1>1. UNCHANGED <<stored, born, mail, newest, gone, messy, deleted, overlooked>> /\ given \subseteq given'
  BY DEF List
<1>2. raced' = raced
  <2>1. \E adopted : raced' = raced \cup {e \in EmailIds : adopted[e] # None /\
            \E q \in Procs \ {Gw} : At(q, "list", "adopt") /\ jobs[q].adopted[e] # None}
    BY DEF List
  <2>2. Procs \ {Gw} = {}
    BY OnlyGw
  <2> QED
    BY <2>1, <2>2
<1> QED
  BY <1>1, <1>2 DEF Grows, MailInv

LEMMA QuietGrows ==
  ASSUME NoteInv, MailInv, UNCHANGED <<born, mail, newest, raced>>, given \subseteq given'
  PROVE  Grows /\ MailInv'
BY DEF Grows, MailInv

\* The steps of a note function.
LEMMA WorkGrows ==
  ASSUME SyncInv, JobWorks(Gw) \/ JobFails(Gw) \/ ListErrs(Gw)
  PROVE  Grows /\ MailInv'
<1>1. NoteInv /\ MailInv
  BY DEF SyncInv
<1>2. CASE Imported(Gw)
  BY <1>2, ImportGrows
<1>3. CASE Adopt(Gw) \/ List(Gw)
  BY <1>3, AdoptGrows, ListGrows
<1>4. CASE ~(Adopt(Gw) \/ List(Gw)) /\ ~Imported(Gw)
  <2>1. UNCHANGED <<born, mail, newest, raced>> /\ given \subseteq given'
    BY <1>4 DEF JobWorks, JobFails, mailbox, notesHistory, Resolve, Import,
             Cleanup, Destroy, Fetch, ResolveFails, ImportFails, ImportUnanswered,
             CleanupFails, DestroyFails, FetchFails, ListFails, AdoptFails, ResolveErrs, ListErrs
  <2> QED
    BY <1>1, <2>1, QuietGrows
<1> QED
  BY <1>2, <1>3, <1>4

-----------------------------------------------------------------------------
(* The note function of a request *)

\* What was true of an email and its notes stays true.
LEMMA Stays ==
  ASSUME SyncInv, Grows
  PROVE  /\ \A e, n : IsOf(e, n) => IsOf(e, n)' /\ mail'[e].val = mail[e].val
         /\ \A n \in Known : n \in Known'
         /\ \A x, n : WasHash(x, n) => WasHash(x, n)'
         /\ \A r : RespondedInv(r) => RespondedInv(r)'
<1>1. \A e, n : IsOf(e, n) => IsOf(e, n)' /\ mail'[e].val = mail[e].val
  BY DEF Grows, IsOf
<1>2. \A n \in Known : n \in Known'
  BY DEF Grows, Known
<1>3. \A x, n : WasHash(x, n) => WasHash(x, n)'
  BY DEF Grows, WasHash
<1>4. \A r : RespondedInv(r) => RespondedInv(r)'
  BY <1>1, <1>2 DEF RespondedInv
<1> QED
  BY <1>1, <1>2, <1>3, <1>4

LEMMA LookupIs ==
  ASSUME Resolve(Gw) \/ ResolveErrs(Gw)
  PROVE  /\ jobs[Gw].step = "resolve"
         /\ \E old : jobs' = [jobs EXCEPT ![Gw].old = old, ![Gw].step = AfterResolve(jobs[Gw].op, old)]
BY DEF Resolve, ResolveErrs

LEMMA JobRuns ==
  ASSUME NoteInv, JobWorks(Gw) \/ JobFails(Gw) \/ ListErrs(Gw)
  PROVE  /\ jobs[Gw].step # "done" /\ jobs'[Gw].op = jobs[Gw].op
         /\ jobs'[Gw].note = jobs[Gw].note /\ jobs'[Gw].val = jobs[Gw].val
         /\ jobs[Gw].step \in {"query", "adopt"} => jobs'[Gw].step \in {"adopt", "done"}
<1>1. jobs \in [Procs -> Job] /\ Gw \in Procs /\ jobs[Gw] \in Job
  BY Slots, OnlyGw
<1>2. ASSUME NEW ok, Finish(Gw, ok)
      PROVE  /\ jobs'[Gw].op = jobs[Gw].op /\ jobs'[Gw].step = "done"
             /\ jobs'[Gw].note = jobs[Gw].note /\ jobs'[Gw].val = jobs[Gw].val
  BY <1>1, <1>2 DEF Finish, Job
<1>3. CASE Resolve(Gw) \/ ResolveErrs(Gw)
  <2>1. jobs[Gw].step = "resolve"
    BY <1>3, LookupIs
  <2>2. PICK old, st : jobs' = [jobs EXCEPT ![Gw].old = old, ![Gw].step = st]
    BY <1>3, LookupIs
  <2> QED
    BY <1>1, <2>1, <2>2 DEF Job
<1>4. CASE Import(Gw)
  BY <1>1, <1>4 DEF Import, Imported, Job
<1>5. CASE Fetch(Gw)
  BY <1>1, <1>5 DEF Fetch, Job, At
<1>6. CASE List(Gw)
  <2>1. PICK adopted \in Adoptions : \E last \in [NoteIds -> Listed \cup {None}] :
          LET fresh == {adopted[e] : e \in EmailIds} \ {None} IN
          jobs' = [jobs EXCEPT
               ![Gw].adopted = adopted,
               ![Gw].found = [n \in NoteIds |-> IF last[n] = None THEN NoHash ELSE note_hash(last[n])],
               ![Gw].step = IF fresh = {} THEN "done" ELSE "adopt"]
    BY <1>6 DEF List
  <2>2. PICK found, st :
          /\ jobs' = [jobs EXCEPT ![Gw].adopted = adopted, ![Gw].found = found, ![Gw].step = st]
          /\ st \in {"done", "adopt"}
    BY <2>1
  <2>3. jobs[Gw].step = "query"
    BY <1>6 DEF List, At
  <2> QED
    BY <1>1, <2>2, <2>3 DEF Job
<1>7. CASE ~(Resolve(Gw) \/ ResolveErrs(Gw) \/ Import(Gw) \/ Fetch(Gw) \/ List(Gw))
  <2>1. jobs[Gw].step # "done" /\ \E ok : Finish(Gw, ok)
    BY <1>7 DEF JobWorks, JobFails, Cleanup, Destroy, Adopt, ResolveFails, ImportFails,
             ImportUnanswered, Imported, CleanupFails, DestroyFails, FetchFails, ListFails, ListErrs,
             AdoptFails, At
  <2> QED
    BY <1>2, <2>1
<1> QED
  BY <1>3, <1>4, <1>5, <1>6, <1>7

\* A save that is done has its email, and a lookup has one of the note.
LEMMA SavedStep ==
  ASSUME SyncInv, JobWorks(Gw) \/ JobFails(Gw) \/ ListErrs(Gw)
  PROVE  SavedInv(jobs[Gw])'
<1>1. jobs \in [Procs -> Job] /\ Gw \in Procs /\ jobs[Gw] \in Job /\ JobInv(jobs[Gw])
      /\ SavedInv(jobs[Gw]) /\ NoteInv /\ None \notin EmailIds
  BY Slots, OnlyGw DEF SyncInv
<1>2. jobs'[Gw].op = jobs[Gw].op /\ jobs'[Gw].note = jobs[Gw].note /\ jobs'[Gw].val = jobs[Gw].val
  BY <1>1, JobRuns
<1>3. Grows
  BY WorkGrows
<1>4. \A e, n : IsOf(e, n) => IsOf(e, n)' /\ mail'[e].val = mail[e].val
  BY <1>3, Stays
<1>5. SavedInv(jobs[Gw])' <=>
        /\ jobs'[Gw].op = "save" /\ (jobs'[Gw].step = "cleanup" \/ (jobs'[Gw].step = "done" /\ jobs'[Gw].ok)) =>
             jobs'[Gw].email \in born' /\ jobs'[Gw].note \in mail'[jobs'[Gw].email].tags
             /\ mail'[jobs'[Gw].email].val = jobs'[Gw].val
        /\ jobs'[Gw].op = "get" /\ jobs'[Gw].email # None =>
             jobs'[Gw].email \in born' /\ jobs'[Gw].note \in mail'[jobs'[Gw].email].tags
  BY DEF SavedInv, IsOf
<1>6. \A e, n : IsOf(e, n) => e \in born' /\ n \in mail'[e].tags /\ mail'[e].val = mail[e].val
  BY <1>4 DEF IsOf
<1>7. CASE jobs[Gw].op = "list" \/ jobs[Gw].op = "destroy" \/ jobs[Gw].op = "none"
  BY <1>2, <1>5, <1>7
<1>8. CASE /\ jobs'[Gw].email = jobs[Gw].email
           /\ jobs[Gw].op = "save" => \/ jobs'[Gw].step = "done" /\ ~jobs'[Gw].ok
                                      \/ jobs'[Gw].step = "import"
                                      \/ jobs[Gw].step = "cleanup"
  BY <1>1, <1>2, <1>5, <1>6, <1>8 DEF SavedInv
<1>9. CASE Import(Gw)
  <2>1. jobs'[Gw].email = NextEmail /\ Imported(Gw) /\ jobs[Gw].op = "save"
    BY <1>1, <1>9, ImportHasBody DEF Import, Imported, Job
  <2>2. mail'[NextEmail].val = jobs[Gw].val /\ mail'[NextEmail].tags = {jobs[Gw].note} /\ NextEmail \in born'
    BY <2>1, ImportGrows DEF NewMail
  <2> QED
    BY <1>2, <1>5, <2>1, <2>2
<1>10. CASE Fetch(Gw)
  <2>1. jobs[Gw].op = "get" /\ jobs'[Gw].email = IF jobs[Gw].old \in stored THEN jobs[Gw].old ELSE None
    BY <1>1, <1>10 DEF Fetch, At, Job
  <2>2. jobs[Gw].old \in stored => IsOf(jobs[Gw].old, jobs[Gw].note)
    BY <1>1, Slots DEF JobInv, IsOf
  <2> QED
    BY <1>2, <1>5, <1>6, <2>1, <2>2
<1>11. CASE Resolve(Gw) \/ ResolveErrs(Gw)
  <2>1. PICK old : jobs' = [jobs EXCEPT ![Gw].old = old, ![Gw].step = AfterResolve(jobs[Gw].op, old)]
    BY <1>11, LookupIs
  <2>2. jobs[Gw].op = "save" => AfterResolve(jobs[Gw].op, old) = "import"
    BY DEF AfterResolve
  <2> QED
    BY <1>1, <1>8, <2>1, <2>2 DEF Job
<1>12. CASE Cleanup(Gw) \/ CleanupFails(Gw)
  BY <1>1, <1>8, <1>12 DEF Cleanup, CleanupFails, Finish, At, Job
<1>13. CASE Destroy(Gw) \/ List(Gw) \/ ListErrs(Gw) \/ Adopt(Gw) \/ AdoptFails(Gw)
  BY <1>7, <1>13 DEF Destroy, List, ListErrs, Adopt, AdoptFails, At
<1>14. CASE \/ ResolveFails(Gw) \/ ImportFails(Gw) \/ ImportUnanswered(Gw) \/ DestroyFails(Gw)
            \/ FetchFails(Gw) \/ ListFails(Gw)
  <2>1. Finish(Gw, FALSE)
    BY <1>14 DEF ResolveFails, ImportFails, ImportUnanswered, DestroyFails, FetchFails, ListFails
  <2> QED
    BY <1>1, <1>8, <2>1 DEF Finish, Job
<1> QED
  BY <1>9, <1>10, <1>11, <1>12, <1>13, <1>14 DEF JobWorks, JobFails

\* A listing finds the hashes of emails, by the note that they are, or are to be.
LEMMA FoundStep ==
  ASSUME SyncInv, JobWorks(Gw) \/ JobFails(Gw) \/ ListErrs(Gw), NEW n \in NoteIds
  PROVE  jobs'[Gw].found[n] = jobs[Gw].found[n] \/ WasHash(jobs[Gw].found[n], n)'
<1>1. jobs \in [Procs -> Job] /\ Gw \in Procs /\ jobs[Gw] \in Job /\ NoteInv
  BY Slots, OnlyGw DEF SyncInv
<1>2. CASE ~List(Gw)
  <2>1. ASSUME NEW ok, Finish(Gw, ok) PROVE jobs'[Gw].found = jobs[Gw].found
    BY <1>1, <2>1 DEF Finish, Job
  <2>2. ASSUME Resolve(Gw) \/ ResolveErrs(Gw) \/ Import(Gw) \/ Fetch(Gw)
        PROVE  jobs'[Gw].found = jobs[Gw].found
    <3>1. CASE Resolve(Gw) \/ ResolveErrs(Gw)
      <4>1. PICK old, st : jobs' = [jobs EXCEPT ![Gw].old = old, ![Gw].step = st]
        BY <3>1, LookupIs
      <4> QED
        BY <1>1, <4>1 DEF Job
    <3>2. CASE Import(Gw)
      BY <1>1, <3>2 DEF Import, Job
    <3>3. CASE Fetch(Gw)
      BY <1>1, <3>3 DEF Fetch, Job
    <3> QED
      BY <2>2, <3>1, <3>2, <3>3
  <2>3. CASE ~(Resolve(Gw) \/ ResolveErrs(Gw) \/ Import(Gw) \/ Fetch(Gw))
    <3>1. \E ok : Finish(Gw, ok)
      BY <1>2, <2>3 DEF JobWorks, JobFails, Cleanup, Destroy, Adopt, ResolveFails, ImportFails,
               ImportUnanswered, CleanupFails, DestroyFails, FetchFails, ListFails, ListErrs, AdoptFails
    <3> QED
      BY <2>1, <3>1
  <2> QED
    BY <2>2, <2>3
<1>3. CASE List(Gw)
  <2>1. PICK adopted \in Adoptions, last \in [NoteIds -> Listed \cup {None}] :
          /\ \A k \in NoteIds :
               LET emails == {e \in Listed : ListedAs(e, adopted) = k}
               IN  last[k] \in IF emails = {} THEN {None} ELSE emails
          /\ LET fresh == {adopted[e] : e \in EmailIds} \ {None} IN
             /\ given' = given \cup fresh
             /\ jobs' = [jobs EXCEPT
                  ![Gw].adopted = adopted,
                  ![Gw].found = [k \in NoteIds |-> IF last[k] = None THEN NoHash ELSE note_hash(last[k])],
                  ![Gw].step = IF fresh = {} THEN "done" ELSE "adopt"]
    BY <1>3 DEF List
  <2>2. jobs'[Gw].found[n] = IF last[n] = None THEN NoHash ELSE note_hash(last[n])
    <3>1. PICK st : jobs' = [jobs EXCEPT ![Gw].adopted = adopted,
            ![Gw].found = [k \in NoteIds |-> IF last[k] = None THEN NoHash ELSE note_hash(last[k])],
            ![Gw].step = st]
      BY <2>1
    <3> QED
      BY <1>1, <3>1 DEF Job
  <2>3. UNCHANGED <<born, mail>> /\ given' = given \cup ({adopted[e] : e \in EmailIds} \ {None})
    BY <1>3, <2>1 DEF List
  <2>4. CASE last[n] = None
    BY <2>2, <2>4 DEF WasHash
  <2>5. CASE last[n] # None
    <3>1. PICK e : e = last[n]
      OBVIOUS
    <3>2. e \in Listed /\ ListedAs(e, adopted) = n
      BY <2>1, <2>5, <3>1
    <3>3. e \in stored /\ e \in born /\ e \in EmailIds /\ n # None
      BY <1>1, <3>2, Slots DEF Listed
    <3>4. n \in given' /\ mail[e].tags \subseteq {n}
      <4>1. CASE mail[e].tags = {}
        <5>1. adopted[e] = n
          BY <3>2, <4>1 DEF ListedAs
        <5> QED
          BY <2>3, <3>3, <4>1, <5>1
      <4>2. CASE mail[e].tags # {}
        <5>1. \A a, b \in mail[e].tags : a = b
          BY <3>3 DEF SyncInv, MailInv, NoteInv, TagsInv
        <5>2. PICK a : mail[e].tags = {a}
          <6>1. PICK t : t = mail[e].tags
            OBVIOUS
          <6>2. PICK a \in t : TRUE
            BY <4>2, <6>1
          <6>3. t = {a}
            BY <5>1, <6>1, <6>2
          <6> QED
            BY <6>1, <6>3
        <5>3. a \in NoteIds
          BY <1>1, <3>3, <5>2, Slots DEF Email
        <5>4. Least({a}) = a
          <6>1. {a} \in SUBSET Nat /\ IsFiniteSet({a})
            BY <5>3, IdsAssumption, FS_Singleton
          <6> QED
            BY <6>1, LeastIs
        <5>5. a = n
          BY <3>2, <4>2, <5>2, <5>4 DEF ListedAs, extract_stable_id
        <5>6. e \in Backing(n)
          BY <3>3, <5>2, <5>5 DEF Backing
        <5>7. n \in given
          BY <5>6 DEF SyncInv, EditInv, GivenInv, Used
        <5> QED
          BY <2>3, <5>2, <5>5, <5>7
      <4> QED
        BY <4>1, <4>2
    <3>5. jobs'[Gw].found[n] = note_hash(e) /\ note_hash(e).sec = mail'[e].sec
          /\ note_hash(e).tags = mail'[e].tags /\ e \in born'
      BY <2>2, <2>3, <2>5, <3>1, <3>3 DEF note_hash
    <3> QED
      BY <2>3, <3>4, <3>5 DEF WasHash
  <2> QED
    BY <2>4, <2>5
<1> QED
  BY <1>2, <1>3

-----------------------------------------------------------------------------
(* Steps that begin or end a note function *)

\* A function that has found nothing yet.
Fresh(j) ==
  /\ j.email = None /\ j.found = NoHashes
  /\ j.op = "save" => j.step \in {"resolve", "import"}

LEMMA FreshFunctions ==
  /\ Fresh(NoJob) /\ NoJob.op = "none" /\ NoJob.step = "done" /\ NoJob.note = None
  /\ \A n, v : /\ Fresh(SaveNew(n, v)) /\ SaveNew(n, v).op = "save" /\ SaveNew(n, v).note = n
               /\ SaveNew(n, v).val = v
               /\ Fresh(SaveOld(n, v)) /\ SaveOld(n, v).op = "save" /\ SaveOld(n, v).note = n
               /\ SaveOld(n, v).val = v
  /\ \A n : /\ Fresh(DestroyNote(n)) /\ DestroyNote(n).op = "destroy" /\ DestroyNote(n).note = n
            /\ DestroyNote(n).val = None
            /\ Fresh(GetNote(n)) /\ GetNote(n).op = "get" /\ GetNote(n).note = n
            /\ GetNote(n).step = "resolve" /\ GetNote(n).old = None
  /\ Fresh(ListNotes) /\ ListNotes.op = "list" /\ ListNotes.step = "query" /\ ListNotes.note = None
<1>1. Fresh(NoJob) /\ NoJob.op = "none" /\ NoJob.step = "done" /\ NoJob.note = None
  BY DEF Fresh, NoJob, NoHashes
<1>2. ASSUME NEW n, NEW v
      PROVE  /\ Fresh(SaveNew(n, v)) /\ SaveNew(n, v).op = "save" /\ SaveNew(n, v).note = n
             /\ SaveNew(n, v).val = v
             /\ Fresh(SaveOld(n, v)) /\ SaveOld(n, v).op = "save" /\ SaveOld(n, v).note = n
             /\ SaveOld(n, v).val = v
  BY DEF SaveNew, SaveOld, Fresh, NoJob, NoHashes
<1>3. ASSUME NEW n
      PROVE  /\ Fresh(DestroyNote(n)) /\ DestroyNote(n).op = "destroy" /\ DestroyNote(n).note = n
             /\ DestroyNote(n).val = None
             /\ Fresh(GetNote(n)) /\ GetNote(n).op = "get" /\ GetNote(n).note = n
             /\ GetNote(n).step = "resolve" /\ GetNote(n).old = None
  BY DEF DestroyNote, GetNote, Fresh, NoJob, NoHashes
<1>4. Fresh(ListNotes) /\ ListNotes.op = "list" /\ ListNotes.step = "query" /\ ListNotes.note = None
  BY DEF ListNotes, Fresh, NoJob, NoHashes
<1> QED
  BY <1>1, <1>2, <1>3, <1>4

LEMMA FreshStart ==
  ASSUME NoteInv, NEW j, Fresh(j), StartJob(Gw, j)
  PROVE  /\ jobs'[Gw] = j /\ SavedInv(jobs[Gw])'
         /\ \A n \in NoteIds : WasHash(jobs[Gw].found[n], n)'
<1>1. jobs'[Gw] = j
  BY OnlyGw, StartIs
<1>2. SavedInv(jobs[Gw])' <=>
        /\ j.op = "save" /\ (j.step = "cleanup" \/ (j.step = "done" /\ j.ok)) =>
             IsOf(jobs[Gw].email, jobs[Gw].note)' /\ (mail[jobs[Gw].email].val = jobs[Gw].val)'
        /\ j.op = "get" /\ j.email # None => IsOf(jobs[Gw].email, jobs[Gw].note)'
  BY <1>1 DEF SavedInv
<1>3. SavedInv(jobs[Gw])'
  BY <1>2 DEF Fresh
<1>4. \A n \in NoteIds : jobs'[Gw].found[n] = NoHash
  BY <1>1 DEF Fresh, NoHashes
<1> QED
  BY <1>1, <1>3, <1>4 DEF WasHash

\* What the rest of a step may rely on.
MailboxHolds == NoteInv' /\ EditInv' /\ Grows /\ MailInv'

LEMMA NotesHold ==
  ASSUME SyncInv, [NotesNext]_notesVars, Grows /\ MailInv'
  PROVE  MailboxHolds
BY StepInv, EditStep DEF SyncInv, MailboxHolds

LEMMA IdleHolds ==
  ASSUME SyncInv, UNCHANGED notesVars
  PROVE  MailboxHolds
BY QuietGrows, NotesHold DEF notesVars, mailbox, notesHistory, SyncInv

LEMMA EndHolds ==
  ASSUME SyncInv, jobs[Gw] # NoJob, jobs[Gw].step = "done", StartJob(Gw, NoJob),
         UNCHANGED <<mailbox, notesHistory>>
  PROVE  MailboxHolds
<1>1. End(Gw)
  BY DEF End
<1>2. [NotesNext]_notesVars
  BY <1>1, OnlyGw DEF NotesNext
<1> QED
  BY <1>2, QuietGrows, NotesHold DEF mailbox, notesHistory, SyncInv

LEMMA DropHolds ==
  ASSUME SyncInv, Drop
  PROVE  MailboxHolds
<1>1. Abandon(Gw) /\ "drop" \in Faults
  BY DEF Drop
<1>2. UNCHANGED <<born, mail, newest, raced, given>>
  BY <1>1 DEF Abandon, mailbox
<1>3. CASE jobs[Gw] # NoJob
  <2>1. [NotesNext]_notesVars
    BY <1>1, <1>3, OnlyGw DEF NotesNext, Dropped
  <2> QED
    BY <1>2, <2>1, QuietGrows, NotesHold DEF SyncInv
<1>4. CASE jobs[Gw] = NoJob
  <2>1. jobs' = jobs
    BY <1>1, <1>4, OnlyGw, Slots DEF Abandon, StartJob, SyncInv
  <2>2. messy' = messy
    BY <1>1, <1>4, FreshFunctions DEF Abandon, At
  <2>3. UNCHANGED notesVars
    BY <1>1, <2>1, <2>2 DEF Abandon, notesVars, mailbox, notesHistory
  <2> QED
    BY <2>3, IdleHolds
<1> QED
  BY <1>3, <1>4

\* A request that sends a Change or a Delete of a note begins like any other.
LEMMA StartHolds ==
  ASSUME SyncInv, StartCommand \/ StartList
  PROVE  MailboxHolds
<1>1. UNCHANGED <<stored, born, mail, notesHistory>> /\ given \subseteq given' /\ jobs[Gw] = NoJob
  BY DEF StartCommand, StartList, mailbox, SyncInv, JobFits
<1>2. Begin(Gw)
  <2>1. CASE StartList
    BY <1>1, <2>1 DEF StartList, Begin, mailbox
  <2>2. CASE StartCommand
    <3>1. PICK c \in h.todo :
             \/ /\ c.op = "Add"
                /\ \E n \in NoteIds \ given :
                     StartJob(Gw, SaveNew(n, c.val)) /\ given' = given \cup {n}
             \/ c.op = "Change" /\ StartJob(Gw, SaveOld(c.note, c.val)) /\ UNCHANGED given
             \/ c.op = "Delete" /\ StartJob(Gw, DestroyNote(c.note)) /\ UNCHANGED given
      BY <2>2 DEF StartCommand
    <3>2. c \in Command
      BY DEF SyncInv, TypeOK, Handler
    <3>3. CASE c.op = "Add"
      <4>1. c.val \in Vals
        BY <3>2, <3>3 DEF Command
      <4> QED
        BY <1>1, <3>1, <3>3, <4>1 DEF Begin
    <3>4. CASE c.op # "Add"
      <4>1. c.op \in {"Change", "Delete"} /\ c.note \in NoteIds
        BY <3>2, <3>4 DEF Command
      <4>2. c.note \in {m \in given : newest[m] # None}
        <5>1. newest[c.note] # None
          BY <4>1 DEF SyncInv, KnownInv, Known
        <5> QED
          BY <4>1, <5>1 DEF SyncInv, EditInv, GivenInv, Used
      <4>3. c.op = "Change" => c.val \in Vals
        BY <3>2 DEF Command
      <4> QED
        BY <1>1, <3>1, <3>4, <4>2, <4>3 DEF Begin
    <3> QED
      BY <3>3, <3>4
  <2> QED
    BY <2>1, <2>2
<1>3. [NotesNext]_notesVars
  BY <1>2, OnlyGw DEF NotesNext
<1> QED
  BY <1>1, <1>3, QuietGrows, NotesHold DEF notesHistory, SyncInv

\* The note to fetch has an id, even if no email got it.
LEMMA FetchHolds ==
  ASSUME SyncInv, StartFetch
  PROVE  MailboxHolds
<1>1. PICK n \in h.fetch : StartJob(Gw, GetNote(n))
  BY DEF StartFetch
<1>2. UNCHANGED <<mailbox, notesHistory>> /\ jobs[Gw] = NoJob
  BY DEF StartFetch
<1>3. n \in given /\ n \in NoteIds
  BY DEF SyncInv, KnownInv, NoteInv, NotesTypeOK
<1>4. NoteInv /\ EditInv
  BY DEF SyncInv
<1>5. PICK j : j = GetNote(n)
  OBVIOUS
<1>6. j \in Job /\ j.old = None /\ j.step = "resolve" /\ j.note = n /\ j.op = "get"
  <2>1. j.old = None /\ j.step = "resolve" /\ j.note = n /\ j.op = "get"
    BY <1>5, FreshFunctions
  <2>2. j \in Job
    BY <1>3, <1>5, NoJobIsJob DEF GetNote, Job, Ops, Steps
  <2> QED
    BY <2>1, <2>2
<1>7. JobInv(j) /\ \A e \in EmailIds : ~Adopting(j, e)
  BY <1>3, <1>6, FreshJob
<1>8. NoteInv'
  <2>1. /\ jobs' \in [Procs -> Job]
        /\ \A q \in Procs : JobInv(jobs'[q])
        /\ \A q \in Procs : \A e \in EmailIds : Adopting(jobs'[q], e) => Adopting(jobs[q], e)
    BY <1>1, <1>4, <1>5, <1>6, <1>7, OnlyGw, StartStep
  <2>2. \A m \in NoteIds \ Losable : m \notin gone' /\ newest[m] # None => newest[m] \in stored'
    BY <1>2, <1>4 DEF NoteInv, NewestSurvives, mailbox
  <2>3. /\ born' = born /\ mail' = mail /\ newest' = newest /\ raced' = raced
        /\ stored' \subseteq stored /\ given' \subseteq NoteIds
        /\ gone \subseteq gone' /\ gone' \subseteq NoteIds
        /\ messy' \subseteq NoteIds /\ deleted' \subseteq NoteIds /\ overlooked' \subseteq NoteIds
    BY <1>2, <1>4 DEF mailbox, notesHistory, NoteInv, NotesTypeOK
  <2> QED
    BY <1>4, <2>1, <2>2, <2>3, QuietStep
<1>9. EditInv'
  <2>1. jobs'[Gw] = j
    BY <1>1, <1>4, <1>5, OnlyGw, StartIs
  <2>2. \A k : Backing(k)' = Backing(k)
    BY <1>2 DEF Backing, mailbox
  <2>3. \A q \in Procs : \A e \in EmailIds, k \in NoteIds : ~Gives(jobs[q], e, k)'
    BY <1>7, <2>1, OnlyGw DEF Gives, Adopting
  <2>4. \A q \in Procs : \A k : ~Saves(jobs[q], k)' /\ jobs'[q].step # "import"
    BY <1>6, <2>1, OnlyGw DEF Saves
  <2>5. \A k \in NoteIds : Used(k)' => Used(k) \/ k = n
    BY <1>2, <1>6, <2>1, <2>2, OnlyGw DEF Used, notesHistory
  <2>6. GivenInv'
    BY <1>2, <1>3, <1>4, <2>3, <2>5 DEF GivenInv, EditInv, mailbox
  <2>7. DeletedInv'
    BY <1>2, <1>4 DEF DeletedInv, EditInv, mailbox, notesHistory
  <2>8. ASSUME NEW k \in NoteIds \ messy' PROVE RevisionInv(k)'
    <3>1. RevisionInv(k)
      BY <1>2, <1>4, <2>8 DEF EditInv, notesHistory
    <3>2. CleaningUp(k) = {}
      BY <1>2, OnlyGw, FreshFunctions DEF CleaningUp, At
    <3> QED
      BY <1>2, <2>2, <2>4, <3>1, <3>2 DEF RevisionInv, notesHistory
  <2> QED
    BY <2>4, <2>6, <2>7, <2>8 DEF EditInv
<1> QED
  BY <1>2, <1>4, <1>8, <1>9, QuietGrows DEF mailbox, notesHistory, SyncInv, MailboxHolds

-----------------------------------------------------------------------------
(* The mailbox beside the request *)

LEMMA Typed ==
  ASSUME SyncInv
  PROVE  /\ NoteInv /\ EditInv /\ jobs[Gw] \in Job
         /\ key \in Key /\ base \in Hashes /\ has \in View /\ dirty \subseteq NoteIds
         /\ draft \in Vals \cup {None} /\ ckey \in Key
         /\ missed \subseteq NoteIds /\ away \subseteq NoteIds /\ blind \in BOOLEAN
         /\ h \in Handler /\ h.pc \in PCs /\ h.key \in Key /\ h.get \in BOOLEAN
         /\ h.todo \subseteq Command /\ h.cmd \in Command \cup {NoCommand}
         /\ h.prev \in Hashes /\ h.list \in Hashes
         /\ h.undeleted \subseteq NoteIds /\ h.deleting \subseteq NoteIds /\ h.fetch \subseteq NoteIds
         /\ h.reply \in Reply /\ h.reply.responses \subseteq Response
         /\ h.reply.puts \in View /\ h.reply.dels \subseteq NoteIds
         /\ h.reply.key \in Key /\ h.reply.status \in {0, 1, 3, 5}
<1>1. h \in Handler /\ NoteInv /\ EditInv
  BY DEF SyncInv, TypeOK
<1>2. h.reply \in Reply
  BY <1>1 DEF Handler
<1> QED
  BY <1>1, <1>2, Slots, OnlyGw DEF SyncInv, TypeOK, Handler, Reply

LEMMA Blanks ==
  /\ NoHash \in Hash /\ NoHashes \in Hashes /\ Blank \in View /\ 0 \in Key
  /\ NoReply \in Reply /\ Idle \in Handler
  /\ \A n \in NoteIds : NoHashes[n] = NoHash /\ Blank[n] = None
<1>1. NoHash \in Hash
  <2>1. Cardinality(EmailIds) \in Nat
    BY FS_CardinalityType, SizesAssumption
  <2> QED
    BY <2>1 DEF NoHash, Hash, Secs
<1>2. NoHashes \in Hashes /\ Blank \in View /\ 0 \in Key
  BY <1>1, GwAssumption DEF NoHashes, Hashes, Blank, View, Key
<1>3. NoReply \in Reply
  BY <1>2 DEF NoReply, Reply
<1>4. Idle \in Handler
  BY <1>2, <1>3 DEF Idle, Handler, PCs
<1> QED
  BY <1>1, <1>2, <1>3, <1>4 DEF NoHashes, Blank

\* The device and the item states, if a step leaves them and the handler alone.
LEMMA HandlerStays ==
  ASSUME SyncInv, Grows, UNCHANGED <<store, h, device>>, missed' \subseteq NoteIds, away' \subseteq NoteIds,
         blind' \in BOOLEAN, NoteInv', \A n \in NoteIds : \/ jobs'[Gw].found[n] = jobs[Gw].found[n]
                                      \/ WasHash(jobs[Gw].found[n], n)'
  PROVE  TypeOK' /\ KnownInv' /\ HashInv'
<1>1. TypeOK'
  BY Typed DEF TypeOK, NoteInv, store, device
<1>2. /\ \A n \in Known : n \in Known'
      /\ \A x, n : WasHash(x, n) => WasHash(x, n)'
      /\ \A r : RespondedInv(r) => RespondedInv(r)'
  BY Stays
<1>3. KnownInv'
  <2>1. KnownInv /\ given \subseteq given'
    BY DEF SyncInv, Grows
  <2>2. \A r \in h'.reply.responses : RespondedInv(r)'
    BY <1>2, <2>1 DEF KnownInv
  <2>3. h' = h /\ dirty' = dirty /\ has' = has
    BY DEF device
  <2> QED
    BY <1>2, <2>1, <2>2, <2>3 DEF KnownInv
<1>4. HashInv'
  <2> SUFFICES ASSUME NEW n \in NoteIds
               PROVE  /\ WasHash(base[n], n)' /\ WasHash(h.prev[n], n)'
                      /\ WasHash(h.list[n], n)' /\ WasHash(jobs[Gw].found[n], n)'
    BY DEF HashInv
  <2>1. PICK b, p, l, f : b = base[n] /\ p = h.prev[n] /\ l = h.list[n] /\ f = jobs[Gw].found[n]
    OBVIOUS
  <2>2. WasHash(b, n) /\ WasHash(p, n) /\ WasHash(l, n) /\ WasHash(f, n)
    BY <2>1 DEF SyncInv, HashInv
  <2>3. WasHash(b, n)' /\ WasHash(p, n)' /\ WasHash(l, n)' /\ WasHash(f, n)'
    BY <1>2, <2>2
  <2>4. base' = base /\ h' = h
    BY DEF store
  <2> QED
    BY <2>1, <2>3, <2>4 DEF WasHash
<1> QED
  BY <1>1, <1>3, <1>4

LEMMA MailboxStep ==
  ASSUME SyncInv, Mailbox
  PROVE  SyncInv'
<1>1. UNCHANGED <<store, h, device, missed>> /\ away' \subseteq NoteIds /\ blind' \in BOOLEAN
  <2>1. \A S : {n \in NoteIds : n \in S} \subseteq NoteIds
    OBVIOUS
  <2>2. Absent' \subseteq NoteIds
    BY DEF Absent
  <2> QED
    BY <2>2, Typed DEF Mailbox
<1>2. CASE JobWorks(Gw) \/ JobFails(Gw) \/ ListErrs(Gw)
  <2>1. MailboxHolds
    <3>1. [NotesNext]_notesVars
      BY <1>2, OnlyGw DEF NotesNext
    <3> QED
      BY <1>2, <3>1, WorkGrows, NotesHold
  <2>2. TypeOK' /\ KnownInv' /\ HashInv'
    BY <1>1, <1>2, <2>1, FoundStep, HandlerStays, Typed DEF MailboxHolds
  <2>3. SavedInv(jobs[Gw])'
    BY <1>2, SavedStep
  <2>4. JobFits'
    <3>1. /\ jobs[Gw] # NoJob /\ jobs'[Gw].op = jobs[Gw].op
          /\ jobs'[Gw].note = jobs[Gw].note /\ jobs'[Gw].val = jobs[Gw].val
          /\ jobs[Gw].step \in {"query", "adopt"} => jobs'[Gw].step \in {"adopt", "done"}
          /\ jobs[Gw].step # "done"
      BY <1>2, JobRuns, FreshFunctions DEF SyncInv
    <3>2. h' = h
      BY <1>1
    <3>3. JobFits
      BY DEF SyncInv
    <3> QED
      BY <3>1, <3>2, <3>3 DEF JobFits
  <2> QED
    BY <2>1, <2>2, <2>3, <2>4 DEF SyncInv, MailboxHolds
<1>3. CASE OthersCreate \/ OthersSave \/ OthersRemove
  <2>1. jobs' = jobs
    BY <1>3 DEF OthersCreate, OthersSave, OthersRemove
  <2>2. MailboxHolds
    <3>1. CASE OthersSave
      BY <3>1, OthersSaveStep, KeepOthersSave, SaveGrows DEF MailboxHolds, SyncInv
    <3>2. CASE OthersCreate \/ OthersRemove
      <4>1. [NotesNext]_notesVars
        BY <3>2 DEF NotesNext
      <4>2. Grows /\ MailInv'
        BY <3>2, CreateGrows, QuietGrows DEF OthersRemove, SyncInv
      <4> QED
        BY <4>1, <4>2, NotesHold
    <3> QED
      BY <1>3, <3>1, <3>2
  <2>3. TypeOK' /\ KnownInv' /\ HashInv'
    BY <1>1, <2>1, <2>2, HandlerStays, Typed DEF MailboxHolds
  <2>4. JobFits'
    BY <1>1, <2>1 DEF SyncInv, JobFits
  <2>5. SavedInv(jobs[Gw])'
    <3>1. \A e, n : IsOf(e, n) => IsOf(e, n)' /\ mail'[e].val = mail[e].val
      BY <2>2, Stays DEF MailboxHolds
    <3>2. SavedInv(jobs[Gw])
      BY DEF SyncInv
    <3> QED
      BY <2>1, <3>1, <3>2 DEF SavedInv, IsOf
  <2> QED
    BY <2>2, <2>3, <2>4, <2>5 DEF SyncInv, MailboxHolds
<1> QED
  BY <1>2, <1>3 DEF Mailbox

-----------------------------------------------------------------------------
(* The parts of SyncInv that a step of the request may disturb *)

LEMMA TypesFit ==
  ASSUME SyncInv, MailboxHolds, key' \in Key, base' \in Hashes, h' \in Handler,
         has' \in View, dirty' \subseteq NoteIds, draft' \in Vals \cup {None}, ckey' \in Key,
         missed' \subseteq NoteIds, away' \subseteq NoteIds, blind' \in BOOLEAN
  PROVE  TypeOK'
BY DEF TypeOK, MailboxHolds, NoteInv

LEMMA KnownFits ==
  ASSUME SyncInv, MailboxHolds, dirty' \subseteq Known,
         \A n \in NoteIds : has'[n] # None \/ h'.reply.puts[n] # None => n \in Known,
         \A c \in h'.todo \cup {h'.cmd} : c.op \in {"Change", "Delete"} => c.note \in Known,
         \A r \in h'.reply.responses : RespondedInv(r),
         h'.fetch \subseteq given
  PROVE  KnownInv'
<1>1. Grows
  BY DEF MailboxHolds
<1>2. /\ \A n \in Known : n \in Known'
      /\ \A r : RespondedInv(r) => RespondedInv(r)'
  BY <1>1, Stays
<1>3. \A r \in h'.reply.responses : RespondedInv(r)'
  BY <1>2
<1> QED
  BY <1>1, <1>2, <1>3 DEF KnownInv, Grows

LEMMA HashesFit ==
  ASSUME SyncInv, MailboxHolds,
         \A n \in NoteIds : /\ base'[n] \in {base[n], h.list[n]}
                            /\ h'.prev[n] \in {h.prev[n], base[n], NoHash}
                            /\ h'.list[n] \in {h.list[n], jobs[Gw].found[n], NoHash}
                            /\ jobs'[Gw].found[n] \in {jobs[Gw].found[n], NoHash}
  PROVE  HashInv'
<1> SUFFICES ASSUME NEW n \in NoteIds
             PROVE  /\ WasHash(base[n], n)' /\ WasHash(h.prev[n], n)'
                    /\ WasHash(h.list[n], n)' /\ WasHash(jobs[Gw].found[n], n)'
  BY DEF HashInv
<1>1. Grows
  BY DEF MailboxHolds
<1>2. \A x : WasHash(x, n) => WasHash(x, n)'
  BY <1>1, Stays
<1>3. PICK b, p, l, f : b = base'[n] /\ p = h'.prev[n] /\ l = h'.list[n] /\ f = jobs'[Gw].found[n]
  OBVIOUS
<1>4. WasHash(b, n) /\ WasHash(p, n) /\ WasHash(l, n) /\ WasHash(f, n)
  <2>1. WasHash(NoHash, n)
    BY DEF WasHash
  <2>2. WasHash(base[n], n) /\ WasHash(h.prev[n], n) /\ WasHash(h.list[n], n)
        /\ WasHash(jobs[Gw].found[n], n)
    BY DEF SyncInv, HashInv
  <2> QED
    BY <1>3, <2>1, <2>2
<1>5. WasHash(b, n)' /\ WasHash(p, n)' /\ WasHash(l, n)' /\ WasHash(f, n)'
  BY <1>2, <1>4
<1> QED
  BY <1>3, <1>5 DEF WasHash

\* A request that is in no function.
LEMMA NoJobFits ==
  ASSUME SyncInv, jobs'[Gw] = NoJob, h'.cmd = NoCommand, h'.pc # "list"
  PROVE  JobFits' /\ SavedInv(jobs[Gw])' /\ \A n \in NoteIds : jobs'[Gw].found[n] = NoHash
<1>1. NoJob.op = "none" /\ NoJob.found = NoHashes
  BY FreshFunctions DEF Fresh
<1>2. JobFits'
  BY DEF JobFits
<1>3. SavedInv(jobs[Gw])' <=>
        /\ NoJob.op = "save" /\ (NoJob.step = "cleanup" \/ (NoJob.step = "done" /\ NoJob.ok)) =>
             IsOf(jobs[Gw].email, jobs[Gw].note)' /\ (mail[jobs[Gw].email].val = jobs[Gw].val)'
        /\ NoJob.op = "get" /\ NoJob.email # None => IsOf(jobs[Gw].email, jobs[Gw].note)'
  BY DEF SavedInv
<1>4. SavedInv(jobs[Gw])'
  BY <1>1, <1>3
<1> QED
  BY <1>1, <1>2, <1>4 DEF NoHashes

\* A handler that holds nothing but its answer.
Bare(g) ==
  /\ g.todo = {} /\ g.cmd = NoCommand /\ g.fetch = {} /\ g.prev = NoHashes /\ g.list = NoHashes
  /\ g.deleting = {}

LEMMA IdleIs ==
  /\ Idle.pc = "idle" /\ Bare(Idle) /\ Idle.reply = NoReply /\ NoReply.responses = {}
  /\ NoReply.puts = Blank /\ NoReply.dels = {} /\ NoReply.status = 0
BY DEF Idle, Bare, NoReply

LEMMA RefuseIs ==
  ASSUME SyncInv, NEW status \in {3, 5}, Refuse(status)
  PROVE  /\ h' \in Handler /\ h'.pc = "reply" /\ Bare(h')
         /\ h'.reply.responses = {} /\ h'.reply.puts = Blank /\ h'.reply.dels = {}
         /\ h'.reply.status = status
<1>1. PICK rep : rep = [NoReply EXCEPT !.status = status, !.key = h.key]
  OBVIOUS
<1>2. h' = [Idle EXCEPT !.pc = "reply", !.reply = rep]
  BY <1>1 DEF Refuse
<1>3. /\ rep \in Reply /\ rep.responses = {} /\ rep.puts = Blank /\ rep.dels = {}
      /\ rep.status = status
  BY <1>1, Typed, Blanks DEF NoReply, Reply
<1>4. [Idle EXCEPT !.pc = "reply", !.reply = rep] \in Handler
  BY <1>3, Blanks DEF Handler, PCs
<1>5. h'.pc = "reply" /\ h'.reply = rep /\ Bare(h')
  BY <1>2, IdleIs DEF Bare, Idle
<1> QED
  BY <1>2, <1>3, <1>4, <1>5

\* A request that ends, whatever the device makes of it.
LEMMA BareFits ==
  ASSUME SyncInv, MailboxHolds, jobs'[Gw] = NoJob, UNCHANGED base,
         h' \in Handler, Bare(h'), h'.pc # "list",
         key' \in Key, has' \in View, dirty' \subseteq Known, draft' \in Vals \cup {None}, ckey' \in Key,
         missed' \subseteq NoteIds, away' \subseteq NoteIds, blind' \in BOOLEAN,
         \A r \in h'.reply.responses : RespondedInv(r),
         \A n \in NoteIds : has'[n] # None \/ h'.reply.puts[n] # None => n \in Known
  PROVE  SyncInv'
<1>1. h'.todo = {} /\ h'.cmd = NoCommand /\ h'.fetch = {} /\ h'.prev = NoHashes /\ h'.list = NoHashes
  BY DEF Bare
<1>2. NoCommand.op = "none"
  BY DEF NoCommand
<1>3. JobFits' /\ SavedInv(jobs[Gw])' /\ \A n \in NoteIds : jobs'[Gw].found[n] = NoHash
  BY <1>1, NoJobFits
<1>4. TypeOK'
  <2>1. base' \in Hashes /\ dirty' \subseteq NoteIds
    BY Typed DEF Known
  <2> QED
    BY <2>1, TypesFit
<1>5. KnownInv'
  BY <1>1, <1>2, KnownFits
<1>6. HashInv'
  BY <1>1, <1>3, Blanks, HashesFit
<1> QED
  BY <1>3, <1>4, <1>5, <1>6 DEF SyncInv, MailboxHolds

-----------------------------------------------------------------------------
(* The steps of the request *)

\* In these places a request is in no function.
LEMMA OutOfFunction ==
  ASSUME SyncInv
  PROVE  /\ h.pc \in {"idle", "load", "put", "items", "reply"} => jobs[Gw] = NoJob /\ h.cmd = NoCommand
         /\ h.pc = "commands" /\ h.cmd = NoCommand => jobs[Gw] = NoJob
         /\ h.pc # "commands" => h.cmd = NoCommand
BY DEF SyncInv, JobFits

LEMMA KnownNow ==
  ASSUME SyncInv
  PROVE  /\ dirty \subseteq Known /\ \A r \in h.reply.responses : RespondedInv(r)
         /\ \A n \in NoteIds : has[n] # None \/ h.reply.puts[n] # None => n \in Known
         /\ \A c \in h.todo \cup {h.cmd} : c.op \in {"Change", "Delete"} => c.note \in Known
         /\ h.fetch \subseteq given
BY DEF SyncInv, KnownInv

LEMMA NewKeyTyped ==
  ASSUME SyncInv
  PROVE  NewKey \in Key
<1>1. h.key \in 0..MaxKey /\ MaxKey \in Nat
  BY Typed, GwAssumption DEF Key
<1>2. next_sync_key(h.key) \in 0..MaxKey
  BY <1>1 DEF next_sync_key
<1> QED
  BY <1>1, <1>2 DEF NewKey, Key

LEMMA LoadStep ==
  ASSUME SyncInv, Load
  PROVE  SyncInv'
<1>1. MailboxHolds /\ UNCHANGED <<store, device, history, jobs>> /\ h.pc = "load"
  BY IdleHolds DEF Load, notesVars
<1>2. jobs[Gw] = NoJob /\ h.cmd = NoCommand
  BY <1>1, OutOfFunction
<1>3. CASE Refuse(3)
  BY <1>1, <1>2, <1>3, RefuseIs, Typed, KnownNow, Blanks, BareFits DEF store, device, history
<1>4. CASE ~Refuse(3)
  <2>1. PICK prev \in {base, NoHashes} : h' = [h EXCEPT !.pc = "commands", !.prev = prev]
    BY <1>4 DEF Load
  <2>2. [h EXCEPT !.pc = "commands", !.prev = prev] \in Handler
    BY Typed, Blanks DEF Handler, PCs
  <2>3. /\ h'.pc = "commands" /\ h'.prev = prev /\ h'.cmd = h.cmd /\ h'.todo = h.todo
        /\ h'.list = h.list /\ h'.fetch = h.fetch /\ h'.reply = h.reply
    BY <2>1, Typed DEF Handler
  <2>4. JobFits' /\ SavedInv(jobs[Gw])' /\ \A n \in NoteIds : jobs'[Gw].found[n] = NoHash
    BY <1>1, <1>2, <2>3, NoJobFits
  <2>5. TypeOK'
    BY <1>1, <2>1, <2>2, Typed, TypesFit DEF store, device, history
  <2>6. KnownInv'
    BY <1>1, <2>3, KnownNow, KnownFits DEF device
  <2>7. HashInv'
    BY <1>1, <2>1, <2>3, <2>4, Blanks, HashesFit DEF store
  <2> QED
    BY <1>1, <2>4, <2>5, <2>6, <2>7 DEF SyncInv, MailboxHolds
<1> QED
  BY <1>3, <1>4

LEMMA StartCommandStep ==
  ASSUME SyncInv, StartCommand
  PROVE  SyncInv'
<1>1. MailboxHolds /\ UNCHANGED <<store, device, history>> /\ h.pc = "commands" /\ h.cmd = NoCommand
  BY StartHolds DEF StartCommand
<1>2. PICK c \in h.todo :
        /\ h' = [h EXCEPT !.todo = @ \ {c}, !.cmd = c]
        /\ \/ /\ c.op = "Add"
              /\ \E n \in NoteIds \ given :
                   StartJob(Gw, SaveNew(n, c.val)) /\ given' = given \cup {n}
           \/ c.op = "Change" /\ StartJob(Gw, SaveOld(c.note, c.val)) /\ UNCHANGED given
           \/ c.op = "Delete" /\ StartJob(Gw, DestroyNote(c.note)) /\ UNCHANGED given
  BY DEF StartCommand
<1>3. /\ c \in Command /\ c.op \in {"Add", "Change", "Delete"} /\ c # NoCommand
      /\ c.op # "Add" => c.note \in NoteIds
      /\ c.op = "Delete" => c.val = None
  <2>1. c \in Command
    BY Typed
  <2>2. /\ c.op \in {"Add", "Change", "Delete"} /\ (c.op # "Add" => c.note \in NoteIds)
        /\ (c.op = "Delete" => c.val = None)
    BY <2>1 DEF Command
  <2> QED
    BY <2>1, <2>2 DEF NoCommand
<1>4. PICK j : /\ StartJob(Gw, j) /\ Fresh(j) /\ j.val = c.val /\ j.note \in NoteIds
               /\ j.op = IF c.op = "Delete" THEN "destroy" ELSE "save"
               /\ c.op # "Add" => j.note = c.note
  <2>1. CASE c.op = "Add"
    <3>1. PICK n \in NoteIds : StartJob(Gw, SaveNew(n, c.val))
      BY <1>2, <2>1
    <3>2. /\ Fresh(SaveNew(n, c.val)) /\ SaveNew(n, c.val).op = "save" /\ SaveNew(n, c.val).note = n
          /\ SaveNew(n, c.val).val = c.val
      BY FreshFunctions
    <3> QED
      BY <2>1, <3>1, <3>2
  <2>2. CASE c.op = "Change"
    <3>1. StartJob(Gw, SaveOld(c.note, c.val))
      BY <1>2, <2>2
    <3>2. /\ Fresh(SaveOld(c.note, c.val)) /\ SaveOld(c.note, c.val).op = "save"
          /\ SaveOld(c.note, c.val).note = c.note /\ SaveOld(c.note, c.val).val = c.val
      BY FreshFunctions
    <3> QED
      BY <1>3, <2>2, <3>1, <3>2
  <2>3. CASE c.op = "Delete"
    <3>1. StartJob(Gw, DestroyNote(c.note))
      BY <1>2, <2>3
    <3>2. /\ Fresh(DestroyNote(c.note)) /\ DestroyNote(c.note).op = "destroy"
          /\ DestroyNote(c.note).note = c.note /\ DestroyNote(c.note).val = None
      BY FreshFunctions
    <3> QED
      BY <1>3, <2>3, <3>1, <3>2
  <2> QED
    BY <1>3, <2>1, <2>2, <2>3
<1>5. jobs'[Gw] = j /\ SavedInv(jobs[Gw])' /\ \A n \in NoteIds : jobs'[Gw].found[n] = NoHash
  <2>1. jobs'[Gw] = j /\ SavedInv(jobs[Gw])'
    BY <1>4, Typed, FreshStart
  <2> QED
    BY <1>4, <2>1, Blanks DEF Fresh
<1>6. [h EXCEPT !.todo = @ \ {c}, !.cmd = c] \in Handler
  BY <1>3, Typed DEF Handler
<1>7. /\ h'.pc = "commands" /\ h'.cmd = c /\ h'.todo = h.todo \ {c} /\ h'.prev = h.prev
      /\ h'.list = h.list /\ h'.fetch = h.fetch /\ h'.reply = h.reply
  BY <1>1, <1>2, Typed DEF Handler
<1>8. JobFits'
  BY <1>3, <1>4, <1>5, <1>7 DEF JobFits
<1>9. TypeOK'
  BY <1>1, <1>2, <1>6, Typed, TypesFit DEF store, device, history
<1>10. KnownInv'
  BY <1>1, <1>7, KnownNow, KnownFits DEF device
<1>11. HashInv'
  BY <1>1, <1>5, <1>7, HashesFit DEF store
<1> QED
  BY <1>1, <1>5, <1>8, <1>9, <1>10, <1>11 DEF SyncInv, MailboxHolds

\* The response tells of the command and what became of it.
LEMMA RespondIs ==
  ASSUME SyncInv, h.pc = "commands", h.cmd # NoCommand, jobs[Gw].step = "done"
  PROVE  /\ Respond(jobs[Gw]) \subseteq Response
         /\ \A r \in Respond(jobs[Gw]) :
              /\ RespondedInv(r) /\ r.op = h.cmd.op /\ r.val = h.cmd.val /\ r.op # "Delete"
              /\ r.ok = jobs[Gw].ok
              /\ r.op = "Change" => r.note = h.cmd.note
         /\ h.cmd.op = "Change" => \E r \in Respond(jobs[Gw]) : r.op = "Change" /\ r.note = h.cmd.note
<1>1. /\ h.cmd \in Command
      /\ jobs[Gw].op = IF h.cmd.op = "Delete" THEN "destroy" ELSE "save"
      /\ jobs[Gw].val = h.cmd.val /\ jobs[Gw].note \in NoteIds
      /\ h.cmd.op # "Add" => jobs[Gw].note = h.cmd.note
  BY Typed DEF SyncInv, JobFits
<1>2. CASE h.cmd.op = "Delete"
  BY <1>2 DEF Respond
<1>3. CASE h.cmd.op # "Delete"
  <2>1. h.cmd.op \in {"Add", "Change"} /\ h.cmd.val \in Vals
    BY <1>1, <1>3 DEF Command
  <2>2. PICK r : r = [op |-> h.cmd.op, ok |-> jobs[Gw].ok, email |-> jobs[Gw].email, val |-> h.cmd.val,
                      note |-> IF h.cmd.op = "Add" /\ ~jobs[Gw].ok THEN None ELSE jobs[Gw].note]
    OBVIOUS
  <2>3. Respond(jobs[Gw]) = {r}
    BY <1>3, <2>2 DEF Respond
  <2>4. jobs[Gw].ok \in BOOLEAN /\ jobs[Gw].email \in EmailIds \cup {None}
    BY Typed DEF Job
  <2>5. /\ r.op = h.cmd.op /\ r.val = h.cmd.val /\ r.ok = jobs[Gw].ok /\ r.email = jobs[Gw].email
        /\ r.note = IF h.cmd.op = "Add" /\ ~jobs[Gw].ok THEN None ELSE jobs[Gw].note
    BY <2>2
  <2>6. r \in Response
    BY <1>1, <2>1, <2>2, <2>4 DEF Response
  <2>7. RespondedInv(r)
    <3>1. r.ok => IsOf(r.email, r.note) /\ mail[r.email].val = r.val
      BY <1>1, <1>3, <2>5 DEF SyncInv, SavedInv
    <3>2. r.op = "Change" => r.note \in Known
      BY <1>1, <2>5, KnownNow
    <3> QED
      BY <3>1, <3>2 DEF RespondedInv
  <2> QED
    BY <1>1, <2>1, <2>3, <2>5, <2>6, <2>7
<1> QED
  BY <1>2, <1>3

\* What EndCommand makes of the handler, field by field.
EndCommandFields ==
  /\ h'.pc = "commands" /\ h'.cmd = NoCommand /\ h'.todo = h.todo /\ h'.list = h.list
  /\ h'.fetch = h.fetch /\ h'.key = h.key /\ h'.get = h.get
  /\ h'.reply = [h.reply EXCEPT !.responses = @ \cup Respond(jobs[Gw])]
  /\ h'.reply.responses = h.reply.responses \cup Respond(jobs[Gw])
  /\ h'.reply.puts = h.reply.puts /\ h'.reply.dels = h.reply.dels /\ h'.reply.status = h.reply.status
  /\ h'.reply.key = h.reply.key
  /\ IF h.cmd.op = "Delete" /\ jobs[Gw].ok
       THEN /\ h'.prev = [h.prev EXCEPT ![h.cmd.note] = NoHash]
            /\ h'.deleting = h.deleting \cup {h.cmd.note}
       ELSE h'.prev = h.prev /\ h'.deleting = h.deleting
  /\ h'.undeleted = IF h.cmd.op = "Delete" /\ ~jobs[Gw].ok THEN h.undeleted \cup {h.cmd.note}
                                                            ELSE h.undeleted

LEMMA EndCommandIs ==
  ASSUME SyncInv, EndCommand
  PROVE  /\ h' \in Handler /\ EndCommandFields /\ h.pc = "commands" /\ h.cmd # NoCommand
         /\ h.cmd \in Command /\ jobs[Gw].step = "done" /\ jobs[Gw] # NoJob /\ jobs'[Gw] = NoJob
         /\ MailboxHolds /\ UNCHANGED <<mailbox, notesHistory, store, device, history>>
<1>1. /\ h.pc = "commands" /\ h.cmd # NoCommand /\ jobs[Gw].step = "done" /\ StartJob(Gw, NoJob)
      /\ UNCHANGED <<mailbox, notesHistory, store, device, history>>
  BY DEF EndCommand
<1>2. h.cmd \in Command /\ jobs[Gw] # NoJob
  BY <1>1, Typed, FreshFunctions DEF SyncInv, JobFits
<1>3. MailboxHolds /\ jobs'[Gw] = NoJob
  BY <1>1, <1>2, EndHolds, OnlyGw, StartIs, Typed
<1>4. PICK n, d, rep, p, del, und :
        /\ n = h.cmd.note /\ d = (h.cmd.op = "Delete" /\ jobs[Gw].ok)
        /\ rep = [h.reply EXCEPT !.responses = @ \cup Respond(jobs[Gw])]
        /\ p = IF d THEN [h.prev EXCEPT ![n] = NoHash] ELSE h.prev
        /\ del = IF d THEN h.deleting \cup {n} ELSE h.deleting
        /\ und = IF h.cmd.op = "Delete" /\ ~jobs[Gw].ok THEN h.undeleted \cup {n} ELSE h.undeleted
  OBVIOUS
<1>5. h' = [h EXCEPT !.cmd = NoCommand, !.reply = rep, !.prev = p, !.deleting = del, !.undeleted = und]
  BY <1>4 DEF EndCommand
<1>6. h.cmd.op = "Delete" => n \in NoteIds
  BY <1>2, <1>4 DEF Command
<1>7. rep \in Reply
  BY <1>1, <1>4, RespondIs, Typed DEF Reply
<1>8. p \in Hashes /\ del \subseteq NoteIds /\ und \subseteq NoteIds
  <2>1. n \in NoteIds => [h.prev EXCEPT ![n] = NoHash] \in Hashes
    BY Typed, Blanks DEF Hashes
  <2>2. d => n \in NoteIds
    BY <1>4, <1>6
  <2> QED
    BY <1>4, <1>6, <2>1, <2>2, Typed
<1>9. [h EXCEPT !.cmd = NoCommand, !.reply = rep, !.prev = p, !.deleting = del, !.undeleted = und] \in Handler
  BY <1>7, <1>8, Typed DEF Handler
<1>10. /\ h'.pc = h.pc /\ h'.cmd = NoCommand /\ h'.todo = h.todo /\ h'.list = h.list
       /\ h'.fetch = h.fetch /\ h'.key = h.key /\ h'.get = h.get
       /\ h'.reply = rep /\ h'.prev = p /\ h'.deleting = del /\ h'.undeleted = und
  BY <1>5, Typed DEF Handler
<1>11. /\ rep.responses = h.reply.responses \cup Respond(jobs[Gw])
       /\ rep.puts = h.reply.puts /\ rep.dels = h.reply.dels /\ rep.status = h.reply.status
       /\ rep.key = h.reply.key
  BY <1>4, Typed DEF Reply
<1>12. EndCommandFields
  BY <1>1, <1>4, <1>10, <1>11 DEF EndCommandFields
<1> QED
  BY <1>1, <1>2, <1>3, <1>5, <1>9, <1>12

LEMMA EndCommandStep ==
  ASSUME SyncInv, EndCommand
  PROVE  SyncInv'
<1>1. /\ h' \in Handler /\ EndCommandFields /\ h.pc = "commands" /\ h.cmd # NoCommand
      /\ h.cmd \in Command /\ jobs[Gw].step = "done" /\ jobs'[Gw] = NoJob
      /\ MailboxHolds /\ UNCHANGED <<store, device, history>>
  BY EndCommandIs
<1>2. /\ h'.pc = "commands" /\ h'.cmd = NoCommand /\ h'.todo = h.todo /\ h'.list = h.list
      /\ h'.fetch = h.fetch /\ h'.reply.puts = h.reply.puts
      /\ h'.reply.responses = h.reply.responses \cup Respond(jobs[Gw])
      /\ h'.prev = h.prev \/ h'.prev = [h.prev EXCEPT ![h.cmd.note] = NoHash]
  BY <1>1 DEF EndCommandFields
<1>3. JobFits' /\ SavedInv(jobs[Gw])' /\ \A n \in NoteIds : jobs'[Gw].found[n] = NoHash
  BY <1>1, <1>2, NoJobFits
<1>4. TypeOK'
  BY <1>1, Typed, TypesFit DEF store, device, history
<1>5. KnownInv'
  <2>1. \A r \in h'.reply.responses : RespondedInv(r)
    BY <1>1, <1>2, KnownNow, RespondIs
  <2>2. NoCommand.op = "none"
    BY DEF NoCommand
  <2> QED
    BY <1>1, <1>2, <2>1, <2>2, KnownNow, KnownFits DEF device
<1>6. HashInv'
  <2>1. \A n \in NoteIds : h'.prev[n] \in {h.prev[n], NoHash}
    BY <1>2, Typed DEF Hashes
  <2> QED
    BY <1>1, <1>2, <1>3, <2>1, HashesFit DEF store
<1> QED
  BY <1>1, <1>3, <1>4, <1>5, <1>6 DEF SyncInv, MailboxHolds

LEMMA StartListStep ==
  ASSUME SyncInv, StartList
  PROVE  SyncInv'
<1>1. /\ MailboxHolds /\ UNCHANGED <<store, device, history>> /\ h.cmd = NoCommand
      /\ h' = [h EXCEPT !.pc = "list"] /\ StartJob(Gw, ListNotes)
  BY StartHolds DEF StartList, Goto
<1>2. /\ Fresh(ListNotes) /\ ListNotes.op = "list" /\ ListNotes.step = "query"
  BY FreshFunctions
<1>3. jobs'[Gw] = ListNotes /\ SavedInv(jobs[Gw])'
  BY <1>1, <1>2, Typed, FreshStart
<1>4. [h EXCEPT !.pc = "list"] \in Handler
  BY Typed DEF Handler, PCs
<1>5. /\ h'.pc = "list" /\ h'.cmd = NoCommand /\ h'.todo = h.todo /\ h'.prev = h.prev
      /\ h'.list = h.list /\ h'.fetch = h.fetch /\ h'.reply = h.reply
  BY <1>1, Typed DEF Handler
<1>6. JobFits'
  BY <1>2, <1>3, <1>5 DEF JobFits
<1>7. TypeOK'
  BY <1>1, <1>4, Typed, TypesFit DEF store, device, history
<1>8. KnownInv'
  BY <1>1, <1>5, KnownNow, KnownFits DEF device
<1>9. HashInv'
  <2>1. \A n \in NoteIds : jobs'[Gw].found[n] = NoHash
    BY <1>2, <1>3, Blanks DEF Fresh
  <2> QED
    BY <1>1, <1>5, <2>1, HashesFit DEF store
<1> QED
  BY <1>1, <1>3, <1>6, <1>7, <1>8, <1>9 DEF SyncInv, MailboxHolds

LEMMA EndListStep ==
  ASSUME SyncInv, EndList
  PROVE  SyncInv'
<1>1. /\ h.pc = "list" /\ jobs[Gw].step = "done" /\ StartJob(Gw, NoJob)
      /\ UNCHANGED <<mailbox, notesHistory, store, device, history>>
  BY DEF EndList
<1>2. jobs[Gw] # NoJob /\ h.cmd = NoCommand
  BY <1>1, OutOfFunction, FreshFunctions DEF SyncInv, JobFits
<1>3. MailboxHolds /\ jobs'[Gw] = NoJob
  BY <1>1, <1>2, EndHolds, OnlyGw, StartIs, Typed
<1>4. CASE Refuse(5)
  BY <1>1, <1>3, <1>4, RefuseIs, Typed, KnownNow, Blanks, BareFits DEF store, device, history
<1>5. CASE ~Refuse(5)
  <2>1. PICK found : found = jobs[Gw].found /\ found \in Hashes
    BY Typed DEF Job, Hashes
  <2>2. h' = [h EXCEPT !.pc = "put", !.list = found]
    BY <1>5, <2>1 DEF EndList
  <2>3. [h EXCEPT !.pc = "put", !.list = found] \in Handler
    BY <2>1, Typed DEF Handler, PCs
  <2>4. /\ h'.pc = "put" /\ h'.cmd = h.cmd /\ h'.todo = h.todo /\ h'.prev = h.prev
        /\ h'.list = found /\ h'.fetch = h.fetch /\ h'.reply = h.reply
    BY <2>2, Typed DEF Handler
  <2>5. JobFits' /\ SavedInv(jobs[Gw])' /\ \A n \in NoteIds : jobs'[Gw].found[n] = NoHash
    BY <1>2, <1>3, <2>4, NoJobFits
  <2>6. TypeOK'
    BY <1>1, <1>3, <2>2, <2>3, Typed, TypesFit DEF store, device, history
  <2>7. KnownInv'
    BY <1>1, <1>3, <2>4, KnownNow, KnownFits DEF device
  <2>8. HashInv'
    BY <1>1, <1>3, <2>1, <2>4, <2>5, HashesFit DEF store
  <2> QED
    BY <1>3, <2>5, <2>6, <2>7, <2>8 DEF SyncInv, MailboxHolds
<1> QED
  BY <1>4, <1>5

LEMMA PutRecordStep ==
  ASSUME SyncInv, PutRecord
  PROVE  SyncInv'
<1>1. /\ MailboxHolds /\ UNCHANGED <<base, device, history, jobs>> /\ h.pc = "put"
      /\ h' = [h EXCEPT !.pc = "items"] /\ key' \in {key, NewKey}
  BY IdleHolds DEF PutRecord, notesVars, Goto
<1>2. jobs[Gw] = NoJob /\ h.cmd = NoCommand
  BY <1>1, OutOfFunction
<1>3. [h EXCEPT !.pc = "items"] \in Handler
  BY Typed DEF Handler, PCs
<1>4. /\ h'.pc = "items" /\ h'.cmd = h.cmd /\ h'.todo = h.todo /\ h'.prev = h.prev
      /\ h'.list = h.list /\ h'.fetch = h.fetch /\ h'.reply = h.reply
  BY <1>1, Typed DEF Handler
<1>5. JobFits' /\ SavedInv(jobs[Gw])' /\ \A n \in NoteIds : jobs'[Gw].found[n] = NoHash
  BY <1>1, <1>2, <1>4, NoJobFits
<1>6. TypeOK'
  <2>1. key' \in Key
    BY <1>1, NewKeyTyped, Typed
  <2> QED
    BY <1>1, <1>3, <2>1, Typed, TypesFit DEF device, history
<1>7. KnownInv'
  BY <1>1, <1>4, KnownNow, KnownFits DEF device
<1>8. HashInv'
  BY <1>1, <1>4, <1>5, HashesFit
<1> QED
  BY <1>1, <1>5, <1>6, <1>7, <1>8 DEF SyncInv, MailboxHolds

\* What PutItems makes of the handler, field by field.
PutItemsFields ==
  /\ h'.pc = "fetch" /\ h'.cmd = h.cmd /\ h'.todo = h.todo /\ h'.prev = h.prev /\ h'.list = h.list
  /\ h'.key = h.key /\ h'.get = h.get
  /\ h'.fetch = IF h.get THEN ToAdd \cup ToChange ELSE {}
  /\ h'.reply.dels = IF h.get THEN ToRemove ELSE {}
  /\ h'.reply.responses = h.reply.responses /\ h'.reply.puts = h.reply.puts
  /\ h'.reply.status = 1 /\ h'.reply.key = NewKey

LEMMA PutItemsIs ==
  ASSUME SyncInv, PutItems
  PROVE  h' \in Handler /\ PutItemsFields
<1>1. PICK f, d, k : /\ f = IF h.get THEN ToAdd \cup ToChange ELSE {}
                     /\ d = IF h.get THEN ToRemove ELSE {}
                     /\ k = NewKey
  OBVIOUS
<1>2. h' = [h EXCEPT !.pc = "fetch", !.reply.status = 1, !.reply.key = k, !.fetch = f, !.reply.dels = d]
  BY <1>1 DEF PutItems
<1>3. PICK rep : rep = [h.reply EXCEPT !.status = 1, !.key = k, !.dels = d]
  OBVIOUS
<1>4. h' = [h EXCEPT !.pc = "fetch", !.reply = rep, !.fetch = f]
  BY <1>2, <1>3, Typed DEF Handler, Reply
<1>5. f \subseteq NoteIds /\ d \subseteq NoteIds
  BY <1>1 DEF ToAdd, ToChange, ToRemove, to_add, to_change, to_remove, Notes
<1>6. rep \in Reply
  BY <1>1, <1>3, <1>5, NewKeyTyped, Typed DEF Reply
<1>7. [h EXCEPT !.pc = "fetch", !.reply = rep, !.fetch = f] \in Handler
  BY <1>5, <1>6, Typed DEF Handler, PCs
<1>8. /\ h'.pc = "fetch" /\ h'.cmd = h.cmd /\ h'.todo = h.todo /\ h'.prev = h.prev /\ h'.list = h.list
      /\ h'.key = h.key /\ h'.get = h.get /\ h'.fetch = f /\ h'.reply = rep
  BY <1>4, Typed DEF Handler
<1>9. /\ rep.dels = d /\ rep.responses = h.reply.responses /\ rep.puts = h.reply.puts
      /\ rep.status = 1 /\ rep.key = k
  BY <1>3, Typed DEF Reply
<1> QED
  BY <1>1, <1>4, <1>7, <1>8, <1>9 DEF PutItemsFields

\* A note a response tells of is one.
LEMMA MissedTyped ==
  ASSUME SyncInv
  PROVE  Missed \subseteq NoteIds /\ Unsaved \subseteq NoteIds
<1>1. Swallowed \subseteq NoteIds
  <2>1. ASSUME NEW r \in Responses, r.ok PROVE r.note \in NoteIds
    <3>1. IsOf(r.email, r.note)
      BY <2>1, KnownNow DEF RespondedInv, Responses
    <3> QED
      BY <3>1, Slots, Typed DEF IsOf, Email
  <2> QED
    BY <2>1 DEF Swallowed
<1>2. Carried \subseteq NoteIds /\ Undeleted \subseteq NoteIds /\ Forgotten \subseteq NoteIds
  BY Typed DEF Carried, Undeleted, Forgotten, Notes
<1>3. Unasked \subseteq NoteIds
  BY DEF Unasked, ToAdd, ToChange, ToRemove, to_add, to_change, to_remove, Notes
<1> QED
  BY <1>1, <1>2, <1>3, Typed DEF Missed, Unsaved

LEMMA PutItemsStep ==
  ASSUME SyncInv, PutItems
  PROVE  SyncInv'
<1>1. /\ MailboxHolds /\ UNCHANGED <<key, device, away, blind, jobs>> /\ h.pc = "items"
      /\ base' \in {base, h.list}
  BY IdleHolds DEF PutItems, notesVars
<1>2. jobs[Gw] = NoJob /\ h.cmd = NoCommand
  BY <1>1, OutOfFunction
<1>3. /\ h' \in Handler /\ h'.pc = "fetch" /\ h'.cmd = h.cmd /\ h'.todo = h.todo /\ h'.prev = h.prev
      /\ h'.list = h.list /\ h'.fetch \subseteq ToAdd \cup ToChange
      /\ h'.reply.responses = h.reply.responses /\ h'.reply.puts = h.reply.puts
  BY PutItemsIs DEF PutItemsFields
<1>4. JobFits' /\ SavedInv(jobs[Gw])' /\ \A n \in NoteIds : jobs'[Gw].found[n] = NoHash
  BY <1>1, <1>2, <1>3, NoJobFits
<1>5. TypeOK'
  <2>1. missed' \subseteq NoteIds
    BY MissedTyped, Typed DEF PutItems
  <2> QED
    BY <1>1, <1>3, <2>1, Typed, TypesFit DEF device
<1>6. KnownInv'
  <2>1. ToAdd \cup ToChange \subseteq given
    BY DEF ToAdd, ToChange, to_add, to_change, Notes, SyncInv, HashInv, WasHash
  <2> QED
    BY <1>1, <1>3, <2>1, KnownNow, KnownFits DEF device
<1>7. HashInv'
  BY <1>1, <1>3, <1>4, HashesFit
<1> QED
  BY <1>1, <1>4, <1>5, <1>6, <1>7 DEF SyncInv, MailboxHolds

LEMMA StartFetchStep ==
  ASSUME SyncInv, StartFetch
  PROVE  SyncInv'
<1>1. /\ MailboxHolds /\ UNCHANGED <<store, device, history>> /\ h.pc = "fetch" /\ h.cmd = NoCommand
  BY FetchHolds, OutOfFunction DEF StartFetch
<1>2. PICK n \in h.fetch : StartJob(Gw, GetNote(n)) /\ h' = [h EXCEPT !.fetch = @ \ {n}]
  BY DEF StartFetch
<1>3. Fresh(GetNote(n)) /\ GetNote(n).op = "get" /\ GetNote(n).note = n
  BY FreshFunctions
<1>4. jobs'[Gw] = GetNote(n) /\ SavedInv(jobs[Gw])'
  BY <1>2, <1>3, Typed, FreshStart
<1>5. [h EXCEPT !.fetch = @ \ {n}] \in Handler
  BY Typed DEF Handler
<1>6. /\ h'.pc = "fetch" /\ h'.cmd = NoCommand /\ h'.todo = h.todo /\ h'.prev = h.prev
      /\ h'.list = h.list /\ h'.fetch = h.fetch \ {n} /\ h'.reply = h.reply
  BY <1>1, <1>2, Typed DEF Handler
<1>7. JobFits'
  BY <1>3, <1>4, <1>6, Typed DEF JobFits
<1>8. TypeOK'
  BY <1>1, <1>2, <1>5, Typed, TypesFit DEF store, device, history
<1>9. KnownInv'
  BY <1>1, <1>6, KnownNow, KnownFits, OutOfFunction DEF device
<1>10. HashInv'
  <2>1. \A m \in NoteIds : jobs'[Gw].found[m] = NoHash
    BY <1>3, <1>4, Blanks DEF Fresh
  <2> QED
    BY <1>1, <1>6, <2>1, HashesFit DEF store
<1> QED
  BY <1>1, <1>4, <1>7, <1>8, <1>9, <1>10 DEF SyncInv, MailboxHolds

\* What EndFetch makes of the handler: the body of the email, or nothing.
LEMMA EndFetchIs ==
  ASSUME SyncInv, EndFetch
  PROVE  /\ h' \in Handler /\ jobs'[Gw] = NoJob /\ MailboxHolds
         /\ UNCHANGED <<mailbox, notesHistory, store, device, away, blind>>
         /\ h.pc = "fetch" /\ jobs[Gw].op = "get" /\ jobs[Gw].note \in NoteIds
         /\ h'.pc = "fetch" /\ h'.cmd = NoCommand /\ h'.todo = h.todo /\ h'.prev = h.prev
         /\ h'.list = h.list /\ h'.fetch = h.fetch /\ h'.key = h.key
         /\ h'.reply.dels = h.reply.dels /\ h'.reply.responses = h.reply.responses
         /\ h'.reply.status = h.reply.status /\ h'.reply.key = h.reply.key
         /\ \/ /\ jobs[Gw].email # None /\ missed' = missed
               /\ mail[jobs[Gw].email].val \in Vals /\ jobs[Gw].note \in Known
               /\ h'.reply.puts = [h.reply.puts EXCEPT ![jobs[Gw].note] = mail[jobs[Gw].email].val]
            \/ /\ jobs[Gw].email = None /\ missed' = missed \cup {jobs[Gw].note}
               /\ h'.reply.puts = h.reply.puts
<1>1. /\ h.pc = "fetch" /\ jobs[Gw].op = "get" /\ jobs[Gw].step = "done" /\ StartJob(Gw, NoJob)
      /\ UNCHANGED <<mailbox, notesHistory, store, device, away, blind>>
  BY DEF EndFetch
<1>2. jobs[Gw] # NoJob /\ h.cmd = NoCommand /\ jobs[Gw].note \in NoteIds
  BY <1>1, OutOfFunction, FreshFunctions DEF SyncInv, JobFits
<1>3. MailboxHolds /\ jobs'[Gw] = NoJob
  BY <1>1, <1>2, EndHolds, OnlyGw, StartIs, Typed
<1>4. CASE jobs[Gw].email = None
  <2>1. h' = h /\ missed' = missed \cup {jobs[Gw].note}
    BY <1>4 DEF EndFetch
  <2> QED
    BY <1>1, <1>2, <1>3, <1>4, <2>1, Typed
<1>5. CASE jobs[Gw].email # None
  <2>1. PICK n, v : n = jobs[Gw].note /\ v = mail[jobs[Gw].email].val
    OBVIOUS
  <2>2. IsOf(jobs[Gw].email, n) /\ n \in NoteIds
    BY <1>1, <1>2, <1>5, <2>1 DEF SyncInv, SavedInv
  <2>3. v \in Vals /\ n \in Known
    BY <2>1, <2>2 DEF IsOf, SyncInv, MailInv, Known
  <2>4. PICK rep : rep = [h.reply EXCEPT !.puts = [h.reply.puts EXCEPT ![n] = v]]
    OBVIOUS
  <2>5. h' = [h EXCEPT !.reply.puts[n] = v] /\ missed' = missed
    BY <1>5, <2>1 DEF EndFetch
  <2>6. h' = [h EXCEPT !.reply = rep]
    BY <2>4, <2>5, Typed DEF Handler, Reply
  <2>7. [h.reply.puts EXCEPT ![n] = v] \in View
    BY <2>2, <2>3, Typed DEF View
  <2>8. rep \in Reply
    BY <2>4, <2>7, Typed DEF Reply
  <2>9. [h EXCEPT !.reply = rep] \in Handler
    BY <2>8, Typed DEF Handler
  <2>10. /\ h'.pc = h.pc /\ h'.cmd = h.cmd /\ h'.todo = h.todo /\ h'.prev = h.prev
         /\ h'.list = h.list /\ h'.fetch = h.fetch /\ h'.key = h.key /\ h'.reply = rep
    BY <2>6, Typed DEF Handler
  <2>11. /\ rep.puts = [h.reply.puts EXCEPT ![n] = v] /\ rep.dels = h.reply.dels
         /\ rep.responses = h.reply.responses /\ rep.status = h.reply.status /\ rep.key = h.reply.key
    BY <2>4, Typed DEF Reply
  <2> QED
    BY <1>1, <1>2, <1>3, <1>5, <2>1, <2>3, <2>5, <2>6, <2>9, <2>10, <2>11
<1> QED
  BY <1>4, <1>5

LEMMA EndFetchStep ==
  ASSUME SyncInv, EndFetch
  PROVE  SyncInv'
<1>1. /\ h' \in Handler /\ jobs'[Gw] = NoJob /\ MailboxHolds /\ UNCHANGED <<store, device, away, blind>>
      /\ jobs[Gw].note \in NoteIds
      /\ h'.pc = "fetch" /\ h'.cmd = NoCommand /\ h'.todo = h.todo /\ h'.prev = h.prev
      /\ h'.list = h.list /\ h'.fetch = h.fetch
      /\ h'.reply.responses = h.reply.responses
      /\ \/ /\ missed' = missed /\ jobs[Gw].note \in Known
            /\ h'.reply.puts = [h.reply.puts EXCEPT ![jobs[Gw].note] = mail[jobs[Gw].email].val]
         \/ missed' = missed \cup {jobs[Gw].note} /\ h'.reply.puts = h.reply.puts
  BY EndFetchIs
<1>2. JobFits' /\ SavedInv(jobs[Gw])' /\ \A n \in NoteIds : jobs'[Gw].found[n] = NoHash
  BY <1>1, NoJobFits
<1>3. TypeOK'
  BY <1>1, Typed, TypesFit DEF store, device
<1>4. KnownInv'
  <2>1. \A n \in NoteIds : h'.reply.puts[n] # None => n \in Known
    BY <1>1, KnownNow, Typed DEF View
  <2>2. NoCommand.op = "none"
    BY DEF NoCommand
  <2> QED
    BY <1>1, <2>1, <2>2, KnownNow, KnownFits DEF device
<1>5. HashInv'
  BY <1>1, <1>2, HashesFit DEF store
<1> QED
  BY <1>1, <1>2, <1>3, <1>4, <1>5 DEF SyncInv, MailboxHolds

LEMMA AnswerStep ==
  ASSUME SyncInv, Answer
  PROVE  SyncInv'
<1>1. /\ MailboxHolds /\ UNCHANGED <<store, device, history, jobs>> /\ jobs[Gw] = NoJob
      /\ h' = [Idle EXCEPT !.pc = "reply", !.reply = h.reply]
  BY IdleHolds DEF Answer, notesVars
<1>2. [Idle EXCEPT !.pc = "reply", !.reply = h.reply] \in Handler
  BY Typed, Blanks DEF Handler, PCs
<1>3. h'.pc = "reply" /\ h'.reply = h.reply /\ Bare(h')
  BY <1>1, IdleIs DEF Idle, Bare
<1> QED
  BY <1>1, <1>2, <1>3, Typed, KnownNow, BareFits DEF store, device, history

LEMMA DropStep ==
  ASSUME SyncInv, Drop
  PROVE  SyncInv'
<1>1. MailboxHolds /\ UNCHANGED <<store, device, history>> /\ h' = Idle /\ StartJob(Gw, NoJob)
  BY DropHolds DEF Drop, Abandon
<1>2. jobs'[Gw] = NoJob
  BY <1>1, OnlyGw, StartIs, Typed
<1> QED
  BY <1>1, <1>2, IdleIs, Typed, Blanks, KnownNow, BareFits DEF store, device, history

LEMMA CommandsTyped ==
  ASSUME SyncInv
  PROVE  /\ Commands \subseteq Command
         /\ \A c \in Commands : c.op \in {"Change", "Delete"} => c.note \in dirty
         /\ \A c \in Commands : c.op = "Add" => draft # None
         /\ \A c \in Commands : c.op = "Change" => c.val = has[c.note]
<1> SUFFICES ASSUME NEW c \in Commands
             PROVE  /\ c \in Command /\ (c.op \in {"Change", "Delete"} => c.note \in dirty)
                    /\ (c.op = "Add" => draft # None) /\ (c.op = "Change" => c.val = has[c.note])
  OBVIOUS
<1>1. CASE draft # None /\ c = [op |-> "Add", note |-> None, val |-> draft]
  BY <1>1, Typed DEF Command
<1>2. CASE \E n \in dirty : has[n] # None /\ c = [op |-> "Change", note |-> n, val |-> has[n]]
  <2>1. PICK n \in dirty : has[n] # None /\ c = [op |-> "Change", note |-> n, val |-> has[n]]
    BY <1>2
  <2>2. n \in NoteIds /\ has[n] \in Vals
    BY <2>1, Typed DEF View
  <2> QED
    BY <2>1, <2>2 DEF Command
<1>3. CASE \E n \in dirty : c = [op |-> "Delete", note |-> n, val |-> None]
  BY <1>3, Typed DEF Command
<1> QED
  BY <1>1, <1>2, <1>3 DEF Commands

LEMMA SendSyncIs ==
  ASSUME SyncInv, NEW get \in GetChanges, SendSync(get)
  PROVE  /\ h' \in Handler /\ MailboxHolds /\ UNCHANGED <<jobs, store, device, missed>>
         /\ jobs[Gw] = NoJob /\ h.pc = "idle" /\ ckey < MaxKey /\ away' = Absent /\ blind' = FALSE
         /\ h'.pc = "load" /\ h'.key = ckey /\ h'.get = get /\ h'.todo = Commands
         /\ h'.cmd = NoCommand /\ h'.prev = NoHashes /\ h'.list = NoHashes /\ h'.fetch = {}
         /\ h'.deleting = {} /\ h'.undeleted = {}
         /\ h'.reply = NoReply
<1>1. /\ MailboxHolds /\ UNCHANGED <<jobs, store, device, missed>>
      /\ jobs[Gw] = NoJob /\ h.pc = "idle" /\ ckey < MaxKey /\ away' = Absent /\ blind' = FALSE
  BY IdleHolds, OutOfFunction DEF SendSync, notesVars
<1>2. PICK todo : todo = Commands
  OBVIOUS
<1>3. h' = [Idle EXCEPT !.pc = "load", !.key = ckey, !.get = get, !.todo = todo]
  BY <1>2 DEF SendSync
<1>4. [Idle EXCEPT !.pc = "load", !.key = ckey, !.get = get, !.todo = todo] \in Handler
  <2>1. get \in BOOLEAN /\ todo \subseteq Command
    BY <1>2, CommandsTyped, FaultsAssumption
  <2> QED
    BY <2>1, Typed, Blanks DEF Handler, PCs
<1>5. /\ h'.pc = "load" /\ h'.key = ckey /\ h'.get = get /\ h'.todo = todo
      /\ h'.cmd = NoCommand /\ h'.prev = NoHashes /\ h'.list = NoHashes /\ h'.fetch = {}
      /\ h'.deleting = {} /\ h'.undeleted = {}
      /\ h'.reply = NoReply
  BY <1>3 DEF Idle
<1> QED
  BY <1>1, <1>2, <1>3, <1>4, <1>5

LEMMA SendSyncStep ==
  ASSUME SyncInv, NEW get \in GetChanges, SendSync(get)
  PROVE  SyncInv'
<1>1. /\ h' \in Handler /\ MailboxHolds /\ UNCHANGED <<jobs, store, device, missed>>
      /\ jobs[Gw] = NoJob /\ away' = Absent /\ blind' = FALSE
      /\ h'.pc = "load" /\ h'.todo = Commands
      /\ h'.cmd = NoCommand /\ h'.prev = NoHashes /\ h'.list = NoHashes /\ h'.fetch = {}
      /\ h'.reply = NoReply
  BY SendSyncIs
<1>2. JobFits' /\ SavedInv(jobs[Gw])' /\ \A n \in NoteIds : jobs'[Gw].found[n] = NoHash
  BY <1>1, NoJobFits
<1>3. TypeOK'
  <2>1. away' \subseteq NoteIds
    BY <1>1 DEF Absent
  <2> QED
    BY <1>1, <2>1, Typed, TypesFit DEF store, device
<1>4. KnownInv'
  <2>1. \A c \in h'.todo \cup {h'.cmd} : c.op \in {"Change", "Delete"} => c.note \in Known
    <3>1. NoCommand.op = "none"
      BY DEF NoCommand
    <3> QED
      BY <1>1, <3>1, CommandsTyped, KnownNow
  <2>2. h'.reply.responses = {} /\ \A n \in NoteIds : h'.reply.puts[n] = None
    BY <1>1, IdleIs, Blanks
  <2> QED
    BY <1>1, <2>1, <2>2, KnownNow, KnownFits DEF device
<1>5. HashInv'
  BY <1>1, <1>2, Blanks, HashesFit DEF store
<1> QED
  BY <1>1, <1>2, <1>3, <1>4, <1>5 DEF SyncInv, MailboxHolds

\* What the device shows after an answer is a body of a note it knows.
LEMMA ShownTyped ==
  ASSUME SyncInv, NEW n \in NoteIds
  PROVE  /\ Shown(h.reply, n) \in Vals \cup {None}
         /\ Shown(h.reply, n) # None => n \in Known
<1>1. h.reply.puts[n] \in Vals \cup {None} /\ has[n] \in Vals \cup {None}
  BY Typed DEF View
<1>2. h.reply.puts[n] # None \/ has[n] # None => n \in Known
  BY KnownNow
<1>3. CASE Added(h.reply, n) # {}
  <2>1. PICK r : r = CHOOSE q \in Added(h.reply, n) : TRUE
    OBVIOUS
  <2>2. r \in Added(h.reply, n)
    BY <1>3, <2>1
  <2>3. r \in Response /\ RespondedInv(r) /\ r.ok /\ r.note = n
    BY <2>2, Typed, KnownNow DEF Added
  <2>4. r.val \in Vals
    BY <2>3 DEF Response
  <2>5. n \in Known
    BY <2>3 DEF RespondedInv, IsOf, SyncInv, MailInv, Known
  <2> QED
    BY <1>1, <1>2, <2>1, <2>4, <2>5 DEF Shown
<1>4. CASE Added(h.reply, n) = {}
  BY <1>1, <1>2, <1>4 DEF Shown
<1> QED
  BY <1>3, <1>4

LEMMA ReceiveStep ==
  ASSUME SyncInv, Receive
  PROVE  SyncInv'
<1>1. /\ MailboxHolds /\ UNCHANGED <<jobs, store, history>> /\ h.pc = "reply" /\ h' = Idle
  BY IdleHolds DEF Receive, notesVars
<1>2. jobs[Gw] = NoJob
  BY <1>1, OutOfFunction
<1>3. /\ has' \in View /\ dirty' \subseteq Known /\ draft' \in Vals \cup {None} /\ ckey' \in Key
      /\ \A n \in NoteIds : has'[n] # None => n \in Known
  <2>1. CASE /\ has' = [n \in NoteIds |-> Shown(h.reply, n)]
             /\ dirty' = Queued(h.reply)
             /\ draft' = IF \E r \in h.reply.responses : r.op = "Add" /\ r.ok THEN None ELSE draft
             /\ ckey' = h.reply.key
    <3>1. has' \in View /\ \A n \in NoteIds : has'[n] # None => n \in Known
      BY <2>1, ShownTyped DEF View
    <3>2. Queued(h.reply) \subseteq Known
      BY KnownNow DEF Queued, RespondedInv
    <3> QED
      BY <2>1, <3>1, <3>2, Typed
  <2>2. CASE has' = Blank /\ dirty' = {} /\ draft' = None /\ ckey' = 0
    BY <2>2, Blanks
  <2>3. CASE UNCHANGED device
    BY <2>3, Typed, KnownNow DEF device
  <2> QED
    BY <2>1, <2>2, <2>3 DEF Receive
<1> QED
  BY <1>1, <1>2, <1>3, IdleIs, Blanks, Typed, BareFits DEF store, history

LEMMA UserEditsStep ==
  ASSUME SyncInv, UserEdits
  PROVE  SyncInv'
<1>1. MailboxHolds /\ UNCHANGED <<jobs, store, h, ckey, history>> /\ h.pc = "idle"
  BY IdleHolds DEF UserEdits, notesVars
<1>2. jobs[Gw] = NoJob /\ h.cmd = NoCommand
  BY <1>1, OutOfFunction
<1>3. /\ has' \in View /\ dirty' \subseteq Known /\ draft' \in Vals \cup {None}
      /\ \A n \in NoteIds : has'[n] # None => n \in Known
  <2>1. CASE \E n \in NoteIds, v \in Vals \cup {None} :
               /\ has[n] # None /\ v # has[n]
               /\ has' = [has EXCEPT ![n] = v] /\ dirty' = dirty \cup {n} /\ UNCHANGED draft
    <3>1. PICK n \in NoteIds, v \in Vals \cup {None} :
            /\ has[n] # None
            /\ has' = [has EXCEPT ![n] = v] /\ dirty' = dirty \cup {n} /\ UNCHANGED draft
      BY <2>1
    <3> QED
      BY <3>1, KnownNow, Typed DEF View
  <2>2. CASE \E v \in Vals : draft = None /\ draft' = v /\ UNCHANGED <<has, dirty>>
    BY <2>2, KnownNow, Typed
  <2> QED
    BY <2>1, <2>2 DEF UserEdits
<1>4. JobFits' /\ SavedInv(jobs[Gw])' /\ \A n \in NoteIds : jobs'[Gw].found[n] = NoHash
  BY <1>1, <1>2, NoJobFits
<1>5. TypeOK'
  <2>1. dirty' \subseteq NoteIds
    BY <1>3 DEF Known
  <2> QED
    BY <1>1, <1>3, <2>1, Typed, TypesFit DEF store, history
<1>6. KnownInv'
  BY <1>1, <1>3, KnownNow, KnownFits
<1>7. HashInv'
  BY <1>1, <1>4, HashesFit DEF store
<1> QED
  BY <1>1, <1>4, <1>5, <1>6, <1>7 DEF SyncInv, MailboxHolds

-----------------------------------------------------------------------------
(* The invariant of the request *)

LEMMA SyncInit == Init => SyncInv
<1> SUFFICES ASSUME Init PROVE SyncInv
  OBVIOUS
<1>1. NoteInv /\ EditInv
  BY InitInv, EditInit DEF Init
<1>2. jobs[Gw] = NoJob /\ h = Idle /\ base = NoHashes
  BY OnlyGw DEF Init, NotesInit
<1>3. TypeOK
  BY <1>1, Blanks DEF Init, TypeOK, NoteInv
<1>4. MailInv
  BY DEF Init, NotesInit, MailInv
<1>5. JobFits
  BY <1>2, IdleIs DEF JobFits, Bare
<1>6. SavedInv(jobs[Gw])
  BY <1>2, FreshFunctions DEF SavedInv, Fresh
<1>7. KnownInv
  <2>1. h.todo = {} /\ h.cmd = NoCommand /\ h.fetch = {} /\ h.reply.responses = {} /\ h.reply.puts = Blank
    BY <1>2, IdleIs DEF Bare
  <2>2. NoCommand.op = "none"
    BY DEF NoCommand
  <2> QED
    BY <2>1, <2>2, Blanks DEF Init, KnownInv
<1>8. HashInv
  <2>1. h.prev = NoHashes /\ h.list = NoHashes /\ jobs[Gw].found = NoHashes
    BY <1>2, IdleIs, FreshFunctions DEF Bare, Fresh
  <2> QED
    BY <1>2, <2>1, Blanks DEF HashInv, WasHash
<1> QED
  BY <1>1, <1>3, <1>4, <1>5, <1>6, <1>7, <1>8 DEF SyncInv

LEMMA SyncStutter ==
  ASSUME SyncInv, UNCHANGED vars
  PROVE  SyncInv'
<1>1. MailboxHolds /\ UNCHANGED <<store, h, device, history, jobs>>
  BY IdleHolds DEF vars, notesVars
<1>2. TypeOK' /\ KnownInv' /\ HashInv'
  BY <1>1, HandlerStays, Typed DEF MailboxHolds, history
<1>3. JobFits'
  BY <1>1 DEF JobFits, SyncInv
<1>4. SavedInv(jobs[Gw])'
  BY DEF SavedInv, IsOf, SyncInv, vars, notesVars, mailbox
<1> QED
  BY <1>1, <1>2, <1>3, <1>4 DEF SyncInv, MailboxHolds

LEMMA SyncStep == SyncInv /\ [Next]_vars => SyncInv'
<1> SUFFICES ASSUME SyncInv, [Next]_vars PROVE SyncInv'
  OBVIOUS
<1>1. CASE Handle
  BY <1>1, LoadStep, StartCommandStep, EndCommandStep, StartListStep, EndListStep, PutRecordStep,
     PutItemsStep, StartFetchStep, EndFetchStep, AnswerStep, DropStep DEF Handle
<1>2. CASE ~Handle
  BY <1>2, MailboxStep, ReceiveStep, UserEditsStep, SendSyncStep, SyncStutter DEF Next
<1> QED
  BY <1>1, <1>2

\* At every step of a Notes Sync request, the mailbox, the note function the
\* request is in, its answer and the device speak of the same notes and emails,
\* whatever calls fail and whatever other clients do meanwhile.
THEOREM SyncInvariant == Spec => []SyncInv
<1> QED
  BY SyncInit, SyncStep, PTL DEF Spec

\* Every variable of Notes Sync keeps its type.
THEOREM SyncTyped == Spec => []TypeOK
<1>1. SyncInv => TypeOK
  BY DEF SyncInv
<1> QED
  BY <1>1, SyncInvariant, PTL
=============================================================================
