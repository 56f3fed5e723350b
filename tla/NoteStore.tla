----------------------------- MODULE NoteStore -----------------------------
(***************************************************************************)
(* Notes kept as emails (jmap/notes.rs).  An email is never edited: a note *)
(* has a keyword noteid-*, an edit imports a new email with the keyword    *)
(* and destroys the old one.  Several requests of the gateway (Procs) work *)
(* on the mailbox at the same time, one JMAP call per step, and so do      *)
(* other mail clients.  The mail server is not in this repository; it is   *)
(* modelled from the calls notes.rs makes.                                 *)
(***************************************************************************)
EXTENDS Integers, FiniteSets

CONSTANTS
  Procs,     \* requests of the gateway at work at the same time
  NoteIds,   \* values of the noteid-* keyword, in the order of their strings
  EmailIds,  \* JMAP ids, in the order they are given
  Vals,      \* bodies of a note; all have one subject, the worst case for the diff
  Limit,     \* the most emails a listing returns
  Faults     \* what may go wrong, of the ones below

\* A call fails; a lookup or a listing is answered with a method-level error, which
\* the other calls take for a failure; a call is done but its answer is lost; a
\* request is dropped; two imports happen in the same second.
StoreFaults == {"jmap", "method", "unanswered", "drop", "second"}

ASSUME IdsAssumption   == NoteIds \subseteq Nat \ {0} /\ EmailIds \subseteq Nat \ {0}
ASSUME SizesAssumption == IsFiniteSet(NoteIds) /\ IsFiniteSet(EmailIds) /\ Limit \in Nat \ {0}

VARIABLES
  stored,     \* JMAP: ids of the emails in the Notes mailbox
  born,       \* JMAP: ids ever given
  mail,       \* JMAP: the email of every id: its noteid keywords, body, receivedAt
  given,      \* noteid keywords generated so far
  jobs,       \* the function of notes.rs every request is in
  newest,     \* history: the email last imported for a note, or 0
  gone,       \* history: notes somebody destroyed an email of
  messy,      \* history: notes whose old email an edit may have left behind
  deleted,    \* history: notes deleted with success and not saved since
  overlooked, \* history: of these, the ones whose Delete only failed to see an email
  raced       \* history: emails that two listings were adopting at once

mailbox == <<stored, born, mail, given>>
notesHistory == <<newest, gone, messy, deleted, overlooked, raced>>
notesVars == <<mailbox, jobs, notesHistory>>

-----------------------------------------------------------------------------
(* Types *)

None  == 0
Secs  == 0..Cardinality(EmailIds)
Email == [tags : SUBSET NoteIds, val : Vals \cup {None}, sec : Secs]

NoEmail == [tags |-> {}, val |-> None, sec |-> 0]

\* What note_hash tells apart in notes of one subject: receivedAt, to the second,
\* and the keywords.
Hash   == [sec : Secs, tags : SUBSET NoteIds]
NoHash == [sec |-> 0, tags |-> {}]

Ops   == {"none", "save", "destroy", "get", "list"}
Steps == {"resolve", "import", "cleanup", "destroy", "fetch", "query", "adopt", "done"}

Job == [op : Ops, step : Steps, note : NoteIds \cup {None}, val : Vals \cup {None},
        old : EmailIds \cup {None}, ok : BOOLEAN, email : EmailIds \cup {None},
        adopted : [EmailIds -> NoteIds \cup {None}], found : [NoteIds -> Hash]]

NoJob == [op |-> "none", step |-> "done", note |-> None, val |-> None, old |-> None,
          ok |-> TRUE, email |-> None, adopted |-> [e \in EmailIds |-> None],
          found |-> [n \in NoteIds |-> NoHash]]

NotesTypeOK ==
  /\ stored \subseteq born /\ born \subseteq EmailIds
  /\ mail \in [EmailIds -> Email]
  /\ given \subseteq NoteIds
  /\ jobs \in [Procs -> Job]
  /\ newest \in [NoteIds -> EmailIds \cup {None}]
  /\ gone \subseteq NoteIds /\ messy \subseteq NoteIds /\ deleted \subseteq NoteIds
  /\ overlooked \subseteq NoteIds /\ raced \subseteq EmailIds

-----------------------------------------------------------------------------
(* Emails and notes *)

\* An element m of a set of numbers that no other is below.
Least(S) == CHOOSE m \in S : \A o \in S : m <= o

\* A BTreeMap finds the least keyword.
extract_stable_id(e) == IF mail[e].tags = {} THEN None ELSE Least(mail[e].tags)

\* Mutant: subject and keywords only.
hash_without_time(e) == [sec |-> 1, tags |-> mail[e].tags]

note_hash(e) == [sec |-> mail[e].sec, tags |-> mail[e].tags]

\* Emails a hasKeyword query finds.
Backing(n) == {e \in stored : n \in mail[e].tags}

\* The emails of a listing, of which the query returns the first.
Listed == {e \in stored : Cardinality({o \in stored : o < e}) < Limit}

\* The clock: the second of the last import, or a later one.
LastSecond == Least({s \in Secs : \A e \in born : mail[e].sec <= s})
Seconds == {LastSecond + 1} \cup (IF "second" \in Faults /\ born # {} THEN {LastSecond} ELSE {})

NextEmail == Least(EmailIds \ born)

-----------------------------------------------------------------------------
(* The functions of notes.rs *)

StartJob(p, j) == jobs' = [jobs EXCEPT ![p] = j]
Step(p, s)     == jobs' = [jobs EXCEPT ![p].step = s]
At(p, op, s)   == jobs[p].op = op /\ jobs[p].step = s
Finish(p, ok)  == jobs' = [jobs EXCEPT ![p].step = "done", ![p].ok = ok]

\* Others that resolved the note before and have not destroyed the old email yet.
Overlaps(p, n) == \E q \in Procs \ {p} :
  jobs[q].op = "save" /\ jobs[q].note = n /\ jobs[q].step \in {"import", "cleanup"}

SaveNew(n, v)  == [NoJob EXCEPT !.op = "save", !.step = "import", !.note = n, !.val = v]

\* Mutant: an edit is saved like a new note, with the old id.
SaveUnresolved(n, v) == SaveNew(n, v)

SaveOld(n, v)  == [NoJob EXCEPT !.op = "save", !.step = "resolve", !.note = n, !.val = v]
DestroyNote(n) == [NoJob EXCEPT !.op = "destroy", !.step = "resolve", !.note = n]
GetNote(n)     == [NoJob EXCEPT !.op = "get", !.step = "resolve", !.note = n]
ListNotes      == [NoJob EXCEPT !.op = "list", !.step = "query"]

\* What follows resolve_note_email_id, by operation and by what it found.
AfterResolve(op, old) ==
  CASE op = "save"                   -> "import"
    [] op = "destroy" /\ old # None -> "destroy"
    [] op = "get" /\ old # None     -> "fetch"
    [] OTHER                         -> "done"

\* A query with limit 1 returns any of the emails.
Resolve(p) ==
  /\ jobs[p].step = "resolve"
  /\ LET n == jobs[p].note IN
       /\ \E old \in IF Backing(n) = {} THEN {None} ELSE Backing(n) :
            jobs' = [jobs EXCEPT ![p].old = old, ![p].step = AfterResolve(jobs[p].op, old)]
       /\ messy' = IF jobs[p].op = "save" /\ Overlaps(p, n) THEN messy \cup {n} ELSE messy
       /\ IF jobs[p].op = "destroy" /\ Backing(n) = {}
            THEN deleted' = deleted \cup {n} /\ overlooked' = overlooked \ {n}
            ELSE UNCHANGED <<deleted, overlooked>>
  /\ UNCHANGED <<mailbox, newest, gone, raced>>

\* A method-level error is taken for a query that finds nothing, although an email
\* may back the note: an edit leaves it behind, a Delete counts as done.
ResolveErrs(p) ==
  /\ "method" \in Faults /\ jobs[p].step = "resolve"
  /\ LET n    == jobs[p].note
         lost == Backing(n) # {}
     IN
       /\ jobs' = [jobs EXCEPT ![p].old = None, ![p].step = AfterResolve(jobs[p].op, None)]
       /\ messy' = IF jobs[p].op = "save" /\ (lost \/ Overlaps(p, n)) THEN messy \cup {n}
                                                                     ELSE messy
       /\ IF jobs[p].op = "destroy"
            THEN /\ deleted' = deleted \cup {n}
                 /\ overlooked' = IF lost THEN overlooked \cup {n} ELSE overlooked \ {n}
            ELSE UNCHANGED <<deleted, overlooked>>
  /\ UNCHANGED <<mailbox, newest, gone, raced>>

ResolveFails(p) ==
  /\ "jmap" \in Faults /\ jobs[p].step = "resolve"
  /\ Finish(p, FALSE)
  /\ UNCHANGED <<mailbox, notesHistory>>

\* Email/import of the new revision.
Imported(p) ==
  /\ jobs[p].step = "import" /\ born # EmailIds
  /\ \E s \in Seconds :
       mail' = [mail EXCEPT ![NextEmail] =
                  [tags |-> {jobs[p].note}, val |-> jobs[p].val, sec |-> s]]
  /\ stored' = stored \cup {NextEmail}
  /\ born' = born \cup {NextEmail}
  /\ newest' = [newest EXCEPT ![jobs[p].note] = NextEmail]
  /\ deleted' = deleted \ {jobs[p].note}
  /\ UNCHANGED <<given, gone, overlooked, raced>>

Import(p) ==
  /\ Imported(p)
  /\ jobs' = [jobs EXCEPT ![p].email = NextEmail,
                          ![p].step = IF jobs[p].old = None THEN "done" ELSE "cleanup"]
  /\ UNCHANGED messy

\* The upload or the import fails, or the model has no email left.
ImportFails(p) ==
  /\ "jmap" \in Faults \/ born = EmailIds
  /\ jobs[p].step = "import"
  /\ Finish(p, FALSE)
  /\ UNCHANGED <<mailbox, notesHistory>>

\* The email is there, the error leaves the old one alone.
ImportUnanswered(p) ==
  /\ "unanswered" \in Faults
  /\ Imported(p)
  /\ Finish(p, FALSE)
  /\ messy' = messy \cup {jobs[p].note}

\* Mutant: the old email is looked up when the new one is there already.
LateLookup(p) == Backing(jobs[p].note)

\* The email resolved before the import.
Superseded(p) == {jobs[p].old}

\* An email that is gone already counts as destroyed.
Cleanup(p) ==
  /\ At(p, "save", "cleanup")
  /\ \E e \in Superseded(p) : stored' = stored \ {e}
  /\ Finish(p, TRUE)
  /\ UNCHANGED <<born, mail, given, notesHistory>>

\* Only logged.
CleanupFails(p) ==
  /\ "jmap" \in Faults /\ At(p, "save", "cleanup")
  /\ Finish(p, TRUE)
  /\ messy' = messy \cup {jobs[p].note}
  /\ UNCHANGED <<mailbox, newest, gone, deleted, overlooked, raced>>

Destroy(p) ==
  /\ At(p, "destroy", "destroy")
  /\ stored' = stored \ {jobs[p].old}
  /\ Finish(p, TRUE)
  /\ gone' = gone \cup {jobs[p].note}
  /\ IF newest[jobs[p].note] = jobs[p].old
       THEN deleted' = deleted \cup {jobs[p].note} /\ overlooked' = overlooked \ {jobs[p].note}
       ELSE UNCHANGED <<deleted, overlooked>>
  /\ UNCHANGED <<born, mail, given, newest, messy, raced>>

DestroyFails(p) ==
  /\ "jmap" \in Faults /\ At(p, "destroy", "destroy")
  /\ Finish(p, FALSE)
  /\ UNCHANGED <<mailbox, notesHistory>>

\* get_note: the body of the resolved email, if it is still there.
Fetch(p) ==
  /\ At(p, "get", "fetch")
  /\ LET there == jobs[p].old \in stored IN
     jobs' = [jobs EXCEPT ![p].step = "done",
                          ![p].email = IF there THEN jobs[p].old ELSE None]
  /\ UNCHANGED <<mailbox, notesHistory>>

\* A method-level error reads as no note, which is left out of the answer all the same.
FetchFails(p) ==
  /\ "jmap" \in Faults /\ At(p, "get", "fetch")
  /\ Finish(p, FALSE)
  /\ UNCHANGED <<mailbox, notesHistory>>

\* Ways to give every email of a set a generated keyword of its own.
Tagging(emails) ==
  {f \in [EmailIds -> (NoteIds \ given) \cup {None}] :
     /\ \A e \in EmailIds : e \in emails <=> f[e] # None
     /\ \A e, o \in emails : f[e] = f[o] => e = o}

\* Mutant: emails that have a keyword are adopted again.
AdoptAll == Tagging(Listed)

Adoptions == Tagging({e \in Listed : mail[e].tags = {}})

\* The note an email is listed as.
ListedAs(e, adopted) == IF mail[e].tags = {} THEN adopted[e] ELSE extract_stable_id(e)

\* The hash of an email as it is now; of two emails of one note, the last one wins.
\* An adoption follows the hash it is to change.
List(p) ==
  /\ At(p, "list", "query")
  /\ \E adopted \in Adoptions :
     \E last \in [NoteIds -> Listed \cup {None}] :
       /\ \A n \in NoteIds :
            LET emails == {e \in Listed : ListedAs(e, adopted) = n}
            IN  last[n] \in IF emails = {} THEN {None} ELSE emails
       /\ LET fresh == {adopted[e] : e \in EmailIds} \ {None} IN
          /\ given' = given \cup fresh
          /\ jobs' = [jobs EXCEPT
               ![p].adopted = adopted,
               ![p].found = [n \in NoteIds |->
                               IF last[n] = None THEN NoHash ELSE note_hash(last[n])],
               ![p].step = IF fresh = {} THEN "done" ELSE "adopt"]
       /\ raced' = raced \cup {e \in EmailIds : adopted[e] # None /\
            \E q \in Procs \ {p} : At(q, "list", "adopt") /\ jobs[q].adopted[e] # None}
  /\ UNCHANGED <<stored, born, mail, newest, gone, messy, deleted, overlooked>>

ListFails(p) ==
  /\ "jmap" \in Faults /\ At(p, "list", "query")
  /\ Finish(p, FALSE)
  /\ UNCHANGED <<mailbox, notesHistory>>

\* A method-level error is taken for an empty mailbox: nothing found, and success.
ListErrs(p) ==
  /\ "method" \in Faults /\ At(p, "list", "query")
  /\ Finish(p, TRUE)
  /\ UNCHANGED <<mailbox, notesHistory>>

\* adopt_notes adds a keyword and keeps the others.
Patched(p, e) == mail[e].tags \cup ({jobs[p].adopted[e]} \ {None})

\* Email/set of the generated keywords; an email that is gone is not updated.
Adopt(p) ==
  /\ At(p, "list", "adopt")
  /\ mail' = [e \in EmailIds |-> IF e \in stored THEN [mail[e] EXCEPT !.tags = Patched(p, e)]
                                                 ELSE mail[e]]
  /\ newest' = [n \in NoteIds |->
       IF \E e \in stored : jobs[p].adopted[e] = n
         THEN CHOOSE e \in stored : jobs[p].adopted[e] = n ELSE newest[n]]
  /\ Finish(p, TRUE)
  /\ deleted' = deleted \ {jobs[p].adopted[e] : e \in stored}
  /\ UNCHANGED <<stored, born, given, gone, messy, overlooked, raced>>

\* Only logged: the ids of the listing belong to no email.
AdoptFails(p) ==
  /\ "jmap" \in Faults /\ At(p, "list", "adopt")
  /\ Finish(p, TRUE)
  /\ UNCHANGED <<mailbox, notesHistory>>

\* The request is dropped at an await: what it did stays.
Abandon(p) ==
  /\ StartJob(p, NoJob)
  /\ messy' = IF At(p, "save", "cleanup") THEN messy \cup {jobs[p].note} ELSE messy
  /\ UNCHANGED <<mailbox, newest, gone, deleted, overlooked, raced>>

\* One JMAP call of a request, as it should go, and as it may.
JobWorks(p) ==
  \/ Resolve(p) \/ Import(p) \/ Cleanup(p) \/ Destroy(p) \/ Fetch(p) \/ List(p) \/ Adopt(p)

JobFails(p) ==
  \/ ResolveFails(p) \/ ResolveErrs(p) \/ ImportFails(p) \/ ImportUnanswered(p) \/ CleanupFails(p)
  \/ DestroyFails(p) \/ FetchFails(p) \/ ListFails(p) \/ AdoptFails(p)

-----------------------------------------------------------------------------
(* Other mail clients of the same mailbox (external) *)

\* A note without a keyword of the gateway.
OthersCreate ==
  /\ born # EmailIds
  /\ \E v \in Vals, s \in Seconds :
       mail' = [mail EXCEPT ![NextEmail] = [tags |-> {}, val |-> v, sec |-> s]]
  /\ stored' = stored \cup {NextEmail} /\ born' = born \cup {NextEmail}
  /\ UNCHANGED <<given, jobs, notesHistory>>

OthersRemove ==
  /\ \E e \in stored : stored' = stored \ {e} /\ gone' = gone \cup mail[e].tags
  /\ UNCHANGED <<born, mail, given, jobs, newest, messy, deleted, overlooked, raced>>

-----------------------------------------------------------------------------
(* A request, as a handler uses the functions *)

\* An id is known to a device once an email has had it.
Begin(p) ==
  /\ jobs[p] = NoJob
  /\ \/ \E n \in NoteIds \ given, v \in Vals :
          StartJob(p, SaveNew(n, v)) /\ given' = given \cup {n}
     \/ /\ \E n \in {m \in given : newest[m] # None} :
            \/ \E v \in Vals : StartJob(p, SaveOld(n, v))
            \/ StartJob(p, DestroyNote(n))
            \/ StartJob(p, GetNote(n))
        /\ UNCHANGED given
     \/ StartJob(p, ListNotes) /\ UNCHANGED given
  /\ UNCHANGED <<stored, born, mail, notesHistory>>

End(p) ==
  /\ jobs[p] # NoJob /\ jobs[p].step = "done"
  /\ StartJob(p, NoJob)
  /\ UNCHANGED <<mailbox, notesHistory>>

Dropped(p) == "drop" \in Faults /\ jobs[p] # NoJob /\ Abandon(p)

-----------------------------------------------------------------------------
(* Specification *)

NotesInit ==
  /\ stored = {} /\ born = {} /\ mail = [e \in EmailIds |-> NoEmail] /\ given = {}
  /\ jobs = [p \in Procs |-> NoJob]
  /\ newest = [n \in NoteIds |-> None]
  /\ gone = {} /\ messy = {} /\ deleted = {} /\ overlooked = {} /\ raced = {}

NotesNext ==
  \/ \E p \in Procs : Begin(p) \/ JobWorks(p) \/ JobFails(p) \/ ListErrs(p) \/ End(p) \/ Dropped(p)
  \/ OthersCreate \/ OthersRemove

NotesSpec == NotesInit /\ [][NotesNext]_notesVars

-----------------------------------------------------------------------------
(* Safety *)

\* Notes whose newest email may be gone: somebody destroyed one of the note, or
\* two listings adopted its email, which carries the ids of two notes.
Losable == gone \cup UNION {mail[e].tags : e \in raced}

\* Whatever requests overlap and whatever call fails, the last revision of a
\* note that anybody imported stays, unless somebody deletes the note: an edit
\* destroys only the email it found before it imported its own.
NewestSurvives ==
  \A n \in NoteIds \ Losable : newest[n] # None => newest[n] \in stored

\* A note has one email, but for an edit between its import and its cleanup,
\* unless a cleanup failed or was dropped, an import went unanswered, the lookup of
\* an edit was answered with a method-level error or two edits overlapped.
OneRevision ==
  \A n \in NoteIds \ messy :
    Cardinality(Backing(n)) <= 1 + Cardinality({p \in Procs : At(p, "save", "cleanup")
                                                              /\ jobs[p].note = n})

\* A note that was deleted with success has at most an email that an edit is about to
\* clean up, until somebody saves it again, unless an edit left an email behind or the
\* lookup of the Delete was answered with a method-level error.
DeletedIsGone ==
  \A n \in deleted \ (messy \cup overlooked) :
    Backing(n) \subseteq {jobs[p].old : p \in {q \in Procs : At(q, "save", "cleanup")}}

\* The id a note is known by does not change as long as its email lives, unless
\* two listings adopted the email at once.
StableId ==
  [][\A e \in (stored \cap stored') \ raced' :
       extract_stable_id(e) # None => extract_stable_id(e)' = extract_stable_id(e)]_notesVars

-----------------------------------------------------------------------------
(* The inductive invariant behind NewestSurvives and StableId *)

\* An email keeps the ids it has, and has two only if two listings adopted it;
\* the newest email of a note has its id.
TagsInv ==
  /\ raced \subseteq born
  /\ \A n \in NoteIds : newest[n] # None =>
       newest[n] \in born /\ n \in mail[newest[n]].tags
  /\ \A e \in born \ raced : \A n, m \in mail[e].tags : n = m

\* The clock is not ahead of the emails that were imported.
SecInv == \A e \in born : mail[e].sec <= Cardinality(born)

Adopting(j, e) == j.op = "list" /\ j.step = "adopt" /\ j.adopted[e] # None

\* What a request looked up is an email of its note, what an edit is about to
\* destroy is not the newest one, and what a listing adopts has no id yet.
JobInv(j) ==
  /\ j.step \in {"resolve", "import", "cleanup", "destroy", "fetch"} => j.note \in NoteIds
  /\ j.old # None => j.old \in born /\ j.note \in mail[j.old].tags
  /\ j.op = "save" /\ j.step = "cleanup" => j.old \in raced \/ newest[j.note] # j.old
  /\ \A e \in EmailIds : Adopting(j, e) => e \in born /\ (mail[e].tags = {} \/ e \in raced)

\* Two requests adopt one email at once only if it is in raced.
RaceInv ==
  \A p, q \in Procs : \A e \in EmailIds :
    p # q /\ Adopting(jobs[p], e) /\ Adopting(jobs[q], e) => e \in raced

\* No request is about to lose the newest revision of a note, or to change an id:
\* all of the above at once.
NoteInv ==
  /\ NotesTypeOK /\ TagsInv /\ SecInv /\ RaceInv
  /\ \A p \in Procs : JobInv(jobs[p])
  /\ NewestSurvives

-----------------------------------------------------------------------------
(* The inductive invariant behind OneRevision and DeletedIsGone *)

\* An edit of the note that has yet to import its email, or to destroy the old one.
Saves(j, n) == j.op = "save" /\ j.note = n /\ j.step \in {"import", "cleanup"}

CleaningUp(n) == {p \in Procs : At(p, "save", "cleanup") /\ jobs[p].note = n}

Used(n) == newest[n] # None \/ Backing(n) # {} \/ \E p \in Procs : jobs[p].note = n

\* A listing is about to store the id n at the email.
Gives(j, e, n) == Adopting(j, e) /\ j.adopted[e] = n

\* An id in use was generated, and one that a listing has yet to store is used by
\* nobody and is for one email.
GivenInv ==
  \A n \in NoteIds :
    /\ Used(n) => n \in given
    /\ \A p \in Procs : \A e \in EmailIds : Gives(jobs[p], e, n) =>
         /\ n \in given /\ ~Used(n)
         /\ \A q \in Procs : \A o \in EmailIds : Gives(jobs[q], o, n) => q = p /\ o = e

\* Of a note that is not messy there is one edit at a time, whose import adds to
\* no email but the one it found, and the emails are the newest one and what a
\* cleanup is about to destroy.
RevisionInv(n) ==
  /\ \A p, q \in Procs : Saves(jobs[p], n) /\ Saves(jobs[q], n) => p = q
  /\ \A p \in Procs : Saves(jobs[p], n) /\ jobs[p].step = "import" =>
       Backing(n) \subseteq {jobs[p].old}
  /\ Backing(n) \subseteq {newest[n]} \cup {jobs[p].old : p \in CleaningUp(n)}

DeletedInv == \A n \in deleted \ overlooked : newest[n] \notin stored

\* Only an edit imports.
EditInv ==
  /\ GivenInv /\ DeletedInv
  /\ \A n \in NoteIds \ messy : RevisionInv(n)
  /\ \A p \in Procs : jobs[p].step = "import" => jobs[p].op = "save"
=============================================================================
