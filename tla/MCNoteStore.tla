----------------------------- MODULE MCNoteStore -----------------------------
(***************************************************************************)
(* Model checking of NoteStore: the requests do the same things.  What a   *)
(* function of notes.rs answers is read by nobody here (NoteSync does), so *)
(* states that differ only in it are the same.                             *)
(***************************************************************************)
EXTENDS NoteStore, TLC

Symmetry == Permutations(Procs)

\* All of a job but its answer: found, email and ok are read by no guard, action or
\* property (but for their types), the body and the generated ids only until they
\* are stored.  Of a job that is done, which email of which note it was is read only
\* by the parts of the invariants that say of both that they exist.
Unread(j) ==
  IF j.step = "done" THEN [NoJob EXCEPT !.op = IF j = NoJob THEN "none" ELSE "list"]
  ELSE [NoJob EXCEPT !.op = j.op, !.step = j.step, !.note = j.note, !.old = j.old,
                     !.val = IF j.step \in {"resolve", "import"} THEN j.val ELSE None,
                     !.adopted = IF j.step = "adopt" THEN j.adopted ELSE NoJob.adopted]

View == <<mailbox, [p \in Procs |-> Unread(jobs[p])], notesHistory>>
=============================================================================
