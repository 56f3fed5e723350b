----------------------------- MODULE MCNoteSync -----------------------------
(***************************************************************************)
(* Model checking of NoteSync: bodies are only compared.                   *)
(***************************************************************************)
EXTENDS NoteSync, TLC

Symmetry == Permutations(Vals)
=============================================================================
