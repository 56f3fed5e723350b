CONSTANTS
  Procs = {p, q}
  NoteIds = {1, 2}
  EmailIds = {1, 2, 3}
  Vals = {1}
  Limit = 200
  Faults = {"jmap", "method", "unanswered", "drop"}
SPECIFICATION NotesSpec
INVARIANTS NoteInv NewestSurvives OneRevision DeletedIsGone EditInv
PROPERTY StableId
SYMMETRY Symmetry
VIEW View
