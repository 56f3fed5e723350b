CONSTANTS
  Procs = {gw}
  Gw = gw
  NoteIds = {1}
  EmailIds = {1, 2}
  Vals = {a, b}
  Limit = 200
  MaxKey = 3
  GetChanges = {TRUE, FALSE}
  Faults = {"jmap", "method", "unanswered", "drop", "get", "put", "second"}
SPECIFICATION Spec
INVARIANTS SyncInv BodyInv UpdateComes NoFalseDelete
CHECK_DEADLOCK FALSE
SYMMETRY Symmetry
