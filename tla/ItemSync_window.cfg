SPECIFICATION Spec
CONSTANTS
  Items = {1, 2}
  Vals = {1, 2}
  Drafts = {d1}
  Window = 1
  MaxKey = 4
  GetChanges = {TRUE}
  Faults = {}
INVARIANT NoFalseDelete
CHECK_DEADLOCK FALSE
