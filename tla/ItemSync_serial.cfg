SPECIFICATION Spec
CONSTANTS
  Items = {1, 2}
  Vals = {a, b}
  Drafts = {d1}
  Window = 2
  MaxKey = 2
  GetChanges = {TRUE, FALSE}
  Faults = {"jmap", "get", "put", "drop", "reset"}
INVARIANTS ItemInv ViewIsBase NoEcho NoFalseDelete
SYMMETRY Symmetry
