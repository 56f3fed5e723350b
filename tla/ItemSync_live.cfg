SPECIFICATION LiveSpec
CONSTANTS
  Items = {1, 2}
  Vals = {1, 2}
  Drafts = {}
  Window = 2
  MaxKey = 4
  GetChanges = {TRUE}
  Faults = {"jmap", "drop", "reset"}
PROPERTIES Converges
CHECK_DEADLOCK FALSE
