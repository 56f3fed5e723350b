SPECIFICATION LiveSpec
CONSTANTS
  Msgs = {1, 2}
  Window = 1
  MaxKey = 4
  Reqs = {r1}
  NoReq = NoReq
  GetChanges = {TRUE}
  Ops = {"Delete", "Read", "Unread"}
  MaxPending = 2
  Durable = TRUE
  Faults = {"put", "jmap", "drop", "reset"}
INVARIANTS AckedDeletesDone AckedMarksDone
PROPERTIES Converges
CHECK_DEADLOCK FALSE
