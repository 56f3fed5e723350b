SPECIFICATION Spec
CONSTANTS
  Msgs <- MCMsgs2
  Window = 1
  MaxKey = 2
  Reqs = {r1, r2}
  NoReq = NoReq
  GetChanges = {TRUE}
  Ops = {"Delete"}
  MaxPending = 1
  Durable = TRUE
  Faults = {"timeout"}
SYMMETRY MCSymmetry
INVARIANTS NoFalseDelete
CHECK_DEADLOCK FALSE
