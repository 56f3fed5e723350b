SPECIFICATION Spec
CONSTANTS
  Msgs <- MCMsgs3
  Window = 1
  MaxKey = 3
  Reqs = {r1}
  NoReq = NoReq
  GetChanges = {TRUE}
  Ops = {}
  MaxPending = 0
  Durable = TRUE
  Faults = {}
INVARIANTS SyncComplete
CHECK_DEADLOCK FALSE
