SPECIFICATION Spec
CONSTANTS
  Msgs <- MCMsgs3
  Window = 2
  MaxKey = 3
  Reqs = {r1}
  NoReq = NoReq
  GetChanges = {TRUE, FALSE}
  Ops = {"Delete"}
  MaxPending = 1
  Durable = FALSE
  Faults = {"get", "put", "jmap", "drop", "timeout", "restart", "reset", "reject"}
INVARIANTS NoFalseDelete DeviceTracked NothingHidden NoReplayedAdds FirstSyncComplete SerialInv
PROPERTIES KeyNamesState
CHECK_DEADLOCK FALSE
