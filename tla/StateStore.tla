----------------------------- MODULE StateStore -----------------------------
(***************************************************************************)
(* What the trait StateStore of state.rs promises the handlers of the      *)
(* gateway: two maps, from a (user, device, collection) to its SyncRecord  *)
(* and to its item states.  A call takes effect at one instant between     *)
(* its start and its answer, or answers an error and has no effect.  A     *)
(* restart loses the calls in progress, and the maps unless they are       *)
(* durable.                                                                *)
(***************************************************************************)
CONSTANTS
  Handlers,  \* request handlers that may call the store at the same time
  Keys,      \* (user, device_id, collection_id)
  Records,   \* values of a SyncRecord
  ItemIds,   \* item_id of an ItemState
  Hashes,    \* hash of an ItemState
  None       \* no record, no hash, nobody: a value of its own

VARIABLES
  durable,     \* whether a restart keeps the maps
  records,     \* [Keys -> record or None]
  itemStates,  \* [Keys -> [ItemIds -> hash or None]]
  calls        \* the call every handler is in

vars == <<durable, records, itemStates, calls>>

-----------------------------------------------------------------------------
(* Types *)

ItemSet == [ItemIds -> Hashes \cup {None}]
NoItems == [i \in ItemIds |-> None]

Call == [op : {"get", "item_states"}, key : Keys]
          \cup [op : {"put"}, key : Keys, value : Records]
          \cup [op : {"put_item_states"}, key : Keys, value : ItemSet]

\* Answers are tagged, so that a record is never compared with item states.
Answer == [kind : {"ok", "error"}]
            \cup [kind : {"record"}, value : Records \cup {None}]
            \cup [kind : {"items"}, value : ItemSet]

Ok    == [kind |-> "ok"]
Error == [kind |-> "error"]
RecordAnswer(r) == [kind |-> "record", value |-> r]
ItemsAnswer(s)  == [kind |-> "items", value |-> s]

Idle       == [phase |-> "idle"]
Pending(c) == [phase |-> "pending", call |-> c]
Done(a)    == [phase |-> "done", answer |-> a]

CallState == {Idle} \cup [phase : {"pending"}, call : Call]
                    \cup [phase : {"done"}, answer : Answer]

TypeOK ==
  /\ durable \in BOOLEAN
  /\ records \in [Keys -> Records \cup {None}]
  /\ itemStates \in [Keys -> ItemSet]
  /\ calls \in [Handlers -> CallState]

-----------------------------------------------------------------------------
(* The calls *)

IsCalling(h, op) == calls[h].phase = "pending" /\ calls[h].call.op = op

Answered(h, a) == calls' = [calls EXCEPT ![h] = Done(a)]

Invoke(h, c) ==
  /\ calls[h] = Idle
  /\ calls' = [calls EXCEPT ![h] = Pending(c)]
  /\ UNCHANGED <<durable, records, itemStates>>

Get(h) ==
  /\ IsCalling(h, "get")
  /\ Answered(h, RecordAnswer(records[calls[h].call.key]))
  /\ UNCHANGED <<durable, records, itemStates>>

Put(h) ==
  /\ IsCalling(h, "put")
  /\ records' = [records EXCEPT ![calls[h].call.key] = calls[h].call.value]
  /\ Answered(h, Ok)
  /\ UNCHANGED <<durable, itemStates>>

GetItems(h) ==
  /\ IsCalling(h, "item_states")
  /\ Answered(h, ItemsAnswer(itemStates[calls[h].call.key]))
  /\ UNCHANGED <<durable, records, itemStates>>

\* The whole set of the collection is replaced.
PutItems(h) ==
  /\ IsCalling(h, "put_item_states")
  /\ itemStates' = [itemStates EXCEPT ![calls[h].call.key] = calls[h].call.value]
  /\ Answered(h, Ok)
  /\ UNCHANGED <<durable, records>>

Refuse(h) ==
  /\ calls[h].phase = "pending"
  /\ Answered(h, Error)
  /\ UNCHANGED <<durable, records, itemStates>>

Return(h) ==
  /\ calls[h].phase = "done"
  /\ calls' = [calls EXCEPT ![h] = Idle]
  /\ UNCHANGED <<durable, records, itemStates>>

Restart ==
  /\ calls' = [h \in Handlers |-> Idle]
  /\ \/ durable /\ UNCHANGED <<records, itemStates>>
     \/ /\ ~durable
        /\ records' = [k \in Keys |-> None]
        /\ itemStates' = [k \in Keys |-> NoItems]
  /\ UNCHANGED durable

-----------------------------------------------------------------------------
(* Specification *)

\* The maps may hold what an earlier process left.
Init ==
  /\ TypeOK
  /\ calls = [h \in Handlers |-> Idle]

Next ==
  \/ \E h \in Handlers :
       \/ \E c \in Call : Invoke(h, c)
       \/ Get(h) \/ Put(h) \/ GetItems(h) \/ PutItems(h)
       \/ Refuse(h) \/ Return(h)
  \/ Restart

Spec == Init /\ [][Next]_vars
=============================================================================
