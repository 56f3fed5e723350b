--------------------------- MODULE StoreBackends ---------------------------
(***************************************************************************)
(* The two implementations of StateStore in state.rs: SqliteStateStore, a  *)
(* connection behind a mutex, one statement at a time, put_item_states as  *)
(* a transaction; and MemoryStateStore, two maps behind locks, which       *)
(* new_store also gives for the Redis setting.  SQLite itself is not in    *)
(* this repository: a statement outside a transaction is atomic, a         *)
(* transaction is seen by its own connection only and is gone when it is   *)
(* dropped or the process ends.                                            *)
(***************************************************************************)
CONSTANTS Handlers, Keys, Records, ItemIds, Hashes, None

ASSUME HandlersAssumption == None \notin Records \cup Hashes \cup Handlers

VARIABLES
  backend,     \* config.state_backend
  up,          \* whether the gateway runs
  schema,      \* SQLite: the versions in schema_migrations
  records,     \* table sync_records, or the memory map
  itemStates,  \* table item_states as committed, or the memory map
  calls,       \* the call every handler is in
  lock,        \* the handler that holds the connection's mutex, or None
  tx,          \* whether the connection is in a transaction
  view,        \* table item_states as the connection sees it
  todo         \* items the call in the transaction has still to insert

memory == <<records, itemStates>>
conn   == <<lock, tx, view, todo>>
vars   == <<backend, up, schema, memory, calls, conn>>

\* The promise, with every variable of its own name but the durability.
Store == INSTANCE StateStore WITH durable <- backend = "sqlite"

-----------------------------------------------------------------------------
(* Types *)

StateBackend == {"memory", "sqlite", "redis"}
Versions     == {1, 2}

Empty == [k \in Keys |-> Store!NoItems]

TypeOK ==
  /\ backend \in StateBackend
  /\ up \in BOOLEAN
  /\ schema \subseteq Versions
  /\ records \in [Keys -> Records \cup {None}]
  /\ itemStates \in [Keys -> Store!ItemSet]
  /\ calls \in [Handlers -> Store!CallState]
  /\ lock \in Handlers \cup {None}
  /\ tx \in BOOLEAN
  /\ view \in [Keys -> Store!ItemSet]
  /\ todo \subseteq ItemIds

-----------------------------------------------------------------------------
(* A handler's call *)

Invoke(h, c) ==
  /\ up /\ calls[h] = Store!Idle
  /\ calls' = [calls EXCEPT ![h] = Store!Pending(c)]
  /\ UNCHANGED <<backend, up, schema, memory, conn>>

Return(h) ==
  /\ calls[h].phase = "done"
  /\ calls' = [calls EXCEPT ![h] = Store!Idle]
  /\ UNCHANGED <<backend, up, schema, memory, conn>>

TheCall(h) == calls[h].call

-----------------------------------------------------------------------------
(* MemoryStateStore: every call is one access under a lock *)

InMemory(h, op) == backend # "sqlite" /\ Store!IsCalling(h, op)

MemoryGet(h) ==
  /\ InMemory(h, "get")
  /\ Store!Answered(h, Store!RecordAnswer(records[TheCall(h).key]))
  /\ UNCHANGED <<backend, up, schema, memory, conn>>

MemoryPut(h) ==
  /\ InMemory(h, "put")
  /\ records' = [records EXCEPT ![TheCall(h).key] = TheCall(h).value]
  /\ Store!Answered(h, Store!Ok)
  /\ UNCHANGED <<backend, up, schema, itemStates, conn>>

MemoryItemStates(h) ==
  /\ InMemory(h, "item_states")
  /\ Store!Answered(h, Store!ItemsAnswer(itemStates[TheCall(h).key]))
  /\ UNCHANGED <<backend, up, schema, memory, conn>>

MemoryPutItemStates(h) ==
  /\ InMemory(h, "put_item_states")
  /\ itemStates' = [itemStates EXCEPT ![TheCall(h).key] = TheCall(h).value]
  /\ Store!Answered(h, Store!Ok)
  /\ UNCHANGED <<backend, up, schema, records, conn>>

-----------------------------------------------------------------------------
(* SqliteStateStore *)

\* Mutant: the connection is used without its mutex.
LockFree == TRUE

LockAvailable == lock = None

Lock(h) ==
  /\ backend = "sqlite" /\ calls[h].phase = "pending"
  /\ LockAvailable /\ lock # h
  /\ lock' = h
  /\ UNCHANGED <<backend, up, schema, memory, calls, tx, view, todo>>

\* The handler holds the connection and no statement of its call was executed.
Holds(h, op) == lock = h /\ Store!IsCalling(h, op)

\* The guard goes out of scope as the call answers.
Unlock(h, a) == lock' = None /\ Store!Answered(h, a)

SqliteGet(h) ==
  /\ Holds(h, "get")
  /\ Unlock(h, Store!RecordAnswer(records[TheCall(h).key]))
  /\ UNCHANGED <<backend, up, schema, memory, tx, view, todo>>

\* An insert that updates the row on conflict.
SqlitePut(h) ==
  /\ Holds(h, "put")
  /\ records' = [records EXCEPT ![TheCall(h).key] = TheCall(h).value]
  /\ Unlock(h, Store!Ok)
  /\ UNCHANGED <<backend, up, schema, itemStates, tx, view, todo>>

SqliteItemStates(h) ==
  /\ Holds(h, "item_states")
  /\ Unlock(h, Store!ItemsAnswer(view[TheCall(h).key]))
  /\ UNCHANGED <<backend, up, schema, memory, tx, view, todo>>

BeginAndDelete(h) ==
  /\ Holds(h, "put_item_states") /\ ~tx
  /\ tx' = TRUE
  /\ view' = [view EXCEPT ![TheCall(h).key] = Store!NoItems]
  /\ todo' = {i \in ItemIds : TheCall(h).value[i] # None}
  /\ UNCHANGED <<backend, up, schema, memory, calls, lock>>

InsertItem(h) ==
  /\ Holds(h, "put_item_states") /\ tx
  /\ \E i \in todo :
       LET k == TheCall(h).key IN
       /\ view' = [view EXCEPT ![k] = [view[k] EXCEPT ![i] = TheCall(h).value[i]]]
       /\ todo' = todo \ {i}
  /\ UNCHANGED <<backend, up, schema, memory, calls, lock, tx>>

Commit(h) ==
  /\ Holds(h, "put_item_states") /\ tx /\ todo = {}
  /\ itemStates' = view
  /\ tx' = FALSE
  /\ Unlock(h, Store!Ok)
  /\ UNCHANGED <<backend, up, schema, records, view, todo>>

\* Mutant: without a transaction what was written stays.
NoRollback == view

\* What the table holds when a transaction is dropped.
Rollback == itemStates

DropTx == itemStates' = Rollback /\ view' = Rollback /\ tx' = FALSE /\ todo' = {}

\* A statement or the commit fails.
SqliteFails(h) ==
  /\ lock = h /\ calls[h].phase = "pending"
  /\ DropTx
  /\ Unlock(h, Store!Error)
  /\ UNCHANGED <<backend, up, schema, records>>

-----------------------------------------------------------------------------
(* The process *)

\* It ends at any point; what is in memory is gone.
Crash ==
  /\ up /\ up' = FALSE
  /\ calls' = [h \in Handlers |-> Store!Idle]
  /\ lock' = None
  /\ \/ backend = "sqlite" /\ DropTx /\ UNCHANGED records
     \/ /\ backend # "sqlite"
        /\ itemStates' = Empty /\ records' = [k \in Keys |-> None]
        /\ UNCHANGED <<tx, view, todo>>
  /\ UNCHANGED <<backend, schema>>

\* CREATE TABLE IF NOT EXISTS, INSERT OR IGNORE of the versions.
migrate == schema' = schema \cup Versions /\ UNCHANGED memory

\* new_store; SqliteStateStore::open for SQLite, otherwise an empty memory store.
Open ==
  /\ ~up /\ up' = TRUE
  /\ \/ backend = "sqlite" /\ migrate
     \/ backend # "sqlite" /\ UNCHANGED <<schema, memory>>
  /\ UNCHANGED <<backend, calls, conn>>

-----------------------------------------------------------------------------
(* Specification *)

\* A file of an earlier version has no item_states table, a new one has none.
InitialTables ==
  \/ /\ backend = "sqlite" /\ schema \in {{1}, Versions}
     /\ records \in [Keys -> Records \cup {None}]
     /\ itemStates = Empty
  \/ /\ schema = {}
     /\ records = [k \in Keys |-> None]
     /\ itemStates = Empty

Init ==
  /\ backend \in StateBackend
  /\ up = FALSE
  /\ InitialTables
  /\ calls = [h \in Handlers |-> Store!Idle]
  /\ lock = None
  /\ tx = FALSE /\ view = itemStates /\ todo = {}

MemoryCall(h) ==
  MemoryGet(h) \/ MemoryPut(h) \/ MemoryItemStates(h) \/ MemoryPutItemStates(h)

SqliteCall(h) ==
  \/ Lock(h) \/ SqliteGet(h) \/ SqlitePut(h) \/ SqliteItemStates(h)
  \/ BeginAndDelete(h) \/ InsertItem(h) \/ Commit(h) \/ SqliteFails(h)

Next ==
  \/ \E h \in Handlers :
       \/ \E c \in Store!Call : Invoke(h, c)
       \/ MemoryCall(h) \/ SqliteCall(h) \/ Return(h)
  \/ Crash \/ Open

Spec == Init /\ [][Next]_vars

-----------------------------------------------------------------------------
(* Safety *)

\* An open transaction belongs to the handler that holds the mutex and is in
\* put_item_states; its view differs from the table only in that handler's
\* collection, where it holds the items of the call inserted so far.
TxInv ==
  tx =>
    /\ backend = "sqlite" /\ lock \in Handlers
    /\ Store!IsCalling(lock, "put_item_states")
    /\ \A i \in todo : TheCall(lock).value[i] # None
    /\ view = [itemStates EXCEPT ![TheCall(lock).key] =
                 [i \in ItemIds |-> IF i \in todo THEN None ELSE TheCall(lock).value[i]]]

\* Outside a transaction the connection sees the table.
ViewInv == backend = "sqlite" /\ ~tx => view = itemStates

\* Whoever holds the mutex is in a call that has not answered.
LockInv == lock # None => backend = "sqlite" /\ calls[lock].phase = "pending"

\* Calls are in progress only while the gateway runs.
DownInv == ~up => lock = None /\ ~tx /\ \A h \in Handlers : calls[h] = Store!Idle

IInv == TypeOK /\ TxInv /\ ViewInv /\ LockInv /\ DownInv

\* Both backends keep the promise of StateStore: calls of concurrent handlers
\* take effect one at a time and in full or not at all, whatever statement
\* fails and wherever the process stops; SQLite keeps what it acknowledged.
Implements == Store!Spec
=============================================================================
