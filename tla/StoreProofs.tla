---------------------------- MODULE StoreProofs ----------------------------
(***************************************************************************)
(* Both backends of state.rs implement StateStore, for every set of        *)
(* handlers, keys, records, items and hashes.  IInv is inductive; under it *)
(* every step of StoreBackends is a step of StateStore or leaves its       *)
(* variables unchanged.                                                    *)
(***************************************************************************)
EXTENDS StoreBackends, TLAPS

\* What the definitions of the abstract module contribute to a step.
LEMMA CallTypes ==
  /\ Store!Idle \in Store!CallState
  /\ \A c \in Store!Call : Store!Pending(c) \in Store!CallState
  /\ \A a \in Store!Answer : Store!Done(a) \in Store!CallState
  /\ Store!Ok \in Store!Answer /\ Store!Error \in Store!Answer
  /\ \A r \in Records \cup {None} : Store!RecordAnswer(r) \in Store!Answer
  /\ \A s \in Store!ItemSet : Store!ItemsAnswer(s) \in Store!Answer
  /\ Store!NoItems \in Store!ItemSet
  /\ \A c : Store!Pending(c).phase = "pending" /\ Store!Pending(c).call = c
  /\ \A a : Store!Done(a).phase = "done"
  /\ Store!Idle.phase = "idle"
BY DEF Store!Idle, Store!CallState, Store!Call, Store!Pending, Store!Answer,
       Store!Done, Store!Ok, Store!Error, Store!RecordAnswer, Store!ItemsAnswer,
       Store!ItemSet, Store!NoItems

\* What a pending call is, by its name.
LEMMA PendingCall ==
  ASSUME TypeOK, NEW h \in Handlers, calls[h].phase = "pending"
  PROVE  /\ TheCall(h) \in Store!Call
         /\ TheCall(h).key \in Keys
         /\ TheCall(h).op = "put" => TheCall(h).value \in Records
         /\ TheCall(h).op = "put_item_states" => TheCall(h).value \in Store!ItemSet
<1>1. calls[h] \in Store!CallState
  BY DEF TypeOK
<1>2. TheCall(h) \in Store!Call
  BY <1>1 DEF Store!CallState, Store!Idle, TheCall
<1> QED
  BY <1>2 DEF Store!Call

LEMMA InitInv == Init => IInv
<1> SUFFICES ASSUME Init PROVE IInv
  OBVIOUS
<1>1. Empty \in [Keys -> Store!ItemSet]
  BY CallTypes DEF Empty
<1>2. records \in [Keys -> Records \cup {None}] /\ itemStates = Empty /\ schema \subseteq Versions
  BY DEF Init, InitialTables, Versions
<1>3. TypeOK
  BY <1>1, <1>2, CallTypes DEF Init, TypeOK
<1> QED
  BY <1>3 DEF Init, IInv, TxInv, ViewInv, LockInv, DownInv

LEMMA StepInv == IInv /\ [Next]_vars => IInv'
<1> SUFFICES ASSUME IInv, [Next]_vars PROVE IInv'
  OBVIOUS
<1> USE HandlersAssumption, CallTypes DEF IInv
<1>1. ASSUME NEW h \in Handlers, NEW c \in Store!Call, Invoke(h,c) PROVE IInv'
  BY <1>1
  DEF Invoke, TypeOK, TxInv, ViewInv, LockInv, DownInv, TheCall, memory, conn,
      Store!IsCalling
<1>2. ASSUME NEW h \in Handlers, Return(h) PROVE IInv'
  BY <1>2
  DEF Return, TypeOK, TxInv, ViewInv, LockInv, DownInv, TheCall, memory, conn,
      Store!IsCalling
<1>3. ASSUME NEW h \in Handlers, MemoryGet(h) PROVE IInv'
  BY <1>3, PendingCall
  DEF MemoryGet, TypeOK, TxInv, ViewInv, LockInv, DownInv, TheCall, memory, conn,
      InMemory, Store!IsCalling, Store!Answered
<1>4. ASSUME NEW h \in Handlers, MemoryPut(h) PROVE IInv'
  BY <1>4, PendingCall
  DEF MemoryPut, TypeOK, TxInv, ViewInv, LockInv, DownInv, TheCall, memory, conn,
      InMemory, Store!IsCalling, Store!Answered
<1>5. ASSUME NEW h \in Handlers, MemoryItemStates(h) PROVE IInv'
  BY <1>5, PendingCall
  DEF MemoryItemStates, TypeOK, TxInv, ViewInv, LockInv, DownInv, TheCall, memory, conn,
      InMemory, Store!IsCalling, Store!Answered
<1>6. ASSUME NEW h \in Handlers, MemoryPutItemStates(h) PROVE IInv'
  BY <1>6, PendingCall
  DEF MemoryPutItemStates, TypeOK, TxInv, ViewInv, LockInv, DownInv, TheCall, memory, conn,
      InMemory, Store!IsCalling, Store!Answered
<1>7. ASSUME NEW h \in Handlers, Lock(h) PROVE IInv'
  BY <1>7
  DEF Lock, TypeOK, TxInv, ViewInv, LockInv, DownInv, TheCall, memory, conn,
      LockAvailable, Store!IsCalling
<1>8. ASSUME NEW h \in Handlers, SqliteGet(h) PROVE IInv'
  BY <1>8, PendingCall
  DEF SqliteGet, TypeOK, TxInv, ViewInv, LockInv, DownInv, TheCall, memory, conn,
      Holds, Unlock, Store!IsCalling, Store!Answered
<1>9. ASSUME NEW h \in Handlers, SqlitePut(h) PROVE IInv'
  BY <1>9, PendingCall
  DEF SqlitePut, TypeOK, TxInv, ViewInv, LockInv, DownInv, TheCall, memory, conn,
      Holds, Unlock, Store!IsCalling, Store!Answered
<1>10. ASSUME NEW h \in Handlers, SqliteItemStates(h) PROVE IInv'
  BY <1>10, PendingCall
  DEF SqliteItemStates, TypeOK, TxInv, ViewInv, LockInv, DownInv, TheCall, memory, conn,
      Holds, Unlock, Store!IsCalling, Store!Answered
<1>11. ASSUME NEW h \in Handlers, BeginAndDelete(h) PROVE IInv'
  <2>1. TheCall(h).value \in Store!ItemSet /\ TheCall(h).key \in Keys
    BY <1>11, PendingCall DEF BeginAndDelete, Holds, Store!IsCalling, TheCall
  <2>2. view = itemStates /\ backend = "sqlite"
    BY <1>11 DEF BeginAndDelete, Holds, ViewInv, LockInv
  <2>3. TypeOK'
    BY <1>11, <2>1 DEF BeginAndDelete, TypeOK, memory
  <2>4. TxInv'
    <3>1. Store!NoItems = [i \in ItemIds |-> IF i \in todo' THEN None ELSE TheCall(h).value[i]]
      BY <1>11 DEF BeginAndDelete, Store!NoItems
    <3> QED
      BY <1>11, <2>1, <2>2, <3>1
      DEF BeginAndDelete, TxInv, Holds, Store!IsCalling, TheCall, memory
  <2>5. ViewInv' /\ LockInv' /\ DownInv'
    BY <1>11 DEF BeginAndDelete, ViewInv, LockInv, DownInv, Holds, memory
  <2> QED
    BY <2>3, <2>4, <2>5
<1>12. ASSUME NEW h \in Handlers, InsertItem(h) PROVE IInv'
  <2> DEFINE c == TheCall(h)
             Rest(ids) == [i \in ItemIds |-> IF i \in ids THEN None ELSE c.value[i]]
  <2>1. c.value \in Store!ItemSet /\ c.key \in Keys
    BY <1>12, PendingCall DEF InsertItem, Holds, Store!IsCalling, TheCall
  <2>2. PICK i \in todo :
          /\ view' = [view EXCEPT ![c.key] = [view[c.key] EXCEPT ![i] = c.value[i]]]
          /\ todo' = todo \ {i}
    BY <1>12 DEF InsertItem
  <2>3. view = [itemStates EXCEPT ![c.key] = Rest(todo)]
    BY <1>12 DEF InsertItem, Holds, TxInv, TheCall
  <2>4. [view[c.key] EXCEPT ![i] = c.value[i]] = Rest(todo')
    BY <2>1, <2>2, <2>3 DEF TypeOK
  <2>5. view' = [itemStates EXCEPT ![c.key] = Rest(todo')]
    BY <2>1, <2>2, <2>3, <2>4 DEF TypeOK
  <2>6. Rest(todo') \in Store!ItemSet
    BY <2>1 DEF Store!ItemSet
  <2>7. TypeOK'
    BY <1>12, <2>1, <2>2, <2>5, <2>6 DEF InsertItem, TypeOK, memory
  <2>8. TxInv'
    <3>1. /\ tx /\ lock = h /\ lock' = h /\ calls' = calls /\ itemStates' = itemStates
          /\ backend' = backend
      BY <1>12 DEF InsertItem, Holds, memory
    <3>2. backend = "sqlite" /\ Store!IsCalling(h, "put_item_states")
          /\ \A j \in todo : c.value[j] # None
      BY <3>1 DEF TxInv
    <3>3. TheCall(lock)' = c
      BY <3>1 DEF TheCall
    <3>4. view' = [itemStates' EXCEPT ![c.key] = Rest(todo')]
      BY <2>5, <3>1
    <3>5. \A j \in todo' : c.value[j] # None
      BY <2>2, <3>2
    <3>6. lock' \in Handlers /\ Store!IsCalling(lock, "put_item_states")'
      BY <3>1, <3>2 DEF Store!IsCalling
    <3> HIDE DEF c
    <3> QED
      BY <3>1, <3>2, <3>3, <3>4, <3>5, <3>6 DEF TxInv
  <2>9. ViewInv' /\ LockInv' /\ DownInv'
    BY <1>12 DEF InsertItem, ViewInv, LockInv, DownInv, Holds, memory
  <2> QED
    BY <2>7, <2>8, <2>9
<1>13. ASSUME NEW h \in Handlers, Commit(h) PROVE IInv'
  BY <1>13, PendingCall
  DEF Commit, TypeOK, TxInv, ViewInv, LockInv, DownInv, TheCall, memory, conn,
      Holds, Unlock, Store!IsCalling, Store!Answered
<1>14. ASSUME NEW h \in Handlers, SqliteFails(h) PROVE IInv'
  BY <1>14
  DEF SqliteFails, TypeOK, TxInv, ViewInv, LockInv, DownInv, TheCall, memory, conn,
      DropTx, Rollback, Unlock, Store!Answered, Store!IsCalling
<1>15. CASE Crash
  <2>1. Empty \in [Keys -> Store!ItemSet] /\ [k \in Keys |-> None] \in [Keys -> Records \cup {None}]
    BY DEF Empty
  <2>2. TypeOK'
    BY <1>15, <2>1 DEF Crash, DropTx, Rollback, TypeOK
  <2>3. calls' = [h \in Handlers |-> Store!Idle] /\ lock' = None /\ up' = FALSE /\ ~tx'
    BY <1>15 DEF Crash, DropTx, TxInv
  <2>4. TxInv' /\ LockInv' /\ DownInv'
    BY <2>3 DEF TxInv, LockInv, DownInv
  <2>5. ViewInv'
    BY <1>15 DEF Crash, DropTx, Rollback, ViewInv
  <2> QED
    BY <2>2, <2>4, <2>5
<1>16. CASE Open
  <2>1. TypeOK'
    BY <1>16 DEF Open, migrate, TypeOK, memory, conn
  <2> QED
    BY <1>16, <2>1 DEF Open, migrate, TxInv, ViewInv, LockInv, DownInv, TheCall, memory, conn,
                       Store!IsCalling
<1>17. CASE UNCHANGED vars
  BY <1>17 DEF vars, TypeOK, TxInv, ViewInv, LockInv, DownInv, TheCall, memory, conn,
               Store!IsCalling
<1> QED
  BY <1>1, <1>2, <1>3, <1>4, <1>5, <1>6, <1>7, <1>8, <1>9, <1>10, <1>11, <1>12, <1>13,
     <1>14, <1>15, <1>16, <1>17 DEF Next, MemoryCall, SqliteCall

\* Every step of a backend is one of the promise, or changes nothing it speaks of.
LEMMA StepRefines == IInv /\ [Next]_vars => [Store!Next]_(Store!vars)
<1> SUFFICES ASSUME IInv, [Next]_vars PROVE [Store!Next]_(Store!vars)
  OBVIOUS
<1>1. ASSUME NEW h \in Handlers, NEW c \in Store!Call, Invoke(h, c) PROVE Store!Invoke(h, c)
  BY <1>1 DEF Invoke, Store!Invoke, memory, conn
<1>2. ASSUME NEW h \in Handlers, Return(h) PROVE Store!Return(h)
  BY <1>2 DEF Return, Store!Return, memory, conn
<1>3. ASSUME NEW h \in Handlers, MemoryGet(h) PROVE Store!Get(h)
  BY <1>3 DEF MemoryGet, Store!Get, InMemory, TheCall, memory, conn
<1>4. ASSUME NEW h \in Handlers, MemoryPut(h) PROVE Store!Put(h)
  BY <1>4 DEF MemoryPut, Store!Put, InMemory, TheCall, memory, conn
<1>5. ASSUME NEW h \in Handlers, MemoryItemStates(h) PROVE Store!GetItems(h)
  BY <1>5 DEF MemoryItemStates, Store!GetItems, InMemory, TheCall, memory, conn
<1>6. ASSUME NEW h \in Handlers, MemoryPutItemStates(h) PROVE Store!PutItems(h)
  BY <1>6 DEF MemoryPutItemStates, Store!PutItems, InMemory, TheCall, memory, conn
<1>7. ASSUME NEW h \in Handlers, SqliteGet(h) PROVE Store!Get(h)
  BY <1>7 DEF SqliteGet, Store!Get, Holds, Unlock, TheCall, memory, conn
<1>8. ASSUME NEW h \in Handlers, SqlitePut(h) PROVE Store!Put(h)
  BY <1>8 DEF SqlitePut, Store!Put, Holds, Unlock, TheCall, memory, conn
<1>9. ASSUME NEW h \in Handlers, SqliteItemStates(h) PROVE Store!GetItems(h)
  <2>1. ~tx /\ view = itemStates
    BY <1>9, HandlersAssumption
    DEF SqliteItemStates, Holds, IInv, TxInv, ViewInv, LockInv, Store!IsCalling
  <2> QED
    BY <1>9, <2>1 DEF SqliteItemStates, Store!GetItems, Holds, Unlock, TheCall, memory
<1>10. ASSUME NEW h \in Handlers, Commit(h) PROVE Store!PutItems(h)
  <2>1. TheCall(h).value \in Store!ItemSet
    BY <1>10, PendingCall DEF Commit, Holds, Store!IsCalling, TheCall, IInv
  <2>2. [i \in ItemIds |-> IF i \in todo THEN None ELSE TheCall(h).value[i]] = TheCall(h).value
    BY <1>10, <2>1 DEF Commit, Store!ItemSet
  <2>3. view = [itemStates EXCEPT ![TheCall(h).key] = TheCall(h).value]
    BY <1>10, <2>2 DEF Commit, Holds, IInv, TxInv
  <2> QED
    BY <1>10, <2>3 DEF Commit, Store!PutItems, Holds, Unlock, TheCall
<1>11. ASSUME NEW h \in Handlers, SqliteFails(h) PROVE Store!Refuse(h)
  BY <1>11 DEF SqliteFails, DropTx, Rollback, Store!Refuse, Unlock
<1>12. CASE Crash
  BY <1>12 DEF Crash, DropTx, Rollback, Store!Next, Store!Restart, Empty
<1>13. ASSUME NEW h \in Handlers, Lock(h) PROVE UNCHANGED Store!vars
  BY <1>13 DEF Lock, conn, memory, Store!vars
<1>14. ASSUME NEW h \in Handlers, BeginAndDelete(h) PROVE UNCHANGED Store!vars
  BY <1>14 DEF BeginAndDelete, memory, Store!vars
<1>15. ASSUME NEW h \in Handlers, InsertItem(h) PROVE UNCHANGED Store!vars
  BY <1>15 DEF InsertItem, memory, Store!vars
<1>16. CASE Open
  BY <1>16 DEF Open, migrate, memory, conn, Store!vars
<1>17. CASE UNCHANGED vars
  BY <1>17 DEF vars, memory, Store!vars
<1> QED
  BY <1>1, <1>2, <1>3, <1>4, <1>5, <1>6, <1>7, <1>8, <1>9, <1>10,
     <1>11, <1>12, <1>13, <1>14, <1>15, <1>16, <1>17
  DEF Next, MemoryCall, SqliteCall, Store!Next

\* The invariant of the run: a transaction is alone on the connection and holds
\* the items inserted so far of the one call it belongs to.
THEOREM StoreInvariant == Spec => []IInv
<1> QED
  BY InitInv, StepInv, PTL DEF Spec

\* Both backends keep the promise: every call of a handler takes effect in full
\* at one instant or not at all, and SQLite keeps over a restart what it has
\* acknowledged.
THEOREM StoreImplements == Spec => Implements
<1>1. Init => Store!Init
  <2> SUFFICES ASSUME Init PROVE Store!Init
    OBVIOUS
  <2>1. TypeOK
    BY InitInv DEF IInv
  <2>2. calls = [h \in Handlers |-> Store!Idle]
    BY DEF Init
  <2> QED
    BY <2>1, <2>2 DEF Store!Init, Store!TypeOK, TypeOK
<1> QED
  BY <1>1, StoreInvariant, StepRefines, PTL DEF Spec, Implements, Store!Spec
=============================================================================
