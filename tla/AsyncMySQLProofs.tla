-------------------------- MODULE AsyncMySQLProofs --------------------------
(***************************************************************************)
(* What holds of AsyncMySQL for all values of its constants.  Base is the  *)
(* inductive invariant that nothing disturbs, whatever is cancelled or     *)
(* closed when: who holds the lock is setting the pool up, who holds a     *)
(* connection is counted, and a pool with connections out is not closed.   *)
(* IInv adds what holds when close() is called on a backend that is set    *)
(* up, by one task at a time, and no task is cancelled (Calm): then the    *)
(* pool of a connection is always the backend's, and every call accounts   *)
(* for what it took.                                                       *)
(***************************************************************************)
EXTENDS AsyncMySQL, FiniteSetTheorems, TLAPS

(* The awaits of a task that holds the lock; that holds a connection; that  *)
(* waits for or uses some pool.                                             *)
SettingUp == {"create_pool", "migrate_acquire", "migrate", "migrate_close"}
Holding   == {"migrate", "work", "rollback"}
Aiming    == Holding \cup {"migrate_acquire", "migrate_close", "acquire", "wait_closed"}

(* What r, the record of task t, has at which await when l holds the lock.  *)
ShapeOf(t, r, l) ==
  /\ r.target \in Pools <=> r.pc \in Aiming
  /\ r.holds <=> r.pc \in Holding
  /\ r.pc \in SettingUp <=> l = t
  /\ r.pc = "wait_closed" => t \in Closers
  /\ t \in Closers => r.pc \in {"idle", "wait_closed", "returned"}

Holders(k) == {t \in Tasks : task[t].holds /\ task[t].target = k}

(* No connection is given back that is not out: a pool never counts fewer   *)
(* than the tasks hold (more, when a cancelled call has kept its own).      *)
Counted == \A k \in Pools : Cardinality(Holders(k)) <= out[k]

HoldersOpen == \A t \in Tasks : task[t].holds => state[task[t].target] # "closed"

PoolOpen == pool # NoPool => state[pool] # "closed"

Base ==
  /\ TypeOK
  /\ \A t \in Tasks : ShapeOf(t, task[t], lock)
  /\ Counted /\ HoldersOpen /\ PoolOpen /\ ReadyHasPool

-----------------------------------------------------------------------------
(* Counting connections *)

(* How many connections of pool k the record r of a task holds. *)
Held(r, k) == IF r.holds /\ r.target = k THEN 1 ELSE 0

(* The tasks are finitely many, and so are the holders of a pool. *)
LEMMA HoldersFinite ==
  ASSUME NEW k
  PROVE  IsFiniteSet(Holders(k)) /\ Cardinality(Holders(k)) \in Nat
<1>1. IsFiniteSet(Tasks)
  BY AsyncAssumption, FS_Union DEF Tasks
<1>2. Holders(k) \in SUBSET Tasks
  BY DEF Holders
<1>. QED  BY <1>1, <1>2, FS_Subset, FS_CardinalityType

(* A step of one task changes the number of holders by what that task takes *)
(* and gives back.                                                          *)
LEMMA HoldersStep ==
  ASSUME TypeOK, NEW t \in Tasks, NEW r \in Task, task' = [task EXCEPT ![t] = r],
         NEW k \in Pools
  PROVE  Cardinality(Holders(k))' = Cardinality(Holders(k)) - Held(task[t], k) + Held(r, k)
<1>. DEFINE H == Holders(k)
           G == Holders(k)'
<1>1. G = IF r.holds /\ r.target = k THEN (H \ {t}) \cup {t} ELSE H \ {t}
  BY DEF Holders, TypeOK
<1>2. t \in H <=> task[t].holds /\ task[t].target = k
  BY DEF Holders
<1>3. IsFiniteSet(H) /\ Cardinality(H) \in Nat
  BY HoldersFinite
<1>4. Cardinality(H \ {t}) = IF t \in H THEN Cardinality(H) - 1 ELSE Cardinality(H)
  <2>1. CASE t \in H
    BY <2>1, <1>3, FS_RemoveElement
  <2>2. CASE t \notin H
    <3>1. H \ {t} = H
      BY <2>2
    <3>. QED  BY <3>1, <2>2
  <2>. QED  BY <2>1, <2>2
<1>5. IsFiniteSet(H \ {t})
  BY <1>3, FS_RemoveElement
<1>6. Cardinality((H \ {t}) \cup {t}) = Cardinality(H \ {t}) + 1
  BY <1>5, FS_AddElement
<1>7. Cardinality(G) = Cardinality(H) - Held(task[t], k) + Held(r, k)
  <2>. HIDE DEF H, G
  <2>1. Held(task[t], k) = IF t \in H THEN 1 ELSE 0
    BY <1>2 DEF Held
  <2>. QED  BY <1>1, <1>3, <1>4, <1>6, <2>1 DEF Held
<1>. QED  BY <1>7

HeldOut ==
  \A t \in Tasks : task[t].holds /\ task[t].target \in Pools
                    => out[task[t].target] \in 1..PoolMax

(* A connection in a task's hands is out. *)
LEMMA HeldIsOut == TypeOK /\ Counted => HeldOut
<1>. SUFFICES ASSUME TypeOK, Counted, NEW t \in Tasks, task[t].holds, task[t].target \in Pools
              PROVE  out[task[t].target] \in 1..PoolMax
  BY DEF HeldOut
<1>. DEFINE k == task[t].target
           H == Holders(k)
<1>1. t \in H
  BY DEF Holders
<1>2. IsFiniteSet(H) /\ Cardinality(H) \in Nat
  BY HoldersFinite
<1>3. Cardinality(H) # 0
  BY <1>1, <1>2, FS_EmptySet
<1>4. Cardinality(H) <= out[k] /\ out[k] \in 0..PoolMax
  BY DEF Counted, TypeOK
<1>. QED
  <2>. HIDE DEF H, k
  <2>1. out[k] \in 1..PoolMax
    BY <1>2, <1>3, <1>4, AsyncAssumption
  <2>. QED  BY <2>1 DEF k

(* The same in the next state. *)
LEMMA HeldIsOutNext == TypeOK' /\ Counted' => HeldOut'
  BY HeldIsOut, PTL

-----------------------------------------------------------------------------
(* What a step must do to keep Base: give back what was taken, close a pool *)
(* that has no connection out, hand the lock on or leave it.                *)
LEMMA BaseKept ==
  ASSUME Base, NEW t \in Tasks, NEW r \in Task,
         task' = [task EXCEPT ![t] = r],
         ready' \in BOOLEAN, closed' \in BOOLEAN, pool' \in Pools \cup {NoPool},
         state' \in [Pools -> {"closed", "open", "closing"}],
         out' \in [Pools -> 0..PoolMax],
         lock' = lock \/ (lock \in {t, NoTask} /\ lock' \in {t, NoTask}),
         ShapeOf(t, r, lock'),
         \A k \in Pools : out'[k] >= out[k] - Held(task[t], k) + Held(r, k),
         \A k \in Pools : state'[k] = "closed" => state[k] = "closed" \/ out'[k] = 0,
         r.holds => state'[r.target] # "closed",
         PoolOpen', ReadyHasPool'
  PROVE  Base'
<1>1. TypeOK'
  BY DEF Base, TypeOK
<1>2. ASSUME NEW q \in Tasks PROVE ShapeOf(q, task'[q], lock')
  <2>1. CASE q = t
    BY <2>1 DEF Base, TypeOK
  <2>2. CASE q # t
    <3>1. task'[q] = task[q]
      BY <2>2 DEF Base, TypeOK
    <3>2. q # NoTask
      BY AsyncAssumption DEF Tasks
    <3>3. lock' = q <=> lock = q
      BY <2>2, <3>2
    <3>. QED  BY <3>1, <3>3 DEF Base, ShapeOf
  <2>. QED  BY <2>1, <2>2
<1>3. Counted'
  <2>1. ASSUME NEW k \in Pools PROVE Cardinality(Holders(k))' <= out'[k]
    <3>1. Cardinality(Holders(k))' = Cardinality(Holders(k)) - Held(task[t], k) + Held(r, k)
      BY HoldersStep DEF Base
    <3>2. Cardinality(Holders(k)) <= out[k] /\ Cardinality(Holders(k)) \in Nat
      BY HoldersFinite DEF Base, Counted
    <3>3. out[k] \in Nat /\ out'[k] \in Nat /\ Held(r, k) \in Nat /\ Held(task[t], k) \in Nat
      BY AsyncAssumption DEF Base, TypeOK, Held
    <3>4. out'[k] >= out[k] - Held(task[t], k) + Held(r, k)
      OBVIOUS
    <3>6. Cardinality(Holders(k)) - Held(task[t], k) + Held(r, k) <= out'[k]
      BY <3>2, <3>3, <3>4
    <3>. QED  BY <3>1, <3>6
  <2>. QED  BY <2>1 DEF Counted
<1>4. HoldersOpen'
  <2>. SUFFICES ASSUME NEW q \in Tasks, task'[q].holds, state'[task'[q].target] = "closed"
                PROVE  FALSE
    BY DEF HoldersOpen
  <2>1. CASE q = t
    BY <2>1 DEF Base, TypeOK
  <2>2. CASE q # t
    <3>1. task'[q] = task[q]
      BY <2>2 DEF Base, TypeOK
    <3>2. task[q].target \in Pools /\ state[task[q].target] # "closed"
      BY <3>1 DEF Base, ShapeOf, HoldersOpen, Aiming
    <3>3. out'[task'[q].target] = 0
      BY <3>1, <3>2
    <3>4. out'[task'[q].target] \in 1..PoolMax
      BY <1>1, <1>3, <3>1, <3>2, HeldIsOutNext DEF HeldOut
    <3>. QED  BY <3>3, <3>4, AsyncAssumption
  <2>. QED  BY <2>1, <2>2
<1>. QED  BY <1>1, <1>2, <1>3, <1>4 DEF Base

(* A step that takes no connection and leaves the pools alone. *)
LEMMA BaseQuiet ==
  ASSUME Base, NEW t \in Tasks, NEW r \in Task,
         task' = [task EXCEPT ![t] = r],
         UNCHANGED <<ready, pool, state, out>>, closed' \in BOOLEAN,
         lock' = lock \/ (lock \in {t, NoTask} /\ lock' \in {t, NoTask}),
         lock' = NoTask \/ ~ready,
         ShapeOf(t, r, lock'),
         r.holds => task[t].holds /\ task[t].target = r.target
  PROVE  Base'
<1>1. \A k \in Pools : out'[k] >= out[k] - Held(task[t], k) + Held(r, k)
  <2>. SUFFICES ASSUME NEW k \in Pools
                PROVE  out[k] >= out[k] - Held(task[t], k) + Held(r, k)
    OBVIOUS
  <2>1. Held(r, k) \in {0, 1} /\ Held(task[t], k) \in {0, 1} /\ Held(r, k) <= Held(task[t], k)
    BY DEF Held
  <2>2. out[k] \in Nat
    BY AsyncAssumption DEF Base, TypeOK
  <2>. QED  BY <2>1, <2>2
<1>2. r.holds => state'[r.target] # "closed"
  BY DEF Base, HoldersOpen
<1>3. PoolOpen' /\ ReadyHasPool'
  BY DEF Base, PoolOpen, ReadyHasPool
<1>4. /\ ready' \in BOOLEAN /\ pool' \in Pools \cup {NoPool}
      /\ state' \in [Pools -> {"closed", "open", "closing"}] /\ out' \in [Pools -> 0..PoolMax]
  BY DEF Base, TypeOK
<1>5. \A k \in Pools : state'[k] = "closed" => state[k] = "closed" \/ out'[k] = 0
  OBVIOUS
<1>. QED  BY <1>1, <1>2, <1>3, <1>4, <1>5, BaseKept

-----------------------------------------------------------------------------
(* The records of tasks *)

(* An idle task. *)
LEMMA IdleType == Idle \in Task
  BY DEF Idle, Task

(* A task that ends, with or without an event. *)
LEMMA EndType ==
  ASSUME NEW r \in Task,
         NEW result \in {"none", "ok", "StorageError", "error", "InternalError", "cancelled"}
  PROVE  /\ Raised(r, result) \in Task /\ Finished(r, result) \in Task
         /\ [r EXCEPT !.holds = FALSE] \in Task
<1>1. [r EXCEPT !.pc = "returned"] \in Task
  BY DEF Task
<1>2. [r EXCEPT !.pc = "returned", !.target = NoPool] \in Task
  BY <1>1 DEF Task
<1>3. [r EXCEPT !.pc = "returned", !.target = NoPool, !.result = result] \in Task
  BY <1>2 DEF Task
<1>4. [r EXCEPT !.holds = FALSE] \in Task
  BY DEF Task
<1>5. ASSUME NEW q \in Task PROVE [q EXCEPT !.events = r.events + 1] \in Task
  <2>1. r.events + 1 \in Nat
    BY DEF Task
  <2>. QED  BY <2>1 DEF Task
<1>. QED  BY <1>3, <1>4, <1>5 DEF Raised, Finished

(* What such a task carries. *)
LEMMA EndFields ==
  ASSUME NEW r \in Task, NEW result
  PROVE  /\ Raised(r, result).pc = "returned" /\ Raised(r, result).target = NoPool
         /\ Raised(r, result).holds = r.holds /\ Raised(r, result).events = r.events
         /\ Raised(r, result).result = result
         /\ Finished(r, result).pc = "returned" /\ Finished(r, result).target = NoPool
         /\ Finished(r, result).holds = r.holds /\ Finished(r, result).events = r.events + 1
         /\ Finished(r, result).result = result
<1>. DEFINE m == Raised(r, result)
<1>1. /\ m.pc = "returned" /\ m.target = NoPool /\ m.holds = r.holds /\ m.events = r.events
      /\ m.result = result
      /\ DOMAIN m = {"pc", "target", "holds", "attempt", "events", "result"}
  BY DEF Raised, Task
<1>. HIDE DEF m
<1>2. LET n == [m EXCEPT !.events = r.events + 1]
      IN n.pc = m.pc /\ n.target = m.target /\ n.holds = m.holds /\ n.events = r.events + 1
         /\ n.result = m.result
  BY <1>1
<1>3. Finished(r, result) = [m EXCEPT !.events = r.events + 1]
  BY DEF Finished, m
<1>. QED  BY <1>1, <1>2, <1>3 DEF m

(* A task without a connection that ends. *)
LEMMA Ended ==
  ASSUME NEW r \in Task, ~r.holds,
         NEW result \in {"none", "ok", "StorageError", "error", "InternalError", "cancelled"}
  PROVE  /\ Finished(r, result) \in Task /\ Finished(r, result).pc = "returned"
         /\ ~Finished(r, result).holds /\ Finished(r, result).target = NoPool
         /\ Raised(r, result) \in Task /\ Raised(r, result).pc = "returned"
         /\ ~Raised(r, result).holds /\ Raised(r, result).target = NoPool
<1>1. Finished(r, result) \in Task /\ Raised(r, result) \in Task
  BY EndType
<1>2. Finished(r, result).pc = "returned" /\ Raised(r, result).pc = "returned"
  BY EndFields
<1>3. ~Finished(r, result).holds /\ ~Raised(r, result).holds
  BY EndFields
<1>4. Finished(r, result).target = NoPool /\ Raised(r, result).target = NoPool
  BY EndFields
<1>. QED  BY <1>1, <1>2, <1>3, <1>4

(* A task that gives its connection back, or drops it, is a task. *)
LEMMA EmptyHanded ==
  ASSUME NEW r \in Task
  PROVE  LET m == [r EXCEPT !.holds = FALSE]
         IN m \in Task /\ m.pc = r.pc /\ m.target = r.target /\ ~m.holds
            /\ m.events = r.events /\ m.attempt = r.attempt /\ m.result = r.result
  BY EndType DEF Task

(* A task that comes to the next await, with another pool or the same.      *)
LEMMA MovedType ==
  ASSUME NEW r \in Task, NEW k \in Pools \cup {NoPool},
         NEW pc \in {"migrate_acquire", "migrate_close", "acquire", "wait_closed"}
  PROVE  [r EXCEPT !.pc = pc, !.target = k] \in Task
<1>1. [r EXCEPT !.pc = pc] \in Task
  BY DEF Task
<1>2. [r EXCEPT !.pc = pc, !.target = k] \in Task
  BY <1>1 DEF Task
<1>. QED  BY <1>2

(* Where a task is after asking for a connection: it waits for one of the   *)
(* backend's pool, which is open, or it has ended with an event.            *)
LEMMA AcquiringGives ==
  ASSUME TypeOK, NEW r \in Task
  PROVE  /\ Acquiring(r) \in Task
         /\ Acquiring(r).holds = r.holds
         /\ \/ /\ Acquiring(r).pc = "acquire" /\ Acquiring(r).target = pool
               /\ pool \in Pools /\ state[pool] = "open" /\ Acquiring(r).events = r.events
            \/ /\ Acquiring(r).pc = "returned" /\ Acquiring(r).target = NoPool
               /\ Acquiring(r).events = r.events + 1
<1>1. CASE pool # NoPool /\ state[pool] = "open"
  <2>1. pool \in Pools
    BY <1>1 DEF TypeOK
  <2>2. Acquiring(r) =
          [pc |-> "acquire", target |-> pool, holds |-> r.holds, attempt |-> r.attempt,
           events |-> r.events, result |-> r.result]
    BY <1>1 DEF Acquiring, Waiting, Task
  <2>. QED  BY <1>1, <2>1, <2>2 DEF Task
<1>2. CASE ~(pool # NoPool /\ state[pool] = "open")
  <2>1. Acquiring(r) =
          [pc |-> "returned", target |-> NoPool, holds |-> r.holds, attempt |-> r.attempt,
           events |-> r.events + 1, result |-> "StorageError"]
    BY <1>2 DEF Acquiring, Finished, Raised, Task
  <2>. QED  BY <2>1 DEF Task
<1>. QED  BY <1>1, <1>2

-----------------------------------------------------------------------------
(* Base, action by action *)

(* A call begins. *)
LEMMA CallBase ==
  ASSUME Base, NEW t \in Tasks, Call(t)
  PROVE  Base'
<1>. DEFINE r == IF ready THEN Acquiring(Idle) ELSE [Idle EXCEPT !.pc = "ready_lock"]
<1>1. r \in Task /\ r.holds = FALSE
  BY IdleType, AcquiringGives DEF Base, Idle, Task
<1>2. ShapeOf(t, r, lock)
  <2>1. t \notin Closers /\ lock # t /\ NoPool \notin Pools
    BY AsyncAssumption DEF Call, Base, ShapeOf, SettingUp
  <2>2. CASE ready
    BY <2>1, <2>2, IdleType, AcquiringGives
    DEF Base, ShapeOf, SettingUp, Aiming, Holding, Idle
  <2>3. CASE ~ready
    BY <2>1, <2>3 DEF ShapeOf, SettingUp, Aiming, Holding, Idle
  <2>. QED  BY <2>2, <2>3
<1>3. lock = NoTask \/ ~ready
  BY DEF Base, ReadyHasPool
<1>. HIDE DEF r
<1>. QED  BY <1>1, <1>2, <1>3, BaseQuiet DEF Call, backend, r

(* The lock is free: the backend is ready by now, or this task sets it up. *)
LEMMA GetLockBase ==
  ASSUME Base, NEW t \in Tasks, GetLock(t)
  PROVE  Base'
<1>1. task[t] \in Task /\ task[t].pc = "ready_lock" /\ ~task[t].holds
      /\ task[t].target \notin Pools /\ t \notin Closers /\ lock = NoTask /\ NoPool \notin Pools
      /\ t # NoTask
  BY AsyncAssumption DEF GetLock, Base, TypeOK, ShapeOf, Holding, Aiming, Tasks
<1>2. CASE ready
  <2>. DEFINE r == Acquiring(task[t])
  <2>1. r \in Task /\ r.holds = FALSE
    BY <1>1, AcquiringGives DEF Base
  <2>2. ShapeOf(t, r, lock)
    BY <1>1, AcquiringGives DEF Base, ShapeOf, SettingUp, Aiming, Holding
  <2>3. task' = [task EXCEPT ![t] = r] /\ UNCHANGED <<ready, pool, state, out, closed, lock>>
    BY <1>2 DEF GetLock
  <2>4. closed' \in BOOLEAN
    BY <2>3 DEF Base, TypeOK
  <2>. HIDE DEF r
  <2>. QED  BY <1>1, <2>1, <2>2, <2>3, <2>4, BaseQuiet
<1>3. CASE ~ready
  <2>. DEFINE r == [task[t] EXCEPT !.pc = "create_pool"]
  <2>1. r \in Task /\ r.holds = FALSE
    BY <1>1 DEF Task
  <2>2. ShapeOf(t, r, t)
    BY <1>1 DEF ShapeOf, SettingUp, Aiming, Holding, Task
  <2>3. task' = [task EXCEPT ![t] = r] /\ UNCHANGED <<ready, pool, state, out, closed>> /\ lock' = t
    BY <1>3 DEF GetLock
  <2>4. closed' \in BOOLEAN
    BY <2>3 DEF Base, TypeOK
  <2>. HIDE DEF r
  <2>. QED  BY <1>1, <1>3, <2>1, <2>2, <2>3, <2>4, BaseQuiet
<1>. QED  BY <1>2, <1>3

(* Steps that end the task without having a connection, and idle tasks. *)
LEMMA EndBase ==
  ASSUME Base, NEW t \in Tasks, NEW r \in Task, r.pc \in {"idle", "returned"}, ~r.holds,
         r.target = NoPool, task' = [task EXCEPT ![t] = r],
         lock' = IF lock = t THEN NoTask ELSE lock,
         UNCHANGED <<ready, pool, state, out, closed>>
  PROVE  Base'
<1>1. ShapeOf(t, r, lock')
  BY AsyncAssumption DEF ShapeOf, SettingUp, Aiming, Holding, Tasks
<1>2. lock' = NoTask \/ ~ready
  BY DEF Base, ReadyHasPool
<1>3. closed' \in BOOLEAN
  BY DEF Base, TypeOK
<1>. QED  BY <1>1, <1>2, <1>3, BaseQuiet

(* A task gives back its connection. *)
LEMMA BaseGive ==
  ASSUME Base, NEW t \in Tasks, NEW r \in Task, ~r.holds, task[t].holds,
         task' = [task EXCEPT ![t] = r], out' = Released(task[t].target),
         UNCHANGED <<pool, state, closed>>, ready' \in BOOLEAN,
         lock' = lock \/ (lock \in {t, NoTask} /\ lock' \in {t, NoTask}),
         ShapeOf(t, r, lock'), ReadyHasPool'
  PROVE  Base'
<1>. DEFINE k == task[t].target
<1>1. k \in Pools /\ out[k] \in 1..PoolMax
  BY HeldIsOut DEF Base, ShapeOf, Aiming, HeldOut
<1>2. out' = [out EXCEPT ![k] = out[k] - 1]
  BY DEF Released
<1>3. out' \in [Pools -> 0..PoolMax]
  <2>1. out[k] - 1 \in 0..PoolMax
    BY <1>1, AsyncAssumption
  <2>. QED  BY <1>2, <2>1 DEF Base, TypeOK
<1>4. \A j \in Pools : out'[j] >= out[j] - Held(task[t], j) + Held(r, j)
  <2>. SUFFICES ASSUME NEW j \in Pools
                PROVE  out'[j] >= out[j] - Held(task[t], j) + Held(r, j)
    OBVIOUS
  <2>1. Held(r, j) = 0 /\ Held(task[t], j) = IF j = k THEN 1 ELSE 0
    BY DEF Held
  <2>2. out[j] \in Nat /\ out'[j] = IF j = k THEN out[j] - 1 ELSE out[j]
    BY <1>2, AsyncAssumption DEF Base, TypeOK
  <2>. QED  BY <2>1, <2>2
<1>5. /\ closed' \in BOOLEAN /\ pool' \in Pools \cup {NoPool}
      /\ state' \in [Pools -> {"closed", "open", "closing"}] /\ PoolOpen'
      /\ \A j \in Pools : state'[j] = "closed" => state[j] = "closed" \/ out'[j] = 0
  BY DEF Base, TypeOK, PoolOpen
<1>. QED  BY <1>3, <1>4, <1>5, BaseKept

(* A task is given a connection. *)
LEMMA BaseTake ==
  ASSUME Base, NEW t \in Tasks, NEW r \in Task, r.holds, ~task[t].holds,
         r.target \in Pools, state[r.target] # "closed", out[r.target] < PoolMax,
         task' = [task EXCEPT ![t] = r], out' = [out EXCEPT ![r.target] = @ + 1],
         UNCHANGED <<ready, lock, pool, state, closed>>,
         ShapeOf(t, r, lock)
  PROVE  Base'
<1>. DEFINE k == r.target
<1>2. out' = [out EXCEPT ![k] = out[k] + 1]
  OBVIOUS
<1>3. out' \in [Pools -> 0..PoolMax]
  <2>1. out[k] + 1 \in 0..PoolMax
    BY AsyncAssumption DEF Base, TypeOK
  <2>. QED  BY <1>2, <2>1 DEF Base, TypeOK
<1>4. \A j \in Pools : out'[j] >= out[j] - Held(task[t], j) + Held(r, j)
  <2>. SUFFICES ASSUME NEW j \in Pools
                PROVE  out'[j] >= out[j] - Held(task[t], j) + Held(r, j)
    OBVIOUS
  <2>1. Held(task[t], j) = 0 /\ Held(r, j) = IF j = k THEN 1 ELSE 0
    BY DEF Held
  <2>2. out[j] \in Nat /\ out'[j] = IF j = k THEN out[j] + 1 ELSE out[j]
    BY <1>2, AsyncAssumption DEF Base, TypeOK
  <2>. QED  BY <2>1, <2>2
<1>5. /\ ready' \in BOOLEAN /\ closed' \in BOOLEAN /\ pool' \in Pools \cup {NoPool}
      /\ state' \in [Pools -> {"closed", "open", "closing"}] /\ PoolOpen' /\ ReadyHasPool'
      /\ \A j \in Pools : state'[j] = "closed" => state[j] = "closed" \/ out'[j] = 0
  BY DEF Base, TypeOK, PoolOpen, ReadyHasPool
<1>. QED  BY <1>3, <1>4, <1>5, BaseKept

(* A step that takes a pool away, or begins to: what is closed has no       *)
(* connection out.                                                          *)
LEMMA BaseClose ==
  ASSUME Base, NEW t \in Tasks, NEW r \in Task, ~r.holds, NEW k \in Pools,
         task' = [task EXCEPT ![t] = r],
         out' = IF task[t].holds THEN Released(task[t].target) ELSE out,
         \/ /\ state' = [state EXCEPT ![k] = "closing"]
            /\ UNCHANGED <<ready, pool, lock>>
         \/ /\ state' = [state EXCEPT ![k] = "closed"] /\ out'[k] = 0
            /\ pool' = NoPool /\ ready' = FALSE
            /\ lock' = lock \/ (lock \in {t, NoTask} /\ lock' \in {t, NoTask}),
         closed' \in BOOLEAN, ShapeOf(t, r, lock')
  PROVE  Base'
<1>1. out' \in [Pools -> 0..PoolMax]
      /\ \A j \in Pools : out'[j] >= out[j] - Held(task[t], j) + Held(r, j)
  <2>1. CASE task[t].holds
    <3>. DEFINE m == task[t].target
    <3>1. m \in Pools /\ out[m] \in 1..PoolMax
      BY <2>1, HeldIsOut DEF Base, ShapeOf, Aiming, HeldOut
    <3>2. out' = [out EXCEPT ![m] = out[m] - 1]
      BY <2>1 DEF Released
    <3>3. out[m] - 1 \in 0..PoolMax
      BY <3>1, AsyncAssumption
    <3>4. ASSUME NEW j \in Pools PROVE out'[j] >= out[j] - Held(task[t], j) + Held(r, j)
      <4>1. Held(r, j) = 0 /\ Held(task[t], j) = IF j = m THEN 1 ELSE 0
        BY <2>1 DEF Held
      <4>2. out[j] \in Nat /\ out'[j] = IF j = m THEN out[j] - 1 ELSE out[j]
        BY <3>2, AsyncAssumption DEF Base, TypeOK
      <4>. QED  BY <4>1, <4>2
    <3>. QED  BY <3>2, <3>3, <3>4 DEF Base, TypeOK
  <2>2. CASE ~task[t].holds
    <3>1. ASSUME NEW j \in Pools PROVE out'[j] >= out[j] - Held(task[t], j) + Held(r, j)
      <4>1. Held(r, j) = 0 /\ Held(task[t], j) = 0
        BY <2>2 DEF Held
      <4>2. out[j] \in Nat /\ out'[j] = out[j]
        BY <2>2, AsyncAssumption DEF Base, TypeOK
      <4>. QED  BY <4>1, <4>2
    <3>. QED  BY <2>2, <3>1 DEF Base, TypeOK
  <2>. QED  BY <2>1, <2>2
<1>2. /\ ready' \in BOOLEAN /\ pool' \in Pools \cup {NoPool}
      /\ state' \in [Pools -> {"closed", "open", "closing"}]
      /\ lock' = lock \/ (lock \in {t, NoTask} /\ lock' \in {t, NoTask})
  BY DEF Base, TypeOK
<1>3. \A j \in Pools : state'[j] = "closed" => state[j] = "closed" \/ out'[j] = 0
  BY DEF Base, TypeOK
<1>4. PoolOpen' /\ ReadyHasPool'
  BY DEF Base, TypeOK, PoolOpen, ReadyHasPool
<1>. QED  BY <1>1, <1>2, <1>3, <1>4, BaseKept

(* create_pool returns. *)
LEMMA CreatePoolBase ==
  ASSUME Base, NEW t \in Tasks, CreatePool(t)
  PROVE  Base'
<1>1. PICK k \in Pools :
        /\ Unused(k) /\ pool' = k /\ state' = [state EXCEPT ![k] = "open"]
        /\ IF AutoMigrate
           THEN /\ task' = [task EXCEPT ![t].pc = "migrate_acquire", ![t].target = k]
                /\ UNCHANGED <<ready, lock>>
           ELSE /\ task' = [task EXCEPT ![t] = Waiting(task[t], k)]
                /\ ready' = TRUE /\ lock' = NoTask
  BY DEF CreatePool
<1>2. task[t].pc = "create_pool" /\ UNCHANGED <<out, closed>>
  BY DEF CreatePool
<1>3. task[t] \in Task /\ ~task[t].holds /\ t \notin Closers /\ lock = t /\ t # NoTask /\ ~ready
  BY <1>2, AsyncAssumption DEF Base, TypeOK, ShapeOf, Holding, SettingUp, Tasks, ReadyHasPool
<1>. DEFINE pc == IF AutoMigrate THEN "migrate_acquire" ELSE "acquire"
            r == [task[t] EXCEPT !.pc = pc, !.target = k]
<1>4. task' = [task EXCEPT ![t] = r]
  BY <1>1 DEF Waiting, Base, TypeOK
<1>5. r \in Task /\ r.pc = pc /\ r.target = k /\ ~r.holds
  <2>1. pc \in {"migrate_acquire", "migrate_close", "acquire", "wait_closed"}
    OBVIOUS
  <2>. HIDE DEF pc
  <2>2. r \in Task /\ r.pc = pc /\ r.target = k /\ r.holds = task[t].holds
    <3>1. k \in Pools \cup {NoPool} /\ task[t] \in Task
      BY <1>3
    <3>2. r \in Task
      BY <2>1, <3>1, MovedType
    <3>3. r.pc = pc /\ r.target = k /\ r.holds = task[t].holds
      BY <3>1 DEF Task
    <3>. QED  BY <3>2, <3>3
  <2>. QED  BY <1>3, <2>2
<1>6. ShapeOf(t, r, lock')
  BY <1>1, <1>3, <1>5 DEF ShapeOf, SettingUp, Aiming, Holding
<1>7. /\ ready' \in BOOLEAN /\ closed' \in BOOLEAN /\ pool' \in Pools \cup {NoPool}
      /\ state' \in [Pools -> {"closed", "open", "closing"}] /\ out' \in [Pools -> 0..PoolMax]
      /\ lock' = lock \/ (lock \in {t, NoTask} /\ lock' \in {t, NoTask})
  BY <1>1, <1>2, <1>3 DEF Base, TypeOK
<1>8. \A j \in Pools : out'[j] >= out[j] - Held(task[t], j) + Held(r, j)
  <2>. SUFFICES ASSUME NEW j \in Pools
                PROVE  out[j] >= out[j] - Held(task[t], j) + Held(r, j)
    BY <1>2
  <2>1. Held(task[t], j) = 0 /\ Held(r, j) = 0 /\ out[j] \in Nat
    BY <1>3, <1>5, AsyncAssumption DEF Held, Base, TypeOK
  <2>. QED  BY <2>1
<1>9. \A j \in Pools : state'[j] = "closed" => state[j] = "closed" \/ out'[j] = 0
  BY <1>1 DEF Base, TypeOK
<1>10. state'[pool'] = "open" /\ pool' # NoPool /\ (ready' => lock' = NoTask)
  BY <1>1, <1>3, AsyncAssumption DEF Base, TypeOK
<1>11. PoolOpen' /\ ReadyHasPool'
  BY <1>10 DEF PoolOpen, ReadyHasPool
<1>. HIDE DEF r
<1>. QED  BY <1>4, <1>5, <1>6, <1>7, <1>8, <1>9, <1>11, BaseKept

(* Steps that end a call without a connection. *)
LEMMA EndingsBase ==
  ASSUME Base, NEW t \in Tasks,
         CreatePoolFails(t) \/ MigrationFailsPoolGone(t) \/ AcquireFails(t) \/ Return(t)
  PROVE  Base'
<1>1. task[t] \in Task /\ lock \in Tasks \cup {NoTask} /\ t # NoTask
  BY AsyncAssumption DEF Base, TypeOK, Tasks
<1>2. task[t].pc \in SettingUp <=> lock = t
  BY DEF Base, ShapeOf
<1>3. CASE CreatePoolFails(t)
  <2>. DEFINE r == Finished(task[t], "StorageError")
  <2>1. r \in Task /\ r.pc = "returned" /\ ~r.holds /\ r.target = NoPool
    <3>1. ~task[t].holds
      BY <1>3 DEF CreatePoolFails, Base, ShapeOf, Holding
    <3>. QED  BY <1>1, <3>1, Ended
  <2>. HIDE DEF r
  <2>. QED  BY <1>1, <1>2, <1>3, <2>1, EndBase DEF CreatePoolFails, SettingUp, r
<1>4. CASE MigrationFailsPoolGone(t)
  <2>. DEFINE r == Finished([task[t] EXCEPT !.holds = FALSE], "InternalError")
  <2>1. r \in Task /\ r.pc = "returned" /\ ~r.holds /\ r.target = NoPool
    <3>1. [task[t] EXCEPT !.holds = FALSE] \in Task /\ ~[task[t] EXCEPT !.holds = FALSE].holds
      BY <1>1, EmptyHanded
    <3>. QED  BY <3>1, Ended
  <2>. HIDE DEF r
  <2>. QED  BY <1>1, <1>2, <1>4, <2>1, EndBase DEF MigrationFailsPoolGone, SettingUp, r
<1>5. CASE AcquireFails(t)
  <2>. DEFINE r == Finished(task[t], "StorageError")
  <2>1. r \in Task /\ r.pc = "returned" /\ ~r.holds /\ r.target = NoPool
    <3>1. ~task[t].holds
      BY <1>5 DEF AcquireFails, Base, ShapeOf, Holding
    <3>. QED  BY <1>1, <3>1, Ended
  <2>. HIDE DEF r
  <2>. QED  BY <1>1, <1>2, <1>5, <2>1, EndBase DEF AcquireFails, SettingUp, r, backend
<1>6. CASE Return(t)
  <2>1. Idle.pc = "idle" /\ ~Idle.holds /\ Idle.target = NoPool
    BY DEF Idle
  <2>. QED  BY <1>1, <1>2, <1>6, <2>1, IdleType, EndBase DEF Return, SettingUp, backend
<1>. QED  BY <1>3, <1>4, <1>5, <1>6

(* Steps that take a connection. *)
LEMMA TakingsBase ==
  ASSUME Base, NEW t \in Tasks, MigrateAcquire(t) \/ Acquire(t)
  PROVE  Base'
<1>1. task[t] \in Task /\ ~task[t].holds /\ task[t].target \in Pools
      /\ (lock = t <=> task[t].pc = "migrate_acquire") /\ t \notin Closers
  BY DEF Base, TypeOK, ShapeOf, SettingUp, Aiming, Holding, MigrateAcquire, Acquire
<1>. DEFINE pc == IF task[t].pc = "migrate_acquire" THEN "migrate" ELSE "work"
            r == [task[t] EXCEPT !.pc = pc, !.holds = TRUE]
<1>2. r \in Task /\ r.pc = pc /\ r.holds /\ r.target = task[t].target
  <2>1. [task[t] EXCEPT !.pc = pc] \in Task
    BY <1>1 DEF Task
  <2>. QED  BY ZenonT(60), <1>1, <2>1 DEF Task
<1>3. task' = [task EXCEPT ![t] = r]
  BY DEF MigrateAcquire, Acquire, Base, TypeOK
<1>4. ShapeOf(t, r, lock)
  BY <1>1, <1>2 DEF ShapeOf, SettingUp, Aiming, Holding, MigrateAcquire, Acquire
<1>5. /\ state[r.target] # "closed" /\ out[r.target] < PoolMax
      /\ out' = [out EXCEPT ![r.target] = @ + 1]
      /\ UNCHANGED <<ready, lock, pool, state, closed>>
  BY <1>2 DEF MigrateAcquire, Acquire, backend
<1>. HIDE DEF r
<1>. QED  BY <1>1, <1>2, <1>3, <1>4, <1>5, BaseTake

(* work(conn) or its commit raises: the connection is rolled back first. *)
LEMMA WorkFailsBase ==
  ASSUME Base, NEW t \in Tasks, WorkFails(t)
  PROVE  Base'
<1>. DEFINE r == [task[t] EXCEPT !.pc = "rollback"]
<1>1. task[t] \in Task /\ task[t].pc = "work" /\ task' = [task EXCEPT ![t] = r]
  BY DEF Base, TypeOK, WorkFails
<1>2. r \in Task /\ r.pc = "rollback" /\ r.target = task[t].target /\ r.holds = task[t].holds
  BY <1>1 DEF Task
<1>3. ShapeOf(t, r, lock)
  BY <1>1, <1>2 DEF Base, ShapeOf, SettingUp, Aiming, Holding
<1>4. lock = NoTask \/ ~ready
  BY DEF Base, ReadyHasPool
<1>5. UNCHANGED <<ready, lock, pool, state, out, closed>> /\ closed' \in BOOLEAN
  BY DEF WorkFails, backend, Base, TypeOK
<1>. HIDE DEF r
<1>. QED  BY <1>1, <1>2, <1>3, <1>4, <1>5, BaseQuiet

(* A retry asks for a connection. *)
LEMMA WakeBase ==
  ASSUME Base, NEW t \in Tasks, Wake(t)
  PROVE  Base'
<1>. DEFINE r == Acquiring(task[t])
<1>1. task[t] \in Task /\ task[t].pc = "sleep" /\ task' = [task EXCEPT ![t] = r] /\ ~task[t].holds
  BY DEF Base, TypeOK, Wake, ShapeOf, Holding
<1>2. r \in Task /\ ~r.holds
  BY <1>1, AcquiringGives DEF Base
<1>3. ShapeOf(t, r, lock)
  <2>1. t \notin Closers /\ lock # t /\ NoPool \notin Pools
    BY <1>1, AsyncAssumption DEF Base, ShapeOf, SettingUp
  <2>. QED  BY <1>1, <2>1, AcquiringGives DEF Base, ShapeOf, SettingUp, Aiming, Holding
<1>4. lock = NoTask \/ ~ready
  BY DEF Base, ReadyHasPool
<1>5. UNCHANGED <<ready, lock, pool, state, out, closed>> /\ closed' \in BOOLEAN
  BY DEF Wake, backend, Base, TypeOK
<1>. HIDE DEF r
<1>. QED  BY <1>1, <1>2, <1>3, <1>4, <1>5, BaseQuiet

(* What a failed attempt comes to. *)
LEMMA AttemptGives ==
  ASSUME NEW m \in Task, ~m.holds, NEW r \in AfterAttempt(m)
  PROVE  /\ r \in Task /\ ~r.holds /\ r.target = NoPool
         /\ \/ r.pc = "returned" /\ r.events = m.events + 1
            \/ r.pc = "sleep" /\ r.events = m.events
<1>1. CASE r = Finished(m, "error")
  <2>1. r.events = m.events + 1
    BY <1>1, EndFields
  <2>. QED  BY <1>1, <2>1, Ended
<1>2. CASE r = [m EXCEPT !.pc = "sleep", !.attempt = m.attempt + 1, !.target = NoPool]
  <2>1. m.attempt + 1 \in Nat
    BY DEF Task
  <2>2. [m EXCEPT !.pc = "sleep"] \in Task
    BY DEF Task
  <2>3. [m EXCEPT !.pc = "sleep", !.attempt = m.attempt + 1] \in Task
    BY <2>1, <2>2 DEF Task
  <2>4. [m EXCEPT !.pc = "sleep", !.attempt = m.attempt + 1, !.target = NoPool] \in Task
    BY <2>3 DEF Task
  <2>5. r \in Task
    BY <1>2, <2>4
  <2>6. r.holds = m.holds /\ r.target = NoPool /\ r.pc = "sleep" /\ r.events = m.events
    BY <1>2 DEF Task
  <2>. QED  BY <2>5, <2>6
<1>. QED  BY <1>1, <1>2 DEF AfterAttempt

(* A task that is through, or sleeps, and does not hold the lock. *)
LEMMA RestShape ==
  ASSUME NEW t \in Tasks, NEW r \in Task, ~r.holds, r.target = NoPool, NEW l, l # t,
         r.pc \in {"idle", "returned"} \/ (r.pc = "sleep" /\ t \notin Closers)
  PROVE  ShapeOf(t, r, l)
<1>1. NoPool \notin Pools
  BY AsyncAssumption
<1>. QED  BY <1>1 DEF ShapeOf, Aiming, Holding, SettingUp

(* work(conn) is done, or rolled back: the connection goes back to its pool *)
(* unless that is not the backend's any more.                               *)
LEMMA WorkEndsBase ==
  ASSUME Base, NEW t \in Tasks, WorkDone(t) \/ RolledBack(t)
  PROVE  Base'
<1>. DEFINE m == [task[t] EXCEPT !.holds = FALSE]
<1>1. /\ task[t] \in Task /\ task[t].holds /\ t \notin Closers /\ lock # t
  BY DEF Base, TypeOK, ShapeOf, Holding, SettingUp, WorkDone, RolledBack
<1>2. m \in Task /\ ~m.holds
  BY <1>1, EmptyHanded
<1>3. UNCHANGED <<ready, lock, pool, state, closed>>
  BY DEF WorkDone, RolledBack, backend
<1>4. ready' \in BOOLEAN /\ ReadyHasPool'
  BY <1>3 DEF Base, TypeOK, ReadyHasPool
<1>5. CASE CanRelease(task[t].target)
  <2>. HIDE DEF m
  <2>1. PICK r \in {Finished(m, "ok")} \cup AfterAttempt(m) :
          task' = [task EXCEPT ![t] = r] /\ out' = Released(task[t].target)
    BY <1>5 DEF WorkDone, RolledBack, m
  <2>2. r \in Task /\ ~r.holds /\ r.target = NoPool /\ r.pc \in {"returned", "sleep"}
    BY <1>2, Ended, AttemptGives
  <2>3. ShapeOf(t, r, lock')
    BY <1>1, <1>3, <2>2, RestShape
  <2>. QED  BY <1>1, <1>3, <1>4, <2>1, <2>2, <2>3, BaseGive
<1>6. CASE ~CanRelease(task[t].target)
  <2>. DEFINE r == Raised(m, "InternalError")
  <2>. HIDE DEF m
  <2>1. r \in Task /\ ~r.holds /\ r.target = NoPool /\ r.pc = "returned"
    BY <1>2, Ended
  <2>2. task' = [task EXCEPT ![t] = r] /\ UNCHANGED out
    BY <1>6 DEF WorkDone, RolledBack, m
  <2>. HIDE DEF r
  <2>. QED  BY <1>1, <1>3, <2>1, <2>2, EndBase
<1>. QED  BY <1>5, <1>6

(* The migration is through: the connection goes back, the backend is       *)
(* ready, the lock is free.                                                 *)
LEMMA MigratedBase ==
  ASSUME Base, NEW t \in Tasks, Migrated(t)
  PROVE  Base'
<1>. DEFINE m == [task[t] EXCEPT !.holds = FALSE]
<1>1. /\ task[t] \in Task /\ task[t].holds /\ t \notin Closers /\ lock = t
      /\ task[t].target \in Pools /\ state[task[t].target] # "closed"
  BY DEF Base, TypeOK, ShapeOf, Holding, SettingUp, Aiming, HoldersOpen, Migrated
<1>2. m \in Task /\ ~m.holds
  BY <1>1, EmptyHanded
<1>3. lock' = NoTask /\ UNCHANGED <<pool, state, closed>> /\ t # NoTask /\ NoPool \notin Pools
  BY AsyncAssumption DEF Migrated, Tasks
<1>4. CASE CanRelease(task[t].target)
  <2>. DEFINE r == Acquiring(m)
  <2>. HIDE DEF m
  <2>1. r \in Task /\ ~r.holds
    BY <1>2, AcquiringGives DEF Base
  <2>2. ShapeOf(t, r, lock')
    BY <1>1, <1>2, <1>3, AcquiringGives DEF Base, ShapeOf, SettingUp, Aiming, Holding
  <2>3. task' = [task EXCEPT ![t] = r] /\ out' = Released(task[t].target) /\ ready' = TRUE
    BY <1>4 DEF Migrated, m
  <2>4. ReadyHasPool'
    BY <1>1, <1>3, <1>4, <2>3 DEF ReadyHasPool, CanRelease
  <2>. HIDE DEF r
  <2>. QED  BY <1>1, <1>3, <2>1, <2>2, <2>3, <2>4, BaseGive
<1>5. CASE ~CanRelease(task[t].target)
  <2>. DEFINE r == Finished(m, "InternalError")
  <2>. HIDE DEF m
  <2>1. r \in Task /\ ~r.holds /\ r.target = NoPool /\ r.pc = "returned"
    BY <1>2, Ended
  <2>2. task' = [task EXCEPT ![t] = r] /\ UNCHANGED <<out, ready>>
    BY <1>5 DEF Migrated, m
  <2>. HIDE DEF r
  <2>. QED  BY <1>1, <1>3, <2>1, <2>2, EndBase
<1>. QED  BY <1>4, <1>5

(* The migration fails: the connection goes back before the pool is closed. *)
LEMMA MigrationFailsBase ==
  ASSUME Base, NEW t \in Tasks, MigrationFails(t)
  PROVE  Base'
<1>. DEFINE m == [task[t] EXCEPT !.holds = FALSE]
<1>1. /\ task[t] \in Task /\ t \notin Closers /\ lock = t /\ t # NoTask /\ NoPool \notin Pools
      /\ pool \in Pools /\ (task[t].holds => task[t].target = pool) /\ ~ready
  BY AsyncAssumption DEF Base, TypeOK, ShapeOf, SettingUp, MigrationFails, CanCloseAfter,
                         CanRelease, ReadyHasPool, Tasks
<1>2. m \in Task /\ ~m.holds
  BY <1>1, EmptyHanded
<1>3. UNCHANGED <<ready, closed>> /\ closed' \in BOOLEAN
  BY DEF MigrationFails, Base, TypeOK
<1>. DEFINE taken == IF task[t].holds THEN Released(pool) ELSE out
<1>4. CloseAfterMigration(t, taken)
  BY DEF MigrationFails
<1>5. out' = taken /\ out' = IF task[t].holds THEN Released(task[t].target) ELSE out
  BY <1>1, <1>4 DEF CloseAfterMigration
<1>6. CASE Suspends(t, pool, taken)
  <2>. DEFINE r == [task[t] EXCEPT !.pc = "migrate_close", !.target = pool, !.holds = FALSE]
  <2>1. task' = [task EXCEPT ![t] = r] /\ state' = [state EXCEPT ![pool] = "closing"]
        /\ UNCHANGED <<pool, lock>>
    BY <1>4, <1>6 DEF CloseAfterMigration, Base, TypeOK
  <2>2. r \in Task
    <3>1. [task[t] EXCEPT !.pc = "migrate_close", !.target = pool] \in Task
      BY <1>1, MovedType
    <3>. QED  BY <3>1, EmptyHanded
  <2>3. r.pc = "migrate_close" /\ r.target = pool /\ ~r.holds
    BY <1>1 DEF Task
  <2>4. ShapeOf(t, r, lock')
    BY <1>1, <2>1, <2>3 DEF ShapeOf, Aiming, Holding, SettingUp
  <2>. HIDE DEF r
  <2>. QED  BY <1>1, <1>3, <1>5, <2>1, <2>2, <2>3, <2>4, BaseClose
<1>7. CASE ~Suspends(t, pool, taken)
  <2>. DEFINE r == Finished(m, "StorageError")
  <2>1. task' = [task EXCEPT ![t] = r] /\ state' = [state EXCEPT ![pool] = "closed"]
        /\ pool' = NoPool /\ lock' = NoTask
    BY <1>4, <1>7 DEF CloseAfterMigration
  <2>2. out'[pool] = 0
    <3>1. taken[pool] \in Int
      <4>1. out[pool] \in Int /\ out \in [Pools -> 0..PoolMax]
        BY <1>1, AsyncAssumption DEF Base, TypeOK
      <4>2. CASE task[t].holds
        BY <1>1, <4>1, <4>2 DEF Released
      <4>. QED  BY <4>1, <4>2
    <3>2. ~(taken[pool] > 0)
      BY <1>7 DEF Suspends
    <3>3. out' \in [Pools -> 0..PoolMax]
      <4>1. CASE task[t].holds
        <5>1. out[pool] \in 1..PoolMax
          BY <1>1, <4>1, HeldIsOut DEF Base, HeldOut
        <5>2. out[pool] - 1 \in 0..PoolMax /\ out' = [out EXCEPT ![pool] = out[pool] - 1]
          BY <1>5, <4>1, <5>1, AsyncAssumption DEF Released
        <5>. QED  BY <5>2 DEF Base, TypeOK
      <4>. QED  BY <1>5, <4>1 DEF Base, TypeOK
    <3>4. out'[pool] \in 0..PoolMax /\ out'[pool] = taken[pool]
      BY <1>1, <1>5, <3>3
    <3>. HIDE DEF taken
    <3>. QED  BY <3>1, <3>2, <3>4, AsyncAssumption
  <2>. HIDE DEF m
  <2>3. r \in Task /\ ~r.holds /\ r.target = NoPool /\ r.pc = "returned"
    BY <1>2, Ended
  <2>4. ShapeOf(t, r, lock')
    BY <1>1, <2>1, <2>3, RestShape
  <2>5. ready' = FALSE /\ lock \in {t, NoTask} /\ lock' \in {t, NoTask}
    BY <1>1, <1>3, <2>1 DEF Base, TypeOK
  <2>. HIDE DEF r, taken
  <2>. QED  BY <1>1, <1>3, <1>5, <2>1, <2>2, <2>3, <2>4, <2>5, BaseClose
<1>. QED  BY <1>6, <1>7

(* wait_closed comes back, in the setup or in close. *)
LEMMA ClosedBase ==
  ASSUME Base, NEW t \in Tasks, MigrationClosed(t) \/ Closed(t)
  PROVE  Base'
<1>. DEFINE k == task[t].target
            r == IF task[t].pc = "wait_closed" THEN Raised(task[t], "ok")
                 ELSE Finished(task[t], "StorageError")
<1>1. /\ task[t] \in Task /\ k \in Pools /\ ~task[t].holds /\ out[k] = 0
      /\ state' = [state EXCEPT ![k] = "closed"] /\ pool' = NoPool /\ out' = out
      /\ task' = [task EXCEPT ![t] = r] /\ t # NoTask
      /\ closed' \in BOOLEAN
  BY AsyncAssumption
  DEF Base, TypeOK, ShapeOf, Aiming, Holding, MigrationClosed, Closed, Tasks
<1>2. ready' = FALSE
  <2>1. CASE MigrationClosed(t)
    <3>1. lock = t /\ t # NoTask
      BY <1>1, <2>1 DEF MigrationClosed, Base, ShapeOf, SettingUp
    <3>. QED  BY <2>1, <3>1 DEF MigrationClosed, Base, TypeOK, ReadyHasPool
  <2>. QED  BY <2>1 DEF Closed
<1>3. lock' # t /\ (lock' = lock \/ (lock \in {t, NoTask} /\ lock' \in {t, NoTask}))
  <2>1. CASE MigrationClosed(t)
    <3>1. lock = t
      BY <2>1 DEF MigrationClosed, Base, ShapeOf, SettingUp
    <3>. QED  BY <1>1, <2>1, <3>1 DEF MigrationClosed
  <2>2. CASE Closed(t)
    <3>1. lock # t
      BY <2>2 DEF Closed, Base, ShapeOf, SettingUp
    <3>. QED  BY <2>2, <3>1 DEF Closed
  <2>. QED  BY <2>1, <2>2
<1>4. r \in Task /\ ~r.holds /\ r.target = NoPool /\ r.pc = "returned"
  <2>1. task[t] \in Task /\ ~task[t].holds
    BY <1>1
  <2>. QED  BY <2>1, Ended
<1>. HIDE DEF r
<1>5. ShapeOf(t, r, lock')
  BY <1>3, <1>4, RestShape
<1>. QED  BY <1>1, <1>2, <1>3, <1>4, <1>5, BaseClose

(* close() begins. *)
LEMMA CloseBase ==
  ASSUME Base, NEW t \in Tasks, Close(t)
  PROVE  Base'
<1>1. /\ task[t] \in Task /\ t \in Closers /\ lock # t /\ ~task[t].holds /\ NoPool \notin Pools
      /\ UNCHANGED <<lock, out>> /\ closed' \in BOOLEAN
  BY AsyncAssumption DEF Base, TypeOK, ShapeOf, SettingUp, Holding, Close
<1>2. Idle \in Task /\ ~Idle.holds
  BY IdleType DEF Idle
<1>3. /\ Raised(Idle, "ok") \in Task /\ Raised(Idle, "ok").pc = "returned"
      /\ ~Raised(Idle, "ok").holds /\ Raised(Idle, "ok").target = NoPool
  BY <1>2, Ended
<1>4. ShapeOf(t, Raised(Idle, "ok"), lock')
  BY <1>1, <1>3, RestShape
<1>5. CASE pool = NoPool
  <2>1. task' = [task EXCEPT ![t] = Raised(Idle, "ok")]
        /\ UNCHANGED <<ready, pool, state, out, lock>>
    BY <1>1, <1>5 DEF Close
  <2>2. lock = NoTask \/ ~ready
    BY DEF Base, ReadyHasPool
  <2>. QED  BY <1>1, <1>3, <1>4, <2>1, <2>2, BaseQuiet
<1>6. CASE pool # NoPool /\ Suspends(t, pool, out)
  <2>. DEFINE r == [Idle EXCEPT !.pc = "wait_closed", !.target = pool]
  <2>1. pool \in Pools
    BY <1>6 DEF Base, TypeOK
  <2>2. r \in Task
    BY <1>2, <2>1, MovedType
  <2>3. r.pc = "wait_closed" /\ r.target = pool /\ ~r.holds
    BY DEF Idle
  <2>4. task' = [task EXCEPT ![t] = r] /\ state' = [state EXCEPT ![pool] = "closing"]
        /\ UNCHANGED <<ready, pool>>
    BY <1>6 DEF Close
  <2>5. ShapeOf(t, r, lock')
    BY <1>1, <2>1, <2>3 DEF ShapeOf, Aiming, Holding, SettingUp
  <2>. HIDE DEF r
  <2>. QED  BY <1>1, <2>1, <2>2, <2>3, <2>4, <2>5, BaseClose
<1>7. CASE pool # NoPool /\ ~Suspends(t, pool, out)
  <2>1. pool \in Pools
    BY <1>7 DEF Base, TypeOK
  <2>2. task' = [task EXCEPT ![t] = Raised(Idle, "ok")] /\ state' = [state EXCEPT ![pool] = "closed"]
        /\ pool' = NoPool /\ ready' = FALSE
    BY <1>7 DEF Close
  <2>3. out'[pool] = 0
    BY <1>1, <1>7, <2>1, AsyncAssumption DEF Suspends, Base, TypeOK
  <2>. QED  BY <1>1, <1>3, <1>4, <2>1, <2>2, <2>3, BaseClose
<1>. QED  BY <1>5, <1>6, <1>7

(* A task is cancelled at its await. *)
LEMMA CancelBase ==
  ASSUME Base, NEW t \in Tasks, Cancel(t)
  PROVE  Base'
<1>. DEFINE m == [task[t] EXCEPT !.holds = FALSE]
            r == Raised(m, "cancelled")
<1>1. task[t] \in Task /\ t # NoTask /\ (lock = t <=> task[t].pc \in SettingUp)
  BY AsyncAssumption DEF Base, TypeOK, ShapeOf, Tasks
<1>2. m \in Task /\ ~m.holds
  BY <1>1, EmptyHanded
<1>3. task' = [task EXCEPT ![t] = r] /\ UNCHANGED <<ready, pool, state, closed>>
      /\ lock' = IF lock = t THEN NoTask ELSE lock
  BY DEF Cancel
<1>. HIDE DEF m
<1>4. r \in Task /\ ~r.holds /\ r.target = NoPool /\ r.pc = "returned"
  BY <1>2, Ended
<1>. HIDE DEF r
<1>5. CASE task[t].pc = "migrate"
  <2>1. task[t].holds /\ out' = Released(task[t].target)
    BY <1>5 DEF Base, ShapeOf, Holding, Cancel
  <2>2. ShapeOf(t, r, lock')
    BY <1>1, <1>3, <1>4, RestShape
  <2>3. ready' \in BOOLEAN /\ ReadyHasPool'
    BY <1>3 DEF Base, TypeOK, ReadyHasPool
  <2>. QED  BY <1>3, <1>4, <2>1, <2>2, <2>3, BaseGive
<1>6. CASE task[t].pc # "migrate"
  <2>1. out' = out
    BY <1>6 DEF Cancel
  <2>. QED  BY <1>3, <1>4, <2>1, EndBase
<1>. QED  BY <1>5, <1>6

-----------------------------------------------------------------------------
(* Base is an invariant *)

(* At first nothing is there. *)
LEMMA InitBase == Init => Base
<1>. SUFFICES ASSUME Init PROVE Base
  OBVIOUS
<1>1. TypeOK
  <2>1. 0 \in 0..PoolMax
    BY AsyncAssumption
  <2>2. out \in [Pools -> 0..PoolMax] /\ state \in [Pools -> {"closed", "open", "closing"}]
        /\ task \in [Tasks -> Task]
    BY <2>1, IdleType DEF Init
  <2>. QED  BY <2>2 DEF Init, TypeOK
<1>2. NoPool \notin Pools /\ NoTask \notin Tasks
  BY AsyncAssumption DEF Tasks
<1>3. \A t \in Tasks : task[t] = Idle /\ ~Idle.holds /\ Idle.pc = "idle" /\ Idle.target = NoPool
  BY DEF Init, Idle
<1>4. \A t \in Tasks : ShapeOf(t, task[t], lock)
  BY <1>2, <1>3 DEF Init, ShapeOf, Aiming, Holding, SettingUp
<1>5. Counted
  <2>1. \A k \in Pools : Holders(k) = {}
    BY <1>3 DEF Holders
  <2>2. \A k \in Pools : out[k] = 0
    BY DEF Init
  <2>. QED  BY <2>1, <2>2, FS_EmptySet DEF Counted
<1>6. HoldersOpen /\ PoolOpen /\ ReadyHasPool
  BY <1>3 DEF Init, HoldersOpen, PoolOpen, ReadyHasPool
<1>. QED  BY <1>1, <1>4, <1>5, <1>6 DEF Base

(* Every step keeps it. *)
LEMMA NextBase == Base /\ [Next]_vars => Base'
<1>. SUFFICES ASSUME Base, [Next]_vars PROVE Base'
  OBVIOUS
<1>1. CASE UNCHANGED vars
  BY <1>1 DEF vars, Base, TypeOK, Counted, Holders, HoldersOpen, PoolOpen, ReadyHasPool
<1>2. CASE Next
  <2>1. PICK t \in Tasks : Call(t) \/ Close(t) \/ Resume(t) \/ Cancel(t) \/ Return(t)
    BY <1>2 DEF Next
  <2>2. CASE Resume(t)
    BY <2>2, GetLockBase, CreatePoolBase, EndingsBase, TakingsBase, MigratedBase,
       MigrationFailsBase, ClosedBase, WorkEndsBase, WorkFailsBase, WakeBase DEF Resume
  <2>. QED  BY <2>1, <2>2, CallBase, CloseBase, CancelBase, EndingsBase
<1>. QED  BY <1>1, <1>2

(* Base holds always, whatever is closed or cancelled when. *)
THEOREM BaseInvariance == Spec => []Base
<1>. QED  BY InitBase, NextBase, PTL DEF Spec

-----------------------------------------------------------------------------
(* What holds besides when nothing is cancelled and one task at a time      *)
(* closes a backend that is set up.                                         *)

Calm == ~EarlyClose /\ ~Cancels /\ \A x, y \in Closers : x = y

(* Whoever aims at a pool aims at the backend's; only an acquire that has   *)
(* not come back yet may wait for a pool that is gone.                      *)
AimOf(r) ==
  r.pc \in Aiming =>
    r.target = pool \/ (r.pc = "acquire" /\ state[r.target] = "closed")

(* The same of the globals as the step leaves them.                         *)
AimNext(r) ==
  r.pc \in Aiming =>
    r.target = pool' \/ (r.pc = "acquire" /\ state'[r.target] = "closed")

EventsOf(t, r) ==
  /\ r.pc # "returned" => r.events = 0
  /\ t \in Callers /\ r.pc = "returned" => r.events = 1

(* Nobody creates a second pool.                                            *)
FreshOnly == \A t \in Tasks : task[t].pc = "create_pool" => pool = NoPool

(* close() waits for a backend that is ready, and nobody sets it up then.   *)
ClosingReady ==
  \A t \in Tasks : task[t].pc = "wait_closed" =>
    ready /\ \A q \in Tasks : task[q].pc # "ready_lock"

(* A pool without a ready backend is one that is being set up.              *)
SetupOwnsPool == pool # NoPool /\ ~ready => lock # NoTask

OnlyPool == \A k \in Pools : state[k] # "closed" => k = pool

(* After a close(), nothing is left to be done to set the backend up.       *)
ClosedForGood ==
  closed => pool = NoPool /\ \A t \in Tasks : task[t].pc \notin SettingUp \cup {"ready_lock"}

CalmInv ==
  /\ \A t \in Tasks : AimOf(task[t]) /\ EventsOf(t, task[t])
  /\ FreshOnly /\ ClosingReady /\ SetupOwnsPool /\ OnlyPool /\ ClosedForGood
  /\ SlotsConserved

IInv == Base /\ CalmInv

-----------------------------------------------------------------------------
(* Connections add up *)

Balanced(t, r) == \A k \in Pools : out'[k] = out[k] - Held(task[t], k) + Held(r, k)

(* What a step takes and gives back is what its task has more or less.      *)
LEMMA SlotsKept ==
  ASSUME TypeOK, SlotsConserved, NEW t \in Tasks, NEW r \in Task,
         task' = [task EXCEPT ![t] = r], Balanced(t, r)
  PROVE  SlotsConserved'
<1>1. ASSUME NEW k \in Pools PROVE out'[k] = Cardinality(Holders(k))'
  <2>1. Cardinality(Holders(k))' = Cardinality(Holders(k)) - Held(task[t], k) + Held(r, k)
    BY HoldersStep
  <2>2. out[k] = Cardinality(Holders(k))
    BY DEF SlotsConserved, Holders
  <2>. QED  BY <2>1, <2>2 DEF Balanced
<1>. QED  BY <1>1 DEF SlotsConserved, Holders

(* A step that neither takes nor gives back. *)
LEMMA BalanceSame ==
  ASSUME TypeOK, NEW t \in Tasks, NEW r \in Task, out' = out,
         (r.holds /\ task[t].holds /\ r.target = task[t].target) \/ (~r.holds /\ ~task[t].holds)
  PROVE  Balanced(t, r)
<1>. SUFFICES ASSUME NEW k \in Pools PROVE out[k] = out[k] - Held(task[t], k) + Held(r, k)
  BY DEF Balanced
<1>1. out[k] \in Nat
  BY AsyncAssumption DEF TypeOK
<1>2. Held(task[t], k) = Held(r, k) /\ Held(r, k) \in Nat
  BY DEF Held
<1>. QED  BY <1>1, <1>2

(* A step that takes a connection. *)
LEMMA BalanceTake ==
  ASSUME TypeOK, NEW t \in Tasks, NEW r \in Task, r.holds, ~task[t].holds, r.target \in Pools,
         out' = [out EXCEPT ![r.target] = @ + 1]
  PROVE  Balanced(t, r)
<1>. SUFFICES ASSUME NEW k \in Pools PROVE out'[k] = out[k] - Held(task[t], k) + Held(r, k)
  BY DEF Balanced
<1>1. out[k] \in Nat /\ out'[k] = IF k = r.target THEN out[k] + 1 ELSE out[k]
  BY AsyncAssumption DEF TypeOK
<1>2. Held(task[t], k) = 0 /\ Held(r, k) = IF k = r.target THEN 1 ELSE 0
  BY DEF Held
<1>. QED  BY <1>1, <1>2

(* A step that gives a connection back. *)
LEMMA BalanceGive ==
  ASSUME TypeOK, NEW t \in Tasks, NEW r \in Task, ~r.holds, task[t].holds,
         task[t].target \in Pools, out' = Released(task[t].target)
  PROVE  Balanced(t, r)
<1>. SUFFICES ASSUME NEW k \in Pools PROVE out'[k] = out[k] - Held(task[t], k) + Held(r, k)
  BY DEF Balanced
<1>1. out[k] \in Nat /\ out'[k] = IF k = task[t].target THEN out[k] - 1 ELSE out[k]
  BY AsyncAssumption DEF TypeOK, Released
<1>2. Held(r, k) = 0 /\ Held(task[t], k) = IF k = task[t].target THEN 1 ELSE 0
  BY DEF Held
<1>. QED  BY <1>1, <1>2

-----------------------------------------------------------------------------
(* Three kinds of steps: the pool stays, the pool is created, the pool goes *)

(* What the tasks that do not move are in the next state. *)
LEMMA OthersStay ==
  ASSUME TypeOK, NEW t \in Tasks, NEW r \in Task, task' = [task EXCEPT ![t] = r], NEW q \in Tasks
  PROVE  task'[q] = IF q = t THEN r ELSE task[q]
BY DEF TypeOK

(* A step that leaves the backend its pool. *)
LEMMA CalmStay ==
  ASSUME Base, Calm, CalmInv, NEW t \in Tasks, NEW r \in Task,
         task' = [task EXCEPT ![t] = r], Balanced(t, r),
         pool' = pool, ready' = ready \/ ready' = TRUE,
         \A k \in Pools : state'[k] = "closed" <=> state[k] = "closed",
         EventsOf(t, r), AimNext(r), SetupOwnsPool',
         r.pc = "create_pool" => pool = NoPool,
         r.pc = "ready_lock" => ~ready,
         r.pc = "wait_closed" => ready' /\ \A q \in Tasks : task[q].pc # "ready_lock",
         \/ closed' = FALSE
         \/ /\ closed' = closed
            /\ r.pc \in SettingUp \cup {"ready_lock"} => task[t].pc \in SettingUp \cup {"ready_lock"}
  PROVE  CalmInv'
<1>1. \A q \in Tasks : task'[q] = IF q = t THEN r ELSE task[q]
  BY OthersStay DEF Base
<1>2. ASSUME NEW q \in Tasks PROVE AimOf(task[q])' /\ EventsOf(q, task[q])'
  <2>1. CASE q = t
    BY <1>1, <2>1 DEF AimOf, AimNext, EventsOf
  <2>2. CASE q # t
    <3>1. task'[q] = task[q] /\ AimOf(task[q]) /\ EventsOf(q, task[q])
      BY <1>1, <2>2 DEF CalmInv
    <3>2. task[q].pc \in Aiming => task[q].target \in Pools
      BY DEF Base, ShapeOf
    <3>. QED  BY <3>1, <3>2 DEF AimOf, EventsOf
  <2>. QED  BY <2>1, <2>2
<1>3. FreshOnly'
  BY <1>1 DEF FreshOnly, CalmInv
<1>4. ClosingReady'
  <2>. SUFFICES ASSUME NEW q \in Tasks, task'[q].pc = "wait_closed", NEW u \in Tasks
                PROVE  ready' /\ task'[u].pc # "ready_lock"
    BY DEF ClosingReady
  <2>1. CASE q = t
    BY <1>1, <2>1
  <2>2. CASE q # t
    <3>1. task[q].pc = "wait_closed"
      BY <1>1, <2>2
    <3>2. ready /\ task[u].pc # "ready_lock"
      BY <3>1 DEF CalmInv, ClosingReady
    <3>. QED  BY <1>1, <3>2
  <2>. QED  BY <2>1, <2>2
<1>5. OnlyPool'
  BY DEF OnlyPool, CalmInv
<1>6. ClosedForGood'
  BY <1>1 DEF ClosedForGood, CalmInv
<1>7. SlotsConserved'
  BY SlotsKept DEF Base, CalmInv
<1>. QED  BY <1>2, <1>3, <1>4, <1>5, <1>6, <1>7 DEF CalmInv

(* A step that takes the backend its pool, which has no connection out.     *)
LEMMA CalmGo ==
  ASSUME Base, Base', Calm, CalmInv, NEW t \in Tasks, NEW r \in Task,
         task' = [task EXCEPT ![t] = r], Balanced(t, r),
         pool \in Pools, pool' = NoPool, state' = [state EXCEPT ![pool] = "closed"],
         out'[pool] = 0,
         EventsOf(t, r), r.pc = "returned",
         (ready /\ t \in Closers) \/ (~ready /\ lock = t),
         closed' = FALSE \/ (ready /\ \A q \in Tasks : task[q].pc # "ready_lock")
  PROVE  CalmInv'
<1>1. \A q \in Tasks : task'[q] = IF q = t THEN r ELSE task[q]
  BY OthersStay DEF Base
<1>2. ASSUME NEW q \in Tasks, q # t, task[q].pc \in Aiming, task[q].target = pool
      PROVE  task[q].pc = "acquire"
  <2>1. ~task[q].holds
    <3>1. HeldOut'
      BY HeldIsOutNext DEF Base
    <3>2. task'[q] = task[q]
      BY <1>1, <1>2
    <3>. QED  BY <1>2, <3>1, <3>2, AsyncAssumption DEF HeldOut
  <2>2. task[q].pc \notin SettingUp
    <3>1. t # NoTask /\ q # NoTask
      BY AsyncAssumption DEF Tasks
    <3>2. ready => lock = NoTask
      BY DEF Base, ReadyHasPool
    <3>3. task[q].pc \in SettingUp <=> lock = q
      BY DEF Base, ShapeOf
    <3>. QED  BY <1>2, <3>1, <3>2, <3>3
  <2>3. task[q].pc # "wait_closed"
    <3>1. ASSUME task[q].pc = "wait_closed" PROVE FALSE
      <4>1. q \in Closers /\ ready
        BY <3>1 DEF Base, ShapeOf, CalmInv, ClosingReady
      <4>. QED  BY <1>2, <4>1 DEF Calm
    <3>. QED  BY <3>1
  <2>4. task[q].pc \notin Holding
    BY <2>1 DEF Base, ShapeOf
  <2>. QED  BY <1>2, <2>2, <2>3, <2>4 DEF Aiming, SettingUp, Holding
<1>3. ASSUME NEW q \in Tasks PROVE AimOf(task[q])' /\ EventsOf(q, task[q])'
  <2>1. CASE q = t
    BY <1>1, <2>1 DEF AimOf, EventsOf, Aiming, Holding
  <2>2. CASE q # t
    <3>1. task'[q] = task[q] /\ AimOf(task[q]) /\ EventsOf(q, task[q])
      BY <1>1, <2>2 DEF CalmInv
    <3>2. task[q].pc \in Aiming => task[q].target \in Pools
      BY DEF Base, ShapeOf
    <3>3. state \in [Pools -> {"closed", "open", "closing"}]
      BY DEF Base, TypeOK
    <3>4. ASSUME task[q].pc \in Aiming
          PROVE  task[q].pc = "acquire" /\ state'[task[q].target] = "closed"
      <4>1. CASE task[q].target = pool
        BY <1>2, <2>2, <3>3, <3>4, <4>1
      <4>2. CASE task[q].target # pool
        BY <3>1, <3>2, <3>3, <3>4, <4>2 DEF AimOf
      <4>. QED  BY <4>1, <4>2
    <3>. QED  BY <3>1, <3>4 DEF AimOf, EventsOf
  <2>. QED  BY <2>1, <2>2
<1>4. FreshOnly' /\ SetupOwnsPool'
  BY DEF FreshOnly, SetupOwnsPool
<1>5. ASSUME NEW q \in Tasks PROVE task'[q].pc # "wait_closed"
  <2>1. CASE q = t
    BY <1>1, <2>1
  <2>2. CASE q # t
    <3>1. task[q].pc = "wait_closed" => task[q].target = pool
      BY DEF CalmInv, AimOf, Aiming
    <3>. QED  BY <1>1, <1>2, <2>2, <3>1 DEF Aiming
  <2>. QED  BY <2>1, <2>2
<1>6. ClosingReady'
  BY <1>5 DEF ClosingReady
<1>7. OnlyPool'
  BY DEF OnlyPool, CalmInv, Base, TypeOK
<1>8. ClosedForGood'
  <2>. SUFFICES ASSUME closed', NEW q \in Tasks
                PROVE  task'[q].pc \notin SettingUp \cup {"ready_lock"}
    BY DEF ClosedForGood
  <2>1. ready /\ task[q].pc # "ready_lock"
    OBVIOUS
  <2>2. lock = NoTask /\ q # NoTask
    BY <2>1, AsyncAssumption DEF Base, ReadyHasPool, Tasks
  <2>3. task[q].pc \notin SettingUp
    BY <2>2 DEF Base, ShapeOf
  <2>. QED  BY <1>1, <2>1, <2>3 DEF SettingUp
<1>9. SlotsConserved'
  BY SlotsKept DEF Base, CalmInv
<1>. QED  BY <1>3, <1>4, <1>6, <1>7, <1>8, <1>9 DEF CalmInv

-----------------------------------------------------------------------------
(* CalmInv, action by action *)

(* What a task's await tells about the globals. *)
LEMMA Knows ==
  ASSUME Base, CalmInv, NEW t \in Tasks
  PROVE  /\ task[t] \in Task /\ t # NoTask /\ NoPool \notin Pools
         /\ ShapeOf(t, task[t], lock) /\ AimOf(task[t]) /\ EventsOf(t, task[t])
         /\ t \in Callers \/ t \in Closers
         /\ task[t].pc \in SettingUp => ~ready /\ lock = t
         /\ task[t].pc \in SettingUp \cup {"ready_lock"} => closed = FALSE
         /\ task[t].pc \in Holding => task[t].holds /\ task[t].target = pool /\ pool \in Pools
<1>1. /\ task[t] \in Task /\ t # NoTask /\ NoPool \notin Pools
      /\ ShapeOf(t, task[t], lock) /\ AimOf(task[t]) /\ EventsOf(t, task[t])
      /\ t \in Callers \/ t \in Closers
  BY AsyncAssumption DEF Base, TypeOK, CalmInv, Tasks
<1>2. task[t].pc \in SettingUp => ~ready /\ lock = t
  BY <1>1 DEF ShapeOf, Base, ReadyHasPool
<1>3. task[t].pc \in SettingUp \cup {"ready_lock"} => closed = FALSE
  BY DEF CalmInv, ClosedForGood, Base, TypeOK
<1>4. task[t].pc \in Holding => task[t].holds /\ task[t].target = pool /\ pool \in Pools
  BY <1>1 DEF ShapeOf, AimOf, Aiming, Holding
<1>. QED  BY <1>1, <1>2, <1>3, <1>4

(* A call begins. *)
LEMMA CallCalm ==
  ASSUME Base, Calm, CalmInv, NEW t \in Tasks, Call(t)
  PROVE  CalmInv'
<1>. DEFINE r == IF ready THEN Acquiring(Idle) ELSE [Idle EXCEPT !.pc = "ready_lock"]
<1>1. r \in Task /\ ~r.holds
  BY IdleType, AcquiringGives DEF Base, Idle, Task
<1>2. EventsOf(t, r) /\ AimOf(r) /\ r.pc \notin {"create_pool", "wait_closed"}
      /\ (r.pc = "ready_lock" => ~ready)
  <2>1. CASE ready
    <3>1. Idle.events = 0
      BY DEF Idle
    <3>. QED  BY <2>1, <3>1, IdleType, AcquiringGives
              DEF Base, EventsOf, AimOf, Aiming, Holding
  <2>2. CASE ~ready
    BY <2>2 DEF EventsOf, AimOf, Aiming, Holding, Idle
  <2>. QED  BY <2>1, <2>2
<1>3. task' = [task EXCEPT ![t] = r] /\ UNCHANGED <<ready, lock, pool, state, out>>
      /\ closed' = FALSE
  BY DEF Call, backend
<1>4. ~task[t].holds
  BY Knows DEF Call, ShapeOf, Holding
<1>. HIDE DEF r
<1>5. Balanced(t, r)
  BY <1>1, <1>3, <1>4, BalanceSame DEF Base
<1>6. AimNext(r) /\ SetupOwnsPool'
  BY <1>2, <1>3 DEF AimOf, AimNext, SetupOwnsPool, CalmInv
<1>. QED  BY <1>1, <1>2, <1>3, <1>5, <1>6, CalmStay

(* A task gets the lock. *)
LEMMA GetLockCalm ==
  ASSUME Base, Calm, CalmInv, NEW t \in Tasks, GetLock(t)
  PROVE  CalmInv'
<1>1. /\ task[t] \in Task /\ task[t].pc = "ready_lock" /\ ~task[t].holds /\ closed = FALSE
      /\ task[t].events = 0 /\ t # NoTask /\ lock = NoTask
      /\ UNCHANGED <<ready, pool, state, out, closed>>
  BY Knows DEF GetLock, ShapeOf, Holding, EventsOf
<1>2. CASE ready
  <2>. DEFINE r == Acquiring(task[t])
  <2>1. r \in Task /\ ~r.holds
    BY <1>1, AcquiringGives DEF Base
  <2>2. EventsOf(t, r) /\ AimOf(r) /\ r.pc \in {"acquire", "returned"}
    BY <1>1, AcquiringGives DEF Base, EventsOf, AimOf, Aiming, Holding
  <2>3. task' = [task EXCEPT ![t] = r] /\ UNCHANGED lock
    BY <1>2 DEF GetLock
  <2>. HIDE DEF r
  <2>4. Balanced(t, r)
    BY <1>1, <2>1, BalanceSame DEF Base
  <2>5. AimNext(r) /\ SetupOwnsPool'
    BY <1>1, <1>2, <2>2, <2>3 DEF AimOf, AimNext, SetupOwnsPool
  <2>. QED  BY <1>1, <2>1, <2>2, <2>3, <2>4, <2>5, CalmStay
<1>3. CASE ~ready
  <2>. DEFINE r == [task[t] EXCEPT !.pc = "create_pool"]
  <2>1. r \in Task
    BY <1>1 DEF Task
  <2>2. r.pc = "create_pool" /\ r.events = 0 /\ r.holds = task[t].holds
    BY <1>1 DEF Task
  <2>3. task' = [task EXCEPT ![t] = r] /\ lock' = t
    BY <1>3 DEF GetLock
  <2>. HIDE DEF r
  <2>4. Balanced(t, r)
    BY <1>1, <2>1, <2>2, BalanceSame DEF Base
  <2>5. EventsOf(t, r) /\ AimNext(r) /\ SetupOwnsPool'
    BY <1>1, <2>2, <2>3 DEF EventsOf, AimNext, Aiming, Holding, SetupOwnsPool
  <2>6. pool = NoPool
    BY <1>1, <1>3 DEF CalmInv, SetupOwnsPool
  <2>. QED  BY <1>1, <2>1, <2>2, <2>3, <2>4, <2>5, <2>6, CalmStay
<1>. QED  BY <1>2, <1>3

(* create_pool returns: the only pool there is. *)
LEMMA CreatePoolCalm ==
  ASSUME Base, Calm, CalmInv, NEW t \in Tasks, CreatePool(t)
  PROVE  CalmInv'
<1>1. PICK k \in Pools :
        /\ Unused(k) /\ pool' = k /\ state' = [state EXCEPT ![k] = "open"]
        /\ IF AutoMigrate
           THEN /\ task' = [task EXCEPT ![t].pc = "migrate_acquire", ![t].target = k]
                /\ UNCHANGED <<ready, lock>>
           ELSE /\ task' = [task EXCEPT ![t] = Waiting(task[t], k)]
                /\ ready' = TRUE /\ lock' = NoTask
  BY DEF CreatePool
<1>2. /\ task[t] \in Task /\ task[t].pc = "create_pool" /\ ~task[t].holds /\ closed = FALSE
      /\ task[t].events = 0 /\ t # NoTask /\ lock = t /\ ~ready /\ pool = NoPool
      /\ NoPool \notin Pools /\ UNCHANGED <<out, closed>>
  BY Knows DEF CreatePool, ShapeOf, Holding, SettingUp, EventsOf, CalmInv, FreshOnly
<1>. DEFINE pc == IF AutoMigrate THEN "migrate_acquire" ELSE "acquire"
            r == [task[t] EXCEPT !.pc = pc, !.target = k]
<1>3. task' = [task EXCEPT ![t] = r]
  BY <1>1 DEF Waiting, Base, TypeOK
<1>4. pc \in {"migrate_acquire", "acquire"}
  OBVIOUS
<1>. HIDE DEF pc
<1>5. r \in Task
  BY <1>2, <1>4, MovedType
<1>6. r.pc = pc /\ r.target = k /\ r.events = 0 /\ r.holds = task[t].holds
  BY <1>2 DEF Task
<1>. HIDE DEF r
<1>7. \A q \in Tasks : task'[q] = IF q = t THEN r ELSE task[q]
  BY <1>3, <1>5, OthersStay DEF Base
<1>8. ASSUME NEW q \in Tasks
      PROVE  /\ AimOf(task[q])' /\ EventsOf(q, task[q])'
             /\ task'[q].pc # "create_pool" /\ task'[q].pc # "wait_closed"
  <2>1. CASE q = t
    BY <1>1, <1>4, <1>6, <1>7, <2>1 DEF AimOf, EventsOf
  <2>2. CASE q # t
    <3>1. /\ task'[q] = task[q] /\ AimOf(task[q]) /\ EventsOf(q, task[q])
          /\ ShapeOf(q, task[q], lock)
          /\ task[q].target # k /\ state \in [Pools -> {"closed", "open", "closing"}]
      BY <1>1, <1>7, <2>2 DEF CalmInv, Base, TypeOK, Unused
    <3>2. task[q].pc \notin SettingUp /\ task[q].pc # "wait_closed"
      BY <1>2, <2>2, <3>1 DEF ShapeOf, CalmInv, ClosingReady
    <3>3. ASSUME task[q].pc \in Aiming
          PROVE  task[q].pc = "acquire" /\ state'[task[q].target] = "closed"
      <4>1. task[q].target \in Pools
        BY <3>1, <3>3 DEF ShapeOf
      <4>. QED  BY <1>1, <1>2, <3>1, <3>3, <4>1 DEF AimOf
    <3>. QED  BY <3>1, <3>2, <3>3 DEF AimOf, EventsOf, SettingUp
  <2>. QED  BY <2>1, <2>2
<1>9. FreshOnly' /\ ClosingReady'
  BY <1>8 DEF FreshOnly, ClosingReady
<1>10. SetupOwnsPool'
  BY <1>1, <1>2 DEF SetupOwnsPool
<1>11. OnlyPool'
  <2>1. \A j \in Pools : state[j] = "closed"
    BY <1>2 DEF CalmInv, OnlyPool
  <2>. QED  BY <1>1, <2>1 DEF OnlyPool, Base, TypeOK
<1>12. ClosedForGood'
  BY <1>2 DEF ClosedForGood
<1>13. SlotsConserved'
  <2>1. Balanced(t, r)
    BY <1>2, <1>5, <1>6, BalanceSame DEF Base
  <2>. QED  BY <1>3, <1>5, <2>1, SlotsKept DEF Base, CalmInv
<1>. QED  BY <1>8, <1>9, <1>10, <1>11, <1>12, <1>13 DEF CalmInv

(* Steps that change only their task, who holds what it held or nothing,    *)
(* and perhaps give up the lock when there is no pool.                      *)
LEMMA CalmAlone ==
  ASSUME Base, Calm, CalmInv, NEW t \in Tasks, NEW r \in Task,
         task' = [task EXCEPT ![t] = r], Balanced(t, r),
         UNCHANGED <<ready, pool, state, closed>>,
         lock' = lock \/ pool = NoPool,
         EventsOf(t, r), AimOf(r),
         r.pc \notin {"create_pool", "ready_lock", "wait_closed"},
         r.pc \in SettingUp => task[t].pc \in SettingUp
  PROVE  CalmInv'
<1>1. AimNext(r)
  BY DEF AimOf, AimNext
<1>2. SetupOwnsPool'
  BY DEF SetupOwnsPool, CalmInv
<1>. QED  BY <1>1, <1>2, CalmStay

(* Steps that end a call without a connection. *)
LEMMA EndingsCalm ==
  ASSUME Base, Calm, CalmInv, NEW t \in Tasks,
         CreatePoolFails(t) \/ MigrationFailsPoolGone(t) \/ AcquireFails(t) \/ Return(t)
  PROVE  CalmInv'
<1>1. task[t] \in Task /\ ShapeOf(t, task[t], lock) /\ EventsOf(t, task[t])
  BY Knows
<1>2. CASE CreatePoolFails(t) \/ AcquireFails(t)
  <2>. DEFINE r == Finished(task[t], "StorageError")
  <2>1. ~task[t].holds /\ task[t].events = 0
    BY <1>1, <1>2 DEF CreatePoolFails, AcquireFails, ShapeOf, EventsOf, Holding
  <2>2. r \in Task /\ ~r.holds /\ r.pc = "returned"
    BY <1>1, <2>1, Ended
  <2>3. r.events = 1
    BY <1>1, <2>1, EndFields
  <2>4. /\ task' = [task EXCEPT ![t] = r] /\ UNCHANGED <<ready, pool, state, out, closed>>
        /\ lock' = lock \/ pool = NoPool
    BY <1>2 DEF CreatePoolFails, AcquireFails, backend, CalmInv, FreshOnly
  <2>. HIDE DEF r
  <2>5. Balanced(t, r)
    BY <2>1, <2>2, <2>4, BalanceSame DEF Base
  <2>6. EventsOf(t, r) /\ AimOf(r) /\ r.pc \notin SettingUp
    BY <2>2, <2>3 DEF EventsOf, AimOf, Aiming, Holding, SettingUp
  <2>. QED  BY <2>2, <2>4, <2>5, <2>6, CalmAlone
<1>3. CASE MigrationFailsPoolGone(t)
  <2>1. pool = NoPool \/ task[t].target # pool
    BY <1>3 DEF MigrationFailsPoolGone, CanCloseAfter, CanRelease
  <2>2. task[t].pc \in {"migrate", "migrate_acquire"}
    BY <1>3 DEF MigrationFailsPoolGone
  <2>3. task[t].target = pool /\ pool \in Pools
    BY <1>1, <2>2, Knows DEF AimOf, ShapeOf, Aiming, Holding
  <2>. QED  BY <2>1, <2>3, AsyncAssumption
<1>4. CASE Return(t)
  <2>1. Idle.pc = "idle" /\ ~Idle.holds /\ Idle.events = 0
    BY DEF Idle
  <2>2. task' = [task EXCEPT ![t] = Idle] /\ UNCHANGED <<ready, lock, pool, state, out, closed>>
    BY <1>4 DEF Return, backend
  <2>3. ~task[t].holds
    BY <1>1, <1>4 DEF Return, ShapeOf, Holding
  <2>4. Balanced(t, Idle)
    BY <2>1, <2>2, <2>3, IdleType, BalanceSame DEF Base
  <2>5. EventsOf(t, Idle) /\ AimOf(Idle) /\ Idle.pc \notin SettingUp
    BY <2>1 DEF EventsOf, AimOf, Aiming, Holding, SettingUp
  <2>. QED  BY <2>1, <2>2, <2>4, <2>5, IdleType, CalmAlone
<1>. QED  BY <1>2, <1>3, <1>4

(* Steps that take a connection: the pool is not closed, so it is the       *)
(* backend's.                                                               *)
LEMMA TakingsCalm ==
  ASSUME Base, Calm, CalmInv, NEW t \in Tasks, MigrateAcquire(t) \/ Acquire(t)
  PROVE  CalmInv'
<1>1. /\ task[t] \in Task /\ ~task[t].holds /\ task[t].target \in Pools
      /\ task[t].pc \in {"migrate_acquire", "acquire"} /\ task[t].events = 0
      /\ task[t].target = pool
  BY Knows DEF MigrateAcquire, Acquire, ShapeOf, AimOf, EventsOf, Aiming, Holding
<1>. DEFINE pc == IF task[t].pc = "migrate_acquire" THEN "migrate" ELSE "work"
            r == [task[t] EXCEPT !.pc = pc, !.holds = TRUE]
<1>2. r \in Task /\ r.pc = pc /\ r.holds /\ r.target = task[t].target /\ r.events = 0
  <2>1. [task[t] EXCEPT !.pc = pc] \in Task
    BY <1>1 DEF Task
  <2>2. r \in Task
    BY <1>1, <2>1 DEF Task
  <2>3. r.pc = pc /\ r.holds /\ r.target = task[t].target /\ r.events = task[t].events
    BY <1>1 DEF Task
  <2>. QED  BY <1>1, <2>2, <2>3
<1>3. task' = [task EXCEPT ![t] = r]
  BY DEF MigrateAcquire, Acquire, Base, TypeOK
<1>4. /\ out' = [out EXCEPT ![r.target] = @ + 1]
      /\ UNCHANGED <<ready, lock, pool, state, closed>>
  BY <1>2 DEF MigrateAcquire, Acquire, backend
<1>5. /\ EventsOf(t, r) /\ AimOf(r) /\ r.pc \notin {"create_pool", "ready_lock", "wait_closed"}
      /\ r.pc \in SettingUp => task[t].pc \in SettingUp
  BY <1>1, <1>2 DEF EventsOf, AimOf, SettingUp
<1>. HIDE DEF r
<1>6. Balanced(t, r)
  BY <1>1, <1>2, <1>4, BalanceTake DEF Base
<1>. QED  BY <1>2, <1>3, <1>4, <1>5, <1>6, CalmAlone

(* work(conn) raises, or a retry wakes up. *)
LEMMA RetryCalm ==
  ASSUME Base, Calm, CalmInv, NEW t \in Tasks, WorkFails(t) \/ Wake(t)
  PROVE  CalmInv'
<1>1. task[t] \in Task /\ task[t].events = 0 /\ UNCHANGED <<ready, lock, pool, state, out, closed>>
  BY Knows DEF WorkFails, Wake, EventsOf, backend
<1>2. CASE WorkFails(t)
  <2>. DEFINE r == [task[t] EXCEPT !.pc = "rollback"]
  <2>1. task[t].holds /\ task[t].target = pool
    BY <1>2, Knows DEF WorkFails, Holding
  <2>2. r \in Task /\ r.pc = "rollback" /\ r.target = pool /\ r.holds /\ r.events = 0
    BY <1>1, <2>1 DEF Task
  <2>3. task' = [task EXCEPT ![t] = r]
    BY <1>2 DEF WorkFails, Base, TypeOK
  <2>. HIDE DEF r
  <2>4. Balanced(t, r)
    BY <1>1, <2>1, <2>2, BalanceSame DEF Base
  <2>5. EventsOf(t, r) /\ AimOf(r) /\ r.pc \notin SettingUp
    BY <2>2 DEF EventsOf, AimOf, SettingUp
  <2>. QED  BY <1>1, <2>2, <2>3, <2>4, <2>5, CalmAlone
<1>3. CASE Wake(t)
  <2>. DEFINE r == Acquiring(task[t])
  <2>1. ~task[t].holds
    BY <1>3, Knows DEF Wake, ShapeOf, Holding
  <2>2. r \in Task /\ ~r.holds /\ r.pc \in {"acquire", "returned"}
    BY <1>1, <2>1, AcquiringGives DEF Base
  <2>3. EventsOf(t, r) /\ AimOf(r) /\ r.pc \notin SettingUp
    BY <1>1, AcquiringGives DEF Base, EventsOf, AimOf, Aiming, Holding, SettingUp
  <2>4. task' = [task EXCEPT ![t] = r]
    BY <1>3 DEF Wake
  <2>. HIDE DEF r
  <2>5. Balanced(t, r)
    BY <1>1, <2>1, <2>2, BalanceSame DEF Base
  <2>. QED  BY <1>1, <2>2, <2>3, <2>4, <2>5, CalmAlone
<1>. QED  BY <1>2, <1>3

(* The connection goes back to the backend's pool after the work.           *)
LEMMA WorkEndsCalm ==
  ASSUME Base, Calm, CalmInv, NEW t \in Tasks, WorkDone(t) \/ RolledBack(t)
  PROVE  CalmInv'
<1>. DEFINE m == [task[t] EXCEPT !.holds = FALSE]
<1>1. /\ task[t] \in Task /\ task[t].holds /\ task[t].target = pool /\ task[t].target \in Pools
      /\ task[t].events = 0 /\ UNCHANGED <<ready, lock, pool, state, closed>>
  BY Knows DEF WorkDone, RolledBack, Holding, EventsOf, backend
<1>2. m \in Task /\ ~m.holds
  BY <1>1, EmptyHanded
<1>3. m.events = 0
  BY <1>1 DEF Task
<1>. HIDE DEF m
<1>4. PICK r \in {Finished(m, "ok")} \cup AfterAttempt(m) :
        task' = [task EXCEPT ![t] = r] /\ out' = Released(task[t].target)
  BY <1>1 DEF WorkDone, RolledBack, CanRelease, m
<1>5. r \in Task /\ ~r.holds /\ r.pc \in {"returned", "sleep"}
  BY <1>2, Ended, AttemptGives
<1>6. IF r.pc = "returned" THEN r.events = 1 ELSE r.events = 0
  <2>1. CASE r = Finished(m, "ok")
    BY <1>2, <1>3, <2>1, EndFields
  <2>2. CASE r \in AfterAttempt(m)
    BY <1>2, <1>3, <2>2, AttemptGives
  <2>. QED  BY <2>1, <2>2
<1>7. EventsOf(t, r) /\ AimOf(r) /\ r.pc \notin SettingUp
  BY <1>5, <1>6 DEF EventsOf, AimOf, Aiming, Holding, SettingUp
<1>8. Balanced(t, r)
  BY <1>1, <1>4, <1>5, BalanceGive DEF Base
<1>. QED  BY <1>1, <1>4, <1>5, <1>7, <1>8, CalmAlone

(* The migration is through. *)
LEMMA MigratedCalm ==
  ASSUME Base, Calm, CalmInv, NEW t \in Tasks, Migrated(t)
  PROVE  CalmInv'
<1>. DEFINE m == [task[t] EXCEPT !.holds = FALSE]
            r == Acquiring(m)
<1>1. /\ task[t] \in Task /\ task[t].holds /\ task[t].target = pool /\ task[t].target \in Pools
      /\ task[t].events = 0 /\ closed = FALSE
  BY Knows DEF Migrated, Holding, SettingUp, EventsOf
<1>2. m \in Task /\ ~m.holds
  BY <1>1, EmptyHanded
<1>3. m.events = 0
  BY <1>1 DEF Task
<1>4. /\ task' = [task EXCEPT ![t] = r] /\ out' = Released(task[t].target) /\ ready' = TRUE
      /\ UNCHANGED <<pool, state, closed>>
  BY <1>1 DEF Migrated, CanRelease
<1>. HIDE DEF m
<1>5. r \in Task /\ ~r.holds /\ r.pc \in {"acquire", "returned"}
  BY <1>2, AcquiringGives DEF Base
<1>6. EventsOf(t, r) /\ AimOf(r)
  BY <1>2, <1>3, AcquiringGives DEF Base, EventsOf, AimOf, Aiming, Holding
<1>. HIDE DEF r
<1>7. AimNext(r) /\ SetupOwnsPool'
  BY <1>4, <1>6 DEF AimOf, AimNext, SetupOwnsPool
<1>8. Balanced(t, r)
  BY <1>1, <1>4, <1>5, BalanceGive DEF Base
<1>. QED  BY <1>1, <1>4, <1>5, <1>6, <1>7, <1>8, CalmStay

(* The migration fails: the pool is closed as soon as nobody uses it.       *)
LEMMA MigrationFailsCalm ==
  ASSUME Base, Base', Calm, CalmInv, NEW t \in Tasks, MigrationFails(t)
  PROVE  CalmInv'
<1>. DEFINE m == [task[t] EXCEPT !.holds = FALSE]
            taken == IF task[t].holds THEN Released(pool) ELSE out
<1>1. /\ task[t] \in Task /\ task[t].pc \in SettingUp /\ task[t].events = 0 /\ lock = t
      /\ pool \in Pools /\ (task[t].holds => task[t].target = pool) /\ ready = FALSE
      /\ closed = FALSE /\ t # NoTask
  BY Knows DEF Base, TypeOK, SettingUp, MigrationFails, CanCloseAfter, CanRelease, EventsOf
<1>2. m \in Task /\ ~m.holds
  BY <1>1, EmptyHanded
<1>3. m.events = 0 /\ UNCHANGED <<ready, closed>>
  BY <1>1 DEF Task, MigrationFails
<1>4. CloseAfterMigration(t, taken) /\ out' = taken
  BY DEF MigrationFails, CloseAfterMigration
<1>5. ASSUME NEW r \in Task, ~r.holds PROVE Balanced(t, r)
  <2>1. CASE task[t].holds
    BY <1>1, <1>4, <1>5, <2>1, BalanceGive DEF Base
  <2>2. CASE ~task[t].holds
    BY <1>4, <1>5, <2>2, BalanceSame DEF Base
  <2>. QED  BY <2>1, <2>2
<1>6. CASE Suspends(t, pool, taken)
  <2>. DEFINE r == [task[t] EXCEPT !.pc = "migrate_close", !.target = pool, !.holds = FALSE]
  <2>1. task' = [task EXCEPT ![t] = r] /\ state' = [state EXCEPT ![pool] = "closing"]
        /\ UNCHANGED <<pool, lock>>
    BY <1>4, <1>6 DEF CloseAfterMigration, Base, TypeOK
  <2>2. r \in Task
    <3>1. [task[t] EXCEPT !.pc = "migrate_close", !.target = pool] \in Task
      BY <1>1, MovedType
    <3>. QED  BY <3>1, EmptyHanded
  <2>3. r.pc = "migrate_close" /\ r.target = pool /\ ~r.holds /\ r.events = 0
    BY <1>1 DEF Task
  <2>4. \A k \in Pools : state'[k] = "closed" <=> state[k] = "closed"
    <3>1. state[pool] # "closed"
      BY <1>1, AsyncAssumption DEF Base, PoolOpen
    <3>. QED  BY <1>1, <2>1, <3>1 DEF Base, TypeOK
  <2>. HIDE DEF r
  <2>5. EventsOf(t, r) /\ AimNext(r) /\ SetupOwnsPool'
    BY <1>1, <2>1, <2>3 DEF EventsOf, AimNext, SetupOwnsPool
  <2>6. Balanced(t, r)
    BY <1>5, <2>2, <2>3
  <2>. QED  BY <1>1, <1>3, <2>1, <2>2, <2>3, <2>4, <2>5, <2>6, CalmStay
<1>7. CASE ~Suspends(t, pool, taken)
  <2>. DEFINE r == Finished(m, "StorageError")
  <2>1. task' = [task EXCEPT ![t] = r] /\ state' = [state EXCEPT ![pool] = "closed"]
        /\ pool' = NoPool
    BY <1>4, <1>7 DEF CloseAfterMigration
  <2>. HIDE DEF m
  <2>2. r \in Task /\ ~r.holds /\ r.pc = "returned"
    BY <1>2, Ended
  <2>3. r.events = 1
    BY <1>2, <1>3, EndFields
  <2>4. out'[pool] = 0
    <3>1. out'[pool] \in 0..PoolMax
      BY <1>1 DEF Base, TypeOK
    <3>2. ~(out'[pool] > 0)
      BY <1>4, <1>7 DEF Suspends
    <3>. QED  BY <3>1, <3>2, AsyncAssumption
  <2>. HIDE DEF r
  <2>5. EventsOf(t, r) /\ Balanced(t, r)
    BY <1>5, <2>2, <2>3 DEF EventsOf
  <2>. QED  BY <1>1, <1>3, <2>1, <2>2, <2>4, <2>5, CalmGo
<1>. QED  BY <1>6, <1>7

(* wait_closed comes back: the pool that is forgotten is the one that was   *)
(* closed.                                                                  *)
LEMMA ClosedCalm ==
  ASSUME Base, Base', Calm, CalmInv, NEW t \in Tasks, MigrationClosed(t) \/ Closed(t)
  PROVE  CalmInv'
<1>. DEFINE r == IF task[t].pc = "wait_closed" THEN Raised(task[t], "ok")
                 ELSE Finished(task[t], "StorageError")
<1>1. /\ task[t] \in Task /\ task[t].target = pool /\ pool \in Pools /\ ~task[t].holds
      /\ task[t].events = 0
  BY Knows DEF MigrationClosed, Closed, ShapeOf, AimOf, Aiming, Holding, EventsOf
<1>2. /\ task' = [task EXCEPT ![t] = r] /\ pool' = NoPool /\ out[pool] = 0 /\ out' = out
      /\ state' = [state EXCEPT ![pool] = "closed"]
  BY <1>1 DEF MigrationClosed, Closed
<1>3. r \in Task /\ ~r.holds /\ r.pc = "returned"
  <2>1. task[t] \in Task /\ ~task[t].holds
    BY <1>1
  <2>. QED  BY <2>1, Ended
<1>4. /\ (ready /\ t \in Closers) \/ (~ready /\ lock = t)
      /\ closed' = FALSE \/ (ready /\ \A q \in Tasks : task[q].pc # "ready_lock")
  <2>1. CASE MigrationClosed(t)
    BY <2>1, Knows DEF MigrationClosed, SettingUp
  <2>2. CASE Closed(t)
    <3>1. t \in Closers
      BY <2>2, Knows DEF Closed, ShapeOf
    <3>. QED  BY <2>2, <3>1 DEF Closed, CalmInv, ClosingReady
  <2>. QED  BY <2>1, <2>2
<1>5. EventsOf(t, r)
  <2>1. CASE MigrationClosed(t)
    <3>1. r.events = 1
      BY <1>1, <2>1, EndFields DEF MigrationClosed
    <3>. QED  BY <1>3, <3>1 DEF EventsOf
  <2>2. CASE Closed(t)
    <3>1. t \notin Callers
      BY <2>2, Knows, AsyncAssumption DEF Closed, ShapeOf
    <3>. QED  BY <1>3, <3>1 DEF EventsOf
  <2>. QED  BY <2>1, <2>2
<1>. HIDE DEF r
<1>6. Balanced(t, r)
  BY <1>1, <1>2, <1>3, BalanceSame DEF Base
<1>. QED  BY <1>1, <1>2, <1>3, <1>4, <1>5, <1>6, CalmGo

(* close() begins, on a backend that is set up. *)
LEMMA CloseCalm ==
  ASSUME Base, Base', Calm, CalmInv, NEW t \in Tasks, Close(t)
  PROVE  CalmInv'
<1>1. /\ task[t] \in Task /\ t \in Closers /\ ~task[t].holds /\ t \notin Callers
      /\ UNCHANGED <<lock, out>>
  BY Knows, AsyncAssumption DEF Close, ShapeOf, Holding
<1>2. /\ ready = TRUE /\ pool \in Pools /\ pool # NoPool /\ state[pool] # "closed"
      /\ \A q \in Tasks : task[q].pc # "ready_lock"
  <2>1. SetUp
    BY DEF Close, Calm
  <2>2. ASSUME NEW q \in Tasks PROVE task[q].pc # "ready_lock"
    <3>1. q \in Callers \/ task[q].pc \in {"idle", "wait_closed", "returned"}
      BY Knows DEF ShapeOf
    <3>. QED  BY <2>1, <3>1 DEF SetUp
  <2>. QED  BY <2>1, <2>2 DEF SetUp, Base, TypeOK, ReadyHasPool
<1>3. CASE Suspends(t, pool, out)
  <2>. DEFINE r == [Idle EXCEPT !.pc = "wait_closed", !.target = pool]
  <2>1. r \in Task
    BY <1>2, IdleType, MovedType
  <2>2. r.pc = "wait_closed" /\ r.target = pool /\ ~r.holds /\ r.events = 0
    BY DEF Idle
  <2>3. task' = [task EXCEPT ![t] = r] /\ state' = [state EXCEPT ![pool] = "closing"]
        /\ UNCHANGED <<ready, pool, closed>>
    BY <1>2, <1>3 DEF Close
  <2>4. \A k \in Pools : state'[k] = "closed" <=> state[k] = "closed"
    BY <1>2, <2>3 DEF Base, TypeOK
  <2>. HIDE DEF r
  <2>5. EventsOf(t, r) /\ AimNext(r) /\ SetupOwnsPool'
    BY <1>2, <2>2, <2>3 DEF EventsOf, AimNext, SetupOwnsPool
  <2>6. Balanced(t, r)
    BY <1>1, <2>1, <2>2, BalanceSame DEF Base
  <2>7. r.pc \notin SettingUp \cup {"ready_lock"}
    BY <2>2 DEF SettingUp
  <2>. QED  BY <1>2, <2>1, <2>2, <2>3, <2>4, <2>5, <2>6, <2>7, CalmStay
<1>4. CASE ~Suspends(t, pool, out)
  <2>. DEFINE r == Raised(Idle, "ok")
  <2>1. r \in Task /\ ~r.holds /\ r.pc = "returned"
    <3>1. Idle \in Task /\ ~Idle.holds
      BY IdleType DEF Idle
    <3>. QED  BY <3>1, Ended
  <2>2. task' = [task EXCEPT ![t] = r] /\ state' = [state EXCEPT ![pool] = "closed"]
        /\ pool' = NoPool
    BY <1>2, <1>4 DEF Close
  <2>3. out'[pool] = 0
    <3>1. out[pool] \in 0..PoolMax
      BY <1>2 DEF Base, TypeOK
    <3>2. ~(out[pool] > 0)
      BY <1>4 DEF Suspends
    <3>. QED  BY <1>1, <3>1, <3>2, AsyncAssumption
  <2>. HIDE DEF r
  <2>4. EventsOf(t, r)
    BY <1>1, <2>1 DEF EventsOf
  <2>5. Balanced(t, r)
    BY <1>1, <2>1, BalanceSame DEF Base
  <2>. QED  BY <1>1, <1>2, <2>1, <2>2, <2>3, <2>4, <2>5, CalmGo
<1>. QED  BY <1>3, <1>4

-----------------------------------------------------------------------------
(* The theorems *)

(* At first nothing is there. *)
LEMMA InitCalm == Init => CalmInv
<1>. SUFFICES ASSUME Init PROVE CalmInv
  OBVIOUS
<1>1. \A t \in Tasks : task[t] = Idle /\ ~Idle.holds /\ Idle.pc = "idle" /\ Idle.events = 0
  BY DEF Init, Idle
<1>2. \A t \in Tasks : AimOf(task[t]) /\ EventsOf(t, task[t])
  BY <1>1 DEF AimOf, EventsOf, Aiming, Holding
<1>3. FreshOnly /\ ClosingReady /\ SetupOwnsPool /\ OnlyPool /\ ClosedForGood
  BY <1>1 DEF Init, FreshOnly, ClosingReady, SetupOwnsPool, OnlyPool, ClosedForGood
<1>4. SlotsConserved
  <2>1. ASSUME NEW k \in Pools
        PROVE  out[k] = Cardinality({t \in Tasks : task[t].holds /\ task[t].target = k})
    <3>1. {t \in Tasks : task[t].holds /\ task[t].target = k} = {}
      BY <1>1
    <3>. QED  BY <3>1, FS_EmptySet DEF Init
  <2>. QED  BY <2>1 DEF SlotsConserved
<1>. QED  BY <1>2, <1>3, <1>4 DEF CalmInv

(* Every step keeps CalmInv when all is calm. *)
LEMMA NextCalm == Calm /\ Base /\ Base' /\ CalmInv /\ [Next]_vars => CalmInv'
<1>. SUFFICES ASSUME Calm, Base, Base', CalmInv, [Next]_vars PROVE CalmInv'
  OBVIOUS
<1>1. CASE UNCHANGED vars
  BY <1>1 DEF vars, CalmInv, AimOf, FreshOnly, ClosingReady, SetupOwnsPool, OnlyPool,
              ClosedForGood, SlotsConserved
<1>2. CASE Next
  <2>1. PICK t \in Tasks : Call(t) \/ Close(t) \/ Resume(t) \/ Cancel(t) \/ Return(t)
    BY <1>2 DEF Next
  <2>2. CASE Resume(t)
    BY <2>2, GetLockCalm, CreatePoolCalm, EndingsCalm, TakingsCalm, MigratedCalm,
       MigrationFailsCalm, ClosedCalm, WorkEndsCalm, RetryCalm DEF Resume
  <2>3. ~Cancel(t)
    BY DEF Cancel, Calm
  <2>. QED  BY <2>1, <2>2, <2>3, CallCalm, CloseCalm, EndingsCalm
<1>. QED  BY <1>1, <1>2

(* With one task at a time that closes a backend that is set up, and no     *)
(* cancellation, the whole invariant holds.                                 *)
THEOREM Invariance ==
  ASSUME Calm
  PROVE  Spec => []IInv
<1>1. Init => IInv
  BY InitBase, InitCalm DEF IInv
<1>2. IInv /\ [Next]_vars => IInv'
  BY NextBase, NextCalm DEF IInv
<1>. QED  BY <1>1, <1>2, PTL DEF Spec

(* The lock, the pools and the tasks stay well formed: no pool hands out    *)
(* more than pool_max_size connections or takes one back twice, whatever is *)
(* cancelled or closed when.                                                *)
THEOREM TypeCorrect == Spec => []TypeOK
<1>1. Base => TypeOK
  BY DEF Base
<1>. QED  BY <1>1, BaseInvariance, PTL

(* _ensure_ready: a backend that calls take for ready has a pool that can   *)
(* be used or is being closed, whatever is cancelled or closed when and by  *)
(* however many tasks.                                                      *)
THEOREM ReadyBackendHasPool == Spec => []ReadyHasPool
<1>1. Base => ReadyHasPool
  BY DEF Base
<1>. QED  BY <1>1, BaseInvariance, PTL

(* _run: every connection that is out is in the hands of a task.            *)
THEOREM NoSlotIsLost ==
  ASSUME Calm
  PROVE  Spec => []SlotsConserved
<1>1. IInv => SlotsConserved
  BY DEF IInv, CalmInv
<1>. QED  BY <1>1, Invariance, PTL

(* _ensure_ready: any number of first callers create one pool, and a setup  *)
(* that fails leaves none behind.                                           *)
THEOREM OnePoolOnly ==
  ASSUME Calm
  PROVE  Spec => []PoolNotLeaked
<1>1. IInv => PoolNotLeaked
  BY DEF IInv, CalmInv, OnlyPool, PoolNotLeaked
<1>. QED  BY <1>1, Invariance, PTL

(* close() waits: whoever holds a connection finds its pool to give it to.  *)
THEOREM PoolStaysInPlace ==
  ASSUME Calm
  PROVE  Spec => []PoolStays
<1>1. IInv => PoolStays
  BY DEF IInv, CalmInv, AimOf, Base, ShapeOf, Aiming, Holding, PoolStays
<1>. QED  BY <1>1, Invariance, PTL

(* _emit: one event per call, whichever attempt fails where.                *)
THEOREM OneEventPerCall ==
  ASSUME Calm
  PROVE  Spec => []OneEvent
<1>1. IInv => OneEvent
  BY DEF IInv, CalmInv, EventsOf, OneEvent, Tasks
<1>. QED  BY <1>1, Invariance, PTL

(* close() releases: once it has returned, no pool is left open, even while *)
(* calls that were under way still retry.                                   *)
THEOREM CloseReleases ==
  ASSUME Calm
  PROVE  Spec => []ReleasedByClose
<1>1. IInv => ReleasedByClose
  BY AsyncAssumption DEF IInv, CalmInv, OnlyPool, ClosedForGood, ReleasedByClose
<1>. QED  BY <1>1, Invariance, PTL
=============================================================================
