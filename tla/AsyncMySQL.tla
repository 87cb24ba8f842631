----------------------------- MODULE AsyncMySQL -----------------------------
(***************************************************************************)
(* The life of an AsyncMySQLBackend: the first call creates the pool and   *)
(* migrates the schema under an asyncio.Lock, every call acquires a pooled *)
(* connection, runs, releases it and retries, and close() takes the pool   *)
(* away.  Tasks of one event loop interleave at every await; what lies     *)
(* between two awaits is one step.                                         *)
(*                                                                         *)
(* aiomysql's pool is external: at most PoolMax connections are out, an    *)
(* acquire raises when the pool is closing already (one that was waiting   *)
(* may still succeed), a wait_closed returns when no connection is out,    *)
(* and a connection that nobody releases stays out.                        *)
(* What the SQL of a call does is in DedupStore and TieredStore.           *)
(*                                                                         *)
(* An operator whose comment begins with "Faulty:" is a plausible mistake  *)
(* in the definition after it; Next never uses it.                         *)
(***************************************************************************)
EXTENDS Integers, FiniteSets

CONSTANTS
  Callers,     (* tasks that call put, get, ...                              *)
  Closers,     (* tasks that call close                                      *)
  Pools,       (* pool objects; a pool that is closed may stand for a new one*)
  PoolMax,     (* pool_max_size                                              *)
  MaxRetries,  (* max_retries                                                *)
  AutoMigrate, (* auto_migrate                                               *)
  EarlyClose,  (* TRUE: close may be called before the backend is set up     *)
  Cancels,     (* TRUE: a task may be cancelled at any await                 *)
  NoPool, NoTask

Tasks == Callers \cup Closers

ASSUME AsyncAssumption ==
  /\ IsFiniteSet(Callers) /\ IsFiniteSet(Closers)
  /\ PoolMax \in Nat \ {0} /\ MaxRetries \in Nat
  /\ {AutoMigrate, EarlyClose, Cancels} \subseteq BOOLEAN
  /\ Callers \cap Closers = {}
  /\ NoPool \notin Pools /\ NoTask \notin Callers \cup Closers

VARIABLES
  ready,   (* self._ready                                                    *)
  lock,    (* holder of self._ready_lock, or NoTask                          *)
  pool,    (* self._pool, or NoPool                                          *)
  state,   (* of each pool: "closed" (or not created yet), "open", "closing" *)
  out,     (* how many connections of each pool are checked out              *)
  task,    (* each task                                                      *)
  closed   (* close() has returned and no call has begun since               *)

backend == <<ready, lock, pool>>
vars    == <<ready, lock, pool, state, out, task, closed>>

(* target is the pool whose coroutine a task awaits or whose connection it  *)
(* holds; pc is the await it is at.                                         *)
Task == [
  pc      : {"idle", "ready_lock", "create_pool", "migrate_acquire", "migrate",
             "migrate_close", "acquire", "work", "rollback", "sleep",
             "wait_closed", "returned"},
  target  : Pools \cup {NoPool},
  holds   : BOOLEAN,
  attempt : Nat,
  events  : Nat,
  result  : {"none", "ok", "StorageError", "error", "InternalError", "cancelled"} ]

Idle == [pc |-> "idle", target |-> NoPool, holds |-> FALSE, attempt |-> 0,
         events |-> 0, result |-> "none"]

Init ==
  /\ ready = FALSE /\ lock = NoTask /\ pool = NoPool
  /\ state = [k \in Pools |-> "closed"]
  /\ out = [k \in Pools |-> 0]
  /\ task = [t \in Tasks |-> Idle]
  /\ closed = FALSE

-----------------------------------------------------------------------------
(* Helpers *)

(* A call that ends without an event. *)
Raised(r, result) == [r EXCEPT !.pc = "returned", !.target = NoPool, !.result = result]

(* _emit, then return or raise. *)
Finished(r, result) == [Raised(r, result) EXCEPT !.events = r.events + 1]

Waiting(r, k) == [r EXCEPT !.pc = "acquire", !.target = k]

(* await self._acquire(): a pool that is None (an AttributeError) or that   *)
(* is closing is a StorageError.                                            *)
Acquiring(r) ==
  IF pool # NoPool /\ state[pool] = "open" THEN Waiting(r, pool)
  ELSE Finished(r, "StorageError")

(* self._pool.release(conn) for a connection of pool k. *)
CanRelease(k) == pool = k
Released(k) == [out EXCEPT ![k] = @ - 1]

(* Whether await pool.wait_closed() suspends: it returns at once when no     *)
(* connection is out and no one else is acquiring one.                      *)
Suspends(t, k, taken) ==
  \/ taken[k] > 0
  \/ \E q \in Tasks \ {t} : task[q].target = k /\ task[q].pc \in {"acquire", "migrate_acquire"}

(* A number for aiomysql.create_pool's next pool. *)
Unused(k) == state[k] = "closed" /\ out[k] = 0 /\ k # pool
             /\ \A t \in Tasks : task[t].target # k

-----------------------------------------------------------------------------
(* _ensure_ready *)

(* A call begins: it finds the backend ready, or asks for the lock. *)
Call(t) ==
  /\ t \in Callers /\ task[t].pc = "idle"
  /\ task' = [task EXCEPT ![t] = IF ready THEN Acquiring(Idle)
                                          ELSE [Idle EXCEPT !.pc = "ready_lock"]]
  /\ closed' = FALSE
  /\ UNCHANGED <<backend, state, out>>

(* Faulty: `if self._ready` is not checked again under the lock. *)
GetLockNoRecheck(t) ==
  /\ task[t].pc = "ready_lock" /\ lock = NoTask
  /\ lock' = t
  /\ task' = [task EXCEPT ![t].pc = "create_pool"]
  /\ UNCHANGED <<ready, pool, state, out, closed>>

(* Inside `async with self._ready_lock`, ready is checked again. *)
GetLock(t) ==
  /\ task[t].pc = "ready_lock" /\ lock = NoTask
  /\ IF ready
     THEN /\ task' = [task EXCEPT ![t] = Acquiring(@)]
          /\ UNCHANGED lock
     ELSE /\ task' = [task EXCEPT ![t].pc = "create_pool"]
          /\ lock' = t
  /\ UNCHANGED <<ready, pool, state, out, closed>>

(* create_pool returns: without auto_migrate the backend is ready and the   *)
(* call goes on; with it, a connection is acquired for the migration.       *)
CreatePool(t) ==
  /\ task[t].pc = "create_pool"
  /\ \E k \in Pools :
       /\ Unused(k)
       /\ pool' = k
       /\ state' = [state EXCEPT ![k] = "open"]
       /\ IF AutoMigrate
          THEN /\ task' = [task EXCEPT ![t].pc = "migrate_acquire", ![t].target = k]
               /\ UNCHANGED <<ready, lock>>
          ELSE /\ task' = [task EXCEPT ![t] = Waiting(@, k)]
               /\ ready' = TRUE /\ lock' = NoTask
  /\ UNCHANGED <<out, closed>>

CreatePoolFails(t) ==
  /\ task[t].pc = "create_pool"
  /\ task' = [task EXCEPT ![t] = Finished(@, "StorageError")]
  /\ lock' = NoTask
  /\ UNCHANGED <<ready, pool, state, out, closed>>

MigrateAcquire(t) ==
  /\ task[t].pc = "migrate_acquire"
  /\ state[task[t].target] # "closed" /\ out[task[t].target] < PoolMax
  /\ out' = [out EXCEPT ![task[t].target] = @ + 1]
  /\ task' = [task EXCEPT ![t].pc = "migrate", ![t].holds = TRUE]
  /\ UNCHANGED <<backend, state, closed>>

(* DDL and commit are done; `finally` releases the connection before ready  *)
(* is set.                                                                  *)
Migrated(t) ==
  /\ task[t].pc = "migrate"
  /\ IF CanRelease(task[t].target)
     THEN /\ out' = Released(task[t].target)
          /\ ready' = TRUE
          /\ task' = [task EXCEPT ![t] = Acquiring([@ EXCEPT !.holds = FALSE])]
     ELSE /\ task' = [task EXCEPT ![t] = Finished([@ EXCEPT !.holds = FALSE], "InternalError")]
          /\ UNCHANGED <<out, ready>>
  /\ lock' = NoTask
  /\ UNCHANGED <<pool, state, closed>>

(* What the except branch needs: self._pool, and it is the pool of conn. *)
CanCloseAfter(r) == pool # NoPool /\ (r.holds => CanRelease(r.target))

(* self._pool.close(), await wait_closed(), self._pool = None, raise. *)
CloseAfterMigration(t, taken) ==
  /\ out' = taken
  /\ IF Suspends(t, pool, taken)
     THEN /\ state' = [state EXCEPT ![pool] = "closing"]
          /\ task' = [task EXCEPT ![t].pc = "migrate_close", ![t].target = pool,
                                  ![t].holds = FALSE]
          /\ UNCHANGED <<pool, lock>>
     ELSE /\ state' = [state EXCEPT ![pool] = "closed"]
          /\ task' = [task EXCEPT ![t] = Finished([@ EXCEPT !.holds = FALSE], "StorageError")]
          /\ pool' = NoPool /\ lock' = NoTask

(* Faulty: the connection is not released before wait_closed. *)
MigrationFailsKeepingConn(t) ==
  /\ task[t].pc \in {"migrate_acquire", "migrate"}
  /\ CanCloseAfter(task[t])
  /\ CloseAfterMigration(t, out)
  /\ UNCHANGED <<ready, closed>>

(* Faulty: conn = None is missing, and `finally` releases once more. *)
MigrationFailsTwice(t) ==
  /\ task[t].pc \in {"migrate_acquire", "migrate"}
  /\ CanCloseAfter(task[t])
  /\ CloseAfterMigration(t, IF task[t].holds THEN [out EXCEPT ![pool] = @ - 2] ELSE out)
  /\ UNCHANGED <<ready, closed>>

(* The acquire, a DDL statement or the commit has failed: the connection,   *)
(* if there is one, goes back, and the pool is closed.                      *)
MigrationFails(t) ==
  /\ task[t].pc \in {"migrate_acquire", "migrate"}
  /\ CanCloseAfter(task[t])
  /\ CloseAfterMigration(t, IF task[t].holds THEN Released(pool) ELSE out)
  /\ UNCHANGED <<ready, closed>>

(* The same when close() took the pool away meanwhile: an AttributeError.   *)
MigrationFailsPoolGone(t) ==
  /\ task[t].pc \in {"migrate_acquire", "migrate"}
  /\ ~CanCloseAfter(task[t])
  /\ task' = [task EXCEPT ![t] = Finished([@ EXCEPT !.holds = FALSE], "InternalError")]
  /\ lock' = NoTask
  /\ UNCHANGED <<ready, pool, state, out, closed>>

(* wait_closed returns; "Migration failed" is raised. *)
MigrationClosed(t) ==
  /\ task[t].pc = "migrate_close"
  /\ out[task[t].target] = 0
  /\ state' = [state EXCEPT ![task[t].target] = "closed"]
  /\ pool' = NoPool /\ lock' = NoTask
  /\ task' = [task EXCEPT ![t] = Finished(@, "StorageError")]
  /\ UNCHANGED <<ready, out, closed>>

-----------------------------------------------------------------------------
(* _run *)

Acquire(t) ==
  /\ task[t].pc = "acquire"
  /\ state[task[t].target] # "closed" /\ out[task[t].target] < PoolMax
  /\ out' = [out EXCEPT ![task[t].target] = @ + 1]
  /\ task' = [task EXCEPT ![t].pc = "work", ![t].holds = TRUE]
  /\ UNCHANGED <<backend, state, closed>>

(* pool_timeout, a pool that is closing, a failing connect: never retried. *)
AcquireFails(t) ==
  /\ task[t].pc = "acquire"
  /\ task' = [task EXCEPT ![t] = Finished(@, "StorageError")]
  /\ UNCHANGED <<backend, state, out, closed>>

(* work(conn) and the commit are done: release, emit, return. *)
WorkDone(t) ==
  /\ task[t].pc = "work"
  /\ IF CanRelease(task[t].target)
     THEN /\ out' = Released(task[t].target)
          /\ task' = [task EXCEPT ![t] = Finished([@ EXCEPT !.holds = FALSE], "ok")]
     ELSE /\ task' = [task EXCEPT ![t] = Raised([@ EXCEPT !.holds = FALSE], "InternalError")]
          /\ UNCHANGED out
  /\ UNCHANGED <<backend, state, closed>>

(* work(conn) or the commit raises: await conn.rollback(). *)
WorkFails(t) ==
  /\ task[t].pc = "work"
  /\ task' = [task EXCEPT ![t].pc = "rollback"]
  /\ UNCHANGED <<backend, state, out, closed>>

(* Faulty: every failed attempt emits. *)
AfterAttemptEmitting(r) ==
  {Finished(r, "error")} \cup
  IF r.attempt < MaxRetries
  THEN {[r EXCEPT !.pc = "sleep", !.attempt = r.attempt + 1, !.target = NoPool,
                  !.events = r.events + 1]}
  ELSE {}

(* What a failed attempt may come to: another one if the error is           *)
(* retryable and attempts are left, or the error itself.                    *)
AfterAttempt(r) ==
  {Finished(r, "error")} \cup
  IF r.attempt < MaxRetries
  THEN {[r EXCEPT !.pc = "sleep", !.attempt = r.attempt + 1, !.target = NoPool]}
  ELSE {}

(* Faulty: released only when the error is raised. *)
RolledBackKeeping(t) ==
  /\ task[t].pc = "rollback"
  /\ CanRelease(task[t].target)
  /\ \E r \in AfterAttempt([task[t] EXCEPT !.holds = FALSE]) :
       /\ task' = [task EXCEPT ![t] = r]
       /\ out' = IF r.pc = "returned" THEN Released(task[t].target) ELSE out
  /\ UNCHANGED <<backend, state, closed>>

(* Rolled back, or closed because that failed too: release either way. *)
RolledBack(t) ==
  /\ task[t].pc = "rollback"
  /\ IF CanRelease(task[t].target)
     THEN /\ out' = Released(task[t].target)
          /\ \E r \in AfterAttempt([task[t] EXCEPT !.holds = FALSE]) :
               task' = [task EXCEPT ![t] = r]
     ELSE /\ task' = [task EXCEPT ![t] = Raised([@ EXCEPT !.holds = FALSE], "InternalError")]
          /\ UNCHANGED out
  /\ UNCHANGED <<backend, state, closed>>

(* Faulty: a retry sets the backend up again. *)
WakeEnsuring(t) ==
  /\ task[t].pc = "sleep"
  /\ task' = [task EXCEPT ![t] = IF ready THEN Acquiring(@)
                                          ELSE [@ EXCEPT !.pc = "ready_lock"]]
  /\ UNCHANGED <<backend, state, out, closed>>

(* A retry acquires from whatever pool there is now; it does not go through *)
(* _ensure_ready again.                                                     *)
Wake(t) ==
  /\ task[t].pc = "sleep"
  /\ task' = [task EXCEPT ![t] = Acquiring(@)]
  /\ UNCHANGED <<backend, state, out, closed>>

-----------------------------------------------------------------------------
(* close, cancellation *)

(* The backend has a pool and no call is about to set it up. *)
SetUp == ready /\ \A t \in Callers : task[t].pc # "ready_lock"

(* Nothing to do without a pool; else pool.close(), await wait_closed().    *)
Close(t) ==
  /\ t \in Closers /\ task[t].pc = "idle"
  /\ EarlyClose \/ SetUp
  /\ IF pool = NoPool
     THEN /\ task' = [task EXCEPT ![t] = Raised(Idle, "ok")]
          /\ closed' = TRUE
          /\ UNCHANGED <<ready, pool, state>>
     ELSE IF Suspends(t, pool, out)
     THEN /\ state' = [state EXCEPT ![pool] = "closing"]
          /\ task' = [task EXCEPT ![t] = [Idle EXCEPT !.pc = "wait_closed", !.target = pool]]
          /\ UNCHANGED <<ready, pool, closed>>
     ELSE /\ state' = [state EXCEPT ![pool] = "closed"]
          /\ task' = [task EXCEPT ![t] = Raised(Idle, "ok")]
          /\ pool' = NoPool /\ ready' = FALSE /\ closed' = TRUE
  /\ UNCHANGED <<lock, out>>

(* Faulty: ready is left set. *)
ClosedReady(t) ==
  /\ task[t].pc = "wait_closed"
  /\ out[task[t].target] = 0
  /\ state' = [state EXCEPT ![task[t].target] = "closed"]
  /\ pool' = NoPool /\ closed' = TRUE
  /\ task' = [task EXCEPT ![t] = Raised(@, "ok")]
  /\ UNCHANGED <<ready, lock, out>>

(* Faulty: the pool is dropped without waiting for its connections. *)
ClosedAtOnce(t) ==
  /\ task[t].pc = "wait_closed"
  /\ state' = [state EXCEPT ![task[t].target] = "closed"]
  /\ pool' = NoPool /\ ready' = FALSE /\ closed' = TRUE
  /\ task' = [task EXCEPT ![t] = Raised(@, "ok")]
  /\ UNCHANGED <<lock, out>>

(* wait_closed returns: self._pool, whatever it is by now, is forgotten. *)
Closed(t) ==
  /\ task[t].pc = "wait_closed"
  /\ out[task[t].target] = 0
  /\ state' = [state EXCEPT ![task[t].target] = "closed"]
  /\ pool' = NoPool /\ ready' = FALSE /\ closed' = TRUE
  /\ task' = [task EXCEPT ![t] = Raised(@, "ok")]
  /\ UNCHANGED <<lock, out>>

(* CancelledError is no Exception: `async with` and `finally` run (the lock *)
(* and the connection of the migration are given back), the except branches *)
(* do not.  (Where that release raises, the call ends as in                 *)
(* MigrationFailsPoolGone.)                                                 *)
Cancel(t) ==
  /\ Cancels
  /\ task[t].pc \notin {"idle", "returned"}
  /\ task[t].pc = "migrate" => CanRelease(task[t].target)
  /\ lock' = IF lock = t THEN NoTask ELSE lock
  /\ out' = IF task[t].pc = "migrate" THEN Released(task[t].target) ELSE out
  /\ task' = [task EXCEPT ![t] = Raised([@ EXCEPT !.holds = FALSE], "cancelled")]
  /\ UNCHANGED <<ready, pool, state, closed>>

Return(t) ==
  /\ task[t].pc = "returned"
  /\ task' = [task EXCEPT ![t] = Idle]
  /\ UNCHANGED <<backend, state, out, closed>>

-----------------------------------------------------------------------------
(* An await comes back: with a value or with an exception. *)
Resume(t) ==
  \/ GetLock(t) \/ CreatePool(t) \/ CreatePoolFails(t)
  \/ MigrateAcquire(t) \/ Migrated(t) \/ MigrationFails(t)
  \/ MigrationFailsPoolGone(t) \/ MigrationClosed(t)
  \/ Acquire(t) \/ AcquireFails(t) \/ WorkDone(t) \/ WorkFails(t)
  \/ RolledBack(t) \/ Wake(t) \/ Closed(t)

Next == \E t \in Tasks : Call(t) \/ Close(t) \/ Resume(t) \/ Cancel(t) \/ Return(t)

Spec == Init /\ [][Next]_vars

(* The event loop runs every task whose await is over; the ready lock is    *)
(* given to its waiters in turn; a caller goes on.                          *)
Fairness == \A t \in Tasks : SF_vars(Resume(t)) /\ WF_vars(Return(t))

FairSpec == Spec /\ Fairness

-----------------------------------------------------------------------------
(* Properties *)

TypeOK ==
  /\ ready \in BOOLEAN /\ lock \in Tasks \cup {NoTask} /\ pool \in Pools \cup {NoPool}
  /\ state \in [Pools -> {"closed", "open", "closing"}]
  /\ out \in [Pools -> 0..PoolMax]
  /\ task \in [Tasks -> Task]
  /\ closed \in BOOLEAN

(* Every connection that is checked out is in the hands of a task that will *)
(* give it back ("aiomysql's pool needs an explicit pool.release(conn)").   *)
SlotsConserved ==
  \A k \in Pools : out[k] = Cardinality({t \in Tasks : task[t].holds /\ task[t].target = k})

(* The only pool that is open is the backend's: concurrent first callers    *)
(* create one pool, and a failed setup leaves none behind ("Don't leak the  *)
(* pool if setup fails partway through").                                   *)
PoolNotLeaked == \A k \in Pools : state[k] = "open" => k = pool

(* A connection that was acquired can be released: whoever holds one finds  *)
(* its pool still in self._pool, so no call ends in an AttributeError.      *)
PoolStays == \A t \in Tasks : task[t].holds => task[t].target = pool

(* "Emits exactly one OperationEvent per call", whatever fails on the way.  *)
OneEvent ==
  \A t \in Callers :
    task[t].pc = "returned" /\ task[t].result # "cancelled" => task[t].events = 1

(* close(): "Release underlying database connections."  When it has         *)
(* returned and the calls that were under way have ended, no pool is open.  *)
ReleasedByClose ==
  closed /\ (\A t \in Tasks : task[t].pc \in {"idle", "returned"})
    => \A k \in Pools : state[k] = "closed"

(* A backend that calls take for ready has a pool that can be used or that  *)
(* some close() has begun to take down, and nobody holds _ready_lock,       *)
(* whatever is cancelled or closed when.  (Over a pool that a cancelled     *)
(* close() left half taken down every call raises StorageError until        *)
(* another close() is through with it.)                                     *)
ReadyHasPool == ready => pool # NoPool /\ state[pool] # "closed" /\ lock = NoTask

(* Every call and every close() comes back.                                 *)
AllReturn == \A t \in Tasks : task[t].pc # "idle" ~> task[t].pc = "returned"
=============================================================================
