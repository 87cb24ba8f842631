# TLA+ models of ZeroBucket

ZeroBucket keeps images in a relational database (PostgreSQL, MySQL/MariaDB or
SQLite), optionally de-duplicated by checksum, optionally tiered to an
S3-compatible object store. Its SQL is short; what is hard is what happens
between the statements: several clients, row locks held to the end of a
transaction, a retry loop that runs a whole transaction again, and an object
store that no transaction covers. These modules model that. Everything is
translated from the source of the repository; file names below are relative to
`src/packages/python/src/zerobucket/` unless they start with another package.

## Inventory

| component | state | operations | interacts with | hard behaviour | correct when |
|---|---|---|---|---|---|
| PostgreSQL, dedup mode (`adapters/postgres.py`) | `zerobucket_blobs` (bytes, `ref_count`), `zerobucket_image_refs` | put, put_many, delete, delete_many, get*, migrate_classic_to_dedup | database; `_run` retry loop | concurrent upserts and decrements of one counter, lock order, retries, lost commit acknowledgement | count = number of refs; no dangling ref, no leaked blob; batches atomic; no deadlock over blobs; every call returns; a batch is stored once |
| PostgreSQL, classic mode and tiering | `zerobucket_images`: bytes or a pointer | put, put_many, tier_to_object_storage, delete, delete_many, get, get_many, get_stream | database and bucket | upload inside the transaction, cleanup after it, readers between two stores, crashes | bytes are never in neither place; reads find stored images; objects are removed or reported; return values are true |
| Object storage (`object_storage.py`) | objects by key | upload, download, download_stream, delete | called by the adapters | an upload that raises may have stored the object | upload overwrites; a failed one raises `StorageError` |
| MySQL (`adapters/mysql.py`) | the same tables; DBUtils pool, `_closed` | the same operations; ids drawn by the client before the retry loop; close | `_connect` polls for a slot until a deadline; database and bucket | pool at its limit, counts written back from Python, retry with a drawn id, streams by offset, close between two chunks | as PostgreSQL; a connection goes back once and without its transaction; close stops new work |
| SQLite (`adapters/sqlite.py`) | one file with one writer lock, rowids | the same operations | other processes on the file, the bucket | busy time-outs and retries, upload under the writer lock, streams that hold a snapshot of a rowid | answers say what was done; bytes are never lost; a stream delivers its image |
| Async adapters (`adapters/*_async.py`) | lazily opened pool, ready flag, own pool for MySQL | the same operations as tasks | event loop, cancellation | concurrent first calls, failed migration, cancelled tasks | one migration; a slot is never lost |
| Client (`client.py`, `async_client.py`) | none of its own | put, put_many, get, get_many, delete_many, tier … with hooks | adapters, validation, the caller's hooks | partial failure of batches, preparation in threads, correlation of rows with inputs by id | results line up with inputs; a denied position shows nothing; answers are true |
| Command line (`cli.py`) | counters | verify, tier, migrate, info | adapters | loops over a store that changes | the exit status is true of what is there |
| Validation, optimization (`validation.py`, `optimization.py`, …) | none | validate, optimize | image libraries | none that is concurrent | sequential code on bytes |
| Django (`django-zerobucket`) | cached clients | storage, view | client | check-then-set cache; metadata then stream | one client per key; a view answers 404 or the whole image |
| TypeScript (`packages/typescript`) | shared ready promise, pools, a mutex | the same operations | drivers | a second implementation of all of this | as above |

Every hazard, with the line it bites at and the property that would catch it,
is in `PROJECT.json`.

## Modules

| module | models | proofs |
|---|---|---|
| `ImageStore` | the promise of `adapters/base.py`: a map id -> content, whole batches in one step | |
| `DedupStore` | dedup mode, one SQL statement at a time; implements `ImageStore` | `DedupStoreProofs`, `DedupRefinementProofs` |
| `TieredStore` | classic mode, object storage, readers; implements `ImageStore` | `TieredStoreProofs` |
| `AsyncMySQL` | `AsyncMySQLBackend`: lazy set-up, pool slots, retries, close, cancellation | `AsyncMySQLProofs` |
| `MySQLStore` | `MySQLBackend`: pool, `_run`, every operation in both modes, close; implements `ImageStore` | `MySQLStoreProofs`, `MySQLRefinementProofs` |
| `SQLiteFile` | one database file: tables, rowids, the writer lock, commit and rollback, the bucket beside it | |
| `SQLiteStore` | `SQLiteBackend` on that file | |
| `AsyncSQLite` | `AsyncSQLiteBackend` on that file: lazy migration, threads, cancellation | |
| `SQLiteSystem` | both on one file; the properties | `SQLiteSystemProofs` |
| `Client` | `ZeroBucket` and `AsyncZeroBucket` over a store | |
| `CommandLine` | `zerobucket verify` and `zerobucket tier` over that store; the properties of both | `CommandLineProofs` |
| `MCDedupStore`, `MCTieredStore`, `MCAsyncMySQL`, `MCMySQLStore`, `MCSQLite`, `MCClient` | the symmetry sets for TLC | |

### ImageStore

`images` maps ids to content; `calls` holds the open call of each client. `Put`
stores a complete batch under free ids, `Delete` removes all named images, in
one step. A call may take effect, stay open, and take effect again: `_run`
repeats a transaction whose commit was not acknowledged, so an adapter promises
that an effect is whole, not that it is unique. `ContentImmutable` says that no
image ever changes its content while it exists.

### DedupStore

One client is one thread or process with one call. State and code:

| model | code |
|---|---|
| `blobs`, `refCount`, `refs` | committed rows of the two tables |
| `blobLock`, `refLock` | row locks (of the database) |
| `tx[p].want`, `ids`, `pooled` | arguments of the call; `pooled` is `connection=None` |
| `tx[p].left`, `placed`, `scan`, `deleted`, `counts`, `spent`, `purged` | what the transaction has executed and read: upserts to do, inserted refs, ids the `DELETE` has yet to visit, `deleted_rows`, the counts it sees, decremented blobs, removed blobs |
| `BeginPut`; `UpsertBlob`; `InsertRefs` | `_put_dedup`, `_put_many_dedup`: upserts in sorted checksum order, then the refs |
| `BeginDelete`; `DeleteRef`; `DecrementBlob`; `PurgeBlobs` | `_delete_dedup`, `_delete_many_dedup` |
| `Commit`, `CommitLost` | leaving `with self._pool.connection()`: with and without the client hearing of it |
| `Fail`, `Abort`, `AfterFailure`, `Restarted`, `Raised` | the `except` branch of `_run`: transient and other errors, retry or raise |
| `WaitsFor`, `Deadlocked`, `DeadlockVictim` | lock queues and the engine's deadlock detector |

`ClientIds = FALSE` is PostgreSQL (the server draws the id inside the `INSERT`);
`TRUE` is MySQL (`_put_many_dedup` draws every uuid before `_run`, so a retry
meets its own row and ends in an `IntegrityError`, which is raised).
MySQL inserts each ref right after its blob; nobody can see or name these ids
before the commit, so one step for all of them gives the same behaviours.

### TieredStore

| model | code |
|---|---|
| `row` | `storage_backend` of each committed row; a UUID is used once, so `deleted` stays |
| `objects`, `reported` | the bucket; failed `object_storage_delete` events |
| `rowLock` | locks of `SELECT ... FOR UPDATE` and `DELETE` |
| `SelectForTiering`, `Upload`, `UploadFails`, `UpdateAfterTiering` | the four steps of `tier_to_object_storage.work` |
| `DeleteRow`, `RemoveObject`, `RemoveObjectFails` | `delete_many`: the `DELETE ... RETURNING`, then `_delete_tiered_object` per key |
| `SelectRow`, `ReadChunk`, `ReadObject` | `get`, `get_stream`: the row, then chunks by `substring` or the object by range |
| `Commit`, `CommitLost`, `Fail`, `Abort` | `_run`, as above |
| `Disconnect` | the server drops the connection during the upload; the client finds out at its next statement |
| `Crash` | the client process dies at any point |

`Faults` selects which faults may happen, so that a run says under which
circumstances its property holds. `applied` (rows a call has changed) and
`intact` (the image was stored since the reader's call began) only record
history for the properties.

### AsyncMySQL

One task is one call of an asyncio program. Only an `await` lets another task
run, so what lies between two of them is one step, and `task[t].pc` names the
`await` a task is at.

| model | code (`adapters/mysql_async.py`) |
|---|---|
| `ready`, `lock`, `pool` | `_ready`, the holder of `_ready_lock`, `_pool` |
| `state`, `out` | aiomysql's pools (external): open or closing, connections checked out |
| `Call`, `GetLock`, `CreatePool`, `CreatePoolFails` | `_ensure_ready` up to the pool |
| `MigrateAcquire`, `Migrated`, `MigrationFails`, `MigrationFailsPoolGone`, `MigrationClosed` | the migration and its `except` and `finally` |
| `Acquire`, `AcquireFails` | `_acquire` |
| `WorkDone`, `WorkFails`, `RolledBack`, `Wake` | `_run`: an attempt, its end and the next one |
| `Close`, `Closed` | `close`, before and after `wait_closed` |
| `Cancel` | `CancelledError` at any `await`: no `except Exception` catches it |

`EarlyClose` and `Cancels` say whether a program closes a backend that is not
set up yet and cancels tasks; `SetUp` is the guard that the code lacks and that
the passing runs without `EarlyClose` need. `task[t].events`, `holds` and
`closed` serve the properties. Everything about one connection (the SQL, the
statement that fails) is in the other modules.

### MySQLStore

Threads that share one `MySQLBackend`; one thread has one call.

| model | code (`adapters/mysql.py`) |
|---|---|
| `closed`, `out` | `_closed`; connections checked out of DBUtils' pool (external) |
| `rows`, `blobs` | where the bytes of each committed row are; `ref_count` |
| `lock` | InnoDB's row locks (external) |
| `Check`, `Connect`, `ConnectFails` | `_connect`: the closed check once, then polling until the deadline |
| `Fail`, `Abort`, `AfterFailure`, `Commit`, `CommitLost` | `_run`: rollback, connection back, retry or raise |
| `Insert`; `SortBlobs`, `UpsertBlob` | `put`, `put_many` in both modes |
| `DeleteRows`, `DecrementBlob`, `RemoveObject` | `delete`, `delete_many`: `SELECT ... FOR UPDATE`, the count read, lowered and written back, then the objects |
| `SelectForTiering`, `Upload`, `UploadFails`, `Update` | `tier_to_object_storage`; `Update` needs the connection that has the lock, because `_never_fail_over` forbids another |
| `Disconnect` | the server drops the connection during an upload |
| `Select`, `Fetch` | `get`, `get_many`, `_fetch_tiered_bytes` |
| `StreamInfo`, `ReadChunk`, `ReadObject` | `get_stream`: each chunk is a `_run` of its own, with its own check, connection and retries |

`DedupStore` with `ClientIds = TRUE` treats the same dedup transactions at the
level of single upserts and deadlocks; `MySQLStore` adds the pool, the
read-lower-write decrement, the other operations and both modes. `tx[p].late`
counts connections that were taken after `close()`, for `CloseStops`.

### SQLiteFile, SQLiteStore, AsyncSQLite, SQLiteSystem

SQLite is external and has two halves here: readers see the last committed
state and never wait, and the first write of a transaction takes the lock of the
whole file. A write transaction computes its complete `draft` when it takes the
lock, because nobody else sees or changes anything until the commit installs it
(`Write`, `Install`, `Forget`).

| model | code |
|---|---|
| `db`, `draft`, `writer`, `schema` | the file: committed tables, the writer's view, the lock, tables created |
| `rowid` in `rows` and `blobs`, `Numberings` | SQLite's rowids: a new row gets max + 1, so the rowid of a deleted last row comes back |
| `Busy`, `AfterBusy`, `Fail`, `Commit` | `_run` of `adapters/sqlite.py`: `_is_retryable` is lock contention only |
| `Put`, `Delete`, `RemoveObject` | `put*`, `delete*` in both modes |
| `SelectForTiering`, `Upload`, `UploadFails` | `tier_to_object_storage`, outside `_run`, on the locked file |
| `StreamInfo`, `OpenBlob`, `ReadBlob` | `get_stream`: the rowid when it is called, `blobopen` (or a held `BEGIN`) at the first `next()`, then chunks of what is pinned |
| `EnsureReady`, `AsyncMigrate`, `MigrationFails`, `MigrationBusy` | `_ensure_ready` of `adapters/sqlite_async.py` |
| `AsyncReadChunk` | its stream: one transaction for each chunk, by id |
| `Cancel`, `LateUpload` | a task cancelled at an `await`; the thread of its upload goes on |
| `Crash` | a process dies; the file is as before its transaction |

`excused` holds the keys whose object may outlive its row for a reason the code
reports or cannot know: a removal that failed (event), an upload that raised or
was abandoned and may still succeed. An object with neither row nor excuse, which
no delete is about to remove, is `Forgotten`, and `OrphansExplained` says which
steps make one: a delete on the caller's connection (the adapter skips the
removals then, `adapters/sqlite.py:1064` and `:1128`), a cancelled delete, and a
process that dies before it is through with its removals. Each of the three does
happen in the run: without its disjunct the property fails. `begun` and `applied`
record history for the properties.

### Client and CommandLine

Each backend call is one step here (the adapters' modules justify that: they
implement `ImageStore`), or it raises with or without its effect. A name is an
id as `put` returned it, the same id spelled differently, or no UUID at all;
`folds` says whether the database takes the two spellings for one id.

| model | code |
|---|---|
| `CheckBeforePut`, `CheckBeforeGet` | the hooks: once for a put, per name for a get; a malformed name never reaches one |
| `PrepareRow`, `AsyncPrepareRow` | `_prepare_row` one after the other, or in threads that end in any order |
| `StoreRows`, `StoreFails` | `zip(prepared_indices, ids)`, and the error of a whole batch |
| `SelectOne`, `SelectMany`, `ByName` | `get`; `get_many`'s `records_by_id.get(image_id)` |
| `DeleteMany` | `image_id in deleted_ids` |
| `BeginVerify`, `VerifyImage` | `cmd_verify`: the listing, then one `get` for each image |
| `BeginTierAll`, `TierImage`, `TierImageFails` | `cmd_tier` |
| `Damage`, `damaged` | storage decays; `damaged` is a history that keeps the ids of deleted images, so that a `mismatches` that contains an image which is merely gone (`cli.py:403`) is seen |

### Abstractions

* Bytes, names, sizes and mime types are left out: content is a checksum in
  dedup mode and `"bytes"` in classic mode.
* `put` and `delete` are batches of one; in `TieredStore` `get_many` is a `get`
  per row; `metadata` and `stream_to` are a `get` in `Client`.
* A caller's connection runs one operation, then commits or rolls back;
  transactions of several operations are not modelled, and a caller is assumed
  to roll back after an error (PostgreSQL allows nothing else). `MySQLStore` and
  `AsyncSQLite` have no calls on a caller's connection.
* Clients name ids that a finished put has returned, or ids nobody knows.
* The order in which a `DELETE ... ANY` visits rows is any order. InnoDB gap
  locks and lock escalation are not modelled, nor is the foreign key: the
  invariants follow from the code without its help.
* The adapter has an `object_storage`; the checks for `None` are not modelled.
  Transient failures of a *read* are not modelled (a repeated read is a read).

## Runs

| run | instance | shows |
|---|---|---|
| `dedup_server_ids` | 2 clients, 3 ids, 2 checksums, batches up to 2, 1 retry | `RefCountExact`, `NoDanglingRef`, `BlobLocksAcyclic`, and that the tables implement `ImageStore` |
| `dedup_client_ids` | 2 clients, 2 ids, client-drawn; fair | `PutStoredOnce`, the inductive invariant `IInv`, `CallsReturn` |
| `tiered_faults` | 2 writers, 2 ids, batches up to 2, all faults, caller transactions | `NoLostBytes`, `IInv`, refinement |
| `tiered_clean` | 2 writers, 1 reader, 2 ids; no faults besides deadlocks and failing uploads and removals | `OrphansAccounted`, `DeleteRemovesObjects`, `GetFindsStored` |
| `async_calls` | 3 callers, 1 closer, 2 pools of 2 connections, 1 retry; fair | `SlotsConserved`, `PoolNotLeaked`, `PoolStays`, `OneEvent`, `ReleasedByClose`, `AllReturn` |
| `async_faults` | 2 callers, 1 closer, 3 pools; early close and cancellation | `ReadyHasPool` |
| `sqlite` | a process and a task on one file, 2 ids, 2 contents, batches up to 2, 1 retry, 2 chunks, both modes | `NoLostBytes`, `AnswerIsEffect`, `OrphansExplained`, `StreamsWhole`, `BegunStreamCompletes`, `TablesFirst`, `RefCountExact` |
| `mysql` | 2 threads, 2 ids, 1 content, pool of 2, 1 retry, 2 chunks, both modes | `PoolClean`, `RefCountExact`, `StreamsWhole`, `CloseStops`, refinement |
| `client` | 1 client, 1 async client, 1 command; 2 ids, 2 contents, batches up to 2; with and without hooks, with and without folding | `PutResultsLineUp`, `HookDecides`, `GetManyExact`, `ExitCodes` |
| `async_cancel_pool`, `sqlite_stream`, `client_names` | the same instances, or the smallest that show it | violations, see below |

**Why these bounds are enough.** Two clients are enough for every conflict
between two transactions, and a deadlock over two blobs or two refs; the lock
order argument for more of them is the theorem `BlobOrderCorrect`. Two checksums
give batches that overlap in part; three ids allow a batch of two identical
images beside a third reference to the same blob. One retry reaches every state
in which an attempt inherits something from a failed one. Three callers are one
that holds the ready lock or a connection, one that waits, and one that comes
later; a second pool is what a call after `close()` creates; in `async_faults`
the third is for a pool that a cancelled task has left open (when all are used
up, `create_pool` can only fail). On a SQLite file a process and a task are the
two kinds of client, each the other's concurrent writer; two ids are one that is
deleted and one that gets its rowid; with two chunks everything can happen
between them. In `mysql` the two threads share one content, the case in which
they meet at a blob; orders over several blobs are checked in `dedup_server_ids`
and proved there. They cannot fill a pool of two, and with a pool of one their
transactions would never meet: that a call waits for a slot in vain is left to the
theorems about `PoolClean`, `CloseStops` and the types, which hold for any number
of threads and any pool. In `client` `MaxBusy = 1` keeps all but one call or command
waiting: a backend call is one step, so that two clients only meet in what is
stored, and deletes and tierings of one image happen beside any of them.
Every safety property and refinement of a passing run is also a theorem for all
values of the constants (eight of them under the hypothesis that their run has, see below), so that the
bounds carry only liveness.

**Fairness** (`FairSpec`, used by `dedup_client_ids` and `async_calls`). Databases queue the
waiters of a row lock, so that a statement enabled again and again (its lock
freed again and again) runs: strong fairness of `Statement`. Deadlock detection
always ends a cycle: weak fairness of `DeadlockVictim`. A client that has its
result goes on: weak fairness of `Return`. No failure is assumed to happen, and
nothing keeps a client from calling for ever.
`dedup_client_ids` has client-drawn ids: the finite `Ids` could otherwise run out inside
an `INSERT`, which UUIDs never do.

In `async_calls`, the event loop runs every task whose `await` is over, and
asyncio's locks and aiomysql's pool serve their waiters in turn: strong fairness
of `Resume`, weak fairness of `Return`. No task has to succeed.

**Deadlock check.** It is on in every run.

### What the violations show

1. `async_cancel_pool`: a first call cancelled while it migrates leaves its pool
   open, and the next call overwrites `_pool` (`adapters/mysql_async.py:288`).
   With `Cancels = TRUE`, `SlotsConserved` fails as well: a call cancelled while
   it holds a connection never releases it, and a later `close()` waits for that
   connection for ever.
2. `sqlite_stream`: `get_stream` reads the rowid when it is called and opens the
   blob at the consumer's first `next()` (`adapters/sqlite.py:927`). If the image
   is deleted in between and another stored, the rowid is given out again, and
   the stream delivers the other image without an error. From its first chunk on
   a stream is safe (`BegunStreamCompletes`), and the asynchronous adapter, which
   reads by id, is safe throughout (`StreamsWhole`).
3. `client_names`: ids in upper case are well-formed (`_ids.py:19`) and folded by
   PostgreSQL and MySQL, but `delete_many` and `get_many` compare the database's
   spelling with the caller's: an image is deleted and the result says
   `deleted=False`, or `get_many` says "not found" of an image that `get`
   returns. The TypeScript client lowercases ids (`typescript/src/client.ts:499`).

The instances also show, with other constants or one more property:

* A retried put may store twice. `_run` retries any `OperationalError`, also one
  raised by the commit itself; when the server has committed, a PostgreSQL batch
  is inserted again and the caller learns the second set of ids only, which the
  docstring of `put_many` rules out (`adapters/postgres.py:633-637`).
  `PutStoredOnce` fails with `ClientIds = FALSE` and holds in `dedup_client_ids`.
  In the same situation `delete_many` returns no ids for images it has removed,
  `tier_to_object_storage` returns `False` for an image it has just tiered, and a
  `delete` of a tiered image leaves its object in the bucket without an event
  (`DeleteRemovesObjects` fails with `"lost_ack"` in `Faults`; `README.md:276`).
* An image that is tiered while PostgreSQL or MySQL streams it makes the next
  `substring` `NULL` and `bytes(None)` a `TypeError`, though reads are said to be
  transparent (`README.md:294`): `ReadChunk` of `TieredStore` and `MySQLStore`.

With `EarlyClose = TRUE`, `ReleasedByClose` fails: `close()` during the first
call's `create_pool` finds `_pool` still `None` and does nothing; the pool is
then opened and stays (`adapters/mysql_async.py:976`). A `close()` that waits in
`wait_closed` while a migration fails may also forget a newer pool than the one
it closed, so that `PoolStays` and `OneEvent` fail.

With `Cancels = TRUE`, a backend may count as ready over a pool that is closing: a
`close()` cancelled in `wait_closed` never comes to `_ready = False`
(`adapters/mysql_async.py:982-984`). Every call then takes the backend for ready
and raises `StorageError`, until another `close()` is through with that pool.
`ReadyHasPool` allows this; what it rules out is a backend that is ready over no
pool, or over one that is closed.

`OrphansAccounted` also needs `"error"` excluded: an upload that succeeds,
followed by an `UPDATE` that fails for good, leaves an object whose row still
says `postgres`; a later delete of that row does not look for an object.

## What is proved

Every type invariant, safety invariant and refinement of a passing run is proved
by TLAPS, for any number of clients, tasks, ids, contents, retries, chunks,
connections and any batch size. The constants are assumed to be what the modules'
`ASSUME`s say: sets of ids are finite, bounds are numbers, the values that stand
for "none" are none of the others, and (`ClientAssumption`) an answer that is an
image cannot be mistaken for one that is an id or a word. Eight theorems
have one hypothesis more, `ClientIds`, `Clean` or `Calm`, which the run of the same
property also has; each is explained below.

Each module of proofs has one inductive invariant and, for every action, a lemma
that the action keeps it. What the invariants add to the properties is the
knowledge that a call carries from one statement to the next.

* **`DedupStoreProofs`**. `RefCountExact` is not inductive: a commit installs
  counts that the transaction read long ago. `IInv` adds what makes them current:
  a client at rest holds no lock (`AtRest`); a transaction sees each blob it holds
  at the committed count plus its own upserts (`PutProgress`) or minus its own
  deleted rows, which it has locked (`DeleteProgress`); drawn ids are disjoint
  (`DrawsDisjoint`). The cardinality lemmas at the head of the module say how the
  rows of a blob change by a batch. `BlobOrderCorrect` takes the largest blob
  anyone in a deadlocked set of waiters waits for, whose holder would have to wait
  for a larger one. `RetriesStoreOnce` assumes `ClientIds` (MySQL): without it the
  property is false, as the list of violations says.
* **`DedupRefinementProofs`**, **`MySQLRefinementProofs`** and the end of
  **`TieredStoreProofs`**: `Spec => Refinement`, each step a step of `ImageStore`
  or a stutter. With `IInv`, what readers see changes in commits only; a commit
  maps to `Put` or `Delete`, everything else opens or closes a call, or stutters,
  a tiering and a reconnection included. `ContentsImmutable` transports
  `ImageStore`'s property. (In `TieredStore` all images have the same content, so
  that it would say nothing there.)
* **`TieredStoreProofs`**. `BytesSafe` holds whatever `Faults` contains: what a
  commit writes to a row is guarded by a lock its client still has, and a pending
  pointer has its object because removals only concern rows that are gone
  (`Pending`). `ReadsFind` adds what a reader knows of its row (`ReadInv`).
  `ObjectsAccounted` and `DeletesRemoveObjects` assume `Clean`, no faults besides
  deadlocks and failing uploads and removals, and no caller's transactions: with
  `"lost_ack"` or `"error"` they are false, see above.
* **`MySQLStoreProofs`**. A `ref_count` is read, lowered in Python and written
  back: `Counting` says that the counts a call has read are current while it holds
  the locks on its blobs. `Holding` is the same for rows: a delete and a tiering
  have locked the rows they found, a put inserts ids that nobody else has
  (`Drawn`, `IdsApart`), and a call without a transaction holds nothing, which is
  what makes `PoolClean` inductive. `Streaming` is what a stream has delivered.
* **`AsyncMySQLProofs`**. `Base` is inductive without a hypothesis: whoever holds
  the ready lock is setting up, whoever holds a connection is counted in its pool,
  and a pool with connections out is not closed. `TypeCorrect` and
  `ReadyBackendHasPool` follow. The other five assume `Calm`: no cancellation, no
  `close()` before the set-up, one closer. What goes wrong without the
  first two is described with the violations above. Two tasks may wait in `close()`
  for one pool; when the first of them returns, a call may set up a new pool, and
  the second then sets `_pool` to `None` although it is the newer one (TLC finds
  all five properties violated with two `Closers`).
* **`SQLiteSystemProofs`**. An id is drawn for one put, so that a row that was
  deleted never comes back (`Settled`, `Gone`); without this a lingering upload or
  a late removal could meet a row that has the same id again. What the holder of
  the writer lock has drafted is still the change of the committed tables that it
  was when it was computed (`Drafted`, `Locked`); no two rows have one rowid
  (`Numbered`); an object has a row that points at it, or is excused, or its
  upload is the writer's (`Bucketed`); and the answer of a call is what it has
  changed (`Answered`). `OrphansAreExplained` is an action property: a step that is
  no commit, removal, crash or cancellation is `Quiet` and forgets nothing, and of
  the others `CommitForgets`, `RemovalForgets` and `AbandonForgets` say what they
  can forget. `DeletesRemoveObjects` is its consequence for a delete that has
  returned. Statements of a task are statements of `SQLiteBackend`,
  so that most lemmas are about both.
* **`CommandLineProofs`** is about `Client` and `CommandLine` together. For each
  kind of call the invariant relates every position to what is known of it: which
  positions remain, which the hook let pass, what was drawn for them (`Putting`,
  `Getting`); and for a command, what it has found of the images it is through
  with, while other clients store, delete and tier (`Listing`, `Running`).

Only model-checked: liveness (`CallsReturn` of `DedupStore`, `AllReturn` of
`AsyncMySQL`), because TLAPS proves neither `ENABLED` nor fairness; there the
finite instances are all there is.

## Not modelled

* `AsyncPostgresBackend`: its SQL is that of `PostgresBackend`, its set-up that of
  the other async adapters with psycopg's pool.
* `migrate_classic_to_dedup`, the migration of old tables (`_migrate_tiering`),
  and the commands `init`, `info` and `migrate`.
* Listing, statistics and metadata reads (plain `SELECT`s).
* Validation and optimization of bytes; in `Client` an image passes or it does
  not. `validate_image` changes the pixel limit of Pillow's module around each
  decode, which concurrent calls share (`validation.py:107`, a hazard without a
  property).
* The Django integration and the TypeScript port, a second implementation of the
  same operations and schema.
* Wording of errors and log lines; configuration; benchmarks and examples.

## Plan

In order of importance:

1. Proofs: that `SQLiteSystem` implements `ImageStore`, too; `PoolNotLeaked`,
   `OneEvent` and `ReleasedByClose` under weaker hypotheses than `Calm`, each under
   the part that it needs.
2. `MigrateDedup` — `migrate_classic_to_dedup` against concurrent deletes and
   tiering, and run twice.
3. `AsyncPostgres` — set-up of the other adapter, whose pool is one object that a
   failed migration closes for good.
4. The TypeScript ready promise, pool, mutex and `mapLimit`; the Django view.
