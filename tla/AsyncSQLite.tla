---------------------------- MODULE AsyncSQLite ----------------------------
(***************************************************************************)
(* AsyncSQLiteBackend (adapters/sqlite_async.py): the tasks of one event   *)
(* loop.  Its statements are those of SQLiteBackend; what differs is the   *)
(* lazy _ensure_ready, a stream whose chunks are transactions of their own *)
(* (there is no blobopen), uploads and downloads in worker threads, and a  *)
(* task that may be cancelled at any await: CancelledError passes every    *)
(* `except Exception`, and closing the connection rolls back.              *)
(***************************************************************************)
EXTENDS SQLiteFile

VARIABLES
  ready,      (* self._ready                     *)
  readyLock   (* holder of self._ready_lock, or NoProc *)

asyncVars == <<ready, readyLock>>

BeginAsync(p, call) ==
  /\ tx[p].pc = "idle"
  /\ tx' = [tx EXCEPT ![p] = [call EXCEPT !.pc = "ready"]]
  /\ UNCHANGED <<fileVars, bucketVars, asyncVars>>

-----------------------------------------------------------------------------
(* _ensure_ready *)

(* A backend that is ready is used at once; the others queue for the lock   *)
(* and look again when they hold it.                                        *)
EnsureReady(p) ==
  /\ tx[p].pc = "ready"
  /\ ready \/ readyLock = NoProc
  /\ IF ready THEN tx' = [tx EXCEPT ![p].pc = "work"] /\ UNCHANGED readyLock
     ELSE tx' = [tx EXCEPT ![p].pc = "migrate"] /\ readyLock' = p
  /\ UNCHANGED <<fileVars, bucketVars, given, ready>>

AsyncMigrate(p) ==
  /\ tx[p].pc = "migrate"
  /\ schema' = TRUE /\ ready' = TRUE /\ readyLock' = NoProc
  /\ tx' = [tx EXCEPT ![p].pc = "work", ![p].attempt = 0]
  /\ UNCHANGED <<mode, db, writer, draft, bucketVars, given>>

(* Faulty: _ready is set before the migration has succeeded. *)
MigrationFailsReady(p) ==
  /\ tx[p].pc = "migrate"
  /\ tx' = [tx EXCEPT ![p] = Finish(@, "MigrationFailed")]
  /\ ready' = TRUE /\ readyLock' = NoProc
  /\ UNCHANGED <<fileVars, bucketVars, given>>

(* The migration raises, after its retries: the next caller tries again. *)
MigrationFails(p) ==
  /\ tx[p].pc = "migrate"
  /\ tx' = [tx EXCEPT ![p] = Finish(@, "MigrationFailed")]
  /\ readyLock' = NoProc
  /\ UNCHANGED <<ready, fileVars, bucketVars, given>>

(* Another process converts the new file: BUSY, and _with_retry tries again. *)
MigrationBusy(p) ==
  /\ tx[p].pc = "migrate" /\ ~schema
  /\ tx[p].attempt < MaxRetries
  /\ tx' = [tx EXCEPT ![p].attempt = @ + 1]
  /\ UNCHANGED <<fileVars, bucketVars, given, asyncVars>>

-----------------------------------------------------------------------------
(* _run and _with_retry *)

AsyncAfterBusy(r) ==
  IF r.attempt < MaxRetries THEN [r EXCEPT !.attempt = @ + 1] ELSE Finish(r, "StorageError")

AsyncWriting(p) == tx[p].op \in {"put_many", "delete_many"}

(* The busy timeout; tiering is not retried. *)
AsyncBusy(p) ==
  /\ tx[p].pc = "work" /\ (AsyncWriting(p) \/ tx[p].op = "tier_to_object_storage")
  /\ writer \notin {NoProc, p}
  /\ tx' = [tx EXCEPT ![p] = IF AsyncWriting(p) THEN AsyncAfterBusy(@)
                             ELSE Finish(@, "StorageError")]
  /\ UNCHANGED <<fileVars, bucketVars, given, asyncVars>>

AsyncForsaking(p) ==
  IF tx[p].op = "tier_to_object_storage" /\ tx[p].pc \in {"upload", "commit"} THEN tx[p].ids ELSE {}

(* attempt_fn rolls back, closes its connection and raises. *)
AsyncFail(p) ==
  /\ \/ tx[p].pc = "work" /\ AsyncWriting(p)
     \/ tx[p].pc = "commit"
  /\ Forget(p)
  /\ tx' = [tx EXCEPT ![p] = Finish(@, "StorageError")]
  /\ excused' = excused \cup AsyncForsaking(p)
  /\ UNCHANGED <<objects, given, asyncVars>>

AsyncCommit(p) ==
  /\ tx[p].pc = "commit"
  /\ Install(p, [tx[p] EXCEPT !.pc = IF tx[p].todo # {} THEN "cleanup" ELSE "returned"])
  /\ UNCHANGED <<bucketVars, given, asyncVars>>

(* Cancelled at an await.  A lock or a transaction is given up, but what a  *)
(* thread has begun goes on: an upload, the removal of an object, or a      *)
(* commit (the second disjunct).                                            *)
Cancel(p) ==
  /\ tx[p].pc \notin {"idle", "returned"}
  /\ readyLock' = IF readyLock = p THEN NoProc ELSE readyLock
  /\ \/ /\ Forget(p)
        /\ tx' = [tx EXCEPT ![p] = Finish(@, "Cancelled")]
        /\ excused' = excused \cup AsyncForsaking(p)
        /\ objects' \in {objects} \cup
             {objects \ {i} : i \in IF tx[p].pc = "cleanup" THEN tx[p].todo ELSE {}}
     \/ /\ tx[p].pc = "commit"
        /\ Install(p, Finish(tx[p], "Cancelled"))
        /\ UNCHANGED <<objects, excused>>
  /\ UNCHANGED <<given, ready>>

(* An upload that raised, or whose task was cancelled, stores its object    *)
(* after all: the thread, or the service, was not done with it.             *)
LateUpload(i) ==
  /\ i \in excused
  /\ objects' = objects \cup {i}
  /\ UNCHANGED <<fileVars, excused, given, tx, asyncVars>>

AsyncReturn(p) ==
  /\ tx[p].pc = "returned"
  /\ tx' = [tx EXCEPT ![p] = Idle]
  /\ UNCHANGED <<fileVars, bucketVars, given, asyncVars>>

-----------------------------------------------------------------------------
(* put_many, delete_many, tier_to_object_storage *)

AsyncBatchOf(S) == {T \in SUBSET S : Cardinality(T) \in 1..MaxBatch}

BeginAsyncPut(p) ==
  \E S \in AsyncBatchOf(Fresh), c \in [Ids -> Sums] :
    LET new == [i \in Ids |-> IF i \in S THEN c[i] ELSE NoSum]
    IN /\ BeginAsync(p, [Idle EXCEPT !.op = "put_many", !.ids = S, !.new = new])
       /\ given' = [i \in Ids |-> IF i \in S THEN c[i] ELSE given[i]]

AsyncPut(p) ==
  /\ At(p, "work", "put_many")
  /\ Write(p, PutDrafts(tx[p].new), [tx[p] EXCEPT !.pc = "commit", !.result = "ids"])
  /\ UNCHANGED <<bucketVars, given, asyncVars>>

BeginAsyncDelete(p) ==
  \E S \in AsyncBatchOf(Nameable) :
    /\ BeginAsync(p, [Idle EXCEPT !.op = "delete_many", !.ids = S])
    /\ UNCHANGED given

AsyncDelete(p) ==
  /\ At(p, "work", "delete_many")
  /\ Write(p, {DeleteDraft(tx[p].ids)},
           [tx[p] EXCEPT !.pc = "commit", !.result = "ids",
                         !.todo = {i \in tx[p].ids : Tiered(db, i)}])
  /\ UNCHANGED <<bucketVars, given, asyncVars>>

(* The loop over the deleted tiered rows. *)
AsyncAfterCleanup(r, i) ==
  IF r.todo = {i} THEN Finish(r, r.result) ELSE [r EXCEPT !.todo = @ \ {i}]

(* await self._delete_tiered_object(key), which never raises. *)
AsyncRemoveObject(p, i) ==
  /\ tx[p].pc = "cleanup" /\ i \in tx[p].todo
  /\ \/ objects' = objects \ {i} /\ UNCHANGED excused
     \/ excused' = excused \cup {i} /\ UNCHANGED objects
  /\ tx' = [tx EXCEPT ![p] = AsyncAfterCleanup(@, i)]
  /\ UNCHANGED <<fileVars, given, asyncVars>>

BeginAsyncTier(p) ==
  \E i \in Nameable :
    /\ mode = "classic"
    /\ BeginAsync(p, [Idle EXCEPT !.op = "tier_to_object_storage", !.ids = {i}])
    /\ UNCHANGED given

AsyncSelectForTiering(p) ==
  /\ At(p, "work", "tier_to_object_storage")
  /\ writer = NoProc
  /\ \E i \in tx[p].ids :
       IF ~Stored(db, i) THEN Reads(p, Finish(tx[p], "None"))
       ELSE IF Tiered(db, i) THEN Reads(p, Finish(tx[p], "False"))
       ELSE Write(p, {db}, [tx[p] EXCEPT !.pc = "upload"])
  /\ UNCHANGED <<bucketVars, given, asyncVars>>

(* Faulty: the thread of the upload is not awaited. *)
AsyncUploadUnawaited(p) ==
  /\ tx[p].pc = "upload"
  /\ excused' = excused \cup tx[p].ids
  /\ \E i \in tx[p].ids : draft' = MarkTiered(draft, i)
  /\ tx' = [tx EXCEPT ![p].pc = "commit", ![p].result = "True"]
  /\ UNCHANGED <<mode, schema, db, writer, objects, given, asyncVars>>

(* await asyncio.to_thread(store.upload), then the UPDATE. *)
AsyncUpload(p) ==
  /\ tx[p].pc = "upload"
  /\ objects' = objects \cup tx[p].ids
  /\ \E i \in tx[p].ids : draft' = MarkTiered(draft, i)
  /\ tx' = [tx EXCEPT ![p].pc = "commit", ![p].result = "True"]
  /\ UNCHANGED <<mode, schema, db, writer, excused, given, asyncVars>>

AsyncUploadFails(p) ==
  /\ tx[p].pc = "upload"
  /\ Forget(p)
  /\ excused' = excused \cup tx[p].ids
  /\ tx' = [tx EXCEPT ![p] = Finish(@, "StorageError")]
  /\ UNCHANGED <<objects, given, asyncVars>>

-----------------------------------------------------------------------------
(* get_many, get_stream *)

BeginAsyncRead(p) ==
  \E S \in AsyncBatchOf(Nameable), op \in {"get_many", "get_stream"} :
    /\ op = "get_stream" => Cardinality(S) = 1
    /\ BeginAsync(p, [Idle EXCEPT !.op = op, !.ids = S])
    /\ UNCHANGED given

AsyncSelect(p) ==
  /\ At(p, "work", "get_many")
  /\ LET found == Found(tx[p].ids)
         tiered == {i \in found : Tiered(db, i)}
     IN Reads(p, IF tiered = {} THEN [Finish(tx[p], "bytes") EXCEPT !.applied = found]
                 ELSE [tx[p] EXCEPT !.pc = "fetch", !.todo = tiered, !.applied = found])
  /\ UNCHANGED <<bucketVars, given, asyncVars>>

(* One download in a worker thread after the other. *)
AsyncFetch(p, i) ==
  /\ tx[p].pc = "fetch" /\ i \in tx[p].todo
  /\ Reads(p, IF i \notin objects THEN Finish(tx[p], "StorageError")
              ELSE IF tx[p].todo = {i} THEN Finish(tx[p], "bytes")
              ELSE [tx[p] EXCEPT !.todo = @ \ {i}])
  /\ UNCHANGED <<bucketVars, given, asyncVars>>

AsyncStreamInfo(p) ==
  /\ At(p, "work", "get_stream")
  /\ \E i \in tx[p].ids :
       Reads(p, IF ~Stored(db, i) THEN Finish(tx[p], "None")
                ELSE [tx[p] EXCEPT !.left = Chunks,
                                   !.pc = IF Tiered(db, i) THEN "object" ELSE "chunks"])
  /\ UNCHANGED <<bucketVars, given, asyncVars>>

AsyncDelivered(r, content) ==
  IF r.left <= 1 THEN [Finish(r, "bytes") EXCEPT !.left = 0, !.got = @ \cup content]
  ELSE [r EXCEPT !.left = @ - 1, !.got = @ \cup content]

(* Faulty: a missing chunk counts as the end of the image. *)
AsyncReadChunkToNull(p) ==
  /\ tx[p].pc = "chunks"
  /\ \E i \in tx[p].ids :
       Reads(p, IF db.rows[i].backend # "sqlite" THEN Finish(tx[p], "bytes")
                ELSE AsyncDelivered(tx[p], {db.rows[i].sum}))
  /\ UNCHANGED <<bucketVars, given, asyncVars>>

(* SELECT substr(data ...) WHERE id = ?: no row, or data that is NULL       *)
(* because the image was tiered meanwhile, is reported as a deletion.      *)
AsyncReadChunk(p) ==
  /\ tx[p].pc = "chunks"
  /\ \E i \in tx[p].ids :
       Reads(p, IF db.rows[i].backend # "sqlite" THEN Finish(tx[p], "StorageError")
                ELSE AsyncDelivered(tx[p], {db.rows[i].sum}))
  /\ UNCHANGED <<bucketVars, given, asyncVars>>

(* _stream_tiered: each next() in a worker thread. *)
AsyncReadObject(p) ==
  /\ tx[p].pc = "object"
  /\ \E i \in tx[p].ids :
       Reads(p, IF i \in objects THEN AsyncDelivered(tx[p], {}) ELSE Finish(tx[p], "StorageError"))
  /\ UNCHANGED <<bucketVars, given, asyncVars>>

-----------------------------------------------------------------------------
AsyncBegin(p) == BeginAsyncPut(p) \/ BeginAsyncDelete(p) \/ BeginAsyncTier(p) \/ BeginAsyncRead(p)

AsyncStep(p) ==
  \/ EnsureReady(p) \/ AsyncMigrate(p) \/ MigrationFails(p) \/ MigrationBusy(p)
  \/ AsyncPut(p) \/ AsyncDelete(p)
  \/ AsyncSelectForTiering(p) \/ AsyncUpload(p) \/ AsyncUploadFails(p)
  \/ AsyncBusy(p) \/ AsyncFail(p) \/ AsyncCommit(p)
  \/ AsyncSelect(p) \/ AsyncStreamInfo(p) \/ AsyncReadChunk(p) \/ AsyncReadObject(p)
  \/ \E i \in Ids : AsyncRemoveObject(p, i) \/ AsyncFetch(p, i)
  \/ AsyncReturn(p)
=============================================================================
