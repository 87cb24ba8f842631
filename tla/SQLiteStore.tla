---------------------------- MODULE SQLiteStore ----------------------------
(***************************************************************************)
(* SQLiteBackend (adapters/sqlite.py): _run with its retries of lock       *)
(* contention, put_many, delete_many, get_many and get_stream in classic   *)
(* and dedup mode, and tier_to_object_storage, which holds the one writer  *)
(* lock of the file during its upload.  put, delete and get are the        *)
(* batches of one image.                                                   *)
(***************************************************************************)
EXTENDS SQLiteFile

(* The call of an idle client.  Its backend was constructed, so the tables  *)
(* are there, unless the constructor is the call.                           *)
Begin(p, call) ==
  /\ tx[p].pc = "idle"
  /\ schema \/ call.op = "migrate"
  /\ tx' = [tx EXCEPT ![p] = [call EXCEPT !.pc = "work"]]
  /\ UNCHANGED <<fileVars, bucketVars>>

(* Faulty: the attempts are counted down. *)
AfterBusyDown(r) ==
  IF r.own /\ r.attempt < MaxRetries
  THEN [r EXCEPT !.attempt = @ - 1] ELSE Finish(r, "StorageError")

(* _run after SQLITE_BUSY: a new attempt on a new connection, unless the    *)
(* transaction is the caller's.                                             *)
AfterBusy(r) ==
  IF r.own /\ r.attempt < MaxRetries
  THEN [r EXCEPT !.attempt = @ + 1] ELSE Finish(r, "StorageError")

Writing(p) == tx[p].op \in {"migrate", "put_many", "delete_many"}

(* Another connection held the writer lock for the whole busy timeout.      *)
(* Tiering opens its own connection outside _run and is not retried.        *)
Busy(p) ==
  /\ tx[p].pc = "work" /\ (Writing(p) \/ tx[p].op = "tier_to_object_storage")
  /\ writer \notin {NoProc, p}
  /\ tx' = [tx EXCEPT ![p] = IF Writing(p) THEN AfterBusy(@) ELSE Finish(@, "StorageError")]
  /\ UNCHANGED <<fileVars, bucketVars, given>>

Forsaking(p) ==
  IF tx[p].op = "tier_to_object_storage" /\ tx[p].pc \in {"upload", "commit"} THEN tx[p].ids ELSE {}

(* Any other error of a statement or of the commit is raised at once, after *)
(* a rollback; a caller may also roll back a transaction of its own.        *)
Fail(p) ==
  /\ \/ tx[p].pc = "work" /\ Writing(p)
     \/ tx[p].pc = "commit"
  /\ Forget(p)
  /\ tx' = [tx EXCEPT ![p] = Finish(@, "StorageError")]
  /\ excused' = excused \cup Forsaking(p)
  /\ UNCHANGED <<objects, given>>

(* The end of a successful attempt.  The objects of deleted tiered rows go  *)
(* next, unless the transaction is the caller's.                            *)
Commit(p) ==
  /\ tx[p].pc = "commit"
  /\ Install(p, IF tx[p].own /\ tx[p].todo # {} THEN [tx[p] EXCEPT !.pc = "cleanup"]
                ELSE Finish(tx[p], tx[p].result))
  /\ UNCHANGED <<bucketVars, given>>

(* The client process dies; the file is as before its transaction. *)
Crash(p) ==
  /\ tx[p].pc # "idle"
  /\ Forget(p)
  /\ tx' = [tx EXCEPT ![p] = Idle]
  /\ excused' = excused \cup Forsaking(p)
  /\ UNCHANGED <<objects, given>>

Return(p) ==
  /\ tx[p].pc = "returned"
  /\ tx' = [tx EXCEPT ![p] = Idle]
  /\ UNCHANGED <<fileVars, bucketVars, given>>

-----------------------------------------------------------------------------
(* __init__ with auto_migrate *)

BeginMigrate(p) == ~schema /\ Begin(p, [Idle EXCEPT !.op = "migrate"]) /\ UNCHANGED given

(* WAL mode, then CREATE ... IF NOT EXISTS, each statement for itself. *)
Migrate(p) ==
  /\ At(p, "work", "migrate")
  /\ schema \/ writer = NoProc
  /\ schema' = TRUE
  /\ tx' = [tx EXCEPT ![p] = Finish(@, "None")]
  /\ UNCHANGED <<mode, db, writer, draft, bucketVars, given>>

-----------------------------------------------------------------------------
(* put_many *)

BatchOf(S) == {T \in SUBSET S : Cardinality(T) \in 1..MaxBatch}

(* A put_many of the contents c[i] whose ids are S: they are drawn before   *)
(* _run.                                                                    *)
PutCall(S, c) ==
  [Idle EXCEPT !.op = "put_many", !.ids = S,
               !.new = [i \in Ids |-> IF i \in S THEN c[i] ELSE NoSum]]

PutCalls == {PutCall(S, c) : S \in BatchOf(Fresh), c \in [Ids -> Sums]}

BeginPut(p) ==
  \E call \in PutCalls, own \in BOOLEAN :
    /\ Begin(p, [call EXCEPT !.own = own])
    /\ given' = [i \in Ids |-> IF i \in call.ids THEN call.new[i] ELSE given[i]]

Put(p) ==
  /\ At(p, "work", "put_many")
  /\ Write(p, PutDrafts(tx[p].new), [tx[p] EXCEPT !.pc = "commit", !.result = "ids"])
  /\ UNCHANGED <<bucketVars, given>>

-----------------------------------------------------------------------------
(* delete_many *)

BeginDelete(p) ==
  \E S \in BatchOf(Nameable), own \in BOOLEAN :
    /\ Begin(p, [Idle EXCEPT !.op = "delete_many", !.ids = S, !.own = own])
    /\ UNCHANGED given

(* DELETE ... RETURNING storage_backend and key; in dedup mode also the     *)
(* counts of the blobs.                                                     *)
Delete(p) ==
  /\ At(p, "work", "delete_many")
  /\ Write(p, {DeleteDraft(tx[p].ids)},
           [tx[p] EXCEPT !.pc = "commit", !.result = "ids",
                         !.todo = {i \in tx[p].ids : Tiered(db, i)}])
  /\ UNCHANGED <<bucketVars, given>>

(* Faulty: the loop over the deleted rows ends after its first object. *)
AfterCleanupFirst(r, i) == Finish(r, r.result)

(* One object after the other; the last one ends the call. *)
AfterCleanup(r, i) ==
  IF r.todo = {i} THEN Finish(r, r.result) ELSE [r EXCEPT !.todo = @ \ {i}]

RemoveObject(p, i) ==
  /\ tx[p].pc = "cleanup" /\ i \in tx[p].todo
  /\ objects' = objects \ {i}
  /\ tx' = [tx EXCEPT ![p] = AfterCleanup(@, i)]
  /\ UNCHANGED <<fileVars, excused, given>>

RemoveObjectFails(p, i) ==
  /\ tx[p].pc = "cleanup" /\ i \in tx[p].todo
  /\ excused' = excused \cup {i}
  /\ tx' = [tx EXCEPT ![p] = AfterCleanup(@, i)]
  /\ UNCHANGED <<fileVars, objects, given>>

-----------------------------------------------------------------------------
(* tier_to_object_storage *)

(* In dedup mode, and without object_storage=, it raises at once. *)
BeginTier(p) ==
  \E i \in Nameable :
    /\ mode = "classic"
    /\ Begin(p, [Idle EXCEPT !.op = "tier_to_object_storage", !.ids = {i}])
    /\ UNCHANGED given

(* Faulty: an image that is already tiered counts as tiered just now. *)
SelectForTieringTrue(p) ==
  /\ At(p, "work", "tier_to_object_storage")
  /\ writer = NoProc
  /\ \E i \in tx[p].ids :
       IF ~Stored(db, i) THEN Reads(p, Finish(tx[p], "None"))
       ELSE IF Tiered(db, i) THEN Reads(p, Finish(tx[p], "True"))
       ELSE Write(p, {db}, [tx[p] EXCEPT !.pc = "upload"])
  /\ UNCHANGED <<bucketVars, given>>

(* BEGIN IMMEDIATE, the SELECT, and the two early returns with a ROLLBACK. *)
SelectForTiering(p) ==
  /\ At(p, "work", "tier_to_object_storage")
  /\ writer = NoProc
  /\ \E i \in tx[p].ids :
       IF ~Stored(db, i) THEN Reads(p, Finish(tx[p], "None"))
       ELSE IF Tiered(db, i) THEN Reads(p, Finish(tx[p], "False"))
       ELSE Write(p, {db}, [tx[p] EXCEPT !.pc = "upload"])
  /\ UNCHANGED <<bucketVars, given>>

(* The upload, with the file locked, and the UPDATE after it. *)
Upload(p) ==
  /\ tx[p].pc = "upload"
  /\ objects' = objects \cup tx[p].ids
  /\ \E i \in tx[p].ids : draft' = MarkTiered(draft, i)
  /\ tx' = [tx EXCEPT ![p].pc = "commit", ![p].result = "True"]
  /\ UNCHANGED <<mode, schema, db, writer, excused, given>>

(* The upload raises (LateUpload may store the object all the same):        *)
(* ROLLBACK.                                                                *)
UploadFails(p) ==
  /\ tx[p].pc = "upload"
  /\ Forget(p)
  /\ excused' = excused \cup tx[p].ids
  /\ tx' = [tx EXCEPT ![p] = Finish(@, "StorageError")]
  /\ UNCHANGED <<objects, given>>

-----------------------------------------------------------------------------
(* get_many *)

BeginGet(p) ==
  \E S \in BatchOf(Nameable) :
    /\ Begin(p, [Idle EXCEPT !.op = "get_many", !.ids = S])
    /\ UNCHANGED given

(* One SELECT: the bytes of the rows that have them, the keys of the others. *)
Select(p) ==
  /\ At(p, "work", "get_many")
  /\ LET found == Found(tx[p].ids)
         tiered == {i \in found : Tiered(db, i)}
     IN Reads(p, IF tiered = {} THEN [Finish(tx[p], "bytes") EXCEPT !.applied = found]
                 ELSE [tx[p] EXCEPT !.pc = "fetch", !.todo = tiered, !.applied = found])
  /\ UNCHANGED <<bucketVars, given>>

(* _fetch_tiered_bytes for one record after the other: a missing object     *)
(* fails the whole batch.                                                   *)
Fetch(p, i) ==
  /\ tx[p].pc = "fetch" /\ i \in tx[p].todo
  /\ Reads(p, IF i \notin objects THEN Finish(tx[p], "StorageError")
              ELSE IF tx[p].todo = {i} THEN Finish(tx[p], "bytes")
              ELSE [tx[p] EXCEPT !.todo = @ \ {i}])
  /\ UNCHANGED <<bucketVars, given>>

-----------------------------------------------------------------------------
(* get_stream *)

BeginStream(p) ==
  \E i \in Nameable :
    /\ Begin(p, [Idle EXCEPT !.op = "get_stream", !.ids = {i}])
    /\ UNCHANGED given

(* The eager part: the rowid, and where the bytes are. *)
StreamInfo(p) ==
  /\ At(p, "work", "get_stream")
  /\ \E i \in tx[p].ids :
       Reads(p, IF ~Stored(db, i) THEN Finish(tx[p], "None")
                ELSE IF Tiered(db, i) THEN [tx[p] EXCEPT !.pc = "object", !.left = Chunks]
                ELSE [tx[p] EXCEPT !.pc = "opened", !.rowid = RowIdOf(db, i), !.left = Chunks])
  /\ UNCHANGED <<bucketVars, given>>

(* The consumer's first next(): blobopen(table, rowid), or BEGIN, pins what *)
(* the table has at that rowid by now.                                      *)
OpenBlob(p) ==
  /\ tx[p].pc = "opened"
  /\ LET bytes == BytesAt(db, tx[p].rowid)
     IN Reads(p, IF bytes = {} THEN Finish(tx[p], "StorageError")
                 ELSE [tx[p] EXCEPT !.pc = "chunks", !.pinned = bytes,
                         !.begun = \E i \in tx[p].ids :
                                     db.rows[i].backend = "sqlite" /\ RowIdOf(db, i) = tx[p].rowid])
  /\ UNCHANGED <<bucketVars, given>>

Delivered(r, content) ==
  IF r.left <= 1 THEN [Finish(r, "bytes") EXCEPT !.left = 0, !.got = @ \cup content]
  ELSE [r EXCEPT !.left = @ - 1, !.got = @ \cup content]

(* Faulty: each substr() query is a transaction of its own. *)
ReadBlobUnpinned(p) ==
  /\ tx[p].pc = "chunks"
  /\ LET bytes == BytesAt(db, tx[p].rowid)
     IN Reads(p, IF bytes = {} THEN Finish(tx[p], "StorageError") ELSE Delivered(tx[p], bytes))
  /\ UNCHANGED <<bucketVars, given>>

(* blob.read(), or substr() in the held read transaction. *)
ReadBlob(p) ==
  /\ tx[p].pc = "chunks"
  /\ Reads(p, Delivered(tx[p], tx[p].pinned))
  /\ UNCHANGED <<bucketVars, given>>

(* One Range request of download_stream. *)
ReadObject(p) ==
  /\ tx[p].pc = "object"
  /\ \E i \in tx[p].ids :
       Reads(p, IF i \in objects THEN Delivered(tx[p], {}) ELSE Finish(tx[p], "StorageError"))
  /\ UNCHANGED <<bucketVars, given>>

-----------------------------------------------------------------------------
SyncBegin(p) == BeginMigrate(p) \/ BeginPut(p) \/ BeginDelete(p) \/ BeginTier(p)
                \/ BeginGet(p) \/ BeginStream(p)

SyncWrite(p) ==
  \/ Migrate(p) \/ Put(p) \/ Delete(p)
  \/ SelectForTiering(p) \/ Upload(p) \/ UploadFails(p)
  \/ Busy(p) \/ Fail(p) \/ Commit(p)
  \/ \E i \in Ids : RemoveObject(p, i) \/ RemoveObjectFails(p, i)

SyncRead(p) ==
  \/ Select(p) \/ \E i \in Ids : Fetch(p, i)
  \/ StreamInfo(p) \/ OpenBlob(p) \/ ReadBlob(p) \/ ReadObject(p)

SyncStep(p) == SyncWrite(p) \/ SyncRead(p) \/ Return(p)
=============================================================================
