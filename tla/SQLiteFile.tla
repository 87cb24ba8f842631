----------------------------- MODULE SQLiteFile -----------------------------
(***************************************************************************)
(* The SQLite database file that sync and async backends share: the tables *)
(* of classic and dedup mode, the one writer lock of the file, the object  *)
(* storage beside it, and the calls of the clients.  SQLiteStore has the   *)
(* operations of SQLiteBackend, AsyncSQLite those of AsyncSQLiteBackend,   *)
(* and SQLiteSystem puts the two on one file.                              *)
(*                                                                         *)
(* The engine is external.  In WAL mode a statement reads the last         *)
(* committed state (a held read transaction keeps the state it began       *)
(* with) and never waits; the first write of a transaction takes the       *)
(* writer lock of the whole file and works on a private draft, which a     *)
(* commit installs and a rollback forgets.  Who waits for the lock gets    *)
(* SQLITE_BUSY after the busy timeout.  A new row gets the rowid max + 1,  *)
(* so the rowid of a deleted last row is given out again.                  *)
(*                                                                         *)
(* An operator whose comment begins with "Faulty:" is a plausible mistake  *)
(* in the definition after it; Next never uses it.                         *)
(***************************************************************************)
EXTENDS Integers, FiniteSetsExt

CONSTANTS
  SyncProcs,  (* clients of a SQLiteBackend                                  *)
  AsyncProcs, (* tasks that share an AsyncSQLiteBackend                      *)
  Ids,        (* image ids; an object's key is the id of its image           *)
  Sums,       (* contents, which a checksum names                            *)
  MaxBatch,   (* most images of a put_many, delete_many or get_many          *)
  MaxRetries, (* the max_retries of both backends                            *)
  Chunks,     (* chunks of a streamed image                                  *)
  Modes,      (* subset of {"classic", "dedup"}: how the file may be used    *)
  NoSum, NoProc

Procs == SyncProcs \cup AsyncProcs

ASSUME SQLiteAssumption ==
  /\ IsFiniteSet(Ids) /\ IsFiniteSet(Sums)
  /\ MaxBatch \in Nat \ {0} /\ MaxRetries \in Nat /\ Chunks \in Nat \ {0}
  /\ Modes \subseteq {"classic", "dedup"} /\ Modes # {}
  /\ SyncProcs \cap AsyncProcs = {}
  /\ NoSum \notin Sums /\ NoProc \notin Procs

VARIABLES
  mode,       (* "classic" (with object_storage=) or "dedup": they exclude each other *)
  schema,     (* the tables exist and the file is in WAL mode                *)
  db,         (* the committed tables                                        *)
  writer,     (* holder of the writer lock, or NoProc                        *)
  draft,      (* the tables as the writer sees them                          *)
  objects,    (* keys in the bucket                                          *)
  excused,    (* keys whose object may outlive its row: the removal failed and
                 an "object_storage_delete" event said so, or an upload of
                 the image failed or was abandoned and may still succeed     *)
  given,      (* the content each drawn id was drawn for                     *)
  tx          (* each client's call                                          *)

fileVars == <<mode, schema, db, writer, draft>>
bucketVars == <<objects, excused>>

-----------------------------------------------------------------------------
(* The tables *)

Backend == {"none", "sqlite", "object_storage"}
Row == [sum : Sums \cup {NoSum}, rowid : Nat, backend : Backend]
Blob == [rowid : Nat, count : Int]

NoRow == [sum |-> NoSum, rowid |-> 0, backend |-> "none"]
NoBlob == [rowid |-> 0, count |-> 0]

(* rows is zerobucket_images, or in dedup mode zerobucket_image_refs, whose *)
(* rowids nobody uses; blobs is zerobucket_blobs.                           *)
Empty == [rows |-> [i \in Ids |-> NoRow], blobs |-> [s \in Sums |-> NoBlob]]

Stored(view, i) == view.rows[i].backend # "none"
Exists(view, s) == view.blobs[s].rowid # 0
Tiered(view, i) == view.rows[i].backend = "object_storage"

RowIds(view) ==
  IF mode = "dedup" THEN {view.blobs[s].rowid : s \in Sums} ELSE {view.rows[i].rowid : i \in Ids}

(* The rowids that new rows of the set S may get, whatever their order. *)
Numberings(view, S) ==
  LET next == Max(RowIds(view) \cup {0}) + 1
  IN {f \in [S -> next .. next + Cardinality(S) - 1] : \A a, b \in S : f[a] = f[b] => a = b}

(* The bytes that a table has at a rowid: none, or the one content. *)
BytesAt(view, rowid) ==
  IF mode = "dedup" THEN {s \in Sums : rowid # 0 /\ view.blobs[s].rowid = rowid}
  ELSE {view.rows[i].sum : i \in {j \in Ids : view.rows[j].backend = "sqlite"
                                              /\ view.rows[j].rowid = rowid}}

RowIdOf(view, i) ==
  IF mode = "dedup" THEN view.blobs[view.rows[i].sum].rowid ELSE view.rows[i].rowid

(* INSERT INTO zerobucket_images, row by row. *)
InsertImages(view, new) ==
  LET S == {i \in Ids : new[i] # NoSum}
  IN {[view EXCEPT !.rows = [i \in Ids |->
         IF i \in S THEN [sum |-> new[i], rowid |-> f[i], backend |-> "sqlite"]
         ELSE view.rows[i]]] : f \in Numberings(view, S)}

Count(new, s) == Cardinality({i \in Ids : new[i] = s})

(* Each image of the batch inserts its blob with ref_count 1 or adds 1. *)
UpsertBlobs(view, new) ==
  LET S == {s \in Sums : Count(new, s) > 0 /\ ~Exists(view, s)}
  IN {[s \in Sums |->
         IF Count(new, s) = 0 THEN view.blobs[s]
         ELSE [rowid |-> IF s \in S THEN f[s] ELSE view.blobs[s].rowid,
               count |-> view.blobs[s].count + Count(new, s)]] : f \in Numberings(view, S)}

InsertRefs(view, new) ==
  [i \in Ids |-> IF new[i] # NoSum
                 THEN [sum |-> new[i], rowid |-> 0, backend |-> "sqlite"] ELSE view.rows[i]]

RemoveRows(view, S) == [i \in Ids |-> IF i \in S THEN NoRow ELSE view.rows[i]]

(* Faulty: 1 per distinct checksum of the deleted refs. *)
DecrementBlobsOnce(view, S) ==
  [s \in Sums |->
     LET count == view.blobs[s].count - (IF \E i \in S : view.rows[i].sum = s THEN 1 ELSE 0)
     IN IF count <= 0 THEN NoBlob ELSE [view.blobs[s] EXCEPT !.count = count]]

(* Each blob loses as many references as refs of it were deleted, and goes  *)
(* with its last one.                                                       *)
DecrementBlobs(view, S) ==
  [s \in Sums |->
     LET count == view.blobs[s].count - Cardinality({i \in S : view.rows[i].sum = s})
     IN IF count <= 0 THEN NoBlob ELSE [view.blobs[s] EXCEPT !.count = count]]

MarkTiered(view, i) ==
  [view EXCEPT !.rows[i].backend = "object_storage"]

-----------------------------------------------------------------------------
(* The calls *)

Ops == {"migrate", "put_many", "delete_many", "tier_to_object_storage", "get_many", "get_stream"}

Call == [
  pc      : {"idle", "ready", "migrate", "work", "upload", "commit", "cleanup",
             "fetch", "opened", "chunks", "object", "returned"},
  op      : Ops,
  own     : BOOLEAN,                       (* connection=None                *)
  ids     : SUBSET Ids,                    (* the images the call is about   *)
  new     : [Ids -> Sums \cup {NoSum}],    (* put_many: their contents       *)
  attempt : Nat,
  todo    : SUBSET Ids,                    (* objects to remove or download  *)
  rowid   : Nat,                           (* get_stream: the row to read    *)
  pinned  : SUBSET Sums,                   (* what the held read transaction has there *)
  left    : Nat,                           (* get_stream: chunks to come     *)
  got     : SUBSET Sums,                   (* get_stream: contents delivered *)
  begun   : BOOLEAN,                       (* get_stream: the image had its bytes when its snapshot began *)
  applied : SUBSET Ids,                    (* rows this call has changed, or that get_many answers *)
  result  : {"none", "ids", "True", "False", "None", "bytes", "StorageError",
             "MigrationFailed", "Cancelled"} ]

Idle == [pc |-> "idle", op |-> "get_many", own |-> TRUE, ids |-> {},
         new |-> [i \in Ids |-> NoSum], attempt |-> 0, todo |-> {}, rowid |-> 0,
         pinned |-> {}, left |-> 0, got |-> {}, begun |-> FALSE,
         applied |-> {}, result |-> "none"]

At(p, pc, op) == tx[p].pc = pc /\ tx[p].op = op

(* The end of a call: what is left of it is its answer. *)
Finish(r, result) ==
  [Idle EXCEPT !.pc = "returned", !.op = r.op, !.own = r.own, !.ids = r.ids, !.left = r.left,
               !.got = r.got, !.begun = r.begun, !.applied = r.applied,
               !.result = result]

Returned(p, op) == At(p, "returned", op)

(* uuid4() never draws an id twice. *)
Fresh == {i \in Ids : given[i] = NoSum}

(* A client names ids that a put has returned, or that nobody knows. *)
Nameable == {i \in Ids : \A q \in Procs : tx[q].op = "put_many" => i \notin tx[q].ids}

Unlocked(p) == IF writer = p THEN NoProc ELSE writer

Changed == {i \in Ids : db.rows[i] # draft.rows[i]}

(* COMMIT: the draft becomes the state, and r the writer's call. *)
Install(p, r) ==
  /\ writer = p
  /\ db' = draft /\ writer' = NoProc /\ draft' = Empty
  /\ tx' = [tx EXCEPT ![p] = [r EXCEPT !.applied = @ \cup Changed]]
  /\ UNCHANGED <<mode, schema>>

(* ROLLBACK, or the end of a connection. *)
Forget(p) ==
  /\ writer' = Unlocked(p)
  /\ draft' = IF writer = p THEN Empty ELSE draft
  /\ UNCHANGED <<mode, schema, db>>

(* The first write of a transaction: the lock, and the draft with all of    *)
(* the transaction's changes (nobody else sees them before the commit).     *)
Write(p, drafts, r) ==
  /\ writer = NoProc
  /\ writer' = p
  /\ draft' \in drafts
  /\ tx' = [tx EXCEPT ![p] = r]
  /\ UNCHANGED <<mode, schema, db>>

(* A statement that reads. *)
Reads(p, r) == tx' = [tx EXCEPT ![p] = r] /\ UNCHANGED fileVars

(* The drafts of put_many and delete_many in both modes. *)
PutDrafts(new) ==
  IF mode = "dedup"
  THEN {[rows |-> InsertRefs(db, new), blobs |-> b] : b \in UpsertBlobs(db, new)}
  ELSE InsertImages(db, new)

DeleteDraft(S) ==
  [rows |-> RemoveRows(db, S),
   blobs |-> IF mode = "dedup" THEN DecrementBlobs(db, S) ELSE db.blobs]

Found(S) == {i \in S : Stored(db, i)}
=============================================================================
