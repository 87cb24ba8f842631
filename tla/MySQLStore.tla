----------------------------- MODULE MySQLStore -----------------------------
(***************************************************************************)
(* MySQLBackend (adapters/mysql.py): the pool that threads of one backend  *)
(* share, _run with its retries, and the operations that MySQL's lack of   *)
(* RETURNING shapes differently from PostgreSQL: ids are drawn by the      *)
(* client before the retries, a delete selects its rows FOR UPDATE before  *)
(* it deletes them, and a ref_count is read FOR UPDATE, lowered in Python  *)
(* and written back.  put, get and delete are the batches of one image.    *)
(*                                                                         *)
(* DBUtils' pool and InnoDB are external.  A pool that is closed drops its *)
(* idle connections and keeps handing out new ones; a statement of a       *)
(* transaction may fail at any time (deadlock, lock wait timeout, a lost   *)
(* connection), a plain SELECT reads what is committed and never waits,    *)
(* and a row lock is held until its transaction ends.                      *)
(*                                                                         *)
(* An operator whose comment begins with "Faulty:" is a plausible mistake  *)
(* in the definition after it; Next never uses it.                         *)
(***************************************************************************)
EXTENDS Integers, FiniteSetsExt

CONSTANTS
  Procs,      (* threads that share a MySQLBackend                           *)
  Ids,        (* image ids; an object's key is the id of its image           *)
  Sums,       (* checksums, which are numbers: batches are sorted by them    *)
  MaxBatch,   (* most images of a call                                       *)
  MaxRetries, (* max_retries                                                 *)
  PoolMax,    (* pool_max_size                                               *)
  Chunks,     (* chunks of a streamed image                                  *)
  Modes,      (* subset of {"classic", "dedup"}                              *)
  NoSum, NoProc

ASSUME MySQLAssumption ==
  /\ IsFiniteSet(Procs) /\ IsFiniteSet(Ids) /\ IsFiniteSet(Sums)
  /\ Sums \subseteq Nat \ {0} /\ NoSum = 0
  /\ {MaxBatch, PoolMax, Chunks} \subseteq Nat \ {0} /\ MaxRetries \in Nat
  /\ Modes \subseteq {"classic", "dedup"} /\ Modes # {}
  /\ NoProc \notin Procs

VARIABLES
  mode,     (* "classic" or "dedup"                                          *)
  closed,   (* self._closed                                                  *)
  out,      (* connections that are checked out of the pool                  *)
  rows,     (* zerobucket_images, or zerobucket_image_refs: where the bytes are *)
  blobs,    (* zerobucket_blobs: ref_count, 0 for a blob that is not there   *)
  lock,     (* InnoDB's lock on each row and blob: its transaction, or NoProc *)
  objects,  (* keys in the bucket                                            *)
  given,    (* the content that each drawn id was drawn for                  *)
  tx        (* each thread's call                                            *)

tables == <<rows, blobs>>
vars == <<mode, closed, out, rows, blobs, lock, objects, given, tx>>

Backend == {"none", "mysql", "object_storage"}

(* pc says which statement or download comes next; a call has a connection  *)
(* from "work" on until its commit.                                         *)
Connected == {"work", "blobs", "refs", "upload", "update", "commit"}

Call == [
  pc      : Connected \cup {"idle", "check", "connect", "cleanup", "fetch", "object", "returned"},
  op      : {"put_many", "delete_many", "tier_to_object_storage", "get_many", "get_stream"},
  ids     : SUBSET Ids,
  attempt : Nat,
  alive   : BOOLEAN,          (* the server still knows the connection         *)
  wrote   : SUBSET Ids,       (* rows this attempt inserts, deletes or tiers   *)
  counts  : [Sums -> Int],    (* ref_counts as this attempt wrote them, or -1  *)
  sums    : SUBSET Sums,      (* blobs still to be written                     *)
  todo    : SUBSET Ids,       (* objects to remove or download                 *)
  left    : Nat,              (* get_stream: chunks to come; 0 before the first *)
  got     : SUBSET Sums,      (* get_stream: contents delivered                *)
  late    : Nat,              (* connections taken after close(), for CloseStops *)
  result  : {"none", "None", "bytes", "StorageError", "TypeError"} ]

Unwritten == [s \in Sums |-> -1]

Idle == [pc |-> "idle", op |-> "get_many", ids |-> {}, attempt |-> 0, alive |-> TRUE,
         wrote |-> {}, counts |-> Unwritten, sums |-> {}, todo |-> {}, left |-> 0,
         got |-> {}, late |-> 0, result |-> "none"]

Init ==
  /\ mode \in Modes /\ closed = FALSE /\ out = 0
  /\ rows = [i \in Ids |-> "none"] /\ blobs = [s \in Sums |-> 0]
  /\ lock = [k \in Ids \cup Sums |-> NoProc]
  /\ objects = {} /\ given = [i \in Ids |-> NoSum]
  /\ tx = [p \in Procs |-> Idle]

-----------------------------------------------------------------------------
(* Helpers *)

At(p, pc, op) == tx[p].pc = pc /\ tx[p].op = op

Stored(S) == {i \in S : rows[i] # "none"}
Tiered(S) == {i \in S : rows[i] = "object_storage"}

SumsOf(S) == {given[i] : i \in S}
Count(S, s) == Cardinality({i \in S : given[i] = s})

(* The call is over.  The properties ask for the answer of a stream only. *)
Finish(r, result) ==
  IF r.op = "get_stream"
  THEN [Idle EXCEPT !.pc = "returned", !.op = r.op, !.ids = r.ids, !.left = r.left,
                    !.got = r.got, !.result = result]
  ELSE Idle

Goes(p, r) == tx' = [tx EXCEPT ![p] = r]

Free(p, K) == \A k \in K : lock[k] \in {NoProc, p}
Lock(p, K) == lock' = [k \in DOMAIN lock |-> IF k \in K THEN p ELSE lock[k]]
Unlock(p) == lock' = [k \in DOMAIN lock |-> IF lock[k] = p THEN NoProc ELSE lock[k]]

(* The ref_count as transaction p sees it. *)
Seen(p, s) == IF tx[p].counts[s] >= 0 THEN tx[p].counts[s] ELSE blobs[s]

-----------------------------------------------------------------------------
(* The pool and _run *)

Begin(p, call) ==
  /\ tx[p].pc = "idle"
  /\ Goes(p, [call EXCEPT !.pc = "check"])
  /\ UNCHANGED <<mode, closed, out, tables, lock, objects>>

(* Faulty: a backend is asked whether it is closed when a call begins only. *)
CheckFirst(p) ==
  /\ tx[p].pc = "check"
  /\ Goes(p, IF closed /\ tx[p].left = 0 THEN Finish(tx[p], "StorageError")
             ELSE [tx[p] EXCEPT !.pc = "connect"])
  /\ UNCHANGED <<mode, closed, out, tables, lock, objects, given>>

(* _connect: `if self._closed`, once for each attempt. *)
Check(p) ==
  /\ tx[p].pc = "check"
  /\ Goes(p, IF closed THEN Finish(tx[p], "StorageError") ELSE [tx[p] EXCEPT !.pc = "connect"])
  /\ UNCHANGED <<mode, closed, out, tables, lock, objects, given>>

(* self._pool.connection(), asked for again and again: it does not look at  *)
(* self._closed, and a closed pool would not mind.                          *)
Connect(p) ==
  /\ tx[p].pc = "connect" /\ out < PoolMax
  /\ out' = out + 1
  /\ Goes(p, [tx[p] EXCEPT !.pc = "work", !.late = IF closed THEN @ + 1 ELSE @])
  /\ UNCHANGED <<mode, closed, tables, lock, objects, given>>

(* The deadline has passed, or no connection can be opened: not retried. *)
ConnectFails(p) ==
  /\ tx[p].pc = "connect"
  /\ Goes(p, Finish(tx[p], "StorageError"))
  /\ UNCHANGED <<mode, closed, out, tables, lock, objects, given>>

AfterFailure(r) ==
  IF r.attempt < MaxRetries
  THEN [Idle EXCEPT !.pc = "check", !.op = r.op, !.ids = r.ids, !.attempt = r.attempt + 1,
                    !.left = r.left, !.got = r.got, !.late = r.late]
  ELSE Finish(r, "StorageError")

(* Faulty: the connection goes back to the pool in the middle of its        *)
(* transaction.                                                             *)
FailWithoutRollback(p) ==
  /\ tx[p].pc \in Connected \ {"upload"}
  /\ out' = out - 1
  /\ Goes(p, AfterFailure(tx[p]))
  /\ UNCHANGED <<mode, closed, tables, lock, objects, given>>

(* An OperationalError: rollback, the connection back to the pool, and all  *)
(* of work(conn) again.                                                     *)
Fail(p) ==
  /\ tx[p].pc \in Connected \ {"upload"}
  /\ Unlock(p) /\ out' = out - 1
  /\ Goes(p, AfterFailure(tx[p]))
  /\ UNCHANGED <<mode, closed, tables, objects, given>>

(* Faulty: the error path and the finally clause both return the connection. *)
AbortTwice(p) ==
  /\ tx[p].pc \in Connected \ {"upload"}
  /\ Unlock(p) /\ out' = out - 2
  /\ Goes(p, Finish(tx[p], "StorageError"))
  /\ UNCHANGED <<mode, closed, tables, objects, given>>

(* Any other error is raised at once. *)
Abort(p) ==
  /\ tx[p].pc \in Connected \ {"upload"}
  /\ Unlock(p) /\ out' = out - 1
  /\ Goes(p, Finish(tx[p], "StorageError"))
  /\ UNCHANGED <<mode, closed, tables, objects, given>>

(* The server gives up a connection, and its locks, during the upload. *)
Disconnect(p) ==
  /\ tx[p].pc = "upload" /\ tx[p].alive
  /\ Unlock(p)
  /\ Goes(p, [tx[p] EXCEPT !.alive = FALSE])
  /\ UNCHANGED <<mode, closed, out, tables, objects, given>>

(* What the commit of p writes. *)
Install(p) ==
  /\ rows' = [i \in Ids |-> IF i \notin tx[p].wrote THEN rows[i]
                            ELSE CASE tx[p].op = "put_many" -> "mysql"
                                   [] tx[p].op = "delete_many" -> "none"
                                   [] OTHER -> "object_storage"]
  /\ blobs' = [s \in Sums |-> Seen(p, s)]
  /\ Unlock(p) /\ out' = out - 1
  /\ UNCHANGED <<mode, closed, objects, given>>

(* commit, and the connection goes back; the objects of deleted rows are    *)
(* next.                                                                    *)
Commit(p) ==
  /\ tx[p].pc = "commit"
  /\ Install(p)
  /\ Goes(p, IF tx[p].todo = {} THEN Idle
             ELSE [tx[p] EXCEPT !.pc = "cleanup", !.wrote = {}, !.counts = Unwritten])

(* The commit succeeds and its acknowledgement is lost. *)
CommitLost(p) ==
  /\ tx[p].pc = "commit"
  /\ Install(p)
  /\ Goes(p, AfterFailure(tx[p]))

Return(p) ==
  /\ tx[p].pc = "returned"
  /\ Goes(p, Idle)
  /\ UNCHANGED <<mode, closed, out, tables, lock, objects, given>>

(* close(): calls under way finish. *)
Close ==
  /\ ~closed /\ closed' = TRUE
  /\ UNCHANGED <<mode, out, tables, lock, objects, given, tx>>

-----------------------------------------------------------------------------
(* put_many *)

BatchOf(S) == {T \in SUBSET S : Cardinality(T) \in 1..MaxBatch}

(* An id of uuid4() is one that no call has ever used. *)
Fresh == {i \in Ids : given[i] = NoSum /\ \A q \in Procs : i \notin tx[q].ids}

(* A client names ids that a put has returned, or that nobody knows. *)
Nameable == {i \in Ids : \A q \in Procs : tx[q].op = "put_many" => i \notin tx[q].ids}

(* uuid4() for each row, before _run. *)
BeginPut(p) ==
  \E S \in BatchOf(Fresh) : \E c \in [S -> Sums] :
    /\ Begin(p, [Idle EXCEPT !.op = "put_many", !.ids = S])
    /\ given' = [i \in Ids |-> IF i \in S THEN c[i] ELSE given[i]]

(* The INSERTs of a batch.  A row that is there already is the work of an   *)
(* attempt that did commit: an IntegrityError, which Abort raises.          *)
Insert(p) ==
  /\ \/ At(p, "work", "put_many") /\ mode = "classic"
     \/ At(p, "refs", "put_many")
  /\ Stored(tx[p].ids) = {}
  /\ Goes(p, [tx[p] EXCEPT !.pc = "commit", !.wrote = tx[p].ids])
  /\ UNCHANGED <<mode, closed, out, tables, lock, objects, given>>

(* Where a loop over the blobs of a call stands. *)
Next1(r, s, last) == IF r.sums = {s} THEN last ELSE "blobs"

SortBlobs(p) ==
  /\ At(p, "work", "put_many") /\ mode = "dedup"
  /\ Goes(p, [tx[p] EXCEPT !.pc = "blobs", !.sums = SumsOf(tx[p].ids)])
  /\ UNCHANGED <<mode, closed, out, tables, lock, objects, given>>

(* INSERT ... ON DUPLICATE KEY UPDATE ref_count = ref_count + 1, for each   *)
(* image of the checksum whose turn it is.                                  *)
UpsertBlob(p) ==
  /\ At(p, "blobs", "put_many")
  /\ LET s == Min(tx[p].sums)
     IN /\ Free(p, {s}) /\ Lock(p, {s})
        /\ Goes(p, [tx[p] EXCEPT !.counts[s] = Seen(p, s) + Count(tx[p].ids, s),
                                 !.sums = @ \ {s}, !.pc = Next1(tx[p], s, "refs")])
  /\ UNCHANGED <<mode, closed, out, tables, objects, given>>

-----------------------------------------------------------------------------
(* delete_many *)

BeginDelete(p) ==
  \E S \in BatchOf(Nameable) :
    Begin(p, [Idle EXCEPT !.op = "delete_many", !.ids = S]) /\ UNCHANGED given

(* SELECT ... FOR UPDATE, then DELETE of the rows it found. *)
DeleteRows(p) ==
  /\ At(p, "work", "delete_many")
  /\ Free(p, tx[p].ids)
  /\ LET found == Stored(tx[p].ids)
     IN /\ Lock(p, found)
        /\ Goes(p, [tx[p] EXCEPT !.wrote = found, !.todo = Tiered(found),
                      !.sums = IF mode = "dedup" THEN SumsOf(found) ELSE {},
                      !.pc = IF mode = "dedup" /\ found # {} THEN "blobs" ELSE "commit"])
  /\ UNCHANGED <<mode, closed, out, tables, objects, given>>

(* Faulty: the count is selected without FOR UPDATE. *)
DecrementBlobUnlocked(p) ==
  /\ At(p, "blobs", "delete_many")
  /\ LET s == Min(tx[p].sums)
     IN Goes(p, [tx[p] EXCEPT !.counts[s] = Max({0, blobs[s] - Count(tx[p].wrote, s)}),
                              !.sums = @ \ {s}, !.pc = Next1(tx[p], s, "commit")])
  /\ UNCHANGED <<mode, closed, out, tables, lock, objects, given>>

(* SELECT ref_count FOR UPDATE, minus the deleted refs of the blob, UPDATE; *)
(* a blob with none left is deleted (at the end of the transaction).        *)
DecrementBlob(p) ==
  /\ At(p, "blobs", "delete_many")
  /\ LET s == Min(tx[p].sums)
     IN /\ Free(p, {s}) /\ Lock(p, {s})
        /\ Goes(p, [tx[p] EXCEPT !.counts[s] = Max({0, Seen(p, s) - Count(tx[p].wrote, s)}),
                                 !.sums = @ \ {s}, !.pc = Next1(tx[p], s, "commit")])
  /\ UNCHANGED <<mode, closed, out, tables, objects, given>>

(* One object after the other, after the commit; a failure is an event. *)
RemoveObject(p, i) ==
  /\ tx[p].pc = "cleanup" /\ i \in tx[p].todo
  /\ objects' \in {objects, objects \ {i}}
  /\ Goes(p, IF tx[p].todo = {i} THEN Idle
             ELSE [tx[p] EXCEPT !.todo = @ \ {i}])
  /\ UNCHANGED <<mode, closed, out, tables, lock, given>>

-----------------------------------------------------------------------------
(* tier_to_object_storage *)

BeginTier(p) ==
  \E i \in Nameable :
    /\ mode = "classic"
    /\ Begin(p, [Idle EXCEPT !.op = "tier_to_object_storage", !.ids = {i}])
    /\ UNCHANGED given

(* SELECT ... FOR UPDATE and the two early returns. *)
SelectForTiering(p) ==
  /\ At(p, "work", "tier_to_object_storage")
  /\ Free(p, tx[p].ids)
  /\ Lock(p, Stored(tx[p].ids))
  /\ Goes(p, [tx[p] EXCEPT !.pc =
       IF Stored(tx[p].ids) = {} \/ Tiered(tx[p].ids) # {} THEN "commit" ELSE "upload"])
  /\ UNCHANGED <<mode, closed, out, tables, objects, given>>

Upload(p) ==
  /\ tx[p].pc = "upload"
  /\ objects' = objects \cup tx[p].ids
  /\ Goes(p, [tx[p] EXCEPT !.pc = "update"])
  /\ UNCHANGED <<mode, closed, out, tables, lock, given>>

(* A StorageError, which is not retried; the object may be there. *)
UploadFails(p) ==
  /\ tx[p].pc = "upload"
  /\ objects' \in {objects, objects \cup tx[p].ids}
  /\ Unlock(p) /\ out' = out - 1
  /\ Goes(p, Finish(tx[p], "StorageError"))
  /\ UNCHANGED <<mode, closed, tables, given>>

(* Faulty: the pool reconnects on its own and sends the UPDATE again, after *)
(* the lock of the SELECT is gone.                                          *)
UpdateFailingOver(p) ==
  /\ tx[p].pc = "update"
  /\ Goes(p, [tx[p] EXCEPT !.pc = "commit", !.wrote = tx[p].ids])
  /\ UNCHANGED <<mode, closed, out, tables, lock, objects, given>>

(* The UPDATE, on the connection that has the lock (_never_fail_over); with *)
(* any other, Fail is what happens.                                         *)
Update(p) ==
  /\ tx[p].pc = "update" /\ tx[p].alive
  /\ Goes(p, [tx[p] EXCEPT !.pc = "commit", !.wrote = tx[p].ids])
  /\ UNCHANGED <<mode, closed, out, tables, lock, objects, given>>

-----------------------------------------------------------------------------
(* get_many, get_stream *)

BeginRead(p) ==
  \E S \in BatchOf(Nameable), op \in {"get_many", "get_stream"} :
    /\ op = "get_stream" => Cardinality(S) = 1
    /\ Begin(p, [Idle EXCEPT !.op = op, !.ids = S])
    /\ UNCHANGED given

(* A read, its commit, and the connection goes back. *)
Reads(p, r) ==
  /\ out' = out - 1
  /\ Goes(p, r)
  /\ UNCHANGED <<mode, closed, tables, lock, objects, given>>

Select(p) ==
  /\ At(p, "work", "get_many")
  /\ LET found == Stored(tx[p].ids)
     IN Reads(p, IF Tiered(found) = {} THEN Idle
                 ELSE [tx[p] EXCEPT !.pc = "fetch", !.todo = Tiered(found)])

(* _fetch_tiered_bytes, without a connection. *)
Fetch(p, i) ==
  /\ tx[p].pc = "fetch" /\ i \in tx[p].todo
  /\ Goes(p, IF i \notin objects THEN Finish(tx[p], "StorageError")
             ELSE IF tx[p].todo = {i} THEN Idle
             ELSE [tx[p] EXCEPT !.todo = @ \ {i}])
  /\ UNCHANGED <<mode, closed, out, tables, lock, objects, given>>

(* The first query of a stream, a _run of its own. *)
StreamInfo(p) ==
  /\ At(p, "work", "get_stream") /\ tx[p].left = 0
  /\ Reads(p, IF Stored(tx[p].ids) = {} THEN Finish(tx[p], "None")
              ELSE [tx[p] EXCEPT !.left = Chunks, !.attempt = 0,
                                 !.pc = IF Tiered(tx[p].ids) # {} THEN "object" ELSE "check"])

Delivered(r, content, pc) ==
  IF r.left = 1 THEN [Finish(r, "bytes") EXCEPT !.left = 0, !.got = @ \cup content]
  ELSE [r EXCEPT !.left = @ - 1, !.got = @ \cup content, !.pc = pc, !.attempt = 0]

(* Faulty: a row that is gone is the end of the stream. *)
ReadChunkToEnd(p) ==
  /\ At(p, "work", "get_stream") /\ tx[p].left > 0
  /\ Reads(p, IF Stored(tx[p].ids) = {} THEN Finish(tx[p], "bytes")
              ELSE IF Tiered(tx[p].ids) # {} THEN Finish(tx[p], "TypeError")
              ELSE Delivered(tx[p], SumsOf(tx[p].ids), "check"))

(* SUBSTRING(data FROM ... FOR ...), a _run for each chunk: no row is an    *)
(* error, and the NULL of an image that was tiered meanwhile breaks bytes(). *)
ReadChunk(p) ==
  /\ At(p, "work", "get_stream") /\ tx[p].left > 0
  /\ Reads(p, IF Stored(tx[p].ids) = {} THEN Finish(tx[p], "StorageError")
              ELSE IF Tiered(tx[p].ids) # {} THEN Finish(tx[p], "TypeError")
              ELSE Delivered(tx[p], SumsOf(tx[p].ids), "check"))

(* One Range request. *)
ReadObject(p) ==
  /\ tx[p].pc = "object"
  /\ Goes(p, IF tx[p].ids \subseteq objects THEN Delivered(tx[p], SumsOf(tx[p].ids), "object")
             ELSE Finish(tx[p], "StorageError"))
  /\ UNCHANGED <<mode, closed, out, tables, lock, objects, given>>

-----------------------------------------------------------------------------
BeginCall(p) == BeginPut(p) \/ BeginDelete(p) \/ BeginTier(p) \/ BeginRead(p)

Write(p) ==
  \/ Insert(p) \/ SortBlobs(p) \/ UpsertBlob(p)
  \/ DeleteRows(p) \/ DecrementBlob(p)
  \/ SelectForTiering(p) \/ Upload(p) \/ UploadFails(p) \/ Update(p)
  \/ Commit(p) \/ CommitLost(p)
  \/ \E i \in Ids : RemoveObject(p, i)

Read(p) ==
  \/ Select(p) \/ StreamInfo(p) \/ ReadChunk(p) \/ ReadObject(p)
  \/ \E i \in Ids : Fetch(p, i)

Step(p) ==
  \/ Check(p) \/ Connect(p) \/ ConnectFails(p)
  \/ Fail(p) \/ Abort(p) \/ Write(p) \/ Read(p) \/ Return(p)

Next == Close \/ \E p \in Procs : BeginCall(p) \/ Step(p) \/ Disconnect(p)

Spec == Init /\ [][Next]_vars

-----------------------------------------------------------------------------
(* Properties *)

TypeOK ==
  /\ mode \in Modes /\ closed \in BOOLEAN /\ out \in 0..PoolMax
  /\ rows \in [Ids -> Backend] /\ blobs \in [Sums -> Nat]
  /\ lock \in [Ids \cup Sums -> Procs \cup {NoProc}]
  /\ objects \subseteq Ids /\ given \in [Ids -> Sums \cup {NoSum}]
  /\ tx \in [Procs -> Call]

(* Whatever attempt failed where, a connection that went back to the pool   *)
(* takes no transaction and no row lock with it, and every connection that  *)
(* is out belongs to a call that will give it back.                         *)
PoolClean ==
  /\ out = Cardinality({p \in Procs : tx[p].pc \in Connected})
  /\ \A k \in DOMAIN lock : lock[k] # NoProc => tx[lock[k]].pc \in Connected

(* Reading a ref_count, lowering it in Python and writing it back loses no  *)
(* update: a blob has exactly as many references as there are refs of it    *)
(* ("two concurrent deletes of different refs to the same blob serialize").  *)
RefCountExact ==
  mode = "dedup" => \A s \in Sums : blobs[s] = Count(Stored(Ids), s)

(* A stream that ends without an error has delivered its image, all of it   *)
(* and nothing else ("rather than silently yielding a short read").         *)
StreamsWhole ==
  \A p \in Procs :
    At(p, "returned", "get_stream") /\ tx[p].result = "bytes" =>
      tx[p].left = 0 /\ tx[p].got = SumsOf(tx[p].ids)

(* What a reader finds, wherever the bytes are. *)
Images ==
  [i \in Ids |-> IF \/ rows[i] = "mysql" /\ (mode = "dedup" => blobs[given[i]] > 0)
                    \/ rows[i] = "object_storage" /\ i \in objects
                 THEN given[i] ELSE NoSum]

OpenCalls ==
  [p \in Procs |->
     IF /\ tx[p].op \in {"put_many", "delete_many"}
        /\ tx[p].pc \in {"check", "connect"} \cup Connected
     THEN [kind |-> IF tx[p].op = "put_many" THEN "put" ELSE "delete",
           want |-> [s \in Sums |-> IF tx[p].op = "put_many" THEN Count(tx[p].ids, s) ELSE 0],
           ids |-> IF tx[p].op = "put_many" THEN {} ELSE tx[p].ids]
     ELSE [kind |-> "none", want |-> [s \in Sums |-> 0], ids |-> {}]]

Abstract == INSTANCE ImageStore
  WITH Contents <- Sums, NoImage <- NoSum, images <- Images, calls <- OpenCalls

(* The MySQL backend implements the image store in both modes: whole        *)
(* batches, and no image is lost to a tiering.                              *)
Refinement == Abstract!Spec

(* close(): "Connections currently checked out by other in-flight           *)
(* operations finish normally", and that is all: a call that was between    *)
(* the check and the pool takes one more connection, and no retry and no    *)
(* later chunk of a stream takes another.                                   *)
CloseStops == \A p \in Procs : tx[p].late <= 1
=============================================================================
