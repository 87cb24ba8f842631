----------------------------- MODULE DedupStore -----------------------------
(***************************************************************************)
(* Dedup mode: image bytes are kept once per checksum in zerobucket_blobs, *)
(* with a ref_count, and every image id is a row of zerobucket_image_refs  *)
(* that points at its blob.  This module models put, put_many, delete and  *)
(* delete_many of the pooled PostgreSQL adapter (ClientIds = FALSE) and of *)
(* the MySQL adapter (ClientIds = TRUE: it draws the uuid4 of each row     *)
(* before the retry loop) one SQL statement at a time, with the row locks  *)
(* a statement holds until its transaction ends, and the retry loop (_run) *)
(* around the transaction.                                                 *)
(*                                                                         *)
(* An operator whose comment begins with "Faulty:" is a plausible mistake  *)
(* in the definition after it; Next never uses it.                         *)
(*                                                                         *)
(* The database (external) is modelled by what the adapter relies on: a    *)
(* committed state, a row lock per blob key and per ref row, READ          *)
(* COMMITTED statements that wait for a lock and then see the latest       *)
(* committed row, commit and rollback that are atomic, and a deadlock      *)
(* detector.  The foreign key and the absence of a CHECK on ref_count are  *)
(* not used to enforce anything: the invariants must follow from the code. *)
(***************************************************************************)
EXTENDS Integers, FiniteSets

CONSTANTS
  Procs,      (* clients: threads or processes, each with one call at a time *)
  Ids,        (* image ids (UUIDs)                                           *)
  Checksums,  (* SHA-256 digests; numbers, for sorted() compares them        *)
  MaxBatch,   (* most rows of a put_many, most ids of a delete_many          *)
  MaxRetries, (* the backend's max_retries                                   *)
  ClientIds,  (* TRUE: the id is drawn before the retry loop (MySQL, SQLite) *)
              (* FALSE: the server draws it inside the INSERT (PostgreSQL)   *)
  NoSum, NoProc

ASSUME ConstantsAssumption ==
  /\ IsFiniteSet(Ids)
  /\ Checksums \subseteq Nat /\ IsFiniteSet(Checksums)
  /\ MaxBatch \in Nat \ {0}
  /\ MaxRetries \in Nat
  /\ ClientIds \in BOOLEAN
  /\ NoSum \notin Checksums
  /\ NoProc \notin Procs

VARIABLES
  blobs,      (* checksums that have a committed row in zerobucket_blobs     *)
  refCount,   (* committed ref_count of each blob; 0 where there is no row   *)
  refs,       (* committed zerobucket_image_refs: id -> checksum or NoSum    *)
  blobLock,   (* owner of the row lock on each blob key, or NoProc           *)
  refLock,    (* owner of the row lock on each ref row, or NoProc            *)
  tx          (* each client's call and its open transaction                 *)

db    == <<blobs, refCount, refs>>
locks == <<blobLock, refLock>>
vars  == <<blobs, refCount, refs, blobLock, refLock, tx>>

RefMap == [Ids -> Checksums \cup {NoSum}]
NoRefs == [i \in Ids |-> NoSum]
Zero   == [c \in Checksums |-> 0]

(* A call and its transaction.  want, ids, pooled are the call's arguments; *)
(* the fields after them are what the transaction has done so far.          *)
Call == [
  pc      : {"idle", "work", "commit", "returned"},
  kind    : {"put", "delete"},
  pooled  : BOOLEAN,            (* connection=None: own transaction, retried *)
  want    : [Checksums -> Nat], (* put: rows of the batch, per checksum      *)
  ids     : SUBSET Ids,         (* delete: the image_ids                     *)
  left    : [Checksums -> Nat], (* put: upserts still to execute             *)
  placed  : RefMap,             (* put: the refs inserted, id -> checksum    *)
  scan    : SUBSET Ids,         (* delete: ids the DELETE has yet to visit   *)
  deleted : RefMap,             (* delete: deleted_rows, id -> checksum      *)
  counts  : [Checksums -> Int], (* ref_count as this transaction sees it     *)
  spent   : SUBSET Checksums,   (* delete: blobs already decremented         *)
  purged  : SUBSET Checksums,   (* delete: blobs this transaction deleted    *)
  attempt : Nat,
  applied : SUBSET Ids,         (* ids this call has changed in the database *)
  ok      : BOOLEAN ]           (* returned: no exception                    *)

Idle == [pc |-> "idle", kind |-> "put", pooled |-> TRUE, want |-> Zero,
         ids |-> {}, left |-> Zero, placed |-> NoRefs, scan |-> {},
         deleted |-> NoRefs, counts |-> Zero, spent |-> {}, purged |-> {},
         attempt |-> 0, applied |-> {}, ok |-> FALSE]

Init ==
  /\ blobs = {}
  /\ refCount = Zero
  /\ refs = NoRefs
  /\ blobLock = [c \in Checksums |-> NoProc]
  /\ refLock = [i \in Ids |-> NoProc]
  /\ tx = [p \in Procs |-> Idle]

-----------------------------------------------------------------------------
(* Helpers *)

Support(f) == {i \in Ids : f[i] # NoSum}

(* The rows of a ref map that point at blob c. *)
RowsOf(f, c) == {i \in Ids : f[i] = c}

(* The ids a transaction has inserted or deleted: what the call reports.   *)
Touched(p) == Support(tx[p].placed) \cup Support(tx[p].deleted)

(* An id nobody has ever heard of: a UUID the next draw may return.  An id *)
(* that is neither stored nor part of a call is as good as a new one.      *)
Fresh(i) ==
  /\ refs[i] = NoSum
  /\ \A q \in Procs : /\ tx[q].placed[i] = NoSum
                      /\ i \notin tx[q].ids
                      /\ i \notin tx[q].applied

(* One fresh id per row of the batch. *)
Draws(want) ==
  {f \in RefMap : /\ \A i \in Support(f) : Fresh(i)
                  /\ \A c \in Checksums : Cardinality(RowsOf(f, c)) = want[c]}

(* Batches of 1..MaxBatch rows. *)
Batches ==
  {w \in [Checksums -> 0..MaxBatch] :
     Cardinality({e \in Checksums \X (1..MaxBatch) : e[2] <= w[e[1]]}) \in 1..MaxBatch}

Free(p, owner) == owner \in {p, NoProc}

(* The transaction of p ends, in commit or rollback: its locks go. *)
Unlock(p) ==
  /\ blobLock' = [c \in Checksums |-> IF blobLock[c] = p THEN NoProc ELSE blobLock[c]]
  /\ refLock'  = [i \in Ids |-> IF refLock[i] = p THEN NoProc ELSE refLock[i]]

(* Faulty: deleted_rows is kept from the attempt that failed. *)
RestartedKeepingRows(r) ==
  [r EXCEPT !.pc = "work", !.left = r.want, !.scan = r.ids,
            !.placed = IF ClientIds THEN @ ELSE NoRefs,
            !.counts = Zero, !.spent = {}, !.purged = {}]

(* work(cur) starts from nothing on every attempt. *)
Restarted(r) ==
  [r EXCEPT !.pc = "work", !.left = r.want, !.scan = r.ids,
            !.placed = IF ClientIds THEN @ ELSE NoRefs,
            !.deleted = NoRefs, !.counts = Zero, !.spent = {}, !.purged = {}]

Raised(r) == [r EXCEPT !.pc = "returned", !.ok = FALSE]

(* Faulty: attempts are not counted. *)
AfterFailureForEver(r) == IF r.pooled THEN Restarted(r) ELSE Raised(r)

(* The except branch of _run: try again, or raise.  A caller's connection  *)
(* is never retried.                                                       *)
AfterFailure(r) ==
  IF r.pooled /\ r.attempt < MaxRetries
  THEN [Restarted(r) EXCEPT !.attempt = r.attempt + 1]
  ELSE Raised(r)

-----------------------------------------------------------------------------
(* put, put_many *)

BeginPut(p) ==
  /\ tx[p].pc = "idle"
  /\ \E w \in Batches, own \in BOOLEAN :
       \E f \in IF ClientIds THEN Draws(w) ELSE {NoRefs} :
         tx' = [tx EXCEPT ![p] = [Idle EXCEPT !.pc = "work", !.kind = "put",
                   !.pooled = own, !.want = w, !.left = w, !.placed = f]]
  /\ UNCHANGED <<db, locks>>

(* ref_count of blob c as the next statement of p reads it. *)
Seen(p, c) == IF blobLock[c] = p THEN tx[p].counts[c] ELSE refCount[c]

(* Faulty: the new count comes from an earlier SELECT of the committed row. *)
BumpedFromCommitted(p, c) == refCount[c] + 1

(* INSERT ... ON CONFLICT DO UPDATE SET ref_count = ref_count + 1: a new    *)
(* row starts at 1.                                                         *)
Bumped(p, c) == IF c \in blobs \/ blobLock[c] = p THEN Seen(p, c) + 1 ELSE 1

(* Faulty: the upserts go in the order of the caller's batch. *)
UpsertBlobUnsorted(p, c) ==
  /\ tx[p].pc = "work" /\ tx[p].kind = "put"
  /\ tx[p].left[c] > 0
  /\ Free(p, blobLock[c])
  /\ blobLock' = [blobLock EXCEPT ![c] = p]
  /\ tx' = [tx EXCEPT ![p].left[c] = @ - 1, ![p].counts[c] = Bumped(p, c)]
  /\ UNCHANGED <<db, refLock>>

(* The upserts go in sorted checksum order and wait for the row lock. *)
UpsertBlob(p, c) ==
  /\ tx[p].pc = "work" /\ tx[p].kind = "put"
  /\ tx[p].left[c] > 0
  /\ \A d \in Checksums : tx[p].left[d] > 0 => c <= d
  /\ Free(p, blobLock[c])
  /\ blobLock' = [blobLock EXCEPT ![c] = p]
  /\ tx' = [tx EXCEPT ![p].left[c] = @ - 1, ![p].counts[c] = Bumped(p, c)]
  /\ UNCHANGED <<db, refLock>>

(* Faulty: the client draws the ids inside work(), anew on every attempt. *)
InsertRefsDrawing(p) ==
  /\ tx[p].pc = "work" /\ tx[p].kind = "put"
  /\ \A c \in Checksums : tx[p].left[c] = 0
  /\ \E f \in Draws(tx[p].want) :
       tx' = [tx EXCEPT ![p].placed = f, ![p].pc = "commit"]
  /\ UNCHANGED <<db, locks>>

(* The refs of the whole batch (MySQL inserts each one right after its      *)
(* blob).  Only their ids can matter to another client before commit, so    *)
(* one step stands for all of them.  An id drawn by the client that is      *)
(* already stored is an IntegrityError, which is not retried.               *)
InsertRefs(p) ==
  /\ tx[p].pc = "work" /\ tx[p].kind = "put"
  /\ \A c \in Checksums : tx[p].left[c] = 0
  /\ IF ClientIds
     THEN /\ \A i \in Support(tx[p].placed) : refLock[i] = NoProc
          /\ IF \A i \in Support(tx[p].placed) : refs[i] = NoSum
             THEN /\ tx' = [tx EXCEPT ![p].pc = "commit"]
                  /\ UNCHANGED locks
             ELSE /\ tx' = [tx EXCEPT ![p] = Raised(@)]
                  /\ Unlock(p)
     ELSE /\ \E f \in Draws(tx[p].want) :
               tx' = [tx EXCEPT ![p].placed = f, ![p].pc = "commit"]
          /\ UNCHANGED locks
  /\ UNCHANGED db

-----------------------------------------------------------------------------
(* delete, delete_many *)

(* The ids a client names were returned to it by a finished put, or are     *)
(* unknown to everyone.                                                     *)
BeginDelete(p) ==
  /\ tx[p].pc = "idle"
  /\ \E S \in SUBSET Ids, own \in BOOLEAN :
       /\ Cardinality(S) \in 1..MaxBatch
       /\ \A i \in S, q \in Procs : tx[q].placed[i] = NoSum
       /\ tx' = [tx EXCEPT ![p] = [Idle EXCEPT !.pc = "work",
                   !.kind = "delete", !.pooled = own, !.ids = S, !.scan = S]]
  /\ UNCHANGED <<db, locks>>

(* DELETE ... WHERE id = ANY(ids) RETURNING checksum visits the rows in an  *)
(* order the engine picks, and locks each row that it finds.                *)
DeleteRef(p, i) ==
  /\ tx[p].pc = "work" /\ tx[p].kind = "delete"
  /\ i \in tx[p].scan
  /\ refLock[i] = NoProc
  /\ refLock' = IF refs[i] = NoSum THEN refLock ELSE [refLock EXCEPT ![i] = p]
  /\ tx' = [tx EXCEPT ![p].scan = @ \ {i}, ![p].deleted[i] = refs[i]]
  /\ UNCHANGED <<db, blobLock>>

(* Counter(checksums of the deleted rows), restricted to those still owed. *)
Owed(p) == {c \in Checksums \ tx[p].spent : RowsOf(tx[p].deleted, c) # {}}

(* One UPDATE per distinct checksum, in sorted order.  A blob that is not   *)
(* there gives no row to unpack: a TypeError, which is not retried.         *)
DecrementBlob(p, c) ==
  /\ tx[p].pc = "work" /\ tx[p].kind = "delete"
  /\ tx[p].scan = {}
  /\ c \in Owed(p)
  /\ \A d \in Owed(p) : c <= d
  /\ Free(p, blobLock[c])
  /\ IF c \in blobs
     THEN /\ blobLock' = [blobLock EXCEPT ![c] = p]
          /\ tx' = [tx EXCEPT
               ![p].spent = @ \cup {c},
               ![p].counts[c] = Seen(p, c) - Cardinality(RowsOf(tx[p].deleted, c))]
          /\ UNCHANGED refLock
     ELSE /\ tx' = [tx EXCEPT ![p] = Raised(@)]
          /\ Unlock(p)
  /\ UNCHANGED db

(* Faulty: without AND ref_count <= 0. *)
PurgeBlobsAll(p) ==
  /\ tx[p].pc = "work" /\ tx[p].kind = "delete"
  /\ tx[p].scan = {} /\ Owed(p) = {}
  /\ tx' = [tx EXCEPT ![p].pc = "commit", ![p].purged = tx[p].spent]
  /\ UNCHANGED <<db, locks>>

(* DELETE FROM zerobucket_blobs ... AND ref_count <= 0, over the blobs just *)
(* decremented; nothing to do when no ref was found.                        *)
PurgeBlobs(p) ==
  /\ tx[p].pc = "work" /\ tx[p].kind = "delete"
  /\ tx[p].scan = {} /\ Owed(p) = {}
  /\ tx' = [tx EXCEPT ![p].pc = "commit",
                       ![p].purged = {c \in tx[p].spent : tx[p].counts[c] <= 0}]
  /\ UNCHANGED <<db, locks>>

-----------------------------------------------------------------------------
(* The end of a transaction *)

(* What the commit of p makes visible, all at once. *)
Install(p) ==
  /\ blobs' = (blobs \cup {c \in Checksums : blobLock[c] = p}) \ tx[p].purged
  /\ refCount' = [c \in Checksums |->
       IF c \in tx[p].purged THEN 0
       ELSE IF blobLock[c] = p THEN tx[p].counts[c] ELSE refCount[c]]
  /\ refs' = [i \in Ids |->
       IF tx[p].deleted[i] # NoSum THEN NoSum
       ELSE IF tx[p].placed[i] # NoSum THEN tx[p].placed[i] ELSE refs[i]]
  /\ Unlock(p)

(* The call after a commit. *)
Applied(p) == [tx[p] EXCEPT !.applied = @ \cup Touched(p)]

Commit(p) ==
  /\ tx[p].pc = "commit"
  /\ Install(p)
  /\ tx' = [tx EXCEPT ![p] = [Applied(p) EXCEPT !.pc = "returned", !.ok = TRUE]]

(* The server commits, and the connection is lost before the client hears   *)
(* of it: leaving `with self._pool.connection()` raises OperationalError.   *)
CommitLost(p) ==
  /\ tx[p].pc = "commit"
  /\ Install(p)
  /\ tx' = [tx EXCEPT ![p] = AfterFailure(Applied(p))]

(* Faulty: autocommit, so the statements so far stay. *)
FailAutocommit(p) ==
  /\ tx[p].pc \in {"work", "commit"}
  /\ Install(p)
  /\ tx' = [tx EXCEPT ![p] = AfterFailure(@)]

(* A transient failure before the commit, at any statement; for a caller's  *)
(* connection, also the caller's own rollback.                              *)
Fail(p) ==
  /\ tx[p].pc \in {"work", "commit"}
  /\ Unlock(p)
  /\ tx' = [tx EXCEPT ![p] = AfterFailure(@)]
  /\ UNCHANGED db

(* A failure that is not transient (_is_retryable is false), or a retry     *)
(* that gets no connection from the pool: raised at once.                   *)
Abort(p) ==
  /\ tx[p].pc = "work"
  /\ Unlock(p)
  /\ tx' = [tx EXCEPT ![p] = Raised(@)]
  /\ UNCHANGED db

Return(p) ==
  /\ tx[p].pc = "returned"
  /\ tx' = [tx EXCEPT ![p] = Idle]
  /\ UNCHANGED <<db, locks>>

-----------------------------------------------------------------------------
(* Waiting for locks *)

(* The blob p's next statement needs, if that statement locks a blob. *)
NextBlob(p, c) ==
  /\ tx[p].pc = "work"
  /\ \/ /\ tx[p].kind = "put"
        /\ tx[p].left[c] > 0
        /\ \A d \in Checksums : tx[p].left[d] > 0 => c <= d
     \/ /\ tx[p].kind = "delete" /\ tx[p].scan = {}
        /\ c \in Owed(p)
        /\ \A d \in Owed(p) : c <= d

WaitsForBlob(p, q) ==
  \E c \in Checksums : NextBlob(p, c) /\ blobLock[c] = q /\ q \notin {p, NoProc}

WaitsForRef(p, q) ==
  /\ tx[p].pc = "work" /\ tx[p].kind = "delete" /\ tx[p].scan # {}
  /\ \A i \in tx[p].scan : refLock[i] \notin {p, NoProc}
  /\ \E i \in tx[p].scan : refLock[i] = q

WaitsFor(p, q) == WaitsForBlob(p, q) \/ WaitsForRef(p, q)

(* p is on or behind a set of transactions that all wait for one another. *)
Deadlocked(p) ==
  \E S \in SUBSET Procs :
    /\ p \in S
    /\ \A q \in S : /\ \E r \in Procs : WaitsFor(q, r)
                    /\ \A r \in Procs : WaitsFor(q, r) => r \in S

(* deadlock_detected: the engine rolls one of them back. *)
DeadlockVictim(p) == Deadlocked(p) /\ Fail(p)

-----------------------------------------------------------------------------
Statement(p) ==
  \/ \E c \in Checksums : UpsertBlob(p, c) \/ DecrementBlob(p, c)
  \/ \E i \in Ids : DeleteRef(p, i)
  \/ InsertRefs(p)
  \/ PurgeBlobs(p)
  \/ Commit(p)

Next == \E p \in Procs :
  \/ BeginPut(p)
  \/ BeginDelete(p)
  \/ Statement(p)
  \/ CommitLost(p)
  \/ DeadlockVictim(p)
  \/ Fail(p)
  \/ Abort(p)
  \/ Return(p)

Spec == Init /\ [][Next]_vars

(* A lock goes to the client that has waited longest, so a statement that   *)
(* is enabled again and again is executed; the engine breaks every          *)
(* deadlock; a caller that was given a result goes on.                      *)
Fairness ==
  \A p \in Procs : /\ SF_vars(Statement(p))
                   /\ WF_vars(DeadlockVictim(p))
                   /\ WF_vars(Return(p))

FairSpec == Spec /\ Fairness

-----------------------------------------------------------------------------
(* Properties *)

TypeOK ==
  /\ blobs \subseteq Checksums
  /\ refCount \in [Checksums -> Int]
  /\ refs \in RefMap
  /\ blobLock \in [Checksums -> Procs \cup {NoProc}]
  /\ refLock \in [Ids -> Procs \cup {NoProc}]
  /\ tx \in [Procs -> Call]

(* The ref_count of a blob is the number of image ids that point at it,    *)
(* whatever upserts and decrements of other transactions, rollbacks and     *)
(* retries came between: no lost update of the counter.                     *)
RefCountExact ==
  \A c \in Checksums : refCount[c] = Cardinality(RowsOf(refs, c))

(* No image points at a blob that is gone: a delete that empties a blob     *)
(* never removes it from under a put of the same bytes.                     *)
NoDanglingRef == \A i \in Ids : refs[i] # NoSum => refs[i] \in blobs

(* The last delete of a blob's images removes its bytes: no blob stays      *)
(* behind with nothing that could ever delete it.                           *)
NoLeakedBlob == \A c \in blobs : \E i \in Ids : refs[i] = c

(* A client that waits for a blob is never part of a deadlock: only the     *)
(* ref rows of overlapping delete_many batches can be locked in a cycle     *)
(* ("A single global order removes the cycle", _put_many_dedup).            *)
BlobLocksAcyclic ==
  \A p, q \in Procs : WaitsForBlob(p, q) => ~Deadlocked(p)

(* A put that returns ids has stored exactly these rows: a retry does not   *)
(* store the batch a second time.                                           *)
PutStoredOnce ==
  \A p \in Procs :
    tx[p].pc = "returned" /\ tx[p].ok /\ tx[p].kind = "put"
      => tx[p].applied = Touched(p)

(* What a reader sees: SELECT ... FROM refs JOIN blobs. *)
Images == [i \in Ids |-> IF refs[i] \in blobs THEN refs[i] ELSE NoSum]

(* The call a client has in progress. *)
OpenCalls ==
  [p \in Procs |->
     IF tx[p].pc \in {"work", "commit"}
     THEN [kind |-> tx[p].kind, want |-> tx[p].want, ids |-> tx[p].ids]
     ELSE [kind |-> "none", want |-> Zero, ids |-> {}]]

Abstract == INSTANCE ImageStore
  WITH Contents <- Checksums, NoImage <- NoSum, images <- Images, calls <- OpenCalls

(* Dedup mode implements the image store: to every reader a batch appears,  *)
(* or disappears, in one step and completely, and no other call's put,      *)
(* delete, rollback or retry ever changes or removes an image.              *)
Refinement == Abstract!Spec

(* Every call returns: the retry loop is bounded, and no one waits for a    *)
(* lock for ever.                                                           *)
CallsReturn == \A p \in Procs : tx[p].pc = "work" ~> tx[p].pc = "returned"
-----------------------------------------------------------------------------
(* The inductive invariant *)

Holds(p, c) == blobLock[c] = p

(* Outside a transaction a client holds no lock. *)
AtRest(p) ==
  tx[p].pc \in {"idle", "returned"} =>
    /\ \A c \in Checksums : ~Holds(p, c)
    /\ \A i \in Ids : refLock[i] # p

(* A put in progress: it holds exactly the blobs it has upserted, sees each *)
(* one at the committed count plus its own upserts, and has taken them in   *)
(* order.                                                                   *)
PutProgress(p) ==
  tx[p].pc \in {"work", "commit"} /\ tx[p].kind = "put" =>
    /\ tx[p].deleted = NoRefs /\ tx[p].purged = {} /\ tx[p].ids = {}
    /\ \A i \in Ids : refLock[i] # p
    /\ \A c \in Checksums :
         /\ tx[p].left[c] <= tx[p].want[c]
         /\ Holds(p, c) <=> tx[p].left[c] < tx[p].want[c]
         /\ Holds(p, c) => tx[p].counts[c] = refCount[c] + tx[p].want[c] - tx[p].left[c]
         /\ \A d \in Checksums : Holds(p, c) /\ tx[p].left[d] > 0 => c <= d
    /\ tx[p].pc = "commit" => /\ \A c \in Checksums : tx[p].left[c] = 0
                              /\ \A i \in Support(tx[p].placed) : refs[i] = NoSum
    /\ IF ClientIds \/ tx[p].pc = "commit"
       THEN \A c \in Checksums : Cardinality(RowsOf(tx[p].placed, c)) = tx[p].want[c]
       ELSE tx[p].placed = NoRefs

(* A delete in progress: every row it has deleted is locked and still what  *)
(* it was, it touches blobs only when all its rows are locked, and it sees  *)
(* each blob it holds at the committed count minus the rows it deleted.     *)
DeleteProgress(p) ==
  tx[p].pc \in {"work", "commit"} /\ tx[p].kind = "delete" =>
    /\ tx[p].placed = NoRefs
    /\ \A i \in Ids :
         /\ tx[p].deleted[i] # NoSum => /\ refLock[i] = p /\ refs[i] = tx[p].deleted[i]
                                        /\ i \in tx[p].ids
         /\ i \in tx[p].ids => \/ i \in tx[p].scan
                               \/ refs[i] = tx[p].deleted[i]
    /\ tx[p].scan \subseteq tx[p].ids
    /\ tx[p].scan # {} => tx[p].spent = {}
    /\ \A c \in Checksums : Holds(p, c) <=> c \in tx[p].spent
    /\ \A c \in tx[p].spent :
         /\ RowsOf(tx[p].deleted, c) # {}
         /\ tx[p].counts[c] = refCount[c] - Cardinality(RowsOf(tx[p].deleted, c))
         /\ \A d \in Owed(p) : c <= d
    /\ IF tx[p].pc = "commit"
       THEN /\ tx[p].scan = {} /\ Owed(p) = {}
            /\ tx[p].purged = {c \in tx[p].spent : tx[p].counts[c] <= 0}
       ELSE tx[p].purged = {}

(* No id is drawn twice, or by one client while another one names it. *)
DrawsDisjoint ==
  \A p, q \in Procs : \A i \in Ids :
    tx[p].placed[i] # NoSum => /\ p = q \/ tx[q].placed[i] = NoSum
                              /\ i \notin tx[q].ids

IInv ==
  /\ TypeOK
  /\ RefCountExact /\ NoDanglingRef /\ NoLeakedBlob
  /\ DrawsDisjoint
  /\ \A p \in Procs : AtRest(p) /\ PutProgress(p) /\ DeleteProgress(p)
=============================================================================
