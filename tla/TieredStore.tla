----------------------------- MODULE TieredStore -----------------------------
(***************************************************************************)
(* Classic mode with object-storage tiering: one row per image, whose      *)
(* bytes are in the row until tier_to_object_storage uploads them under    *)
(* the key str(id) and replaces them by a pointer.  This module models     *)
(* put_many, tier_to_object_storage, delete_many, get and get_stream of    *)
(* the PostgreSQL adapter: their statements, the row locks held across the *)
(* upload, the removal of objects after a delete has committed, and the    *)
(* retry loop (_run).  put and delete are the batches of one row, get_many *)
(* is a get per row.                                                       *)
(*                                                                         *)
(* The database and the bucket are external: atomic commit, row locks that *)
(* readers do not wait for, READ COMMITTED statements; an object store     *)
(* whose upload overwrites and whose delete of a missing key succeeds.     *)
(*                                                                         *)
(* An operator whose comment begins with "Faulty:" is a plausible mistake  *)
(* in the definition after it; Next never uses it.                         *)
(***************************************************************************)
EXTENDS Integers, FiniteSets

CONSTANTS
  Writers,    (* clients that put, tier and delete                           *)
  Readers,    (* clients that get and stream                                 *)
  Ids,        (* image ids; an object's key is the id of its image           *)
  MaxBatch,   (* most rows of a put_many, most ids of a delete_many          *)
  MaxRetries, (* the backend's max_retries                                   *)
  Chunks,     (* chunks of a streamed image                                  *)
  Faults,     (* which of FaultKinds may happen                              *)
  CallerTx,   (* TRUE: calls with connection= too                            *)
  NoProc

Procs == Writers \cup Readers

FaultKinds == {
  "lost_ack",   (* a commit succeeds but its client gets an error            *)
  "disconnect", (* a connection is lost before the commit                    *)
  "error",      (* a statement fails for a reason that is not transient      *)
  "upload",     (* an upload raises although the object is stored            *)
  "crash" }     (* the client process dies                                   *)

ASSUME TieringAssumption ==
  /\ IsFiniteSet(Ids)
  /\ MaxBatch \in Nat \ {0} /\ MaxRetries \in Nat /\ Chunks \in Nat \ {0}
  /\ Faults \subseteq FaultKinds /\ CallerTx \in BOOLEAN
  /\ Writers \cap Readers = {}
  /\ NoProc \notin Writers \cup Readers

VARIABLES
  row,       (* committed zerobucket_images: id -> storage_backend           *)
  objects,   (* keys in the bucket                                           *)
  reported,  (* keys of failed "object_storage_delete" events                *)
  rowLock,   (* owner of the row lock on each row, or NoProc                 *)
  tx         (* each client's call                                           *)

vars == <<row, objects, reported, rowLock, tx>>

(* A UUID is used for one image only: a deleted row is not a new one. *)
RowState == {"new", "postgres", "object_storage", "deleted"}
Stored(i) == row[i] \in {"postgres", "object_storage"}

(* What a transaction does to a row. *)
Change == {"same", "postgres", "object_storage", "deleted"}
Untouched == [i \in Ids |-> "same"]

Call == [
  pc      : {"idle", "work", "upload", "update", "commit", "cleanup", "read", "returned"},
  op      : {"put_many", "tier_to_object_storage", "delete_many", "get", "get_stream"},
  pooled  : BOOLEAN,             (* connection=None                          *)
  ids     : SUBSET Ids,          (* the images the call names                *)
  size    : Nat,                 (* put_many: rows of the batch              *)
  scan    : SUBSET Ids,          (* delete_many: ids the DELETE has to visit *)
  changes : [Ids -> Change],     (* what the commit will write               *)
  cleanup : SUBSET Ids,          (* delete_many: objects still to remove     *)
  source  : {"none", "chunks", "object"},   (* where a reader reads from     *)
  left    : Nat,                 (* get_stream: chunks to come               *)
  intact  : BOOLEAN,             (* reader: the image was stored all along   *)
  attempt : Nat,
  applied : SUBSET Ids,          (* rows this call has changed               *)
  result  : {"none", "True", "False", "None", "ids", "bytes", "StorageError", "TypeError"} ]

Idle == [pc |-> "idle", op |-> "get", pooled |-> TRUE, ids |-> {}, size |-> 0,
         scan |-> {}, changes |-> Untouched, cleanup |-> {}, source |-> "none",
         left |-> 0, intact |-> FALSE, attempt |-> 0, applied |-> {}, result |-> "none"]

Init ==
  /\ row = [i \in Ids |-> "new"]
  /\ objects = {} /\ reported = {}
  /\ rowLock = [i \in Ids |-> NoProc]
  /\ tx = [p \in Procs |-> Idle]

-----------------------------------------------------------------------------
(* Transactions and the retry loop *)

Unlock(p) == rowLock' = [i \in Ids |-> IF rowLock[i] = p THEN NoProc ELSE rowLock[i]]

Begin(p, call) ==
  /\ tx[p].pc = "idle"
  /\ \E own \in IF CallerTx THEN BOOLEAN ELSE {TRUE} :
       tx' = [tx EXCEPT ![p] = [call EXCEPT !.pooled = own]]
  /\ UNCHANGED <<row, objects, reported, rowLock>>

Finish(r, result) == [r EXCEPT !.pc = "returned", !.result = result]

(* work(cur) starts again from nothing, or the error is raised. *)
AfterFailure(r) ==
  IF r.pooled /\ r.attempt < MaxRetries
  THEN [r EXCEPT !.pc = "work", !.scan = r.ids, !.changes = Untouched,
                 !.result = "none", !.attempt = r.attempt + 1]
  ELSE Finish(r, "StorageError")

Written(p) == {i \in Ids : tx[p].changes[i] # "same"}

(* Readers whose image a commit of p removes: it was not there all along. *)
Disturbed(p) ==
  [q \in Procs |->
     IF \E i \in tx[q].ids : tx[p].changes[i] = "deleted"
     THEN [tx[q] EXCEPT !.intact = FALSE] ELSE tx[q]]

Install(p) ==
  /\ row' = [i \in Ids |-> IF i \in Written(p) THEN tx[p].changes[i] ELSE row[i]]
  /\ Unlock(p)
  /\ UNCHANGED <<objects, reported>>

Applied(p) == [tx[p] EXCEPT !.applied = @ \cup Written(p)]

(* The tiered rows among those the DELETE returned: their objects go next,  *)
(* unless the transaction is the caller's.                                  *)
ToRemove(p) ==
  IF tx[p].pooled
  THEN {i \in Ids : tx[p].changes[i] = "deleted" /\ row[i] = "object_storage"}
  ELSE {}

Commit(p) ==
  /\ tx[p].pc = "commit"
  /\ Install(p)
  /\ tx' = [Disturbed(p) EXCEPT ![p] =
       IF ToRemove(p) # {}
       THEN [Applied(p) EXCEPT !.pc = "cleanup", !.cleanup = ToRemove(p)]
       ELSE [Applied(p) EXCEPT !.pc = "returned"]]

(* The server commits and the connection is lost before the client hears of *)
(* it: an OperationalError, so _run tries again.                            *)
CommitLost(p) ==
  /\ "lost_ack" \in Faults
  /\ tx[p].pc = "commit"
  /\ Install(p)
  /\ tx' = [Disturbed(p) EXCEPT ![p] = AfterFailure(Applied(p))]

(* Faulty: autocommit, so the statements so far stay. *)
FailAutocommit(p) ==
  /\ \/ tx[p].pc = "work" /\ tx[p].op # "put_many"
     \/ "disconnect" \in Faults /\ tx[p].pc \in {"work", "update", "commit"}
     \/ ~tx[p].pooled /\ tx[p].pc = "commit"
  /\ Install(p)
  /\ tx' = [tx EXCEPT ![p] = AfterFailure(@)]

(* A statement that waits for a row may be the victim of a deadlock; any    *)
(* statement may find that its connection is gone; a caller may roll back.  *)
Fail(p) ==
  /\ \/ tx[p].pc = "work" /\ tx[p].op # "put_many"
     \/ "disconnect" \in Faults /\ tx[p].pc \in {"work", "update", "commit"}
     \/ ~tx[p].pooled /\ tx[p].pc = "commit"
  /\ Unlock(p)
  /\ tx' = [tx EXCEPT ![p] = AfterFailure(@)]
  /\ UNCHANGED <<row, objects, reported>>

(* A failure that is not transient (_is_retryable is false): raised at once. *)
Abort(p) ==
  /\ "error" \in Faults
  /\ tx[p].pc \in {"work", "update"}
  /\ Unlock(p)
  /\ tx' = [tx EXCEPT ![p] = Finish(@, "StorageError")]
  /\ UNCHANGED <<row, objects, reported>>

(* The server loses the connection, and frees the row, while the client is  *)
(* busy with the upload: the client finds out at its next statement.        *)
Disconnect(p) ==
  /\ "disconnect" \in Faults
  /\ tx[p].pc \in {"upload", "update"}
  /\ Unlock(p)
  /\ UNCHANGED <<row, objects, reported, tx>>

(* The client process dies: its transaction is rolled back. *)
Crash(p) ==
  /\ "crash" \in Faults
  /\ tx[p].pc # "idle"
  /\ Unlock(p)
  /\ tx' = [tx EXCEPT ![p] = Idle]
  /\ UNCHANGED <<row, objects, reported>>

Return(p) ==
  /\ tx[p].pc = "returned"
  /\ tx' = [tx EXCEPT ![p] = Idle]
  /\ UNCHANGED <<row, objects, reported, rowLock>>

-----------------------------------------------------------------------------
(* put_many *)

(* Ids that no row has or is about to have, and no call names. *)
Fresh ==
  {i \in Ids : /\ row[i] = "new"
               /\ \A q \in Procs : tx[q].changes[i] = "same" /\ i \notin tx[q].ids}

(* One fresh id for each row still to be inserted: there are always enough  *)
(* UUIDs, so a put that would run out of the bounded Ids does not begin.    *)
Promised ==
  {e \in Procs \X (1..MaxBatch) :
     tx[e[1]].op = "put_many" /\ tx[e[1]].pc = "work" /\ e[2] <= tx[e[1]].size}

BeginPut(p) ==
  \E n \in 1..MaxBatch :
    /\ Cardinality(Promised) + n <= Cardinality(Fresh)
    /\ Begin(p, [Idle EXCEPT !.pc = "work", !.op = "put_many", !.size = n])

InsertRows(p) ==
  /\ tx[p].pc = "work" /\ tx[p].op = "put_many"
  /\ \E S \in SUBSET Fresh :
       /\ Cardinality(S) = tx[p].size
       /\ tx' = [tx EXCEPT ![p].pc = "commit", ![p].result = "ids",
                   ![p].changes = [i \in Ids |-> IF i \in S THEN "postgres" ELSE "same"]]
  /\ UNCHANGED <<row, objects, reported, rowLock>>

-----------------------------------------------------------------------------
(* tier_to_object_storage *)

(* A client names ids that a put has returned, or that nobody knows. *)
Nameable == {i \in Ids : \A q \in Procs : tx[q].changes[i] # "postgres"}

BeginTier(p) ==
  \E i \in Nameable :
    Begin(p, [Idle EXCEPT !.pc = "work", !.op = "tier_to_object_storage", !.ids = {i}])

(* SELECT ... FOR UPDATE, then the two early returns. *)
SelectForTiering(p) ==
  /\ tx[p].pc = "work" /\ tx[p].op = "tier_to_object_storage"
  /\ \E i \in tx[p].ids :
       /\ rowLock[i] = NoProc
       /\ rowLock' = IF Stored(i) THEN [rowLock EXCEPT ![i] = p] ELSE rowLock
       /\ tx' = [tx EXCEPT ![p] =
            IF ~Stored(i) THEN [@ EXCEPT !.pc = "commit", !.result = "None"]
            ELSE IF row[i] # "postgres" THEN [@ EXCEPT !.pc = "commit", !.result = "False"]
            ELSE [@ EXCEPT !.pc = "upload"]]
  /\ UNCHANGED <<row, objects, reported>>

(* The upload, with the row locked. *)
Upload(p) ==
  /\ tx[p].pc = "upload"
  /\ objects' = objects \cup tx[p].ids
  /\ tx' = [tx EXCEPT ![p].pc = "update"]
  /\ UNCHANGED <<row, reported, rowLock>>

(* Faulty: the error of the upload is swallowed. *)
UploadFailsSilently(p) ==
  /\ tx[p].pc = "upload"
  /\ tx' = [tx EXCEPT ![p].pc = "update"]
  /\ UNCHANGED <<row, objects, reported, rowLock>>

(* ObjectStorage.upload raises StorageError, which is never retried; the    *)
(* object may be there all the same.                                        *)
UploadFails(p) ==
  /\ tx[p].pc = "upload"
  /\ objects' \in {objects, IF "upload" \in Faults THEN objects \cup tx[p].ids ELSE objects}
  /\ Unlock(p)
  /\ tx' = [tx EXCEPT ![p] = Finish(@, "StorageError")]
  /\ UNCHANGED <<row, reported>>

(* Faulty: the UPDATE goes out on a new connection, without the row lock. *)
UpdateAfterTieringUnlocked(p) ==
  /\ tx[p].pc = "update"
  /\ tx' = [tx EXCEPT ![p].pc = "commit", ![p].result = "True",
       ![p].changes = [i \in Ids |-> IF i \in tx[p].ids THEN "object_storage" ELSE "same"]]
  /\ UNCHANGED <<row, objects, reported, rowLock>>

(* The pointer, under the row lock taken by the SELECT. *)
UpdateAfterTiering(p) ==
  /\ tx[p].pc = "update"
  /\ \A i \in tx[p].ids : rowLock[i] = p
  /\ tx' = [tx EXCEPT ![p].pc = "commit", ![p].result = "True",
       ![p].changes = [i \in Ids |-> IF i \in tx[p].ids THEN "object_storage" ELSE "same"]]
  /\ UNCHANGED <<row, objects, reported, rowLock>>

-----------------------------------------------------------------------------
(* delete_many *)

BeginDelete(p) ==
  \E S \in SUBSET Nameable :
    /\ Cardinality(S) \in 1..MaxBatch
    /\ Begin(p, [Idle EXCEPT !.pc = "work", !.op = "delete_many", !.ids = S, !.scan = S])

(* Faulty: the object is removed inside the transaction. *)
DeleteRowAndObject(p, i) ==
  /\ tx[p].pc = "work" /\ tx[p].op = "delete_many"
  /\ i \in tx[p].scan
  /\ rowLock[i] = NoProc
  /\ rowLock' = IF Stored(i) THEN [rowLock EXCEPT ![i] = p] ELSE rowLock
  /\ tx' = [tx EXCEPT ![p].scan = @ \ {i},
                      ![p].changes[i] = IF Stored(i) THEN "deleted" ELSE "same",
                      ![p].result = "ids",
                      ![p].pc = IF tx[p].scan = {i} THEN "commit" ELSE "work"]
  /\ objects' = objects \ {i}
  /\ UNCHANGED <<row, reported>>

(* DELETE ... WHERE id = ANY(ids) RETURNING visits and locks one row. *)
DeleteRow(p, i) ==
  /\ tx[p].pc = "work" /\ tx[p].op = "delete_many"
  /\ i \in tx[p].scan
  /\ rowLock[i] = NoProc
  /\ rowLock' = IF Stored(i) THEN [rowLock EXCEPT ![i] = p] ELSE rowLock
  /\ tx' = [tx EXCEPT ![p].scan = @ \ {i},
                      ![p].changes[i] = IF Stored(i) THEN "deleted" ELSE "same",
                      ![p].result = "ids",
                      ![p].pc = IF tx[p].scan = {i} THEN "commit" ELSE "work"]
  /\ UNCHANGED <<row, objects, reported>>

(* Faulty: the loop over the keys ends after the first one. *)
AfterCleanupFirst(p, i) ==
  [tx EXCEPT ![p].cleanup = @ \ {i}, ![p].pc = "returned"]

(* _delete_tiered_object, one key at a time; the last one ends the call. *)
AfterCleanup(p, i) ==
  [tx EXCEPT ![p].cleanup = @ \ {i},
             ![p].pc = IF tx[p].cleanup = {i} THEN "returned" ELSE "cleanup"]

RemoveObject(p, i) ==
  /\ tx[p].pc = "cleanup" /\ i \in tx[p].cleanup
  /\ objects' = objects \ {i}
  /\ tx' = AfterCleanup(p, i)
  /\ UNCHANGED <<row, reported, rowLock>>

(* Faulty: the failure is logged nowhere. *)
RemoveObjectFailsSilently(p, i) ==
  /\ tx[p].pc = "cleanup" /\ i \in tx[p].cleanup
  /\ tx' = AfterCleanup(p, i)
  /\ UNCHANGED <<row, objects, reported, rowLock>>

(* Never fails the delete; the "object_storage_delete" event says so. *)
RemoveObjectFails(p, i) ==
  /\ tx[p].pc = "cleanup" /\ i \in tx[p].cleanup
  /\ reported' = reported \cup {i}
  /\ tx' = AfterCleanup(p, i)
  /\ UNCHANGED <<row, objects, rowLock>>

-----------------------------------------------------------------------------
(* get, get_stream: no locks, each statement sees the latest commit *)

BeginRead(p) ==
  \E i \in Nameable, op \in {"get", "get_stream"} :
    Begin(p, [Idle EXCEPT !.pc = "work", !.op = op, !.ids = {i}, !.intact = Stored(i)])

(* The row of a get has the bytes or the pointer; the info row of a         *)
(* get_stream has the size and, for a tiered image, the pointer.            *)
SelectRow(p) ==
  /\ tx[p].pc = "work" /\ tx[p].op \in {"get", "get_stream"}
  /\ \E i \in tx[p].ids :
       tx' = [tx EXCEPT ![p] =
         IF ~Stored(i) THEN Finish(@, "None")
         ELSE IF row[i] = "object_storage"
         THEN [@ EXCEPT !.pc = "read", !.source = "object",
                        !.left = IF tx[p].op = "get" THEN 1 ELSE Chunks]
         ELSE IF tx[p].op = "get" THEN Finish(@, "bytes")
         ELSE [@ EXCEPT !.pc = "read", !.source = "chunks", !.left = Chunks]]
  /\ UNCHANGED <<row, objects, reported, rowLock>>

Delivered(r) ==
  IF r.left <= 1 THEN Finish([r EXCEPT !.left = 0], "bytes")
  ELSE [r EXCEPT !.left = r.left - 1]

(* SELECT substring(data ...): no row raises StorageError, and data that is *)
(* NULL by now makes bytes(row[0]) a TypeError.                             *)
ReadChunk(p) ==
  /\ tx[p].pc = "read" /\ tx[p].source = "chunks"
  /\ \E i \in tx[p].ids :
       tx' = [tx EXCEPT ![p] =
         IF row[i] = "postgres" THEN Delivered(@)
         ELSE IF row[i] = "object_storage" THEN Finish(@, "TypeError")
         ELSE Finish(@, "StorageError")]
  /\ UNCHANGED <<row, objects, reported, rowLock>>

(* download, or one Range request of download_stream. *)
ReadObject(p) ==
  /\ tx[p].pc = "read" /\ tx[p].source = "object"
  /\ tx' = [tx EXCEPT ![p] =
       IF tx[p].ids \subseteq objects THEN Delivered(@) ELSE Finish(@, "StorageError")]
  /\ UNCHANGED <<row, objects, reported, rowLock>>

-----------------------------------------------------------------------------
Write(p) ==
  \/ InsertRows(p)
  \/ SelectForTiering(p) \/ Upload(p) \/ UploadFails(p) \/ UpdateAfterTiering(p)
  \/ Commit(p)
  \/ \E i \in Ids : DeleteRow(p, i) \/ RemoveObject(p, i) \/ RemoveObjectFails(p, i)

Read(p) == SelectRow(p) \/ ReadChunk(p) \/ ReadObject(p)

Next ==
  \/ \E p \in Writers : BeginPut(p) \/ BeginTier(p) \/ BeginDelete(p) \/ Write(p)
                        \/ CommitLost(p) \/ Fail(p) \/ Abort(p)
                        \/ Disconnect(p) \/ Crash(p)
  \/ \E p \in Readers : BeginRead(p) \/ Read(p)
  \/ \E p \in Procs : Return(p)

Spec == Init /\ [][Next]_vars

-----------------------------------------------------------------------------
(* Properties *)

TypeOK ==
  /\ row \in [Ids -> RowState]
  /\ objects \subseteq Ids /\ reported \subseteq Ids
  /\ rowLock \in [Ids -> Procs \cup {NoProc}]
  /\ tx \in [Procs -> Call]

(* "There is no window where an image's bytes exist in neither location":  *)
(* a row that points at an object never outlives it, whatever deletes,      *)
(* failed or repeated uploads, rollbacks and lost connections came between. *)
NoLostBytes == \A i \in Ids : row[i] = "object_storage" => i \in objects

Returned(p, op) == tx[p].pc = "returned" /\ tx[p].op = op

(* A get of an image that is stored from the beginning to the end of the    *)
(* call returns its bytes, even if the image is tiered meanwhile.           *)
GetFindsStored ==
  \A p \in Readers : Returned(p, "get") /\ tx[p].intact => tx[p].result = "bytes"

(* delete "cleans up both the row and the S3 object", or reports that it    *)
(* could not.                                                               *)
DeleteRemovesObjects ==
  \A p \in Writers :
    Returned(p, "delete_many") /\ tx[p].pooled /\ tx[p].result = "ids"
      => tx[p].applied \cap objects \subseteq reported

(* An object whose row is gone is either about to be removed, or its        *)
(* failed removal was reported: nothing is forgotten.                       *)
OrphansAccounted ==
  \A i \in objects :
    row[i] = "deleted" => i \in reported \/ \E p \in Writers : i \in tx[p].cleanup

(* What a reader finds, wherever the bytes are. *)
Images ==
  [i \in Ids |->
     IF row[i] = "postgres" \/ (row[i] = "object_storage" /\ i \in objects)
     THEN "bytes" ELSE "none"]

OpenCalls ==
  [p \in Procs |->
     IF tx[p].op \in {"put_many", "delete_many"} /\ tx[p].pc \in {"work", "commit"}
     THEN [kind |-> IF tx[p].op = "put_many" THEN "put" ELSE "delete",
           want |-> [c \in {"bytes"} |-> tx[p].size], ids |-> tx[p].ids]
     ELSE [kind |-> "none", want |-> [c \in {"bytes"} |-> 0], ids |-> {}]]

Abstract == INSTANCE ImageStore
  WITH Contents <- {"bytes"}, NoImage <- "none", images <- Images, calls <- OpenCalls

(* Tiering is transparent: it is no step at all of the image store, in      *)
(* which images come and go by whole put_many and delete_many batches only. *)
Refinement == Abstract!Spec
-----------------------------------------------------------------------------
(* The inductive invariant *)

(* A locked row is there until its owner commits or lets go. *)
LockedStored == \A i \in Ids : rowLock[i] # NoProc => Stored(i)

(* What a commit of p will write is safe to write: deletes and pointers go  *)
(* to rows that p has locked, a pointer only where the object is, a new row *)
(* only under an id of its own.  What p will remove from the bucket belongs *)
(* to a row that is gone for good.                                          *)
Pending(p) ==
  /\ \A i \in Ids : tx[p].pc = "work" => tx[p].changes[i] \in {"same", "deleted"}
  /\ \A i \in Ids : tx[p].pc \in {"work", "commit"}
                    /\ tx[p].changes[i] \in {"deleted", "object_storage"} => rowLock[i] = p
  /\ \A i \in tx[p].ids : tx[p].pc = "update" /\ rowLock[i] = p => i \in objects
  /\ \A i \in Ids : tx[p].pc = "commit" /\ tx[p].changes[i] = "object_storage" => i \in objects
  /\ \A i \in Ids : tx[p].pc = "commit" /\ tx[p].changes[i] = "postgres" =>
                    /\ row[i] = "new"
                    /\ \A q \in Procs : q # p => tx[q].changes[i] # "postgres"
  /\ \A i \in tx[p].cleanup : tx[p].pc = "cleanup" => row[i] = "deleted"

IInv == TypeOK /\ NoLostBytes /\ LockedStored /\ \A p \in Procs : Pending(p)
=============================================================================
