---------------------------- MODULE SQLiteSystem ----------------------------
(***************************************************************************)
(* Clients of a SQLiteBackend, each with its own process, and the tasks of *)
(* an AsyncSQLiteBackend on one database file.                             *)
(***************************************************************************)
EXTENDS SQLiteStore, AsyncSQLite

vars == <<fileVars, bucketVars, given, tx, asyncVars>>

Init ==
  /\ mode \in Modes /\ schema = FALSE
  /\ db = Empty /\ writer = NoProc /\ draft = Empty
  /\ objects = {} /\ excused = {}
  /\ given = [i \in Ids |-> NoSum]
  /\ tx = [p \in Procs |-> Idle]
  /\ ready = FALSE /\ readyLock = NoProc

Next ==
  \/ \E p \in SyncProcs : (SyncBegin(p) \/ SyncStep(p) \/ Crash(p)) /\ UNCHANGED asyncVars
  \/ \E p \in AsyncProcs : AsyncBegin(p) \/ AsyncStep(p) \/ Cancel(p)
  \/ \E i \in Ids : LateUpload(i)

Spec == Init /\ [][Next]_vars

-----------------------------------------------------------------------------
(* Properties *)

TypeOK ==
  /\ mode \in Modes /\ schema \in BOOLEAN
  /\ \A view \in {db, draft} : view.rows \in [Ids -> Row] /\ view.blobs \in [Sums -> Blob]
  /\ writer \in Procs \cup {NoProc} /\ readyLock \in AsyncProcs \cup {NoProc}
  /\ objects \subseteq Ids
  /\ excused \subseteq Ids
  /\ given \in [Ids -> Sums \cup {NoSum}] /\ ready \in BOOLEAN
  /\ tx \in [Procs -> Call]

(* Dedup mode: whatever batches were retried, rolled back, killed or        *)
(* cancelled, a blob has exactly as many references as there are refs of    *)
(* it, and is there as long as it has one.                                  *)
RefCountExact ==
  mode = "dedup" =>
    \A s \in Sums :
      /\ db.blobs[s].count = Cardinality({i \in Ids : db.rows[i].sum = s})
      /\ Exists(db, s) <=> db.blobs[s].count > 0

(* "No window where bytes exist in neither location": a row that points at  *)
(* an object never outlives it, whatever uploads fail, linger or are        *)
(* abandoned.                                                               *)
NoLostBytes == \A i \in Ids : Tiered(db, i) => i \in objects

(* A call that raised has changed nothing, and a call that returned has     *)
(* changed all it says: whole batches, the row that was tiered "just now".  *)
AnswerIsEffect ==
  \A p \in Procs : tx[p].pc \in {"cleanup", "returned"} =>
    /\ tx[p].op = "put_many" /\ tx[p].result = "ids" => tx[p].applied = tx[p].ids
    /\ tx[p].op = "tier_to_object_storage" =>
         (tx[p].result = "True" => tx[p].applied = tx[p].ids)
    /\ tx[p].op # "get_many" /\ tx[p].result \in {"StorageError", "None", "False"}
         => tx[p].applied = {}

(* Objects that nobody accounts for any more: without a row, an event or an *)
(* upload that may linger, and not of a delete that is still removing them. *)
Forgotten ==
  {i \in objects \ excused :
     ~Stored(db, i) /\ \A p \in Procs : tx[p].pc = "cleanup" => i \notin tx[p].todo}

(* delete "cleans up both the row and the S3 object" or reports that it     *)
(* could not.  An object is forgotten only by a delete that ends before it  *)
(* has come to it: its transaction is the caller's, so that it removes no   *)
(* object at all, its task is cancelled, or its process dies.               *)
OrphansExplained ==
  [][\A i \in Forgotten' \ Forgotten :
       \E p \in Procs :
         /\ tx[p].op = "delete_many" /\ i \in tx[p].todo
         /\ \/ tx'[p].pc = "returned" /\ (~tx[p].own \/ tx'[p].result = "Cancelled")
            \/ tx'[p].pc = "idle"]_vars

(* A stream that ends without an error is complete; an asynchronous one     *)
(* never delivers another image's bytes, whatever was deleted and stored    *)
(* between its chunks.                                                      *)
StreamsWhole ==
  \A p \in Procs :
    Returned(p, "get_stream") /\ tx[p].result = "bytes" =>
      /\ tx[p].left = 0
      /\ p \in AsyncProcs => tx[p].got \subseteq {given[i] : i \in tx[p].ids}

(* "A concurrent DELETE from another connection does NOT interrupt or       *)
(* truncate an in-progress stream": once its snapshot has the image's       *)
(* bytes, a synchronous stream delivers them to the end.                    *)
BegunStreamCompletes ==
  \A p \in SyncProcs :
    Returned(p, "get_stream") /\ tx[p].begun =>
      tx[p].result = "bytes" /\ tx[p].got = {given[i] : i \in tx[p].ids}

(* "The stream completes successfully with the complete original bytes":    *)
(* whatever a stream delivers are the bytes of its image.                   *)
StreamOwnBytes ==
  \A p \in SyncProcs :
    Returned(p, "get_stream") /\ tx[p].result = "bytes" =>
      tx[p].got \subseteq {given[i] : i \in tx[p].ids}

(* No statement of a call meets a file without tables, whoever creates      *)
(* them, and however often creating them failed before.                     *)
TablesFirst == \A p \in Procs : tx[p].pc \in {"work", "chunks"} /\ tx[p].op # "migrate" => schema
=============================================================================
