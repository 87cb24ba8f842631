-------------------------- MODULE TieredStoreProofs --------------------------
(***************************************************************************)
(* No sequence of puts, tierings, deletes, failed or ambiguous uploads,    *)
(* lost connections, retries and crashes loses the bytes of an image:      *)
(* TypeOK and NoLostBytes of TieredStore hold for any clients, ids and     *)
(* bounds.  The invariant adds that only the owner of a row lock writes to *)
(* a stored row, and that an object is removed only when its row is gone.  *)
(* The second part follows a reader from the row to the bytes (ReadInv),   *)
(* the third accounts for every object of the bucket when nothing is lost  *)
(* between client and server (Clean), and the last maps every step to the  *)
(* abstract image store.                                                   *)
(***************************************************************************)
EXTENDS TieredStore, TLAPS

(* What a call may end with. *)
Results ==
  {"none", "True", "False", "None", "ids", "bytes", "StorageError", "TypeError"}

(* Idle, where every call begins, is a call. *)
LEMMA IdleType == Idle \in Call /\ \A i \in Ids : Idle.changes[i] = "same"
<1>1. Untouched \in [Ids -> Change]
  BY DEF Untouched, Change
<1>. QED  BY <1>1 DEF Idle, Call, Untouched

(* A call that ends is a call that writes and removes nothing more. *)
LEMMA FinishType ==
  ASSUME NEW r \in Call, NEW x \in Results
  PROVE  /\ Finish(r, x) \in Call
         /\ Finish(r, x).pc = "returned"
         /\ Finish(r, x).changes = r.changes /\ Finish(r, x).ids = r.ids
BY DEF Finish, Call, Results

(* A failed call has nothing to write: it starts again or it has ended. *)
LEMMA AfterFailureType ==
  ASSUME NEW r \in Call
  PROVE  /\ AfterFailure(r) \in Call
         /\ \/ /\ AfterFailure(r).pc = "work"
               /\ \A i \in Ids : AfterFailure(r).changes[i] = "same"
            \/ /\ AfterFailure(r).pc = "returned"
               /\ AfterFailure(r).changes = r.changes
<1>1. CASE r.pooled /\ r.attempt < MaxRetries
  <2>1. r.attempt + 1 \in Nat
    BY DEF Call
  <2>2. Untouched \in [Ids -> Change] /\ \A i \in Ids : Untouched[i] = "same"
    BY DEF Untouched, Change
  <2>. QED  BY <1>1, <2>1, <2>2 DEF AfterFailure, Call
<1>2. CASE ~(r.pooled /\ r.attempt < MaxRetries)
  BY <1>2, FinishType DEF AfterFailure, Results
<1>. QED  BY <1>1, <1>2

(* Nothing is stored, locked or open at the start. *)
LEMMA InitIInv == Init => IInv
<1> SUFFICES ASSUME Init PROVE IInv
  OBVIOUS
<1>1. \A p \in Procs : tx[p] = Idle
  BY DEF Init
<1>2. TypeOK
  BY IdleType DEF Init, TypeOK, RowState
<1>3. NoLostBytes /\ LockedStored
  BY DEF Init, NoLostBytes, LockedStored
<1>4. \A p \in Procs : Pending(p)
  BY <1>1 DEF Pending, Idle, Untouched
<1>. QED  BY <1>2, <1>3, <1>4 DEF IInv

(* A step of one client that writes no row: what remains to be shown of it. *)
LEMMA LocalStep ==
  ASSUME IInv, NEW p \in Procs, NEW r \in Call,
         tx' = [tx EXCEPT ![p] = r],
         row' = row,
         objects' \subseteq Ids, reported' \subseteq Ids,
         \A i \in objects : i \in objects' \/ row[i] = "deleted",
         rowLock' \in [Ids -> Procs \cup {NoProc}],
         \A i \in Ids : \/ rowLock'[i] = rowLock[i]
                        \/ rowLock'[i] = NoProc /\ rowLock[i] = p
                        \/ rowLock[i] = NoProc /\ rowLock'[i] = p /\ Stored(i),
         \A i \in Ids : r.changes[i] = "postgres" =>
            tx[p].changes[i] = "postgres" \/ \A q \in Procs : tx[q].changes[i] = "same",
         Pending(p)'
  PROVE  IInv'
<1>1. TypeOK /\ NoLostBytes /\ LockedStored /\ \A q \in Procs : Pending(q)
  BY DEF IInv
<1>2. tx'[p] = r /\ \A q \in Procs : q # p => tx'[q] = tx[q]
  BY <1>1 DEF TypeOK
<1>3. TypeOK'
  BY <1>1 DEF TypeOK
<1>4. NoLostBytes'
  BY <1>1 DEF NoLostBytes
<1>5. LockedStored'
  BY <1>1 DEF LockedStored, Stored
<1>6. ASSUME NEW q \in Procs, q # p PROVE Pending(q)'
  <2>1. tx'[q] = tx[q] /\ q # NoProc
    BY <1>2, <1>6, TieringAssumption DEF Procs
  <2>2. \A i \in Ids : rowLock[i] = q => rowLock'[i] = q /\ i \in Ids /\ (i \in objects => i \in objects')
    BY <1>1, <1>6, <2>1, TieringAssumption DEF LockedStored, Stored, Procs
  <2>3. \A i \in Ids : rowLock'[i] = q => rowLock[i] = q
    BY <1>6, <2>1
  <2>4. \A i \in tx[q].ids : i \in Ids
    BY <1>1 DEF TypeOK, Call
  <2>5. \A i \in Ids : tx[q].pc \in {"work", "commit"}
                       /\ tx[q].changes[i] \in {"deleted", "object_storage"} => rowLock'[i] = q
    BY <1>1, <2>2 DEF Pending
  <2>6. \A i \in tx[q].ids : tx[q].pc = "update" /\ rowLock'[i] = q => i \in objects'
    BY <1>1, <2>2, <2>3, <2>4 DEF Pending
  <2>7. \A i \in Ids : tx[q].pc = "commit" /\ tx[q].changes[i] = "object_storage" => i \in objects'
    BY <1>1, <2>2 DEF Pending
  <2>8. ASSUME NEW i \in Ids, tx[q].pc = "commit", tx[q].changes[i] = "postgres"
        PROVE  row[i] = "new" /\ \A x \in Procs : x # q => tx'[x].changes[i] # "postgres"
    <3>1. row[i] = "new" /\ \A x \in Procs : x # q => tx[x].changes[i] # "postgres"
      BY <1>1, <2>8 DEF Pending
    <3>2. r.changes[i] # "postgres"
      BY <1>6, <2>8, <3>1
    <3>. QED  BY <1>2, <3>1, <3>2
  <2>9. \A i \in tx[q].cleanup : tx[q].pc = "cleanup" => row[i] = "deleted"
    BY <1>1 DEF Pending
  <2>10. \A i \in Ids : tx[q].pc = "work" => tx[q].changes[i] \in {"same", "deleted"}
    BY <1>1 DEF Pending
  <2>. QED  BY <2>1, <2>5, <2>6, <2>7, <2>8, <2>9, <2>10 DEF Pending
<1>. QED
  BY <1>3, <1>4, <1>5, <1>6 DEF IInv

(* Beginning a call: any of the three Begin actions of a writer, or a read. *)
LEMMA BeginStep ==
  ASSUME IInv, NEW p \in Procs, NEW c \in Call, Begin(p, c),
         c.pc = "work", \A i \in Ids : c.changes[i] = "same"
  PROVE  IInv'
<1>1. TypeOK
  BY DEF IInv
<1>2. PICK own \in BOOLEAN : tx' = [tx EXCEPT ![p] = [c EXCEPT !.pooled = own]]
  BY DEF Begin
<1> DEFINE r == [c EXCEPT !.pooled = own]
<1>3. r \in Call /\ r.pc = "work" /\ r.changes = c.changes
  BY DEF Call
<1> HIDE DEF r
<1>4. tx' = [tx EXCEPT ![p] = r] /\ tx'[p] = r
  BY <1>1, <1>2 DEF TypeOK, r
<1>5. Pending(p)'
  BY <1>3, <1>4 DEF Pending
<1>6. UNCHANGED <<row, objects, reported, rowLock>>
  BY DEF Begin
<1>7. objects' \subseteq Ids /\ reported' \subseteq Ids /\ rowLock' \in [Ids -> Procs \cup {NoProc}]
  BY <1>1, <1>6 DEF TypeOK
<1>8. \A i \in Ids : r.changes[i] # "postgres"
  BY <1>3
<1>9. /\ row' = row
      /\ \A i \in objects : i \in objects' \/ row[i] = "deleted"
      /\ \A i \in Ids : rowLock'[i] = rowLock[i]
  BY <1>6
<1>. QED
  BY <1>3, <1>4, <1>5, <1>7, <1>8, <1>9, LocalStep

(* put_many, tier_to_object_storage and delete_many begin. *)
LEMMA BeginWriteStep ==
  ASSUME IInv, NEW p \in Writers, BeginPut(p) \/ BeginTier(p) \/ BeginDelete(p)
  PROVE  IInv'
<1>1. p \in Procs
  BY DEF Procs
<1>2. CASE BeginPut(p)
  <2>1. PICK n \in 1..MaxBatch :
          Begin(p, [Idle EXCEPT !.pc = "work", !.op = "put_many", !.size = n])
    BY <1>2 DEF BeginPut
  <2> DEFINE c == [Idle EXCEPT !.pc = "work", !.op = "put_many", !.size = n]
  <2>a. n \in Nat
    BY TieringAssumption
  <2>2. c \in Call /\ c.pc = "work" /\ \A i \in Ids : c.changes[i] = "same"
    BY <2>a, IdleType DEF Call
  <2>. QED  BY <1>1, <2>1, <2>2, BeginStep
<1>3. CASE BeginTier(p)
  <2>1. PICK i \in Ids :
          Begin(p, [Idle EXCEPT !.pc = "work", !.op = "tier_to_object_storage", !.ids = {i}])
    BY <1>3 DEF BeginTier, Nameable
  <2> DEFINE c == [Idle EXCEPT !.pc = "work", !.op = "tier_to_object_storage", !.ids = {i}]
  <2>2. c \in Call /\ c.pc = "work" /\ \A j \in Ids : c.changes[j] = "same"
    BY IdleType DEF Call
  <2>. QED  BY <1>1, <2>1, <2>2, BeginStep
<1>4. CASE BeginDelete(p)
  <2>1. PICK S \in SUBSET Ids :
          Begin(p, [Idle EXCEPT !.pc = "work", !.op = "delete_many", !.ids = S, !.scan = S])
    BY <1>4 DEF BeginDelete, Nameable
  <2> DEFINE c == [Idle EXCEPT !.pc = "work", !.op = "delete_many", !.ids = S, !.scan = S]
  <2>2. c \in Call /\ c.pc = "work" /\ \A i \in Ids : c.changes[i] = "same"
    BY IdleType DEF Call
  <2>. QED  BY <1>1, <2>1, <2>2, BeginStep
<1>. QED  BY <1>2, <1>3, <1>4

(* get and get_stream begin. *)
LEMMA BeginReadStep ==
  ASSUME IInv, NEW p \in Readers, BeginRead(p)
  PROVE  IInv'
<1>1. PICK i \in Ids, op \in {"get", "get_stream"} :
        Begin(p, [Idle EXCEPT !.pc = "work", !.op = op, !.ids = {i}, !.intact = Stored(i)])
  BY DEF BeginRead, Nameable
<1> DEFINE c == [Idle EXCEPT !.pc = "work", !.op = op, !.ids = {i}, !.intact = Stored(i)]
<1>2. Stored(i) \in BOOLEAN
  BY DEF Stored
<1>3. c \in Call /\ c.pc = "work" /\ \A j \in Ids : c.changes[j] = "same"
  BY <1>2, IdleType DEF Call
<1>. QED  BY <1>1, <1>3, BeginStep DEF Procs

(* A step that only moves the call of p on: no row, object or lock changes. *)
LEMMA QuietStep ==
  ASSUME IInv, NEW p \in Procs, NEW r \in Call,
         tx' = [tx EXCEPT ![p] = r],
         UNCHANGED <<row, objects, reported, rowLock>>,
         \A i \in Ids : r.changes[i] = "postgres" =>
            tx[p].changes[i] = "postgres" \/ \A q \in Procs : tx[q].changes[i] = "same",
         Pending(p)'
  PROVE  IInv'
<1>1. TypeOK
  BY DEF IInv
<1>2. objects' \subseteq Ids /\ reported' \subseteq Ids /\ rowLock' \in [Ids -> Procs \cup {NoProc}]
  BY <1>1 DEF TypeOK
<1>3. /\ row' = row
      /\ \A i \in objects : i \in objects' \/ row[i] = "deleted"
      /\ \A i \in Ids : rowLock'[i] = rowLock[i]
  OBVIOUS
<1>. QED  BY <1>2, <1>3, LocalStep

(* The rows of a put are new, and no other call is about to write them. *)
LEMMA InsertRowsStep ==
  ASSUME IInv, NEW p \in Procs, InsertRows(p)
  PROVE  IInv'
<1>1. TypeOK /\ tx[p] \in Call
  BY DEF IInv, TypeOK
<1>2. PICK S \in SUBSET Fresh :
        tx' = [tx EXCEPT ![p].pc = "commit", ![p].result = "ids",
                 ![p].changes = [i \in Ids |-> IF i \in S THEN "postgres" ELSE "same"]]
  BY DEF InsertRows
<1> DEFINE f == [i \in Ids |-> IF i \in S THEN "postgres" ELSE "same"]
           r == [tx[p] EXCEPT !.pc = "commit", !.result = "ids", !.changes = f]
<1>3. f \in [Ids -> Change]
  BY DEF Change
<1>4. r \in Call /\ r.changes = f /\ r.pc = "commit"
  BY <1>1, <1>3 DEF Call
<1>5. tx' = [tx EXCEPT ![p] = r] /\ tx'[p] = r /\ \A q \in Procs : q # p => tx'[q] = tx[q]
  BY <1>1, <1>2 DEF TypeOK
<1>6. UNCHANGED <<row, objects, reported, rowLock>>
  BY DEF InsertRows
<1>7. \A i \in Ids : f[i] = "postgres" => row[i] = "new" /\ \A q \in Procs : tx[q].changes[i] = "same"
  BY <1>2 DEF Fresh
<1>8. \A i \in Ids : f[i] \notin {"deleted", "object_storage"}
  OBVIOUS
<1> HIDE DEF f, r
<1>9. Pending(p)'
  BY <1>4, <1>5, <1>6, <1>7, <1>8 DEF Pending
<1>10. \A i \in Ids : r.changes[i] = "postgres" => \A q \in Procs : tx[q].changes[i] = "same"
  BY <1>4, <1>7
<1>. QED  BY <1>4, <1>5, <1>6, <1>9, <1>10, QuietStep

(* The SELECT locks a stored row, or finds none to tier. *)
LEMMA SelectForTieringStep ==
  ASSUME IInv, NEW p \in Procs, SelectForTiering(p)
  PROVE  IInv'
<1>1. TypeOK /\ tx[p] \in Call /\ Pending(p) /\ p # NoProc
  BY TieringAssumption DEF IInv, TypeOK, Procs
<1>2. PICK i \in tx[p].ids :
       /\ rowLock[i] = NoProc
       /\ rowLock' = IF Stored(i) THEN [rowLock EXCEPT ![i] = p] ELSE rowLock
       /\ tx' = [tx EXCEPT ![p] =
            IF ~Stored(i) THEN [@ EXCEPT !.pc = "commit", !.result = "None"]
            ELSE IF row[i] # "postgres" THEN [@ EXCEPT !.pc = "commit", !.result = "False"]
            ELSE [@ EXCEPT !.pc = "upload"]]
  BY DEF SelectForTiering
<1>3. i \in Ids /\ tx[p].pc = "work"
  BY <1>1 DEF SelectForTiering, Call
<1>4. PICK r \in Call : /\ tx' = [tx EXCEPT ![p] = r]
                        /\ r.pc \in {"commit", "upload"}
                        /\ r.changes = tx[p].changes /\ r.ids = tx[p].ids
  <2>1. CASE ~Stored(i)
    <3> DEFINE r == [tx[p] EXCEPT !.pc = "commit", !.result = "None"]
    <3>1. r \in Call /\ r.pc = "commit" /\ r.changes = tx[p].changes /\ r.ids = tx[p].ids
      BY <1>1 DEF Call
    <3>. QED  BY <1>2, <2>1, <3>1
  <2>2. CASE Stored(i) /\ row[i] # "postgres"
    <3> DEFINE r == [tx[p] EXCEPT !.pc = "commit", !.result = "False"]
    <3>1. r \in Call /\ r.pc = "commit" /\ r.changes = tx[p].changes /\ r.ids = tx[p].ids
      BY <1>1 DEF Call
    <3>. QED  BY <1>2, <2>2, <3>1
  <2>3. CASE Stored(i) /\ row[i] = "postgres"
    <3> DEFINE r == [tx[p] EXCEPT !.pc = "upload"]
    <3>1. r \in Call /\ r.pc = "upload" /\ r.changes = tx[p].changes /\ r.ids = tx[p].ids
      BY <1>1 DEF Call
    <3>. QED  BY <1>2, <2>3, <3>1
  <2>. QED  BY <2>1, <2>2, <2>3
<1>5. /\ rowLock' \in [Ids -> Procs \cup {NoProc}]
      /\ \A j \in Ids : \/ rowLock'[j] = rowLock[j]
                        \/ rowLock[j] = NoProc /\ rowLock'[j] = p /\ Stored(j)
  BY <1>1, <1>2, <1>3 DEF TypeOK
<1>6. UNCHANGED <<row, objects, reported>>
  BY DEF SelectForTiering
<1>7. tx'[p] = r /\ \A q \in Procs : q # p => tx'[q] = tx[q]
  BY <1>1, <1>4 DEF TypeOK
<1>8. Pending(p)'
  BY <1>1, <1>3, <1>4, <1>5, <1>6, <1>7 DEF Pending
<1>9. /\ row' = row /\ objects' \subseteq Ids /\ reported' \subseteq Ids
      /\ \A j \in objects : j \in objects' \/ row[j] = "deleted"
      /\ \A j \in Ids : r.changes[j] # "postgres"
  BY <1>1, <1>3, <1>4, <1>6 DEF TypeOK, Pending
<1>. QED
  BY <1>4, <1>5, <1>8, <1>9, LocalStep

(* After the upload the object is there. *)
LEMMA UploadStep ==
  ASSUME IInv, NEW p \in Procs, Upload(p)
  PROVE  IInv'
<1>1. TypeOK /\ tx[p] \in Call /\ Pending(p)
  BY DEF IInv, TypeOK
<1> DEFINE r == [tx[p] EXCEPT !.pc = "update"]
<1>2. r \in Call /\ r.pc = "update" /\ r.changes = tx[p].changes /\ r.ids = tx[p].ids
  BY <1>1 DEF Call
<1>3. tx' = [tx EXCEPT ![p] = r] /\ tx'[p] = r
  BY <1>1 DEF Upload, TypeOK
<1> HIDE DEF r
<1>4. /\ row' = row /\ objects' = objects \cup tx[p].ids
      /\ reported' = reported /\ rowLock' = rowLock
  BY DEF Upload
<1>5. /\ objects' \subseteq Ids /\ reported' \subseteq Ids
      /\ rowLock' \in [Ids -> Procs \cup {NoProc}]
      /\ \A i \in objects : i \in objects' \/ row[i] = "deleted"
      /\ \A i \in Ids : rowLock'[i] = rowLock[i]
  BY <1>1, <1>4 DEF TypeOK, Call
<1>6. Pending(p)'
  BY <1>1, <1>2, <1>3, <1>4 DEF Pending
<1>7. \A i \in Ids : r.changes[i] = "postgres" => tx[p].changes[i] = "postgres"
  BY <1>2
<1>. QED  BY <1>2, <1>3, <1>4, <1>5, <1>6, <1>7, LocalStep

(* The transaction of p is rolled back and its call starts again or ends. *)
LEMMA RollbackStep ==
  ASSUME IInv, NEW p \in Procs, NEW r \in Call,
         tx' = [tx EXCEPT ![p] = r], Unlock(p),
         row' = row, reported' = reported,
         objects \subseteq objects', objects' \subseteq Ids,
         \/ r.pc \in {"work", "idle"} /\ \A i \in Ids : r.changes[i] = "same"
         \/ r.pc = "returned" /\ r.changes = tx[p].changes
  PROVE  IInv'
<1>1. TypeOK /\ tx[p] \in Call /\ Pending(p)
  BY DEF IInv, TypeOK
<1>2. tx'[p] = r
  BY <1>1 DEF TypeOK
<1>3. /\ rowLock' \in [Ids -> Procs \cup {NoProc}]
      /\ \A i \in Ids : \/ rowLock'[i] = rowLock[i]
                        \/ rowLock'[i] = NoProc /\ rowLock[i] = p
  BY <1>1 DEF TypeOK, Unlock
<1>4. reported' \subseteq Ids /\ \A i \in objects : i \in objects' \/ row[i] = "deleted"
  BY <1>1 DEF TypeOK
<1>5. Pending(p)'
  BY <1>2 DEF Pending
<1>6. \A i \in Ids : r.changes[i] = "postgres" => tx[p].changes[i] = "postgres"
  OBVIOUS
<1>. QED  BY <1>3, <1>4, <1>5, <1>6, LocalStep

(* A failed upload leaves the row alone; an object it left behind does no harm. *)
LEMMA UploadFailsStep ==
  ASSUME IInv, NEW p \in Procs, UploadFails(p)
  PROVE  IInv'
<1>1. TypeOK /\ tx[p] \in Call
  BY DEF IInv, TypeOK
<1> DEFINE r == Finish(tx[p], "StorageError")
<1>2. r \in Call /\ r.pc = "returned" /\ r.changes = tx[p].changes
  BY <1>1, FinishType DEF Results
<1>3. /\ tx' = [tx EXCEPT ![p] = r] /\ Unlock(p)
      /\ row' = row /\ reported' = reported
  BY DEF UploadFails
<1>4. objects \subseteq objects' /\ objects' \subseteq Ids
  BY <1>1 DEF UploadFails, TypeOK, Call
<1>. QED  BY <1>2, <1>3, <1>4, RollbackStep

(* A rollback, then a retry or the error. *)
LEMMA FailStep ==
  ASSUME IInv, NEW p \in Procs, Fail(p) \/ Abort(p)
  PROVE  IInv'
<1>1. TypeOK /\ tx[p] \in Call
  BY DEF IInv, TypeOK
<1>2. PICK r \in {AfterFailure(tx[p]), Finish(tx[p], "StorageError")} :
        /\ tx' = [tx EXCEPT ![p] = r] /\ Unlock(p)
        /\ row' = row /\ reported' = reported /\ objects' = objects
  BY DEF Fail, Abort
<1>3. /\ r \in Call
      /\ \/ r.pc \in {"work", "idle"} /\ \A i \in Ids : r.changes[i] = "same"
         \/ r.pc = "returned" /\ r.changes = tx[p].changes
  BY <1>1, <1>2, AfterFailureType, FinishType DEF Results
<1>4. objects \subseteq objects' /\ objects' \subseteq Ids
  BY <1>1, <1>2 DEF TypeOK
<1>. QED  BY <1>2, <1>3, <1>4, RollbackStep

(* A client that dies writes no more. *)
LEMMA CrashStep ==
  ASSUME IInv, NEW p \in Procs, Crash(p)
  PROVE  IInv'
<1>1. TypeOK
  BY DEF IInv
<1>2. Idle.pc = "idle"
  BY DEF Idle
<1>3. /\ tx' = [tx EXCEPT ![p] = Idle] /\ Unlock(p)
      /\ row' = row /\ reported' = reported /\ objects' = objects
  BY DEF Crash
<1>4. objects \subseteq objects' /\ objects' \subseteq Ids
  BY <1>1, <1>3 DEF TypeOK
<1>. QED  BY <1>2, <1>3, <1>4, IdleType, RollbackStep

(* A client whose lock is gone does not get to write the pointer. *)
LEMMA DisconnectStep ==
  ASSUME IInv, NEW p \in Procs, Disconnect(p)
  PROVE  IInv'
<1>1. TypeOK /\ tx[p] \in Call /\ p # NoProc
  BY TieringAssumption DEF IInv, TypeOK, Procs
<1>2. tx' = [tx EXCEPT ![p] = tx[p]] /\ tx'[p] = tx[p]
  BY <1>1 DEF Disconnect, TypeOK
<1>3. /\ rowLock' \in [Ids -> Procs \cup {NoProc}]
      /\ \A i \in Ids : \/ rowLock'[i] = rowLock[i]
                        \/ rowLock'[i] = NoProc /\ rowLock[i] = p
      /\ \A i \in Ids : rowLock'[i] # p
  BY <1>1 DEF TypeOK, Disconnect, Unlock
<1>4. /\ row' = row /\ objects' \subseteq Ids /\ reported' \subseteq Ids
      /\ \A i \in objects : i \in objects' \/ row[i] = "deleted"
  BY <1>1 DEF TypeOK, Disconnect
<1>5. tx[p].pc \in {"upload", "update"}
  BY DEF Disconnect
<1>6. \A i \in tx[p].ids : i \in Ids
  BY <1>1 DEF Call
<1>7. Pending(p)'
  BY <1>2, <1>3, <1>5, <1>6 DEF Pending
<1>. QED  BY <1>1, <1>2, <1>3, <1>4, <1>7, LocalStep

(* The caller goes on. *)
LEMMA ReturnStep ==
  ASSUME IInv, NEW p \in Procs, Return(p)
  PROVE  IInv'
<1>1. TypeOK
  BY DEF IInv
<1>2. tx' = [tx EXCEPT ![p] = Idle] /\ tx'[p] = Idle
  BY <1>1 DEF Return, TypeOK
<1>3. Pending(p)'
  BY <1>2 DEF Pending, Idle
<1>. QED  BY <1>2, <1>3, IdleType, QuietStep DEF Return

(* The pointer is written only by the owner of the lock, to an object that is there. *)
LEMMA UpdateAfterTieringStep ==
  ASSUME IInv, NEW p \in Procs, UpdateAfterTiering(p)
  PROVE  IInv'
<1>1. TypeOK /\ tx[p] \in Call /\ Pending(p)
  BY DEF IInv, TypeOK
<1> DEFINE f == [i \in Ids |-> IF i \in tx[p].ids THEN "object_storage" ELSE "same"]
           r == [tx[p] EXCEPT !.pc = "commit", !.result = "True", !.changes = f]
<1>2. f \in [Ids -> Change]
  BY DEF Change
<1>3. r \in Call /\ r.changes = f /\ r.pc = "commit" /\ r.ids = tx[p].ids
  BY <1>1, <1>2 DEF Call
<1>4. tx' = [tx EXCEPT ![p] = r] /\ tx'[p] = r
  BY <1>1 DEF UpdateAfterTiering, TypeOK
<1>5. \A i \in Ids : f[i] \in {"object_storage", "same"}
                     /\ (f[i] = "object_storage" => i \in tx[p].ids)
  OBVIOUS
<1>6. \A i \in tx[p].ids : i \in Ids /\ rowLock[i] = p /\ i \in objects
  BY <1>1 DEF UpdateAfterTiering, Pending, Call
<1> HIDE DEF f, r
<1>7. UNCHANGED <<row, objects, reported, rowLock>>
  BY DEF UpdateAfterTiering
<1>8. Pending(p)'
  BY <1>3, <1>4, <1>5, <1>6, <1>7 DEF Pending
<1>9. \A i \in Ids : r.changes[i] # "postgres"
  BY <1>3, <1>5
<1>. QED  BY <1>3, <1>4, <1>7, <1>8, <1>9, QuietStep

(* The DELETE locks every row that it is going to remove. *)
LEMMA DeleteRowStep ==
  ASSUME IInv, NEW p \in Procs, NEW i \in Ids, DeleteRow(p, i)
  PROVE  IInv'
<1>1. TypeOK /\ tx[p] \in Call /\ Pending(p) /\ p # NoProc
  BY TieringAssumption DEF IInv, TypeOK, Procs
<1> DEFINE new == IF Stored(i) THEN "deleted" ELSE "same"
           pc == IF tx[p].scan = {i} THEN "commit" ELSE "work"
           f == [tx[p].changes EXCEPT ![i] = new]
           r == [tx[p] EXCEPT !.scan = tx[p].scan \ {i}, !.changes = f,
                              !.result = "ids", !.pc = pc]
<1>2. f \in [Ids -> Change]
  BY <1>1 DEF Change, Call
<1>3. r \in Call /\ r.changes = f /\ r.pc \in {"commit", "work"}
  BY ZenonT(60), <1>1, <1>2 DEF Call
<1>4. tx' = [tx EXCEPT ![p] = r] /\ tx'[p] = r
  BY <1>1 DEF DeleteRow, TypeOK, Call
<1>5. /\ \A j \in Ids : tx[p].changes[j] \in {"same", "deleted"}
                        /\ (tx[p].changes[j] = "deleted" => rowLock[j] = p)
      /\ rowLock[i] = NoProc
  BY <1>1 DEF DeleteRow, Pending
<1>6. \A j \in Ids : f[j] \in {"same", "deleted"}
                     /\ (f[j] = "deleted" => IF j = i THEN Stored(i) ELSE rowLock[j] = p)
  BY <1>1, <1>5 DEF Call
<1>7. rowLock' = IF Stored(i) THEN [rowLock EXCEPT ![i] = p] ELSE rowLock
  BY DEF DeleteRow
<1>8. /\ rowLock' \in [Ids -> Procs \cup {NoProc}]
      /\ \A j \in Ids : \/ rowLock'[j] = rowLock[j]
                        \/ rowLock[j] = NoProc /\ rowLock'[j] = p /\ Stored(j)
  BY <1>1, <1>5, <1>7 DEF TypeOK
<1>9. \A j \in Ids : f[j] = "deleted" => rowLock'[j] = p
  BY <1>1, <1>5, <1>6, <1>7 DEF TypeOK
<1> HIDE DEF f, r, new, pc
<1>10. /\ row' = row /\ objects' \subseteq Ids /\ reported' \subseteq Ids
       /\ \A j \in objects : j \in objects' \/ row[j] = "deleted"
  BY <1>1 DEF TypeOK, DeleteRow
<1>11. Pending(p)'
  BY <1>3, <1>4, <1>6, <1>9 DEF Pending
<1>12. \A j \in Ids : r.changes[j] # "postgres"
  BY <1>3, <1>6
<1>. QED  BY <1>3, <1>4, <1>8, <1>10, <1>11, <1>12, LocalStep

(* Only objects whose row is gone are removed. *)
LEMMA CleanupStep ==
  ASSUME IInv, NEW p \in Procs, NEW i \in Ids,
         RemoveObject(p, i) \/ RemoveObjectFails(p, i)
  PROVE  IInv'
<1>1. TypeOK /\ tx[p] \in Call /\ Pending(p)
  BY DEF IInv, TypeOK
<1> DEFINE pc == IF tx[p].cleanup = {i} THEN "returned" ELSE "cleanup"
           r == [tx[p] EXCEPT !.cleanup = tx[p].cleanup \ {i}, !.pc = pc]
<1>2. /\ r \in Call /\ r.pc \in {"returned", "cleanup"} /\ r.changes = tx[p].changes
      /\ r.cleanup = tx[p].cleanup \ {i} /\ r.ids = tx[p].ids
  BY <1>1 DEF Call
<1>3. tx' = [tx EXCEPT ![p] = r] /\ tx'[p] = r
  BY <1>1 DEF RemoveObject, RemoveObjectFails, AfterCleanup, TypeOK
<1> HIDE DEF pc, r
<1>4. tx[p].pc = "cleanup" /\ row[i] = "deleted" /\ \A j \in tx[p].cleanup : row[j] = "deleted"
  BY <1>1 DEF RemoveObject, RemoveObjectFails, Pending
<1>5. /\ row' = row /\ rowLock' = rowLock
      /\ objects' \in {objects, objects \ {i}}
      /\ reported' \in {reported, reported \cup {i}}
  BY DEF RemoveObject, RemoveObjectFails
<1>6. /\ objects' \subseteq Ids /\ reported' \subseteq Ids
      /\ rowLock' \in [Ids -> Procs \cup {NoProc}]
      /\ \A j \in objects : j \in objects' \/ row[j] = "deleted"
      /\ \A j \in Ids : rowLock'[j] = rowLock[j]
  BY <1>1, <1>4, <1>5 DEF TypeOK
<1>7. Pending(p)'
  BY <1>2, <1>3, <1>4, <1>5 DEF Pending
<1>8. \A j \in Ids : r.changes[j] = "postgres" => tx[p].changes[j] = "postgres"
  BY <1>2
<1>. QED  BY <1>2, <1>3, <1>5, <1>6, <1>7, <1>8, LocalStep

(* A reader moves on in its own call. *)
LEMMA ReadCall ==
  ASSUME IInv, NEW p \in Procs, Read(p)
  PROVE  \E r \in Call : /\ tx' = [tx EXCEPT ![p] = r]
                         /\ r.pc \in {"read", "returned"}
                         /\ r.changes = tx[p].changes /\ r.ids = tx[p].ids
<1>1. TypeOK /\ tx[p] \in Call
  BY DEF IInv, TypeOK
<1>2. ASSUME NEW x \in Results
      PROVE  LET r == Finish(tx[p], x)
             IN  /\ r \in Call /\ r.pc \in {"read", "returned"}
                 /\ r.changes = tx[p].changes /\ r.ids = tx[p].ids
  BY <1>1, FinishType
<1>3. ASSUME NEW n \in Nat, NEW s \in {"chunks", "object"}
      PROVE  LET r == [tx[p] EXCEPT !.pc = "read", !.source = s, !.left = n]
             IN  /\ r \in Call /\ r.pc \in {"read", "returned"}
                 /\ r.changes = tx[p].changes /\ r.ids = tx[p].ids
  BY <1>1 DEF Call
<1>4. LET r == Delivered(tx[p])
      IN  /\ r \in Call /\ r.pc \in {tx[p].pc, "returned"}
          /\ r.changes = tx[p].changes /\ r.ids = tx[p].ids
  <2>1. CASE tx[p].left <= 1
    <3> DEFINE r == [tx[p] EXCEPT !.left = 0]
    <3>1. r \in Call /\ r.changes = tx[p].changes /\ r.ids = tx[p].ids
      BY <1>1 DEF Call
    <3>. QED  BY <2>1, <3>1, FinishType DEF Delivered, Results
  <2>2. CASE ~(tx[p].left <= 1)
    <3>1. tx[p].left - 1 \in Nat
      BY <1>1, <2>2 DEF Call
    <3>. QED  BY <1>1, <2>2, <3>1 DEF Delivered, Call
  <2>. QED  BY <2>1, <2>2
<1>5. CASE SelectRow(p)
  <2>1. Chunks \in Nat /\ 1 \in Nat
    BY TieringAssumption
  <2>2. PICK i \in tx[p].ids :
     tx' = [tx EXCEPT ![p] =
       IF ~Stored(i) THEN Finish(@, "None")
       ELSE IF row[i] = "object_storage"
       THEN [@ EXCEPT !.pc = "read", !.source = "object",
                      !.left = IF tx[p].op = "get" THEN 1 ELSE Chunks]
       ELSE IF tx[p].op = "get" THEN Finish(@, "bytes")
       ELSE [@ EXCEPT !.pc = "read", !.source = "chunks", !.left = Chunks]]
    BY <1>5 DEF SelectRow
  <2>3. CASE ~Stored(i)
    BY <1>2, <2>2, <2>3 DEF Results
  <2>4. CASE Stored(i) /\ row[i] = "object_storage"
    <3> DEFINE n == IF tx[p].op = "get" THEN 1 ELSE Chunks
    <3>1. n \in Nat
      BY <2>1
    <3>2. tx' = [tx EXCEPT ![p] = [tx[p] EXCEPT !.pc = "read", !.source = "object", !.left = n]]
      BY <2>2, <2>4
    <3> HIDE DEF n
    <3>. QED  BY <1>3, <3>1, <3>2
  <2>5. CASE Stored(i) /\ row[i] # "object_storage" /\ tx[p].op = "get"
    BY <1>2, <2>2, <2>5 DEF Results
  <2>6. CASE Stored(i) /\ row[i] # "object_storage" /\ tx[p].op # "get"
    BY <1>3, <2>1, <2>2, <2>6
  <2>. QED  BY <2>3, <2>4, <2>5, <2>6
<1>6. CASE ReadChunk(p)
  <2>1. PICK i \in tx[p].ids :
     tx' = [tx EXCEPT ![p] =
       IF row[i] = "postgres" THEN Delivered(@)
       ELSE IF row[i] = "object_storage" THEN Finish(@, "TypeError")
       ELSE Finish(@, "StorageError")]
    BY <1>6 DEF ReadChunk
  <2>2. CASE row[i] = "postgres"
    BY <1>4, <1>6, <2>1, <2>2 DEF ReadChunk
  <2>3. CASE row[i] # "postgres"
    BY <1>2, <2>1, <2>3 DEF Results
  <2>. QED  BY <2>2, <2>3
<1>7. CASE ReadObject(p)
  <2>1. CASE tx[p].ids \subseteq objects
    BY <1>4, <1>7, <2>1 DEF ReadObject
  <2>2. CASE ~(tx[p].ids \subseteq objects)
    BY <1>2, <1>7, <2>2 DEF ReadObject, Results
  <2>. QED  BY <2>1, <2>2
<1>. QED  BY <1>5, <1>6, <1>7 DEF Read

(* A reader changes nothing but its own call. *)
LEMMA ReadStep ==
  ASSUME IInv, NEW p \in Procs, Read(p)
  PROVE  IInv'
<1>1. TypeOK
  BY DEF IInv
<1>2. PICK r \in Call : /\ tx' = [tx EXCEPT ![p] = r]
                        /\ r.pc \in {"read", "returned"} /\ r.changes = tx[p].changes
  BY ReadCall
<1>3. UNCHANGED <<row, objects, reported, rowLock>>
  BY DEF Read, SelectRow, ReadChunk, ReadObject
<1>4. tx'[p] = r
  BY <1>1, <1>2 DEF TypeOK
<1>5. Pending(p)'
  BY <1>2, <1>4 DEF Pending
<1>6. \A j \in Ids : r.changes[j] = "postgres" => tx[p].changes[j] = "postgres"
  BY <1>2
<1>. QED  BY <1>2, <1>3, <1>5, <1>6, QuietStep

(* What a commit writes, it writes to rows that are locked for it or new.    *)
LEMMA WritesSafely ==
  ASSUME IInv, NEW p \in Procs, tx[p].pc = "commit", NEW i \in Ids
  PROVE  /\ tx[p].changes[i] \in Change
         /\ tx[p].changes[i] \in {"deleted", "object_storage"} => rowLock[i] = p /\ Stored(i)
         /\ tx[p].changes[i] = "object_storage" => i \in objects
         /\ tx[p].changes[i] = "postgres" =>
              row[i] = "new" /\ \A q \in Procs : q # p => tx[q].changes[i] # "postgres"
<1>1. TypeOK /\ LockedStored /\ Pending(p) /\ tx[p] \in Call
  BY DEF IInv, TypeOK
<1>2. p # NoProc
  BY TieringAssumption DEF Procs
<1>3. tx[p].changes[i] \in Change
  BY <1>1 DEF Call
<1>4. tx[p].changes[i] \in {"deleted", "object_storage"} => rowLock[i] = p
  BY <1>1 DEF Pending
<1>5. rowLock[i] = p => Stored(i)
  BY <1>1, <1>2 DEF LockedStored
<1>6. tx[p].changes[i] = "object_storage" => i \in objects
  BY <1>1 DEF Pending
<1>7. tx[p].changes[i] = "postgres" =>
        row[i] = "new" /\ \A q \in Procs : q # p => tx[q].changes[i] # "postgres"
  BY <1>1 DEF Pending
<1>. QED  BY <1>3, <1>4, <1>5, <1>6, <1>7

(* A commit writes only rows that its owner has locked, or that are new.    *)
LEMMA InstallStep ==
  ASSUME IInv, NEW p \in Procs, NEW r \in Call,
         tx[p].pc = "commit", Install(p), tx' = [Disturbed(p) EXCEPT ![p] = r],
         \/ r.pc = "work" /\ \A i \in Ids : r.changes[i] = "same"
         \/ r.pc = "returned" /\ r.changes = tx[p].changes
         \/ /\ r.pc = "cleanup" /\ r.changes = tx[p].changes
            /\ \A i \in r.cleanup : i \in Ids /\ tx[p].changes[i] = "deleted"
  PROVE  IInv'
<1>1. /\ TypeOK /\ NoLostBytes /\ LockedStored /\ \A q \in Procs : Pending(q)
      /\ tx[p] \in Call
  BY DEF IInv, TypeOK
<1>2. /\ row' = [i \in Ids |-> IF tx[p].changes[i] # "same" THEN tx[p].changes[i] ELSE row[i]]
      /\ objects' = objects /\ reported' = reported
      /\ rowLock' = [i \in Ids |-> IF rowLock[i] = p THEN NoProc ELSE rowLock[i]]
  BY DEF Install, Written, Unlock
<1>3. ASSUME NEW q \in Procs
      PROVE  /\ Disturbed(p)[q] \in Call
             /\ Disturbed(p)[q].pc = tx[q].pc /\ Disturbed(p)[q].changes = tx[q].changes
             /\ Disturbed(p)[q].ids = tx[q].ids /\ Disturbed(p)[q].cleanup = tx[q].cleanup
  <2>1. tx[q] \in Call
    BY <1>1 DEF TypeOK
  <2>2. Disturbed(p)[q] \in {tx[q], [tx[q] EXCEPT !.intact = FALSE]}
    BY DEF Disturbed
  <2>. QED  BY <2>1, <2>2 DEF Call
<1>4. /\ tx' \in [Procs -> Call] /\ tx'[p] = r
      /\ \A q \in Procs : q # p => tx'[q] = Disturbed(p)[q]
  <2>1. Disturbed(p) \in [Procs -> Call]
    BY <1>3 DEF Disturbed
  <2>. QED  BY <2>1
<1>5. ASSUME NEW i \in Ids
      PROVE  /\ tx[p].changes[i] \in Change
             /\ tx[p].changes[i] \in {"deleted", "object_storage"} =>
                  rowLock[i] = p /\ Stored(i)
             /\ tx[p].changes[i] = "object_storage" => i \in objects
             /\ tx[p].changes[i] = "postgres" =>
                  row[i] = "new" /\ \A q \in Procs : q # p => tx[q].changes[i] # "postgres"
  BY WritesSafely
<1>6. TypeOK'
  <2>1. row' \in [Ids -> RowState]
    BY <1>1, <1>2, <1>5 DEF TypeOK, Change, RowState
  <2>2. rowLock' \in [Ids -> Procs \cup {NoProc}]
    BY <1>1, <1>2 DEF TypeOK
  <2>. QED  BY <1>1, <1>2, <1>4, <2>1, <2>2 DEF TypeOK
<1>7. NoLostBytes'
  BY <1>1, <1>2, <1>5 DEF NoLostBytes
<1>8. ASSUME NEW i \in Ids, rowLock'[i] # NoProc PROVE row'[i] = row[i] /\ Stored(i)
  <2>1. rowLock[i] # p /\ rowLock[i] # NoProc
    BY <1>2, <1>8
  <2>2. Stored(i)
    BY <1>1, <2>1 DEF LockedStored
  <2>3. tx[p].changes[i] = "same"
    BY <1>5, <2>1, <2>2 DEF Change, Stored
  <2>. QED  BY <1>2, <2>2, <2>3
<1>9. LockedStored'
  BY <1>8 DEF LockedStored, Stored
<1>10. ASSUME NEW i \in Ids, row[i] = "deleted" PROVE row'[i] = "deleted"
  BY <1>2, <1>5, <1>10 DEF Change, Stored
<1>11. Pending(p)'
  <2>1. \A i \in Ids : tx[p].changes[i] = "deleted" => row'[i] = "deleted"
    BY <1>2
  <2>. QED  BY <1>4, <2>1 DEF Pending
<1>12. ASSUME NEW q \in Procs, q # p PROVE Pending(q)'
  <2>1. /\ tx'[q].pc = tx[q].pc /\ tx'[q].changes = tx[q].changes
        /\ tx'[q].ids = tx[q].ids /\ tx'[q].cleanup = tx[q].cleanup
        /\ q # NoProc /\ tx[q] \in Call
    BY <1>1, <1>3, <1>4, <1>12, TieringAssumption DEF Procs, TypeOK
  <2>2. \A i \in Ids : rowLock[i] = q <=> rowLock'[i] = q
    BY <1>2, <1>12, <2>1
  <2>3. \A i \in tx[q].ids : i \in Ids
    BY <2>1 DEF Call
  <2>4. ASSUME NEW i \in Ids, tx[q].pc = "commit", tx[q].changes[i] = "postgres"
        PROVE  row'[i] = "new" /\ \A x \in Procs : x # q => tx'[x].changes[i] # "postgres"
    <3>1. row[i] = "new" /\ \A x \in Procs : x # q => tx[x].changes[i] # "postgres"
      BY <1>1, <2>4 DEF Pending
    <3>2. tx[p].changes[i] = "same"
      BY <1>5, <1>12, <3>1 DEF Change, Stored
    <3>3. \A x \in Procs : tx'[x].changes[i] \in {tx[x].changes[i], "same"}
      BY <1>3, <1>4
    <3>. QED  BY <1>2, <3>1, <3>2, <3>3
  <2>5. \A i \in Ids : tx[q].pc = "work" => tx[q].changes[i] \in {"same", "deleted"}
    BY <1>1 DEF Pending
  <2>6. \A i \in Ids : tx[q].pc \in {"work", "commit"}
                       /\ tx[q].changes[i] \in {"deleted", "object_storage"} => rowLock[i] = q
    BY <1>1 DEF Pending
  <2>7. \A i \in tx[q].ids : tx[q].pc = "update" /\ rowLock[i] = q => i \in objects
    BY <1>1 DEF Pending
  <2>8. \A i \in Ids : tx[q].pc = "commit" /\ tx[q].changes[i] = "object_storage" => i \in objects
    BY <1>1 DEF Pending
  <2>9. \A i \in tx[q].cleanup : tx[q].pc = "cleanup" => row'[i] = "deleted"
    <3>1. \A i \in tx[q].cleanup : i \in Ids
      BY <2>1 DEF Call
    <3>. QED  BY <1>1, <1>10, <3>1 DEF Pending
  <2>. QED
    BY <1>2, <2>1, <2>2, <2>3, <2>4, <2>5, <2>6, <2>7, <2>8, <2>9 DEF Pending
<1>. QED  BY <1>6, <1>7, <1>9, <1>11, <1>12 DEF IInv

(* A commit, whether its client hears of it or not. *)
LEMMA CommitStep ==
  ASSUME IInv, NEW p \in Procs, Commit(p) \/ CommitLost(p)
  PROVE  IInv'
<1>1. TypeOK /\ tx[p] \in Call
  BY DEF IInv, TypeOK
<1> DEFINE a == Applied(p)
<1>2. a \in Call /\ a.changes = tx[p].changes
  BY <1>1 DEF Applied, Written, Call
<1>3. tx[p].pc = "commit" /\ Install(p)
  BY DEF Commit, CommitLost
<1>4. CASE CommitLost(p)
  <2>1. tx' = [Disturbed(p) EXCEPT ![p] = AfterFailure(a)]
    BY <1>4 DEF CommitLost
  <2> HIDE DEF a
  <2>. QED  BY <1>2, <1>3, <2>1, AfterFailureType, InstallStep
<1>5. CASE Commit(p) /\ ToRemove(p) # {}
  <2> DEFINE r == [a EXCEPT !.pc = "cleanup", !.cleanup = ToRemove(p)]
  <2>1. ToRemove(p) \subseteq Ids /\ \A i \in ToRemove(p) : tx[p].changes[i] = "deleted"
    BY DEF ToRemove
  <2>2. /\ r \in Call /\ r.pc = "cleanup" /\ r.changes = tx[p].changes
        /\ r.cleanup = ToRemove(p)
    BY <1>2, <2>1 DEF Call
  <2>3. tx' = [Disturbed(p) EXCEPT ![p] = r]
    BY <1>5 DEF Commit
  <2> HIDE DEF r
  <2>. QED  BY <1>3, <2>1, <2>2, <2>3, InstallStep
<1>6. CASE Commit(p) /\ ToRemove(p) = {}
  <2> DEFINE r == [a EXCEPT !.pc = "returned"]
  <2>1. r \in Call /\ r.pc = "returned" /\ r.changes = tx[p].changes
    BY <1>2 DEF Call
  <2>2. tx' = [Disturbed(p) EXCEPT ![p] = r]
    BY <1>6 DEF Commit
  <2> HIDE DEF r
  <2>. QED  BY <1>3, <2>1, <2>2, InstallStep
<1>. QED  BY <1>4, <1>5, <1>6

(* Every step keeps the invariant. *)
LEMMA NextIInv == IInv /\ [Next]_vars => IInv'
<1> SUFFICES ASSUME IInv, [Next]_vars PROVE IInv'
  OBVIOUS
<1>1. CASE UNCHANGED vars
  BY <1>1 DEF vars, IInv, TypeOK, NoLostBytes, LockedStored, Stored, Pending
<1>2. ASSUME NEW p \in Writers, BeginPut(p) \/ BeginTier(p) \/ BeginDelete(p) PROVE IInv'
  BY <1>2, BeginWriteStep
<1>3. ASSUME NEW p \in Writers, Write(p) PROVE IInv'
  <2>1. p \in Procs
    BY DEF Procs
  <2>2. CASE \E i \in Ids : DeleteRow(p, i) \/ RemoveObject(p, i) \/ RemoveObjectFails(p, i)
    BY <2>1, <2>2, DeleteRowStep, CleanupStep
  <2>. QED
    BY <1>3, <2>1, <2>2, InsertRowsStep, SelectForTieringStep, UploadStep,
       UploadFailsStep, UpdateAfterTieringStep, CommitStep DEF Write
<1>4. ASSUME NEW p \in Writers, CommitLost(p) \/ Fail(p) \/ Abort(p) \/ Disconnect(p) \/ Crash(p)
      PROVE IInv'
  BY <1>4, CommitStep, FailStep, DisconnectStep, CrashStep DEF Procs
<1>5. ASSUME NEW p \in Readers, BeginRead(p) \/ Read(p) PROVE IInv'
  BY <1>5, BeginReadStep, ReadStep DEF Procs
<1>6. ASSUME NEW p \in Procs, Return(p) PROVE IInv'
  BY <1>6, ReturnStep
<1>. QED  BY <1>1, <1>2, <1>3, <1>4, <1>5, <1>6 DEF Next

(* IInv holds in every reachable state. *)
THEOREM Invariance == Spec => []IInv
<1>1. Init => IInv
  BY InitIInv
<1>2. IInv /\ [Next]_vars => IInv'
  BY NextIInv
<1>. QED  BY <1>1, <1>2, PTL DEF Spec

(* The tables, locks, the bucket and the calls stay well formed. *)
THEOREM TypeCorrect == Spec => []TypeOK
<1>1. IInv => TypeOK
  BY DEF IInv
<1>. QED  BY <1>1, Invariance, PTL

(* put_many, tier_to_object_storage and delete_many, with any number of     *)
(* clients, retries, ambiguous uploads, lost connections and crashes: no    *)
(* row ever points at an object that is not in the bucket.                  *)
THEOREM BytesSafe == Spec => []NoLostBytes
<1>1. IInv => NoLostBytes
  BY DEF IInv
<1>. QED  BY <1>1, Invariance, PTL

-----------------------------------------------------------------------------
(* Readers *)

(* A reader: an image that it has found in object storage stays there, and  *)
(* one that was stored all along is still stored.                           *)
Reading(q) ==
  LET r == tx[q]
  IN /\ r.op \in {"get", "get_stream"} /\ r.pc \in {"idle", "work", "read", "returned"}
     /\ \A i, j \in r.ids : i = j
     /\ r.pc \in {"work", "read"} /\ r.intact => \A i \in r.ids : Stored(i)
     /\ r.pc = "read" /\ r.op = "get" => r.source = "object" /\ r.left <= 1
     /\ r.pc = "read" /\ r.source = "object" /\ r.intact =>
          \A i \in r.ids : row[i] = "object_storage"
     /\ r.pc = "returned" /\ r.op = "get" /\ r.intact => r.result = "bytes"

ReadInv == \A q \in Readers : Reading(q)

(* How a commit may change a row. *)
LEMMA CommitRows ==
  ASSUME IInv, NEW p \in Procs, tx[p].pc = "commit", Install(p), NEW i \in Ids
  PROVE  \/ row'[i] = row[i] /\ tx[p].changes[i] = "same"
         \/ row[i] = "new" /\ row'[i] = "postgres" /\ tx[p].changes[i] = "postgres"
         \/ Stored(i) /\ row'[i] = "object_storage" /\ tx[p].changes[i] = "object_storage"
         \/ Stored(i) /\ row'[i] = "deleted" /\ tx[p].changes[i] = "deleted"
<1>1. row' = [j \in Ids |-> IF j \in Written(p) THEN tx[p].changes[j] ELSE row[j]]
  BY DEF Install
<1>2. row'[i] = IF tx[p].changes[i] # "same" THEN tx[p].changes[i] ELSE row[i]
  BY <1>1 DEF Written
<1>. QED  BY <1>2, WritesSafely DEF Change

(* Steps of a writer besides its commit: no row changes and no other call.  *)
LEMMA WriterAlone ==
  ASSUME IInv, NEW p \in Writers,
         \/ BeginPut(p) \/ BeginTier(p) \/ BeginDelete(p)
         \/ InsertRows(p) \/ SelectForTiering(p) \/ Upload(p) \/ UploadFails(p)
         \/ UpdateAfterTiering(p) \/ Fail(p) \/ Abort(p) \/ Disconnect(p) \/ Crash(p)
         \/ \E i \in Ids : DeleteRow(p, i) \/ RemoveObject(p, i) \/ RemoveObjectFails(p, i)
  PROVE  row' = row /\ \A q \in Procs : q # p => tx'[q] = tx[q]
<1>1. tx \in [Procs -> Call]
  BY DEF IInv, TypeOK
<1>2. CASE BeginPut(p) \/ BeginTier(p) \/ BeginDelete(p)
  BY <1>1, <1>2 DEF BeginPut, BeginTier, BeginDelete, Begin
<1>3. CASE InsertRows(p) \/ SelectForTiering(p) \/ Upload(p) \/ UploadFails(p)
  BY <1>1, <1>3 DEF InsertRows, SelectForTiering, Upload, UploadFails
<1>4. CASE UpdateAfterTiering(p) \/ Fail(p) \/ Abort(p) \/ Disconnect(p) \/ Crash(p)
  BY <1>1, <1>4 DEF UpdateAfterTiering, Fail, Abort, Disconnect, Crash
<1>5. ASSUME NEW i \in Ids, DeleteRow(p, i) \/ RemoveObject(p, i) \/ RemoveObjectFails(p, i)
      PROVE  row' = row /\ \A q \in Procs : q # p => tx'[q] = tx[q]
  BY <1>1, <1>5 DEF DeleteRow, RemoveObject, RemoveObjectFails, AfterCleanup
<1>. QED  BY <1>2, <1>3, <1>4, <1>5

(* A reader whose call and whose image do not change. *)
LEMMA ReadingStays ==
  ASSUME NEW q, Reading(q), tx'[q] = tx[q], row' = row
  PROVE  Reading(q)'
BY DEF Reading, Stored

(* Another client's commit: a deleted image is no longer intact, and one in *)
(* object storage stays there otherwise.                                    *)
LEMMA ReadingCommit ==
  ASSUME IInv, ReadInv, NEW p \in Writers, Commit(p) \/ CommitLost(p)
  PROVE  ReadInv'
<1>1. tx \in [Procs -> Call] /\ tx[p].pc = "commit" /\ Install(p) /\ p \in Procs
  BY DEF IInv, TypeOK, Commit, CommitLost, Procs
<1>2. ASSUME NEW q \in Readers PROVE Reading(q)'
  <2>1. q \in Procs /\ q # p /\ tx[q] \in Call /\ Reading(q)
    BY <1>1, TieringAssumption DEF Procs, ReadInv
  <2>2. tx'[q] = Disturbed(p)[q]
    <3>1. DOMAIN Disturbed(p) = Procs
      BY DEF Disturbed
    <3>. QED  BY <2>1, <3>1 DEF Commit, CommitLost
  <2>3. \A i \in tx[q].ids : i \in Ids
    BY <2>1 DEF Call
  <2>4. CASE \E i \in tx[q].ids : tx[p].changes[i] = "deleted"
    <3>1. tx'[q] = [tx[q] EXCEPT !.intact = FALSE]
      BY <2>1, <2>2, <2>4 DEF Disturbed
    <3>2. tx'[q].op = tx[q].op /\ tx'[q].pc = tx[q].pc /\ tx'[q].ids = tx[q].ids
          /\ tx'[q].source = tx[q].source /\ tx'[q].left = tx[q].left
      BY <2>1, <3>1 DEF Call
    <3>3. ~tx'[q].intact
      <4>1. tx'[q].intact = FALSE
        BY <2>1, <3>1 DEF Call
      <4>. QED  BY <4>1
    <3>. QED  BY <2>1, <3>2, <3>3 DEF Reading
  <2>5. CASE ~ \E i \in tx[q].ids : tx[p].changes[i] = "deleted"
    <3>1. tx'[q] = tx[q]
      BY <2>1, <2>2, <2>5 DEF Disturbed
    <3>2. ASSUME NEW i \in tx[q].ids
          PROVE  /\ Stored(i) => row'[i] \in {"postgres", "object_storage"}
                 /\ row[i] = "object_storage" => row'[i] = "object_storage"
      BY <1>1, <2>3, <2>5, CommitRows DEF Stored
    <3>. QED  BY <2>1, <3>1, <3>2 DEF Reading, Stored
  <2>. QED  BY <2>4, <2>5
<1>. QED  BY <1>2 DEF ReadInv

(* The steps of a reader itself. *)
LEMMA ReadingRead ==
  ASSUME IInv, ReadInv, NEW p \in Readers, BeginRead(p) \/ Read(p)
  PROVE  ReadInv'
<1>1. tx \in [Procs -> Call] /\ p \in Procs /\ tx[p] \in Call /\ Reading(p)
  BY DEF IInv, TypeOK, Procs, ReadInv
<1>. DEFINE Fine(r) ==
       /\ r.op \in {"get", "get_stream"} /\ r.pc \in {"work", "read", "returned"}
       /\ \A i, j \in r.ids : i = j
       /\ r.pc \in {"work", "read"} /\ r.intact => \A i \in r.ids : Stored(i)
       /\ r.pc = "read" /\ r.op = "get" => r.source = "object" /\ r.left <= 1
       /\ r.pc = "read" /\ r.source = "object" /\ r.intact =>
            \A i \in r.ids : row[i] = "object_storage"
       /\ r.pc = "returned" /\ r.op = "get" /\ r.intact => r.result = "bytes"
<1>2. ASSUME NEW r \in Call, tx' = [tx EXCEPT ![p] = r], row' = row, Fine(r)
      PROVE  ReadInv'
  <2>1. tx'[p] = r
    BY <1>1, <1>2
  <2>2. Reading(p)'
    BY <1>2, <2>1 DEF Reading, Stored
  <2>3. ASSUME NEW q \in Readers, q # p PROVE Reading(q)'
    <3>1. tx'[q] = tx[q] /\ Reading(q)
      BY <1>1, <1>2, <2>3 DEF Procs, ReadInv
    <3>. QED  BY <1>2, <3>1, ReadingStays
  <2>. QED  BY <2>2, <2>3 DEF ReadInv
<1>3. row' = row
  BY DEF BeginRead, Begin, Read, SelectRow, ReadChunk, ReadObject
<1>0. /\ tx[p].op \in {"get", "get_stream"} /\ \A i, j \in tx[p].ids : i = j
      /\ tx[p].pc = "read" /\ tx[p].op = "get" => tx[p].source = "object" /\ tx[p].left <= 1
      /\ tx[p].pc = "read" /\ tx[p].intact => \A i \in tx[p].ids : Stored(i)
      /\ tx[p].pc = "read" /\ tx[p].source = "object" /\ tx[p].intact =>
           \A i \in tx[p].ids : row[i] = "object_storage"
  BY <1>1 DEF Reading
<1>4. ASSUME NEW x \in Results, tx' = [tx EXCEPT ![p] = Finish(tx[p], x)],
             tx[p].op = "get" /\ tx[p].intact => x = "bytes"
      PROVE  ReadInv'
  <2>. DEFINE r == Finish(tx[p], x)
  <2>1. r \in Call /\ r.pc = "returned" /\ r.ids = tx[p].ids
    BY <1>1, FinishType
  <2>2. r.op = tx[p].op /\ r.result = x
    BY <1>1 DEF Finish, Call
  <2>4. r.intact = tx[p].intact
    BY <1>1 DEF Finish, Call
  <2>5. r.op = "get" /\ r.intact => r.result = "bytes"
    BY <1>4, <2>2, <2>4
  <2>3. tx' = [tx EXCEPT ![p] = r]
    BY <1>4
  <2>. HIDE DEF r
  <2>6. Fine(r)
    BY <1>0, <2>1, <2>2, <2>5
  <2>. QED  BY <1>2, <1>3, <2>1, <2>3, <2>6
<1>5. CASE BeginRead(p)
  <2>1. PICK i \in Ids, op \in {"get", "get_stream"} :
          Begin(p, [Idle EXCEPT !.pc = "work", !.op = op, !.ids = {i}, !.intact = Stored(i)])
    BY <1>5 DEF BeginRead, Nameable
  <2>2. PICK own \in BOOLEAN :
          tx' = [tx EXCEPT ![p] = [[Idle EXCEPT !.pc = "work", !.op = op, !.ids = {i},
                                                !.intact = Stored(i)] EXCEPT !.pooled = own]]
    BY <2>1 DEF Begin
  <2>. DEFINE c == [Idle EXCEPT !.pc = "work", !.op = op, !.ids = {i}, !.intact = Stored(i)]
              r == [c EXCEPT !.pooled = own]
  <2>3. Stored(i) \in BOOLEAN
    BY DEF Stored
  <2>4. c \in Call /\ c.pc = "work" /\ c.op = op /\ c.ids = {i} /\ c.intact = Stored(i)
    BY <2>3, IdleType DEF Call
  <2>. HIDE DEF c
  <2>5. r \in Call /\ r.pc = "work" /\ r.op = op /\ r.ids = {i} /\ r.intact = Stored(i)
    BY <2>4 DEF Call
  <2>6. tx' = [tx EXCEPT ![p] = r]
    BY <2>2 DEF c
  <2>. HIDE DEF r
  <2>7. Fine(r)
    BY <2>5
  <2>. QED  BY <1>2, <1>3, <2>5, <2>6, <2>7
<1>6. CASE SelectRow(p)
  <2>1. PICK i \in tx[p].ids :
       tx' = [tx EXCEPT ![p] =
         IF ~Stored(i) THEN Finish(@, "None")
         ELSE IF row[i] = "object_storage"
         THEN [@ EXCEPT !.pc = "read", !.source = "object",
                        !.left = IF tx[p].op = "get" THEN 1 ELSE Chunks]
         ELSE IF tx[p].op = "get" THEN Finish(@, "bytes")
         ELSE [@ EXCEPT !.pc = "read", !.source = "chunks", !.left = Chunks]]
    BY <1>6 DEF SelectRow
  <2>2. tx[p].pc = "work" /\ (tx[p].intact => Stored(i)) /\ \A j \in tx[p].ids : j = i
    BY <1>1, <1>6 DEF SelectRow, Reading
  <2>3. CASE ~Stored(i)
    BY <1>1, <1>4, <2>1, <2>2, <2>3 DEF Results
  <2>4. ASSUME NEW n \in Nat, NEW s \in {"chunks", "object"},
               tx' = [tx EXCEPT ![p] = [tx[p] EXCEPT !.pc = "read", !.source = s, !.left = n]],
               s = "object" => row[i] = "object_storage",
               tx[p].op = "get" => s = "object" /\ n <= 1
        PROVE  ReadInv'
    <3>. DEFINE r == [tx[p] EXCEPT !.pc = "read", !.source = s, !.left = n]
    <3>1. r \in Call /\ r.pc = "read" /\ r.source = s /\ r.left = n
          /\ r.op = tx[p].op /\ r.ids = tx[p].ids /\ r.intact = tx[p].intact
      BY <1>1 DEF Call
    <3>2. tx' = [tx EXCEPT ![p] = r]
      BY <2>4
    <3>. HIDE DEF r
    <3>3. Fine(r)
      BY <1>0, <2>2, <2>4, <3>1
    <3>. QED  BY <1>2, <1>3, <3>1, <3>2, <3>3
  <2>5. CASE Stored(i) /\ row[i] = "object_storage"
    <3>. DEFINE n == IF tx[p].op = "get" THEN 1 ELSE Chunks
    <3>1. n \in Nat /\ (tx[p].op = "get" => n <= 1)
      BY TieringAssumption
    <3>2. tx' = [tx EXCEPT ![p] = [tx[p] EXCEPT !.pc = "read", !.source = "object", !.left = n]]
      BY <2>1, <2>5
    <3>. HIDE DEF n
    <3>. QED  BY <2>4, <2>5, <3>1, <3>2
  <2>6. CASE Stored(i) /\ row[i] # "object_storage" /\ tx[p].op = "get"
    BY <1>4, <2>1, <2>6 DEF Results
  <2>7. CASE Stored(i) /\ row[i] # "object_storage" /\ tx[p].op # "get"
    <3>1. Chunks \in Nat
      BY TieringAssumption
    <3>. QED  BY <2>1, <2>4, <2>7, <3>1
  <2>. QED  BY <2>3, <2>5, <2>6, <2>7
<1>7. ASSUME tx[p].pc = "read", tx' = [tx EXCEPT ![p] = Delivered(tx[p])]
      PROVE  ReadInv'
  <2>1. CASE tx[p].left <= 1
    <3>. DEFINE c == [tx[p] EXCEPT !.left = 0]
                r == Finish(c, "bytes")
    <3>1. c \in Call /\ c.op = tx[p].op /\ c.ids = tx[p].ids /\ c.intact = tx[p].intact
      BY <1>1 DEF Call
    <3>. HIDE DEF c
    <3>2. r \in Call /\ r.pc = "returned" /\ r.ids = c.ids
      BY <3>1, FinishType DEF Results
    <3>3. r.op = c.op /\ r.intact = c.intact /\ r.result = "bytes"
      BY <3>1 DEF Finish, Call
    <3>4. tx' = [tx EXCEPT ![p] = r]
      BY <1>7, <2>1 DEF Delivered, c
    <3>. HIDE DEF r
    <3>5. Fine(r)
      BY <1>0, <3>1, <3>2, <3>3
    <3>. QED  BY <1>2, <1>3, <3>2, <3>4, <3>5
  <2>2. CASE ~(tx[p].left <= 1)
    <3>. DEFINE r == [tx[p] EXCEPT !.left = tx[p].left - 1]
    <3>1. tx[p].left \in Nat /\ tx[p].left - 1 \in Nat
      BY <1>1, <2>2 DEF Call
    <3>2. r \in Call /\ r.pc = "read" /\ r.source = tx[p].source
          /\ r.op = tx[p].op /\ r.ids = tx[p].ids /\ r.intact = tx[p].intact
      BY <1>1, <1>7, <3>1 DEF Call
    <3>3. tx' = [tx EXCEPT ![p] = r]
      BY <1>7, <2>2 DEF Delivered
    <3>4. r.op # "get"
      BY <1>1, <1>7, <2>2, <3>2 DEF Reading
    <3>. HIDE DEF r
    <3>5. Fine(r)
      BY <1>0, <1>7, <3>2, <3>4
    <3>. QED  BY <1>2, <1>3, <3>2, <3>3, <3>5
  <2>. QED  BY <2>1, <2>2
<1>8. CASE ReadChunk(p)
  <2>1. PICK i \in tx[p].ids :
       tx' = [tx EXCEPT ![p] =
         IF row[i] = "postgres" THEN Delivered(@)
         ELSE IF row[i] = "object_storage" THEN Finish(@, "TypeError")
         ELSE Finish(@, "StorageError")]
    BY <1>8 DEF ReadChunk
  <2>2. tx[p].pc = "read" /\ tx[p].op # "get"
    BY <1>1, <1>8 DEF ReadChunk, Reading
  <2>. QED  BY <1>4, <1>7, <2>1, <2>2 DEF Results
<1>9. CASE ReadObject(p)
  <2>1. tx[p].pc = "read" /\ tx[p].source = "object"
        /\ (tx[p].intact => \A i \in tx[p].ids : row[i] = "object_storage")
    BY <1>1, <1>9 DEF ReadObject, Reading
  <2>2. tx[p].intact => tx[p].ids \subseteq objects
    BY <1>1, <2>1 DEF IInv, NoLostBytes, Call
  <2>. QED  BY <1>4, <1>7, <1>9, <2>1, <2>2 DEF ReadObject, Results
<1>. QED  BY <1>5, <1>6, <1>8, <1>9 DEF Read

(* Every step keeps what is known of the readers.                           *)
LEMMA NextReadInv == IInv /\ ReadInv /\ [Next]_vars => ReadInv'
<1> SUFFICES ASSUME IInv, ReadInv, [Next]_vars PROVE ReadInv'
  OBVIOUS
<1>1. ASSUME NEW p \in Procs, row' = row, \A q \in Procs : q # p => tx'[q] = tx[q],
             p \in Readers => Reading(p)'
      PROVE  ReadInv'
  <2>1. ASSUME NEW q \in Readers PROVE Reading(q)'
    <3>1. CASE q = p
      BY <1>1, <3>1
    <3>2. CASE q # p
      <4>1. tx'[q] = tx[q] /\ Reading(q)
        BY <1>1, <3>2 DEF Procs, ReadInv
      <4>. QED  BY <1>1, <4>1, ReadingStays
    <3>. QED  BY <3>1, <3>2
  <2>. QED  BY <2>1 DEF ReadInv
<1>2. ASSUME NEW p \in Writers,
             \/ BeginPut(p) \/ BeginTier(p) \/ BeginDelete(p) \/ Write(p)
             \/ CommitLost(p) \/ Fail(p) \/ Abort(p) \/ Disconnect(p) \/ Crash(p)
      PROVE  ReadInv'
  <2>1. CASE Commit(p) \/ CommitLost(p)
    BY <2>1, ReadingCommit
  <2>2. CASE ~(Commit(p) \/ CommitLost(p))
    <3>1. row' = row /\ \A q \in Procs : q # p => tx'[q] = tx[q]
      BY <1>2, <2>2, WriterAlone DEF Write
    <3>2. p \in Procs /\ p \notin Readers
      BY TieringAssumption DEF Procs
    <3>. QED  BY <1>1, <3>1, <3>2
  <2>. QED  BY <2>1, <2>2
<1>3. ASSUME NEW p \in Readers, BeginRead(p) \/ Read(p) PROVE ReadInv'
  BY <1>3, ReadingRead
<1>4. ASSUME NEW p \in Procs, Return(p) PROVE ReadInv'
  <2>1. row' = row /\ tx'[p] = Idle /\ \A q \in Procs : q # p => tx'[q] = tx[q]
    BY <1>4 DEF Return, IInv, TypeOK
  <2>2. Reading(p)'
    BY <2>1 DEF Reading, Idle
  <2>. QED  BY <1>1, <2>1, <2>2
<1>5. CASE UNCHANGED vars
  BY <1>5, ReadingStays DEF vars, ReadInv
<1>. QED  BY <1>2, <1>3, <1>4, <1>5 DEF Next

(* get, under every combination of faults: an image that is stored from the *)
(* beginning to the end of the call is found, even if it is tiered between  *)
(* the SELECT and the download.                                             *)
THEOREM ReadsFind == Spec => []GetFindsStored
<1>1. Init => ReadInv
  BY DEF Init, ReadInv, Reading, Idle, Procs
<1>2. ReadInv => GetFindsStored
  BY DEF ReadInv, Reading, GetFindsStored, Returned
<1>. QED  BY <1>1, <1>2, NextReadInv, Invariance, PTL DEF Spec

-----------------------------------------------------------------------------
(* Objects without a row *)

(* Nothing fails besides deadlocks, uploads that store nothing and removals *)
(* that say so, and the adapter has its own transactions: what the code can *)
(* account for its objects under.                                           *)
Clean == Faults = {} /\ ~CallerTx

(* p has uploaded the image i, whose row it still holds. *)
Moving(p, i) ==
  /\ rowLock[i] = p
  /\ \/ tx[p].pc = "update" /\ i \in tx[p].ids
     \/ tx[p].pc = "commit" /\ tx[p].changes[i] = "object_storage"

(* A call keeps its lock from the SELECT to the commit, it has changed      *)
(* nothing before that, and a delete knows which objects it has to remove.  *)
Tidy(p) ==
  LET r == tx[p]
  IN /\ r.pooled
     /\ r.pc \in {"upload", "update"} =>
          r.op = "tier_to_object_storage" /\ \A i \in r.ids : rowLock[i] = p /\ row[i] = "postgres"
     /\ r.op = "tier_to_object_storage" => \A i, j \in r.ids : i = j
     /\ r.pc = "commit" => \A i \in Ids : r.changes[i] = "object_storage" => row[i] = "postgres"
     /\ r.pc # "cleanup" => r.cleanup = {}
     /\ r.pc \in {"work", "upload", "update", "commit"} => r.applied = {}
     /\ r.op = "delete_many" =>
          /\ \A i \in Ids : r.changes[i] \in {"same", "deleted"}
          /\ \A i \in r.applied :
               row[i] = "deleted" /\ (i \in objects => i \in reported \cup r.cleanup)

(* Why an object is in the bucket: for its row, for a row that is about to  *)
(* point at it, or because its removal is to come or has failed.            *)
Known(i) ==
  \/ row[i] = "object_storage"
  \/ \E p \in Writers : Moving(p, i)
  \/ row[i] = "deleted" /\ (i \in reported \/ \E p \in Writers : i \in tx[p].cleanup)

CleanInv == (\A p \in Writers : Tidy(p)) /\ \A i \in objects : Known(i)

(* A step of p that writes no row: what is to be shown of it.               *)
LEMMA TidyStep ==
  ASSUME IInv, CleanInv, NEW p \in Procs, NEW r \in Call,
         tx' = [tx EXCEPT ![p] = r], row' = row, objects' \subseteq Ids,
         \A i \in Ids : rowLock[i] \notin {p, NoProc} => rowLock'[i] = rowLock[i],
         reported \subseteq reported',
         \A i \in objects' : i \in objects \/ row[i] = "postgres",
         p \in Writers =>
           /\ Tidy(p)'
           /\ \A i \in objects' : i \notin objects \/ Moving(p, i) => Moving(p, i)'
           /\ \A i \in tx[p].cleanup : i \in r.cleanup \/ i \in reported' \/ i \notin objects',
         p \notin Writers => objects' \subseteq objects
  PROVE  CleanInv'
<1>1. tx'[p] = r /\ \A q \in Procs : q # p => tx'[q] = tx[q]
  BY DEF IInv, TypeOK
<1>2. ASSUME NEW q \in Writers, q # p PROVE Tidy(q)'
  <2>1. q \in Procs /\ q # NoProc /\ tx'[q] = tx[q] /\ Tidy(q)
    BY <1>1, <1>2, TieringAssumption DEF Procs, CleanInv
  <2>2. \A i \in Ids : rowLock[i] = q => rowLock'[i] = q
    BY <1>2, <2>1
  <2>3. tx[q].ids \subseteq Ids
    BY <2>1 DEF IInv, TypeOK, Call
  <2>4. \A i \in Ids : row'[i] = "deleted" /\ i \in objects' => i \in objects
    OBVIOUS
  <2>5. \A i \in tx[q].applied : i \in Ids
    BY <2>1 DEF IInv, TypeOK, Call
  <2>. QED  BY <2>1, <2>2, <2>3, <2>4, <2>5 DEF Tidy
<1>3. \A q \in Writers : Tidy(q)'
  BY <1>2
<1>4. ASSUME NEW i \in objects' PROVE Known(i)'
  <2>0. i \in Ids
    OBVIOUS
  <2>1. CASE i \notin objects
    BY <1>4, <2>1 DEF Known
  <2>2. CASE i \in objects /\ row[i] = "object_storage"
    BY <2>2 DEF Known
  <2>3. ASSUME NEW q \in Writers, Moving(q, i) PROVE Known(i)'
    <3>1. CASE q = p
      BY <1>4, <2>3, <3>1 DEF Known
    <3>2. CASE q # p
      <4>1. q \in Procs /\ q # NoProc /\ tx'[q] = tx[q]
        BY <1>1, <2>3, <3>2, TieringAssumption DEF Procs
      <4>2. rowLock'[i] = q
        BY <2>0, <2>3, <3>2, <4>1 DEF Moving
      <4>. QED  BY <2>3, <4>1, <4>2 DEF Known, Moving
    <3>. QED  BY <3>1, <3>2
  <2>4. CASE row[i] = "deleted" /\ i \in reported
    BY <2>4 DEF Known
  <2>5. ASSUME row[i] = "deleted", NEW q \in Writers, i \in tx[q].cleanup PROVE Known(i)'
    <3>1. CASE q = p
      BY <1>1, <1>4, <2>5, <3>1 DEF Known
    <3>2. CASE q # p
      <4>1. tx'[q] = tx[q]
        BY <1>1, <2>5, <3>2 DEF Procs
      <4>. QED  BY <2>5, <4>1 DEF Known
    <3>. QED  BY <3>1, <3>2
  <2>. QED  BY <2>1, <2>2, <2>3, <2>4, <2>5 DEF CleanInv, Known
<1>. QED  BY <1>3, <1>4 DEF CleanInv

(* A writer's call begins with nothing changed and nothing to remove.       *)
LEMMA TidyBegin ==
  ASSUME Clean, IInv, CleanInv, NEW p \in Writers,
         BeginPut(p) \/ BeginTier(p) \/ BeginDelete(p)
  PROVE  CleanInv'
<1>1. tx \in [Procs -> Call] /\ p \in Procs /\ Tidy(p) /\ objects \subseteq Ids
  BY DEF IInv, TypeOK, Procs, CleanInv
<1>2. ASSUME NEW c \in Call, Begin(p, c), c.pc = "work", c.cleanup = {}, c.applied = {},
             \A i \in Ids : c.changes[i] = "same",
             c.op = "tier_to_object_storage" => \A i, j \in c.ids : i = j
      PROVE  CleanInv'
  <2>. DEFINE r == [c EXCEPT !.pooled = TRUE]
  <2>1. tx' = [tx EXCEPT ![p] = r]
    BY <1>2 DEF Begin, Clean
  <2>2. /\ r \in Call /\ r.pc = "work" /\ r.op = c.op /\ r.ids = c.ids
        /\ r.changes = c.changes /\ r.cleanup = {} /\ r.applied = {}
    BY <1>2 DEF Call
  <2>3. r.pooled = TRUE
    BY <1>2 DEF Call
  <2>. HIDE DEF r
  <2>4. tx'[p] = r
    BY <1>1, <2>1
  <2>5. UNCHANGED <<row, objects, reported, rowLock>> /\ tx[p].pc = "idle"
    BY <1>2 DEF Begin
  <2>6. Tidy(p)'
    BY <1>2, <2>2, <2>3, <2>4 DEF Tidy
  <2>7. \A i : ~Moving(p, i)
    BY <2>5 DEF Moving
  <2>8. tx[p].cleanup = {}
    BY <1>1, <2>5 DEF Tidy
  <2>. QED  BY <1>1, <2>1, <2>2, <2>5, <2>6, <2>7, <2>8, TidyStep
<1>3. CASE BeginPut(p)
  <2>1. PICK n \in 1..MaxBatch :
          Begin(p, [Idle EXCEPT !.pc = "work", !.op = "put_many", !.size = n])
    BY <1>3 DEF BeginPut
  <2>. DEFINE c == [Idle EXCEPT !.pc = "work", !.op = "put_many", !.size = n]
  <2>2. n \in Nat
    BY TieringAssumption
  <2>3. /\ c \in Call /\ c.pc = "work" /\ c.op = "put_many" /\ c.changes = Idle.changes
        /\ c.cleanup = {} /\ c.applied = {}
    BY <2>2, IdleType DEF Call, Idle
  <2>. HIDE DEF c
  <2>. QED  BY <1>2, <2>1, <2>3, IdleType DEF c
<1>4. CASE BeginTier(p)
  <2>1. PICK i \in Ids :
          Begin(p, [Idle EXCEPT !.pc = "work", !.op = "tier_to_object_storage", !.ids = {i}])
    BY <1>4 DEF BeginTier, Nameable
  <2>. DEFINE c == [Idle EXCEPT !.pc = "work", !.op = "tier_to_object_storage", !.ids = {i}]
  <2>2. /\ c \in Call /\ c.pc = "work" /\ c.ids = {i} /\ c.changes = Idle.changes
        /\ c.cleanup = {} /\ c.applied = {}
    BY ZenonT(60), IdleType DEF Call, Idle
  <2>3. Begin(p, c)
    BY <2>1
  <2>. HIDE DEF c
  <2>. QED  BY <1>2, <2>2, <2>3, IdleType
<1>5. CASE BeginDelete(p)
  <2>1. PICK S \in SUBSET Ids :
          Begin(p, [Idle EXCEPT !.pc = "work", !.op = "delete_many", !.ids = S, !.scan = S])
    BY <1>5 DEF BeginDelete, Nameable
  <2>. DEFINE c == [Idle EXCEPT !.pc = "work", !.op = "delete_many", !.ids = S, !.scan = S]
  <2>2. /\ c \in Call /\ c.pc = "work" /\ c.op = "delete_many" /\ c.changes = Idle.changes
        /\ c.cleanup = {} /\ c.applied = {}
    BY IdleType DEF Call, Idle
  <2>3. Begin(p, c)
    BY <2>1
  <2>. HIDE DEF c
  <2>. QED  BY <1>2, <2>2, <2>3, IdleType
<1>. QED  BY <1>3, <1>4, <1>5

(* The INSERTs of a put and the rows that a DELETE visits: no object moves. *)
LEMMA TidyRows ==
  ASSUME IInv, CleanInv, NEW p \in Writers,
         InsertRows(p) \/ \E i \in Ids : DeleteRow(p, i)
  PROVE  CleanInv'
<1>1. /\ tx \in [Procs -> Call] /\ p \in Procs /\ tx[p] \in Call /\ Tidy(p) /\ Pending(p)
      /\ objects \subseteq Ids /\ rowLock \in [Ids -> Procs \cup {NoProc}]
  BY DEF IInv, TypeOK, Procs, CleanInv
<1>2. tx[p].pc = "work" /\ row' = row /\ objects' = objects /\ reported' = reported
  BY DEF InsertRows, DeleteRow
<1>3. \A i : ~Moving(p, i)
  BY <1>2 DEF Moving
<1>4. tx[p].pooled /\ tx[p].cleanup = {} /\ tx[p].applied = {}
  BY <1>1, <1>2 DEF Tidy
<1>5. CASE InsertRows(p)
  <2>1. PICK S \in SUBSET Fresh :
          tx' = [tx EXCEPT ![p].pc = "commit", ![p].result = "ids",
                   ![p].changes = [i \in Ids |-> IF i \in S THEN "postgres" ELSE "same"]]
    BY <1>5 DEF InsertRows
  <2>. DEFINE f == [i \in Ids |-> IF i \in S THEN "postgres" ELSE "same"]
              r == [tx[p] EXCEPT !.pc = "commit", !.result = "ids", !.changes = f]
  <2>2. f \in [Ids -> Change] /\ \A i \in Ids : f[i] # "object_storage"
    BY DEF Change
  <2>3. /\ r \in Call /\ r.pc = "commit" /\ r.changes = f /\ r.op = tx[p].op
        /\ r.cleanup = tx[p].cleanup /\ r.applied = tx[p].applied
    BY <1>1, <2>2 DEF Call
  <2>4. r.pooled = tx[p].pooled
    BY <1>1, <2>2 DEF Call
  <2>5. tx' = [tx EXCEPT ![p] = r] /\ tx'[p] = r
    BY <1>1, <2>1
  <2>. HIDE DEF f, r
  <2>6. tx[p].op = "put_many" /\ rowLock' = rowLock
    BY <1>5 DEF InsertRows
  <2>7. Tidy(p)'
    BY <1>2, <1>4, <2>2, <2>3, <2>4, <2>5, <2>6 DEF Tidy
  <2>. QED  BY <1>1, <1>2, <1>3, <1>4, <2>3, <2>5, <2>6, <2>7, TidyStep
<1>6. ASSUME NEW i \in Ids, DeleteRow(p, i) PROVE CleanInv'
  <2>. DEFINE new == IF Stored(i) THEN "deleted" ELSE "same"
              pc == IF tx[p].scan = {i} THEN "commit" ELSE "work"
              f == [tx[p].changes EXCEPT ![i] = new]
              r == [tx[p] EXCEPT !.scan = tx[p].scan \ {i}, !.changes = f,
                                 !.result = "ids", !.pc = pc]
  <2>1. f \in [Ids -> Change]
    BY <1>1 DEF Change, Call
  <2>2. /\ r \in Call /\ r.changes = f /\ r.pc \in {"commit", "work"} /\ r.op = tx[p].op
        /\ r.cleanup = tx[p].cleanup /\ r.applied = tx[p].applied
    BY ZenonT(60), <1>1, <2>1 DEF Call
  <2>3. r.pooled = tx[p].pooled
    BY <1>1, <2>1 DEF Call
  <2>0. tx' = [tx EXCEPT ![p].scan = @ \ {i}, ![p].changes[i] = new,
                         ![p].result = "ids", ![p].pc = pc]
    BY <1>6 DEF DeleteRow
  <2>4. tx' = [tx EXCEPT ![p] = r] /\ tx'[p] = r
    BY <1>1, <2>0 DEF Call
  <2>5. \A j \in Ids : f[j] \in {"same", "deleted"}
    BY <1>1, <1>2 DEF Pending, Call
  <2>6. /\ tx[p].op = "delete_many" /\ rowLock[i] = NoProc
        /\ rowLock' = IF Stored(i) THEN [rowLock EXCEPT ![i] = p] ELSE rowLock
    BY <1>6 DEF DeleteRow
  <2>7. \A j \in Ids : rowLock[j] \notin {p, NoProc} => rowLock'[j] = rowLock[j]
    BY <1>1, <2>6
  <2>. HIDE DEF f, r, new, pc
  <2>8. Tidy(p)'
    BY <1>2, <1>4, <2>2, <2>3, <2>4, <2>5, <2>6 DEF Tidy
  <2>. QED  BY <1>1, <1>2, <1>3, <1>4, <2>2, <2>4, <2>7, <2>8, TidyStep
<1>. QED  BY <1>5, <1>6

(* Tiering: the row is locked from the SELECT on, and the object is there   *)
(* from the upload on.                                                      *)
LEMMA TidyTiering ==
  ASSUME Clean, IInv, CleanInv, NEW p \in Writers,
         SelectForTiering(p) \/ Upload(p) \/ UploadFails(p) \/ UpdateAfterTiering(p)
  PROVE  CleanInv'
<1>1. /\ tx \in [Procs -> Call] /\ p \in Procs /\ tx[p] \in Call /\ Tidy(p) /\ Pending(p)
      /\ objects \subseteq Ids /\ rowLock \in [Ids -> Procs \cup {NoProc}]
      /\ tx[p].ids \subseteq Ids
  BY DEF IInv, TypeOK, Procs, CleanInv, Call
<1>2. /\ tx[p].pc \in {"work", "upload", "update"} /\ row' = row /\ reported' = reported
  BY DEF SelectForTiering, Upload, UploadFails, UpdateAfterTiering
<1>3. tx[p].pooled /\ tx[p].cleanup = {} /\ tx[p].applied = {}
  BY <1>1, <1>2 DEF Tidy
<1>4. /\ tx[p].op = "tier_to_object_storage" /\ \A i, j \in tx[p].ids : i = j
      /\ tx[p].pc \in {"upload", "update"} =>
           \A i \in tx[p].ids : rowLock[i] = p /\ row[i] = "postgres"
  BY <1>1, <1>2 DEF SelectForTiering, Upload, UploadFails, UpdateAfterTiering, Tidy
<1>5. CASE SelectForTiering(p)
  <2>1. PICK i \in tx[p].ids :
       /\ rowLock[i] = NoProc
       /\ rowLock' = IF Stored(i) THEN [rowLock EXCEPT ![i] = p] ELSE rowLock
       /\ tx' = [tx EXCEPT ![p] =
            IF ~Stored(i) THEN [@ EXCEPT !.pc = "commit", !.result = "None"]
            ELSE IF row[i] # "postgres" THEN [@ EXCEPT !.pc = "commit", !.result = "False"]
            ELSE [@ EXCEPT !.pc = "upload"]]
    BY <1>5 DEF SelectForTiering
  <2>2. i \in Ids /\ tx[p].pc = "work" /\ objects' = objects
    BY <1>1, <1>5 DEF SelectForTiering
  <2>3. PICK r \in Call :
          /\ tx' = [tx EXCEPT ![p] = r]
          /\ r.pc \in {"commit", "upload"} /\ (r.pc = "upload" => row[i] = "postgres")
          /\ r.op = tx[p].op /\ r.ids = tx[p].ids /\ r.changes = tx[p].changes
          /\ r.cleanup = tx[p].cleanup /\ r.applied = tx[p].applied
          /\ r.pooled = tx[p].pooled
    <3>1. ASSUME NEW x \in Results
          PROVE  LET r == [tx[p] EXCEPT !.pc = "commit", !.result = x]
                 IN  /\ r \in Call /\ r.pc = "commit"
                     /\ r.op = tx[p].op /\ r.ids = tx[p].ids /\ r.changes = tx[p].changes
                     /\ r.cleanup = tx[p].cleanup /\ r.applied = tx[p].applied
                     /\ r.pooled = tx[p].pooled
      BY <1>1 DEF Call, Results
    <3>2. CASE ~Stored(i)
      <4>1. tx' = [tx EXCEPT ![p] = [tx[p] EXCEPT !.pc = "commit", !.result = "None"]]
        BY <2>1, <3>2
      <4>. QED  BY <3>1, <4>1 DEF Results
    <3>3. CASE Stored(i) /\ row[i] # "postgres"
      <4>1. tx' = [tx EXCEPT ![p] = [tx[p] EXCEPT !.pc = "commit", !.result = "False"]]
        BY <2>1, <3>3
      <4>. QED  BY <3>1, <4>1 DEF Results
    <3>4. CASE Stored(i) /\ row[i] = "postgres"
      <4>. DEFINE r == [tx[p] EXCEPT !.pc = "upload"]
      <4>1. /\ r \in Call /\ r.pc = "upload"
            /\ r.op = tx[p].op /\ r.ids = tx[p].ids /\ r.changes = tx[p].changes
            /\ r.cleanup = tx[p].cleanup /\ r.applied = tx[p].applied
            /\ r.pooled = tx[p].pooled
        BY <1>1 DEF Call
      <4>2. tx' = [tx EXCEPT ![p] = r]
        BY <2>1, <3>4
      <4>. QED  BY <3>4, <4>1, <4>2
    <3>. QED  BY <3>2, <3>3, <3>4
  <2>4. tx'[p] = r
    BY <1>1, <2>3
  <2>5. /\ row[i] = "postgres" => rowLock'[i] = p
        /\ \A j \in Ids : rowLock[j] \notin {p, NoProc} => rowLock'[j] = rowLock[j]
    BY <1>1, <2>1, <2>2 DEF Stored
  <2>6. \A j \in Ids : r.changes[j] \in {"same", "deleted"}
    BY <1>1, <2>2, <2>3 DEF Pending
  <2>7. \A j \in tx[p].ids : j = i
    BY <1>4
  <2>8. Tidy(p)'
    BY ZenonT(60), <1>2, <1>3, <1>4, <2>3, <2>4, <2>5, <2>6, <2>7 DEF Tidy
  <2>9. \A j : ~Moving(p, j)
    BY <2>2 DEF Moving
  <2>. QED  BY <1>1, <1>2, <1>3, <2>2, <2>3, <2>5, <2>8, <2>9, TidyStep
<1>6. CASE Upload(p)
  <2>. DEFINE r == [tx[p] EXCEPT !.pc = "update"]
  <2>1. /\ r \in Call /\ r.pc = "update"
        /\ r.op = tx[p].op /\ r.ids = tx[p].ids /\ r.changes = tx[p].changes
        /\ r.cleanup = tx[p].cleanup /\ r.applied = tx[p].applied
        /\ r.pooled = tx[p].pooled
    BY <1>1 DEF Call
  <2>2. tx' = [tx EXCEPT ![p] = r] /\ tx'[p] = r
    BY <1>1, <1>6 DEF Upload
  <2>. HIDE DEF r
  <2>3. /\ objects' = objects \cup tx[p].ids /\ rowLock' = rowLock /\ tx[p].pc = "upload"
        /\ \A i \in tx[p].ids : rowLock[i] = p /\ row[i] = "postgres"
    BY <1>4, <1>6 DEF Upload
  <2>4. Tidy(p)'
    BY ZenonT(60), <1>2, <1>3, <1>4, <2>1, <2>2, <2>3 DEF Tidy
  <2>5. \A i \in objects' : i \notin objects \/ Moving(p, i) => Moving(p, i)'
    BY <2>1, <2>2, <2>3 DEF Moving
  <2>. QED  BY <1>1, <1>2, <1>3, <2>1, <2>2, <2>3, <2>4, <2>5, TidyStep
<1>7. CASE UploadFails(p)
  <2>. DEFINE r == Finish(tx[p], "StorageError")
  <2>1. r \in Call /\ r.pc = "returned" /\ r.changes = tx[p].changes /\ r.ids = tx[p].ids
    BY <1>1, FinishType DEF Results
  <2>2. /\ r.op = tx[p].op /\ r.cleanup = tx[p].cleanup /\ r.applied = tx[p].applied
        /\ r.pooled = tx[p].pooled
    BY <1>1 DEF Finish, Call
  <2>3. tx' = [tx EXCEPT ![p] = r] /\ tx'[p] = r
    BY <1>1, <1>7 DEF UploadFails
  <2>. HIDE DEF r
  <2>4. objects' = objects /\ Unlock(p) /\ tx[p].pc = "upload"
    BY <1>7 DEF UploadFails, Clean
  <2>5. \A j \in Ids : rowLock[j] \notin {p, NoProc} => rowLock'[j] = rowLock[j]
    BY <2>4 DEF Unlock
  <2>6. Tidy(p)'
    BY <1>3, <1>4, <2>1, <2>2, <2>3 DEF Tidy
  <2>7. \A j : ~Moving(p, j)
    BY <2>4 DEF Moving
  <2>. QED  BY <1>1, <1>2, <1>3, <2>1, <2>3, <2>4, <2>5, <2>6, <2>7, TidyStep
<1>8. CASE UpdateAfterTiering(p)
  <2>. DEFINE f == [i \in Ids |-> IF i \in tx[p].ids THEN "object_storage" ELSE "same"]
              r == [tx[p] EXCEPT !.pc = "commit", !.result = "True", !.changes = f]
  <2>1. f \in [Ids -> Change]
    BY DEF Change
  <2>2. /\ r \in Call /\ r.pc = "commit" /\ r.changes = f
        /\ r.op = tx[p].op /\ r.ids = tx[p].ids
        /\ r.cleanup = tx[p].cleanup /\ r.applied = tx[p].applied
    BY <1>1, <2>1 DEF Call
  <2>3. r.pooled = tx[p].pooled
    BY <1>1, <2>1 DEF Call
  <2>4. tx' = [tx EXCEPT ![p] = r] /\ tx'[p] = r
    BY <1>1, <1>8 DEF UpdateAfterTiering
  <2>5. \A i \in Ids : f[i] = "object_storage" <=> i \in tx[p].ids
    OBVIOUS
  <2>. HIDE DEF f, r
  <2>6. /\ objects' = objects /\ rowLock' = rowLock /\ tx[p].pc = "update"
        /\ \A i \in tx[p].ids : rowLock[i] = p /\ row[i] = "postgres"
    BY <1>4, <1>8 DEF UpdateAfterTiering
  <2>7. \A i \in Ids : r.changes[i] = "object_storage" => row'[i] = "postgres"
    BY <1>2, <2>2, <2>5, <2>6
  <2>8. r.op # "delete_many" /\ \A i, j \in r.ids : i = j
    BY <1>4, <2>2
  <2>9. Tidy(p)'
    BY <1>3, <2>2, <2>3, <2>4, <2>7, <2>8 DEF Tidy
  <2>10. \A i \in objects' : i \notin objects \/ Moving(p, i) => Moving(p, i)'
    BY <1>1, <2>2, <2>4, <2>5, <2>6 DEF Moving
  <2>. QED  BY <1>1, <1>2, <1>3, <2>2, <2>4, <2>6, <2>9, <2>10, TidyStep
<1>. QED  BY <1>5, <1>6, <1>7, <1>8

(* A removal of an object is done or reported.                              *)
LEMMA TidyCleanup ==
  ASSUME IInv, CleanInv, NEW p \in Writers, NEW i \in Ids,
         RemoveObject(p, i) \/ RemoveObjectFails(p, i)
  PROVE  CleanInv'
<1>1. /\ tx \in [Procs -> Call] /\ p \in Procs /\ tx[p] \in Call /\ Tidy(p)
      /\ objects \subseteq Ids
  BY DEF IInv, TypeOK, Procs, CleanInv
<1>. DEFINE pc == IF tx[p].cleanup = {i} THEN "returned" ELSE "cleanup"
            r == [tx[p] EXCEPT !.cleanup = tx[p].cleanup \ {i}, !.pc = pc]
<1>2. /\ r \in Call /\ r.pc \in {"returned", "cleanup"} /\ r.changes = tx[p].changes
      /\ r.cleanup = tx[p].cleanup \ {i} /\ r.ids = tx[p].ids
      /\ r.op = tx[p].op /\ r.applied = tx[p].applied
  BY <1>1 DEF Call
<1>3. r.pooled = tx[p].pooled
  BY <1>1 DEF Call
<1>4. r.pc = "returned" => r.cleanup = {}
  BY <1>1 DEF Call
<1>5. tx' = [tx EXCEPT ![p] = r] /\ tx'[p] = r
  BY <1>1 DEF RemoveObject, RemoveObjectFails, AfterCleanup
<1>. HIDE DEF pc, r
<1>6. /\ tx[p].pc = "cleanup" /\ row' = row /\ rowLock' = rowLock
      /\ \/ objects' = objects \ {i} /\ reported' = reported
         \/ objects' = objects /\ reported' = reported \cup {i}
  BY DEF RemoveObject, RemoveObjectFails
<1>7. \A j : ~Moving(p, j)
  BY <1>6 DEF Moving
<1>8. /\ tx[p].pooled /\ (r.op = "tier_to_object_storage" => \A j, k \in r.ids : j = k)
      /\ r.op = "delete_many" => \A j \in Ids : r.changes[j] \in {"same", "deleted"}
  BY <1>1, <1>2 DEF Tidy
<1>9. ASSUME r.op = "delete_many", NEW j \in r.applied
       PROVE  row'[j] = "deleted" /\ (j \in objects' => j \in reported' \cup r.cleanup)
  <2>1. row[j] = "deleted" /\ (j \in objects => j \in reported \cup tx[p].cleanup)
    BY <1>1, <1>2, <1>9 DEF Tidy
  <2>. QED  BY <1>2, <1>6, <2>1
<1>10. Tidy(p)'
  BY <1>2, <1>3, <1>4, <1>5, <1>8, <1>9 DEF Tidy
<1>. QED  BY <1>1, <1>2, <1>5, <1>6, <1>7, <1>10, TidyStep

(* A deadlock victim has changed nothing and has no object in the bucket.   *)
LEMMA TidyFail ==
  ASSUME Clean, IInv, CleanInv, NEW p \in Writers, Fail(p)
  PROVE  CleanInv'
<1>1. /\ tx \in [Procs -> Call] /\ p \in Procs /\ tx[p] \in Call /\ Tidy(p) /\ Pending(p)
      /\ objects \subseteq Ids
  BY DEF IInv, TypeOK, Procs, CleanInv
<1>2. ~tx[p].pooled \/ tx[p].pc = "work"
  BY DEF Fail, Clean
<1>3. tx[p].pc = "work" /\ tx[p].pooled /\ tx[p].cleanup = {} /\ tx[p].applied = {}
  BY <1>1, <1>2 DEF Tidy
<1>. DEFINE r == AfterFailure(tx[p])
<1>4. /\ r \in Call /\ r.pc \in {"work", "returned"}
      /\ \A i \in Ids : r.changes[i] \in {"same", "deleted"}
  BY <1>1, <1>3, AfterFailureType DEF Pending
<1>5. /\ r.op = tx[p].op /\ r.ids = tx[p].ids
      /\ r.cleanup = tx[p].cleanup /\ r.applied = tx[p].applied
  BY <1>1 DEF AfterFailure, Finish, Call
<1>6. r.pooled = tx[p].pooled
  BY <1>1 DEF AfterFailure, Finish, Call
<1>7. tx' = [tx EXCEPT ![p] = r] /\ tx'[p] = r
  BY <1>1 DEF Fail
<1>. HIDE DEF r
<1>8. /\ row' = row /\ objects' = objects /\ reported' = reported
      /\ \A j \in Ids : rowLock[j] \notin {p, NoProc} => rowLock'[j] = rowLock[j]
  BY DEF Fail, Unlock
<1>9. r.op = "tier_to_object_storage" => \A i, j \in r.ids : i = j
  BY <1>1, <1>5 DEF Tidy
<1>10. Tidy(p)'
  BY <1>3, <1>4, <1>5, <1>6, <1>7, <1>9 DEF Tidy
<1>11. \A j : ~Moving(p, j)
  BY <1>3 DEF Moving
<1>. QED  BY <1>1, <1>3, <1>4, <1>7, <1>8, <1>10, <1>11, TidyStep

(* The caller of a writer goes on.                                          *)
LEMMA TidyReturn ==
  ASSUME IInv, CleanInv, NEW p \in Procs, Return(p)
  PROVE  CleanInv'
<1>1. tx \in [Procs -> Call] /\ objects \subseteq Ids /\ tx[p].pc = "returned"
  BY DEF IInv, TypeOK, Return
<1>2. tx' = [tx EXCEPT ![p] = Idle] /\ tx'[p] = Idle
  BY <1>1 DEF Return
<1>3. UNCHANGED <<row, objects, reported, rowLock>>
  BY DEF Return
<1>4. ASSUME p \in Writers
      PROVE  tx[p].cleanup = {} /\ Tidy(p)' /\ \A j : ~Moving(p, j)
  <2>1. Tidy(p) /\ tx[p].cleanup = {}
    BY <1>1, <1>4 DEF CleanInv, Tidy
  <2>2. Tidy(p)'
    BY <1>2 DEF Tidy, Idle
  <2>. QED  BY <1>1, <2>1, <2>2 DEF Moving
<1>. QED  BY <1>1, <1>2, <1>3, <1>4, IdleType, TidyStep

(* Readers move no objects.                                                 *)
LEMMA TidyRead ==
  ASSUME IInv, CleanInv, NEW p \in Readers, BeginRead(p) \/ Read(p)
  PROVE  CleanInv'
<1>1. tx \in [Procs -> Call] /\ p \in Procs /\ p \notin Writers
  BY TieringAssumption DEF IInv, TypeOK, Procs
<1>2. UNCHANGED <<row, objects, reported, rowLock>>
  BY DEF BeginRead, Begin, Read, SelectRow, ReadChunk, ReadObject
<1>3. \A q \in Procs : q # p => tx'[q] = tx[q]
  BY <1>1 DEF BeginRead, Begin, Read, SelectRow, ReadChunk, ReadObject
<1>4. \A q \in Writers : tx'[q] = tx[q]
  BY <1>1, <1>3 DEF Procs
<1>5. \A q \in Writers : Tidy(q)'
  BY <1>2, <1>4 DEF CleanInv, Tidy
<1>6. \A i \in objects : Known(i)'
  BY <1>2, <1>4 DEF CleanInv, Known, Moving
<1>. QED  BY <1>2, <1>5, <1>6 DEF CleanInv

(* A commit: the pointers it writes lead to the objects it has uploaded,    *)
(* and a delete takes with it the objects that its rows pointed at.         *)
LEMMA TidyCommit ==
  ASSUME IInv, CleanInv, NEW p \in Writers, Commit(p)
  PROVE  CleanInv'
<1>1. /\ tx \in [Procs -> Call] /\ p \in Procs /\ tx[p] \in Call /\ Tidy(p)
      /\ objects \subseteq Ids /\ tx[p].pc = "commit" /\ Install(p)
  BY DEF IInv, TypeOK, Procs, CleanInv, Commit
<1>2. tx[p].pooled /\ tx[p].cleanup = {} /\ tx[p].applied = {}
  BY <1>1 DEF Tidy
<1>3. /\ objects' = objects /\ reported' = reported
      /\ \A i \in Ids : rowLock[i] # p => rowLock'[i] = rowLock[i]
  BY <1>1 DEF Install, Unlock
<1>4. ASSUME NEW i \in Ids
      PROVE  \/ row'[i] = row[i] /\ tx[p].changes[i] = "same"
             \/ row[i] = "new" /\ row'[i] = "postgres" /\ tx[p].changes[i] = "postgres"
             \/ Stored(i) /\ row'[i] = "object_storage" /\ tx[p].changes[i] = "object_storage"
                /\ rowLock[i] = p
             \/ Stored(i) /\ row'[i] = "deleted" /\ tx[p].changes[i] = "deleted"
                /\ rowLock[i] = p
  BY <1>1, CommitRows, WritesSafely
<1>5. ToRemove(p) = {i \in Ids : tx[p].changes[i] = "deleted" /\ row[i] = "object_storage"}
  BY <1>2 DEF ToRemove
<1>6. /\ tx'[p] \in Call /\ tx'[p].pc \in {"cleanup", "returned"}
      /\ tx'[p].pc = "returned" => ToRemove(p) = {}
      /\ tx'[p].op = tx[p].op /\ tx'[p].ids = tx[p].ids /\ tx'[p].changes = tx[p].changes
      /\ tx'[p].cleanup = ToRemove(p) /\ tx'[p].applied = Written(p)
      /\ tx'[p].pooled = tx[p].pooled
  <2>. DEFINE a == Applied(p)
  <2>1. /\ a \in Call /\ a.op = tx[p].op /\ a.ids = tx[p].ids /\ a.changes = tx[p].changes
        /\ a.cleanup = {} /\ a.applied = Written(p) /\ a.pooled = tx[p].pooled
    BY <1>1, <1>2 DEF Applied, Written, Call
  <2>. HIDE DEF a
  <2>2. DOMAIN Disturbed(p) = Procs
    BY DEF Disturbed
  <2>3. CASE ToRemove(p) # {}
    <3>1. tx'[p] = [a EXCEPT !.pc = "cleanup", !.cleanup = ToRemove(p)]
      BY <1>1, <2>2, <2>3 DEF Commit, a
    <3>2. ToRemove(p) \subseteq Ids
      BY <1>5
    <3>. QED  BY <2>1, <2>3, <3>1, <3>2 DEF Call
  <2>4. CASE ToRemove(p) = {}
    <3>1. tx'[p] = [a EXCEPT !.pc = "returned"]
      BY <1>1, <2>2, <2>4 DEF Commit, a
    <3>. QED  BY <2>1, <2>4, <3>1 DEF Call
  <2>. QED  BY <2>3, <2>4
<1>7. ASSUME NEW q \in Procs, q # p
      PROVE  /\ tx'[q].pc = tx[q].pc /\ tx'[q].op = tx[q].op /\ tx'[q].ids = tx[q].ids
             /\ tx'[q].changes = tx[q].changes /\ tx'[q].cleanup = tx[q].cleanup
             /\ tx'[q].applied = tx[q].applied /\ tx'[q].pooled = tx[q].pooled
  <2>1. tx'[q] = Disturbed(p)[q] /\ tx[q] \in Call
    <3>1. DOMAIN Disturbed(p) = Procs
      BY DEF Disturbed
    <3>. QED  BY <1>1, <1>7, <3>1 DEF Commit
  <2>2. Disturbed(p)[q] \in {tx[q], [tx[q] EXCEPT !.intact = FALSE]}
    BY DEF Disturbed
  <2>. QED  BY <2>1, <2>2 DEF Call
<1>8. ASSUME NEW i \in Ids, row[i] = "deleted" PROVE row'[i] = "deleted"
  BY <1>4, <1>8 DEF Stored
<1>9. Tidy(p)'
  <2>1. tx[p].op = "delete_many" => \A i \in Ids : tx[p].changes[i] \in {"same", "deleted"}
    BY <1>1 DEF Tidy
  <2>2. ASSUME tx[p].op = "delete_many", NEW i \in Written(p)
        PROVE  row'[i] = "deleted" /\ (i \in objects => i \in ToRemove(p))
    <3>1. i \in Ids /\ tx[p].changes[i] = "deleted"
      BY <2>1, <2>2 DEF Written
    <3>2. Stored(i) /\ row'[i] = "deleted" /\ rowLock[i] = p
      BY <1>4, <3>1
    <3>3. ~ \E q \in Writers : Moving(q, i)
      BY <1>1, <3>1, <3>2 DEF Moving
    <3>4. i \in objects => row[i] = "object_storage"
      BY <3>2, <3>3 DEF CleanInv, Known, Stored
    <3>. QED  BY <1>5, <3>1, <3>2, <3>4
  <2>3. tx[p].op = "tier_to_object_storage" => \A i, j \in tx[p].ids : i = j
    BY <1>1 DEF Tidy
  <2>. QED  BY <1>2, <1>3, <1>6, <2>1, <2>2, <2>3 DEF Tidy
<1>10. ASSUME NEW q \in Writers, q # p PROVE Tidy(q)'
  <2>1. q \in Procs /\ q # NoProc /\ Tidy(q) /\ tx[q] \in Call /\ Pending(q)
    BY <1>1, TieringAssumption DEF Procs, CleanInv, IInv
  <2>2. \A i \in Ids : rowLock[i] = q => rowLock'[i] = q /\ row'[i] = row[i]
    BY <1>3, <1>4, <1>10, <2>1 DEF IInv, LockedStored, Stored
  <2>3. tx[q].ids \subseteq Ids /\ tx[q].applied \subseteq Ids
    BY <2>1 DEF Call
  <2>4. tx[q].pc = "commit" => \A i \in Ids : tx[q].changes[i] = "object_storage" =>
                                  row[i] = "postgres" /\ rowLock[i] = q
    BY <2>1 DEF Tidy, Pending
  <2>5. tx[q].pc \in {"upload", "update"} =>
          tx[q].op = "tier_to_object_storage" /\ \A i \in tx[q].ids : rowLock[i] = q /\ row[i] = "postgres"
    BY <2>1 DEF Tidy
  <2>6. tx[q].op = "delete_many" =>
          /\ \A i \in Ids : tx[q].changes[i] \in {"same", "deleted"}
          /\ \A i \in tx[q].applied :
               row'[i] = "deleted" /\ (i \in objects => i \in reported \cup tx[q].cleanup)
    BY <1>8, <2>1, <2>3 DEF Tidy
  <2>7. /\ tx[q].pooled
        /\ tx[q].op = "tier_to_object_storage" => \A i, j \in tx[q].ids : i = j
        /\ tx[q].pc # "cleanup" => tx[q].cleanup = {}
        /\ tx[q].pc \in {"work", "upload", "update", "commit"} => tx[q].applied = {}
    BY <2>1 DEF Tidy
  <2>. QED  BY <1>3, <1>7, <1>10, <2>1, <2>2, <2>3, <2>4, <2>5, <2>6, <2>7 DEF Tidy
<1>11. ASSUME NEW i \in objects PROVE Known(i)'
  <2>1. i \in Ids /\ Known(i)
    BY <1>1 DEF CleanInv
  <2>2. CASE row[i] = "object_storage"
    BY <1>4, <1>5, <1>6, <2>1, <2>2 DEF Known, Stored
  <2>3. ASSUME NEW q \in Writers, Moving(q, i) PROVE Known(i)'
    <3>1. CASE q = p
      BY <1>1, <1>4, <2>1, <2>3, <3>1 DEF Known, Moving
    <3>2. CASE q # p
      <4>1. q \in Procs /\ rowLock'[i] = q
        BY <1>3, <2>1, <2>3, <3>2 DEF Procs, Moving
      <4>2. Moving(q, i)'
        BY <1>7, <2>3, <3>2, <4>1 DEF Moving
      <4>. QED  BY <4>2 DEF Known
    <3>. QED  BY <3>1, <3>2
  <2>4. CASE row[i] = "deleted" /\ i \in reported
    BY <1>3, <1>8, <2>1, <2>4 DEF Known
  <2>5. ASSUME row[i] = "deleted", NEW q \in Writers, i \in tx[q].cleanup PROVE Known(i)'
    <3>1. q # p
      BY <1>2, <2>5
    <3>2. tx'[q].cleanup = tx[q].cleanup /\ row'[i] = "deleted"
      BY <1>7, <1>8, <2>1, <2>5, <3>1 DEF Procs
    <3>. QED  BY <2>5, <3>2 DEF Known
  <2>. QED  BY <2>1, <2>2, <2>3, <2>4, <2>5 DEF Known
<1>. QED  BY <1>3, <1>9, <1>10, <1>11 DEF CleanInv

(* Every step of a clean run keeps what is known of the bucket.             *)
LEMMA NextCleanInv == Clean /\ IInv /\ CleanInv /\ [Next]_vars => CleanInv'
<1> SUFFICES ASSUME Clean, IInv, CleanInv, [Next]_vars PROVE CleanInv'
  OBVIOUS
<1>1. ASSUME NEW p \in Writers, BeginPut(p) \/ BeginTier(p) \/ BeginDelete(p) PROVE CleanInv'
  BY <1>1, TidyBegin
<1>2. ASSUME NEW p \in Writers, Write(p) PROVE CleanInv'
  BY <1>2, TidyRows, TidyTiering, TidyCommit, TidyCleanup DEF Write
<1>3. ASSUME NEW p \in Writers, Fail(p) PROVE CleanInv'
  BY <1>3, TidyFail
<1>4. ASSUME NEW p \in Writers PROVE ~(CommitLost(p) \/ Abort(p) \/ Disconnect(p) \/ Crash(p))
  BY DEF Clean, CommitLost, Abort, Disconnect, Crash
<1>5. ASSUME NEW p \in Readers, BeginRead(p) \/ Read(p) PROVE CleanInv'
  BY <1>5, TidyRead
<1>6. ASSUME NEW p \in Procs, Return(p) PROVE CleanInv'
  BY <1>6, TidyReturn
<1>7. CASE UNCHANGED vars
  BY <1>7 DEF vars, CleanInv, Tidy, Known, Moving
<1>. QED  BY <1>1, <1>2, <1>3, <1>4, <1>5, <1>6, <1>7 DEF Next

(* The accounting of the bucket holds in every state of a clean run.        *)
LEMMA CleanInvariance == ASSUME Clean PROVE Spec => []CleanInv
<1>1. Init => CleanInv
  BY DEF Init, CleanInv, Tidy, Idle, Untouched, Procs
<1>2. IInv /\ CleanInv /\ [Next]_vars => CleanInv'
  BY NextCleanInv
<1>. QED  BY <1>1, <1>2, Invariance, PTL DEF Spec

(* delete_many and tier_to_object_storage with the adapter's own            *)
(* transactions, where only deadlocks, uploads and removals fail: an object *)
(* whose row is gone is about to be removed, or its removal was reported.   *)
THEOREM ObjectsAccounted == ASSUME Clean PROVE Spec => []OrphansAccounted
<1>1. IInv /\ CleanInv => OrphansAccounted
  BY TieringAssumption
     DEF IInv, TypeOK, CleanInv, Known, OrphansAccounted, Moving, LockedStored, Stored
<1>. QED  BY <1>1, Invariance, CleanInvariance, PTL

(* delete_many in the same runs: when it has returned, each object of a row *)
(* that it deleted is out of the bucket, or its removal was reported.       *)
THEOREM DeletesRemoveObjects == ASSUME Clean PROVE Spec => []DeleteRemovesObjects
<1>1. CleanInv => DeleteRemovesObjects
  BY DEF CleanInv, Tidy, DeleteRemovesObjects, Returned
<1>. QED  BY <1>1, CleanInvariance, PTL

-----------------------------------------------------------------------------
(* Tiering is transparent: the image store *)

(* A batch is whole when it commits: a put has as many new rows as it was   *)
(* given, and a delete has dealt with every id that it names.  Only a put   *)
(* or a delete brings images or takes them away.                            *)
Whole(p) ==
  LET r == tx[p]
  IN /\ r.pc \in {"upload", "update"} => r.op = "tier_to_object_storage"
     /\ r.pc = "commit" => r.op \in {"put_many", "tier_to_object_storage", "delete_many"}
     /\ r.op = "tier_to_object_storage" /\ r.pc = "work" => \A i \in Ids : r.changes[i] = "same"
     /\ r.op = "tier_to_object_storage" /\ r.pc = "commit" =>
          \A i \in Ids : r.changes[i] \in {"same", "object_storage"}
     /\ r.op = "put_many" /\ r.pc = "commit" =>
          /\ \A i \in Ids : r.changes[i] \in {"same", "postgres"}
          /\ Cardinality({i \in Ids : r.changes[i] = "postgres"}) = r.size
     /\ r.op = "delete_many" /\ r.pc \in {"work", "commit"} =>
          /\ \A i \in Ids : r.changes[i] \in {"same", "deleted"}
          /\ \A i \in Ids : r.changes[i] = "deleted" => i \in r.ids
          /\ \A i \in r.ids : i \in r.scan \/ r.changes[i] = "deleted" \/ ~Stored(i)
          /\ r.scan \subseteq r.ids /\ (r.pc = "commit" => r.scan = {})

(* No call names the id of a row that a put is about to commit.             *)
Unnamed == \A p, q \in Procs : \A i \in tx[q].ids : tx[p].changes[i] # "postgres"

WholeInv == Unnamed /\ \A p \in Procs : Whole(p)

(* An open call of p stays the call that it is, or it is closed.            *)
IsOpen(r) == r.op \in {"put_many", "delete_many"} /\ r.pc \in {"work", "commit"}
Goes(p) ==
  IsOpen(tx[p]) /\ IsOpen(tx'[p]) =>
    tx'[p].op = tx[p].op /\ tx'[p].size = tx[p].size /\ tx'[p].ids = tx[p].ids

(* Nothing is known of a call that has no transaction.                      *)
LEMMA Restful ==
  ASSUME NEW p, tx'[p].pc \in {"idle", "cleanup", "read", "returned"}
  PROVE  Whole(p)' /\ Goes(p)
BY DEF Whole, Goes, IsOpen

(* A step that touches neither the rows nor a call.                         *)
LEMMA WholeStays ==
  ASSUME WholeInv, row' = row, tx' = tx
  PROVE  WholeInv'
<1>1. Unnamed'
  BY DEF WholeInv, Unnamed
<1>2. ASSUME NEW p \in Procs PROVE Whole(p)'
  <2>1. Whole(p)
    BY DEF WholeInv
  <2>. QED  BY <2>1 DEF Whole, Stored
<1>. QED  BY <1>1, <1>2 DEF WholeInv

(* A step of p that writes no row.                                          *)
LEMMA WholeStep ==
  ASSUME IInv, WholeInv, NEW p \in Procs, NEW r \in Call,
         tx' = [tx EXCEPT ![p] = r], row' = row,
         \A i \in Ids : r.changes[i] = "postgres" =>
           tx[p].changes[i] = "postgres" \/ \A q \in Procs : i \notin tx[q].ids,
         \A i \in r.ids : /\ i \in tx[p].ids \/ \A q \in Procs : tx[q].changes[i] # "postgres"
                          /\ r.changes[i] # "postgres",
         Whole(p)'
  PROVE  WholeInv'
<1>1. tx'[p] = r /\ \A q \in Procs : q # p => tx'[q] = tx[q]
  BY DEF IInv, TypeOK
<1>2. ASSUME NEW q \in Procs PROVE Whole(q)'
  <2>1. CASE q = p
    BY <2>1
  <2>2. CASE q # p
    BY <1>1, <2>2 DEF WholeInv, Whole, Stored
  <2>. QED  BY <2>1, <2>2
<1>3. \A q \in Procs : tx[q].ids \subseteq Ids
  BY DEF IInv, TypeOK, Call
<1>4. ASSUME NEW q1 \in Procs, NEW q2 \in Procs, NEW i \in tx'[q2].ids
      PROVE  tx'[q1].changes[i] # "postgres"
  <2>1. CASE q2 = p
    BY <1>1, <1>4, <2>1 DEF WholeInv, Unnamed
  <2>2. CASE q2 # p
    BY <1>1, <1>3, <1>4, <2>2 DEF WholeInv, Unnamed
  <2>. QED  BY <2>1, <2>2
<1>. QED  BY <1>2, <1>4 DEF WholeInv, Unnamed

(* A step of p within its call that draws no id.                            *)
LEMMA WholeMove ==
  ASSUME IInv, WholeInv, NEW p \in Procs, NEW r \in Call,
         tx' = [tx EXCEPT ![p] = r], row' = row,
         r.op = tx[p].op, r.size = tx[p].size, r.ids = tx[p].ids,
         \A i \in Ids : r.changes[i] = "postgres" => tx[p].changes[i] = "postgres",
         Whole(p)'
  PROVE  WholeInv' /\ Goes(p)
<1>1. tx'[p] = r
  BY DEF IInv, TypeOK
<1>2. Goes(p)
  BY <1>1 DEF Goes
<1>3. r.ids \subseteq Ids
  BY DEF Call
<1>4. \A i \in r.ids : r.changes[i] # "postgres"
  BY <1>3 DEF WholeInv, Unnamed
<1>. QED  BY <1>2, <1>4, WholeStep

(* A call begins with ids that no open put has drawn.                       *)
LEMMA WholeBegin ==
  ASSUME IInv, WholeInv, NEW p \in Procs,
         BeginPut(p) \/ BeginTier(p) \/ BeginDelete(p) \/ BeginRead(p)
  PROVE  WholeInv' /\ Goes(p)
<1>1. tx \in [Procs -> Call]
  BY DEF IInv, TypeOK
<1>2. ASSUME NEW c \in Call, Begin(p, c), c.pc = "work", c.ids \subseteq Nameable,
             \A i \in Ids : c.changes[i] = "same",
             c.scan = c.ids \/ c.op # "delete_many"
      PROVE  WholeInv' /\ Goes(p)
  <2>1. PICK own \in BOOLEAN : tx' = [tx EXCEPT ![p] = [c EXCEPT !.pooled = own]]
    BY <1>2 DEF Begin
  <2>. DEFINE r == [c EXCEPT !.pooled = own]
  <2>2. /\ r \in Call /\ r.pc = "work" /\ r.op = c.op /\ r.ids = c.ids /\ r.scan = c.scan
        /\ r.changes = c.changes
    BY <1>2 DEF Call
  <2>3. tx' = [tx EXCEPT ![p] = r]
    BY <2>1
  <2>. HIDE DEF r
  <2>4. tx'[p] = r /\ tx[p].pc = "idle" /\ row' = row
    BY <1>1, <1>2, <2>3 DEF Begin
  <2>5. Whole(p)'
    BY <1>2, <2>2, <2>4 DEF Whole
  <2>6. \A i \in r.ids : i \in Ids /\ \A q \in Procs : tx[q].changes[i] # "postgres"
    BY <1>2, <2>2 DEF Nameable
  <2>7. WholeInv'
    BY <1>2, <2>2, <2>3, <2>4, <2>5, <2>6, WholeStep
  <2>. QED  BY <2>4, <2>7 DEF Goes, IsOpen
<1>3. CASE BeginPut(p)
  <2>1. PICK n \in 1..MaxBatch :
          Begin(p, [Idle EXCEPT !.pc = "work", !.op = "put_many", !.size = n])
    BY <1>3 DEF BeginPut
  <2>. DEFINE c == [Idle EXCEPT !.pc = "work", !.op = "put_many", !.size = n]
  <2>2. n \in Nat
    BY TieringAssumption
  <2>3. /\ c \in Call /\ c.pc = "work" /\ c.op = "put_many" /\ c.changes = Idle.changes
        /\ c.ids = {}
    BY <2>2, IdleType DEF Call, Idle
  <2>4. Begin(p, c)
    BY <2>1
  <2>. HIDE DEF c
  <2>. QED  BY <1>2, <2>3, <2>4, IdleType
<1>4. CASE BeginTier(p)
  <2>1. PICK i \in Nameable :
          Begin(p, [Idle EXCEPT !.pc = "work", !.op = "tier_to_object_storage", !.ids = {i}])
    BY <1>4 DEF BeginTier
  <2>. DEFINE c == [Idle EXCEPT !.pc = "work", !.op = "tier_to_object_storage", !.ids = {i}]
  <2>2. /\ c \in Call /\ c.pc = "work" /\ c.op = "tier_to_object_storage"
        /\ c.changes = Idle.changes /\ c.ids = {i}
    BY IdleType DEF Call, Idle, Nameable
  <2>3. Begin(p, c)
    BY <2>1
  <2>. HIDE DEF c
  <2>. QED  BY <1>2, <2>2, <2>3, IdleType
<1>5. CASE BeginDelete(p)
  <2>1. PICK S \in SUBSET Nameable :
          Begin(p, [Idle EXCEPT !.pc = "work", !.op = "delete_many", !.ids = S, !.scan = S])
    BY <1>5 DEF BeginDelete
  <2>. DEFINE c == [Idle EXCEPT !.pc = "work", !.op = "delete_many", !.ids = S, !.scan = S]
  <2>2. S \subseteq Ids
    BY DEF Nameable
  <2>3. /\ c \in Call /\ c.pc = "work" /\ c.changes = Idle.changes
        /\ c.ids = S /\ c.scan = S
    BY <2>2, IdleType DEF Call, Idle
  <2>4. Begin(p, c)
    BY <2>1
  <2>. HIDE DEF c
  <2>. QED  BY <1>2, <2>3, <2>4, IdleType
<1>6. CASE BeginRead(p)
  <2>1. PICK i \in Nameable, op \in {"get", "get_stream"} :
          Begin(p, [Idle EXCEPT !.pc = "work", !.op = op, !.ids = {i}, !.intact = Stored(i)])
    BY <1>6 DEF BeginRead
  <2>. DEFINE c == [Idle EXCEPT !.pc = "work", !.op = op, !.ids = {i}, !.intact = Stored(i)]
  <2>2. Stored(i) \in BOOLEAN
    BY DEF Stored
  <2>3. /\ c \in Call /\ c.pc = "work" /\ c.op # "delete_many"
        /\ c.changes = Idle.changes /\ c.ids = {i}
    BY ZenonT(60), <2>2, IdleType DEF Call, Idle, Nameable
  <2>4. Begin(p, c)
    BY <2>1
  <2>. HIDE DEF c
  <2>. QED  BY <1>2, <2>3, <2>4, IdleType
<1>. QED  BY <1>3, <1>4, <1>5, <1>6

(* The statements of a put and of a delete.                                 *)
LEMMA WholeRows ==
  ASSUME IInv, WholeInv, NEW p \in Procs,
         InsertRows(p) \/ \E i \in Ids : DeleteRow(p, i)
  PROVE  WholeInv' /\ Goes(p)
<1>1. tx \in [Procs -> Call] /\ tx[p] \in Call /\ Whole(p) /\ tx[p].ids \subseteq Ids
  BY DEF IInv, TypeOK, WholeInv, Call
<1>2. CASE InsertRows(p)
  <2>1. PICK S \in SUBSET Fresh :
          /\ Cardinality(S) = tx[p].size
          /\ tx' = [tx EXCEPT ![p].pc = "commit", ![p].result = "ids",
                      ![p].changes = [i \in Ids |-> IF i \in S THEN "postgres" ELSE "same"]]
    BY <1>2 DEF InsertRows
  <2>. DEFINE f == [i \in Ids |-> IF i \in S THEN "postgres" ELSE "same"]
              r == [tx[p] EXCEPT !.pc = "commit", !.result = "ids", !.changes = f]
  <2>2. f \in [Ids -> Change]
    BY DEF Change
  <2>3. S \subseteq Ids /\ \A i \in Ids : f[i] = IF i \in S THEN "postgres" ELSE "same"
    BY DEF Fresh
  <2>4. /\ r \in Call /\ r.pc = "commit" /\ r.changes = f /\ r.op = tx[p].op
        /\ r.size = tx[p].size /\ r.ids = tx[p].ids
    BY <1>1, <2>2 DEF Call
  <2>5. tx' = [tx EXCEPT ![p] = r] /\ tx'[p] = r
    BY <1>1, <2>1
  <2>. HIDE DEF f, r
  <2>6. tx[p].op = "put_many" /\ row' = row
    BY <1>2 DEF InsertRows
  <2>7. {i \in Ids : f[i] = "postgres"} = S
    BY <2>3
  <2>8. Whole(p)'
    BY <2>1, <2>3, <2>4, <2>5, <2>6, <2>7 DEF Whole
  <2>9. \A i \in S : \A q \in Procs : i \notin tx[q].ids
    BY DEF Fresh
  <2>10. \A i \in r.ids : i \in tx[p].ids /\ r.changes[i] # "postgres"
    BY <1>1, <2>3, <2>4, <2>9
  <2>11. WholeInv'
    BY <2>3, <2>4, <2>5, <2>6, <2>8, <2>9, <2>10, WholeStep
  <2>. QED  BY <2>4, <2>5, <2>11 DEF Goes
<1>3. ASSUME NEW i \in Ids, DeleteRow(p, i) PROVE WholeInv' /\ Goes(p)
  <2>. DEFINE new == IF Stored(i) THEN "deleted" ELSE "same"
              pc == IF tx[p].scan = {i} THEN "commit" ELSE "work"
              f == [tx[p].changes EXCEPT ![i] = new]
              r == [tx[p] EXCEPT !.scan = tx[p].scan \ {i}, !.changes = f,
                                 !.result = "ids", !.pc = pc]
  <2>1. f \in [Ids -> Change]
    BY <1>1 DEF Change, Call
  <2>2. /\ r \in Call /\ r.changes = f /\ r.pc = pc /\ r.op = tx[p].op
        /\ r.size = tx[p].size /\ r.ids = tx[p].ids /\ r.scan = tx[p].scan \ {i}
    BY ZenonT(60), <1>1, <2>1 DEF Call
  <2>3. tx' = [tx EXCEPT ![p].scan = @ \ {i}, ![p].changes[i] = new,
                         ![p].result = "ids", ![p].pc = pc]
    BY <1>3 DEF DeleteRow
  <2>4. tx' = [tx EXCEPT ![p] = r] /\ tx'[p] = r
    BY <1>1, <2>3 DEF Call
  <2>5. /\ tx[p].op = "delete_many" /\ tx[p].pc = "work" /\ i \in tx[p].scan /\ row' = row
    BY <1>3 DEF DeleteRow
  <2>6. /\ \A j \in Ids : tx[p].changes[j] \in {"same", "deleted"}
        /\ \A j \in Ids : tx[p].changes[j] = "deleted" => j \in tx[p].ids
        /\ \A j \in tx[p].ids : j \in tx[p].scan \/ tx[p].changes[j] = "deleted" \/ ~Stored(j)
        /\ tx[p].scan \subseteq tx[p].ids
    BY <1>1, <2>5 DEF Whole
  <2>7. \A j \in Ids : f[j] = IF j = i THEN new ELSE tx[p].changes[j]
    BY <1>1 DEF Call
  <2>8. pc \in {"work", "commit"} /\ (pc = "commit" => tx[p].scan \ {i} = {})
    OBVIOUS
  <2>9. new \in {"same", "deleted"} /\ (new = "same" => ~Stored(i))
    OBVIOUS
  <2>. HIDE DEF f, r, new, pc
  <2>10. /\ \A j \in Ids : f[j] \in {"same", "deleted"}
         /\ \A j \in Ids : f[j] = "deleted" => j \in tx[p].ids
         /\ \A j \in tx[p].ids : j \in tx[p].scan \ {i} \/ f[j] = "deleted" \/ ~Stored(j)
    BY <1>1, <2>5, <2>6, <2>7, <2>9
  <2>11. Whole(p)'
    BY <2>2, <2>4, <2>5, <2>6, <2>8, <2>10 DEF Whole, Stored
  <2>. QED  BY <2>2, <2>4, <2>5, <2>10, <2>11, WholeMove
<1>. QED  BY <1>2, <1>3

(* The steps of a tiering: its row is there before and after.               *)
LEMMA WholeTiering ==
  ASSUME IInv, WholeInv, NEW p \in Procs,
         SelectForTiering(p) \/ Upload(p) \/ UploadFails(p) \/ UpdateAfterTiering(p)
  PROVE  WholeInv' /\ Goes(p)
<1>1. tx \in [Procs -> Call] /\ tx[p] \in Call /\ Whole(p)
  BY DEF IInv, TypeOK, WholeInv
<1>2. row' = row /\ tx[p].pc \in {"work", "upload", "update"} /\ tx[p].op = "tier_to_object_storage"
  BY <1>1 DEF SelectForTiering, Upload, UploadFails, UpdateAfterTiering, Whole
<1>3. ASSUME NEW r \in Call, tx' = [tx EXCEPT ![p] = r],
             r.op = tx[p].op, r.size = tx[p].size, r.ids = tx[p].ids,
             r.pc \in {"commit", "upload", "update", "returned"},
             \A i \in Ids : r.changes[i] = "postgres" => tx[p].changes[i] = "postgres",
             r.pc = "commit" => \A i \in Ids : r.changes[i] \in {"same", "object_storage"}
      PROVE  WholeInv' /\ Goes(p)
  <2>1. tx'[p] = r
    BY <1>1, <1>3
  <2>2. Whole(p)'
    BY <1>2, <1>3, <2>1 DEF Whole
  <2>. QED  BY <1>2, <1>3, <2>2, WholeMove
<1>4. CASE SelectForTiering(p)
  <2>1. PICK i \in tx[p].ids :
       tx' = [tx EXCEPT ![p] =
            IF ~Stored(i) THEN [@ EXCEPT !.pc = "commit", !.result = "None"]
            ELSE IF row[i] # "postgres" THEN [@ EXCEPT !.pc = "commit", !.result = "False"]
            ELSE [@ EXCEPT !.pc = "upload"]]
    BY <1>4 DEF SelectForTiering
  <2>2. \A j \in Ids : tx[p].changes[j] = "same"
    BY <1>1, <1>2, <1>4 DEF SelectForTiering, Whole
  <2>3. ASSUME NEW x \in Results, NEW pc \in {"commit", "upload"},
               tx' = [tx EXCEPT ![p] = [tx[p] EXCEPT !.pc = pc, !.result = x]]
        PROVE  WholeInv' /\ Goes(p)
    <3>. DEFINE r == [tx[p] EXCEPT !.pc = pc, !.result = x]
    <3>1. /\ r \in Call /\ r.pc = pc /\ r.changes = tx[p].changes
          /\ r.op = tx[p].op /\ r.size = tx[p].size /\ r.ids = tx[p].ids
      BY <1>1 DEF Call, Results
    <3>2. tx' = [tx EXCEPT ![p] = r]
      BY <2>3
    <3>. HIDE DEF r
    <3>. QED  BY <1>3, <2>2, <3>1, <3>2
  <2>4. CASE ~Stored(i)
    <3>1. tx' = [tx EXCEPT ![p] = [tx[p] EXCEPT !.pc = "commit", !.result = "None"]]
      BY <2>1, <2>4
    <3>. QED  BY <2>3, <3>1 DEF Results
  <2>5. CASE Stored(i) /\ row[i] # "postgres"
    <3>1. tx' = [tx EXCEPT ![p] = [tx[p] EXCEPT !.pc = "commit", !.result = "False"]]
      BY <2>1, <2>5
    <3>. QED  BY <2>3, <3>1 DEF Results
  <2>6. CASE Stored(i) /\ row[i] = "postgres"
    <3>. DEFINE r == [tx[p] EXCEPT !.pc = "upload"]
    <3>1. /\ r \in Call /\ r.pc = "upload" /\ r.changes = tx[p].changes
          /\ r.op = tx[p].op /\ r.size = tx[p].size /\ r.ids = tx[p].ids
      BY <1>1 DEF Call
    <3>2. tx' = [tx EXCEPT ![p] = r]
      BY <2>1, <2>6
    <3>. HIDE DEF r
    <3>. QED  BY <1>3, <3>1, <3>2
  <2>. QED  BY <2>4, <2>5, <2>6
<1>5. CASE Upload(p)
  <2>. DEFINE r == [tx[p] EXCEPT !.pc = "update"]
  <2>1. /\ r \in Call /\ r.pc = "update" /\ r.changes = tx[p].changes
        /\ r.op = tx[p].op /\ r.size = tx[p].size /\ r.ids = tx[p].ids
    BY <1>1 DEF Call
  <2>2. tx' = [tx EXCEPT ![p] = r]
    BY <1>5 DEF Upload
  <2>. HIDE DEF r
  <2>. QED  BY <1>3, <2>1, <2>2
<1>6. CASE UploadFails(p)
  <2>. DEFINE r == Finish(tx[p], "StorageError")
  <2>1. r \in Call /\ r.pc = "returned" /\ r.changes = tx[p].changes /\ r.ids = tx[p].ids
    BY <1>1, FinishType DEF Results
  <2>2. r.op = tx[p].op /\ r.size = tx[p].size
    BY <1>1 DEF Finish, Call
  <2>3. tx' = [tx EXCEPT ![p] = r]
    BY <1>6 DEF UploadFails
  <2>. HIDE DEF r
  <2>. QED  BY <1>3, <2>1, <2>2, <2>3
<1>7. CASE UpdateAfterTiering(p)
  <2>. DEFINE f == [i \in Ids |-> IF i \in tx[p].ids THEN "object_storage" ELSE "same"]
              r == [tx[p] EXCEPT !.pc = "commit", !.result = "True", !.changes = f]
  <2>1. f \in [Ids -> Change] /\ \A i \in Ids : f[i] \in {"same", "object_storage"}
    BY DEF Change
  <2>2. /\ r \in Call /\ r.pc = "commit" /\ r.changes = f
        /\ r.op = tx[p].op /\ r.size = tx[p].size /\ r.ids = tx[p].ids
    BY <1>1, <2>1 DEF Call
  <2>3. tx' = [tx EXCEPT ![p] = r]
    BY <1>7 DEF UpdateAfterTiering
  <2>. HIDE DEF f, r
  <2>. QED  BY <1>3, <2>1, <2>2, <2>3
<1>. QED  BY <1>4, <1>5, <1>6, <1>7

(* What remains of a call after a failed attempt.                           *)
LEMMA RetryParts ==
  ASSUME NEW r \in Call
  PROVE  /\ AfterFailure(r).op = r.op /\ AfterFailure(r).size = r.size
         /\ AfterFailure(r).ids = r.ids
         /\ AfterFailure(r).pc = "work" => AfterFailure(r).scan = r.ids
BY DEF AfterFailure, Finish, Call

(* A rollback, a crash, a step of the cleanup, or the end of the call.      *)
LEMMA WholeEnd ==
  ASSUME IInv, WholeInv, NEW p \in Procs,
         \/ Fail(p) \/ Abort(p) \/ Disconnect(p) \/ Crash(p) \/ Return(p)
         \/ \E i \in Ids : RemoveObject(p, i) \/ RemoveObjectFails(p, i)
  PROVE  WholeInv' /\ Goes(p)
<1>1. tx \in [Procs -> Call] /\ tx[p] \in Call /\ Whole(p) /\ tx[p].ids \subseteq Ids
  BY DEF IInv, TypeOK, WholeInv, Call
<1>2. CASE Fail(p)
  <2>. DEFINE r == AfterFailure(tx[p])
  <2>1. /\ r \in Call /\ r.pc \in {"work", "returned"}
        /\ r.pc = "work" => \A i \in Ids : r.changes[i] = "same"
        /\ r.pc = "returned" => r.changes = tx[p].changes
    BY <1>1, AfterFailureType
  <2>2. /\ r.op = tx[p].op /\ r.size = tx[p].size /\ r.ids = tx[p].ids
        /\ r.pc = "work" => r.scan = r.ids
    BY <1>1, RetryParts
  <2>3. tx' = [tx EXCEPT ![p] = r] /\ tx'[p] = r /\ row' = row
    BY <1>1, <1>2 DEF Fail
  <2>. HIDE DEF r
  <2>4. Whole(p)'
    BY <2>1, <2>2, <2>3 DEF Whole
  <2>5. \A i \in Ids : r.changes[i] = "postgres" => tx[p].changes[i] = "postgres"
    BY <2>1
  <2>. QED  BY <2>1, <2>2, <2>3, <2>4, <2>5, WholeMove
<1>3. CASE Abort(p)
  <2>. DEFINE r == Finish(tx[p], "StorageError")
  <2>1. r \in Call /\ r.pc = "returned" /\ r.changes = tx[p].changes /\ r.ids = tx[p].ids
    BY <1>1, FinishType DEF Results
  <2>2. r.op = tx[p].op /\ r.size = tx[p].size
    BY <1>1 DEF Finish, Call
  <2>3. tx' = [tx EXCEPT ![p] = r] /\ tx'[p] = r /\ row' = row
    BY <1>1, <1>3 DEF Abort
  <2>. HIDE DEF r
  <2>4. Whole(p)'
    BY <2>1, <2>3, Restful
  <2>. QED  BY <2>1, <2>2, <2>3, <2>4, WholeMove
<1>4. CASE Disconnect(p)
  <2>1. row' = row /\ tx' = tx
    BY <1>4 DEF Disconnect
  <2>. QED  BY <2>1, WholeStays DEF Goes
<1>5. CASE Crash(p) \/ Return(p)
  <2>1. tx' = [tx EXCEPT ![p] = Idle] /\ tx'[p] = Idle /\ row' = row
    BY <1>1, <1>5 DEF Crash, Return
  <2>2. Idle.pc = "idle" /\ Idle.ids = {}
    BY DEF Idle
  <2>3. Whole(p)' /\ Goes(p)
    BY <2>1, <2>2, Restful
  <2>. QED  BY <2>1, <2>2, <2>3, IdleType, WholeStep
<1>6. ASSUME NEW i \in Ids, RemoveObject(p, i) \/ RemoveObjectFails(p, i)
      PROVE  WholeInv' /\ Goes(p)
  <2>. DEFINE pc == IF tx[p].cleanup = {i} THEN "returned" ELSE "cleanup"
              r == [tx[p] EXCEPT !.cleanup = tx[p].cleanup \ {i}, !.pc = pc]
  <2>1. /\ r \in Call /\ r.pc \in {"returned", "cleanup"} /\ r.changes = tx[p].changes
        /\ r.op = tx[p].op /\ r.size = tx[p].size /\ r.ids = tx[p].ids
    BY <1>1 DEF Call
  <2>2. tx' = [tx EXCEPT ![p].cleanup = @ \ {i}, ![p].pc = pc] /\ row' = row
    BY <1>6 DEF RemoveObject, RemoveObjectFails, AfterCleanup
  <2>3. tx' = [tx EXCEPT ![p] = r] /\ tx'[p] = r
    BY <1>1, <2>2
  <2>. HIDE DEF pc, r
  <2>4. Whole(p)'
    BY <2>1, <2>3, Restful
  <2>. QED  BY <2>1, <2>2, <2>3, <2>4, WholeMove
<1>. QED  BY <1>2, <1>3, <1>4, <1>5, <1>6

(* A reader names one image, and opens no batch.                            *)
LEMMA WholeRead ==
  ASSUME IInv, ReadInv, WholeInv, NEW p \in Readers, Read(p)
  PROVE  WholeInv' /\ Goes(p)
<1>1. tx \in [Procs -> Call] /\ p \in Procs /\ tx[p].ids \subseteq Ids
  BY DEF IInv, TypeOK, Procs, Call
<1>2. PICK r \in Call : /\ tx' = [tx EXCEPT ![p] = r]
                        /\ r.pc \in {"read", "returned"}
                        /\ r.changes = tx[p].changes /\ r.ids = tx[p].ids
  BY <1>1, ReadCall
<1>3. row' = row /\ tx'[p] = r
  BY <1>1, <1>2 DEF Read, SelectRow, ReadChunk, ReadObject
<1>4. Whole(p)' /\ Goes(p)
  BY <1>2, <1>3, Restful
<1>5. \A i \in r.ids : i \in tx[p].ids /\ r.changes[i] # "postgres"
  BY <1>1, <1>2 DEF WholeInv, Unnamed
<1>. QED  BY <1>1, <1>2, <1>3, <1>4, <1>5, WholeStep

(* The call of p after its commit, and what is left of the other calls.     *)
LEMMA CommitCalls ==
  ASSUME IInv, NEW p \in Procs, Commit(p) \/ CommitLost(p)
  PROVE  /\ tx' \in [Procs -> Call]
         /\ \A q \in Procs : q # p =>
              /\ tx'[q].pc = tx[q].pc /\ tx'[q].op = tx[q].op /\ tx'[q].ids = tx[q].ids
              /\ tx'[q].size = tx[q].size /\ tx'[q].scan = tx[q].scan
              /\ tx'[q].changes = tx[q].changes
         /\ tx'[p].op = tx[p].op /\ tx'[p].size = tx[p].size /\ tx'[p].ids = tx[p].ids
         /\ tx'[p].pc \in {"work", "cleanup", "returned"}
         /\ tx'[p].pc = "work" =>
              tx'[p].scan = tx[p].ids /\ \A i \in Ids : tx'[p].changes[i] = "same"
         /\ tx'[p].pc # "work" => tx'[p].changes = tx[p].changes
<1>1. tx \in [Procs -> Call] /\ tx[p] \in Call /\ tx' \in [Procs -> Call]
  <2>1. IInv'
    BY CommitStep
  <2>. QED  BY <2>1 DEF IInv, TypeOK
<1>2. DOMAIN Disturbed(p) = Procs
  BY DEF Disturbed
<1>. DEFINE a == Applied(p)
<1>3. /\ a \in Call /\ a.op = tx[p].op /\ a.size = tx[p].size /\ a.ids = tx[p].ids
      /\ a.changes = tx[p].changes
  BY <1>1 DEF Applied, Written, Call
<1>4. \A q \in Procs : q # p => tx'[q] \in {tx[q], [tx[q] EXCEPT !.intact = FALSE]}
  BY <1>2 DEF Commit, CommitLost, Disturbed
<1>5. ASSUME NEW q \in Procs, q # p
      PROVE  /\ tx'[q].pc = tx[q].pc /\ tx'[q].op = tx[q].op /\ tx'[q].ids = tx[q].ids
             /\ tx'[q].size = tx[q].size /\ tx'[q].scan = tx[q].scan
             /\ tx'[q].changes = tx[q].changes
  <2>1. tx[q] \in Call
    BY <1>1
  <2>. QED  BY <1>4, <1>5, <2>1 DEF Call
<1>6. CASE Commit(p)
  <2>1. tx'[p] = IF ToRemove(p) # {}
                 THEN [a EXCEPT !.pc = "cleanup", !.cleanup = ToRemove(p)]
                 ELSE [a EXCEPT !.pc = "returned"]
    BY <1>2, <1>6 DEF Commit
  <2>2. ToRemove(p) \subseteq Ids
    BY DEF ToRemove
  <2>. HIDE DEF a
  <2>. QED  BY <1>1, <1>3, <1>5, <2>1, <2>2 DEF Call
<1>7. CASE CommitLost(p)
  <2>1. tx'[p] = AfterFailure(a)
    BY <1>2, <1>7 DEF CommitLost
  <2>. HIDE DEF a
  <2>. QED  BY <1>1, <1>3, <1>5, <2>1, AfterFailureType, RetryParts
<1>. QED  BY <1>6, <1>7

(* A commit brings or removes only ids that nobody else has to do with.     *)
LEMMA WholeCommit ==
  ASSUME IInv, WholeInv, NEW p \in Procs, Commit(p) \/ CommitLost(p)
  PROVE  WholeInv' /\ Goes(p)
<1>1. tx[p].pc = "commit" /\ Install(p) /\ \A q \in Procs : tx[q].ids \subseteq Ids
  BY DEF Commit, CommitLost, IInv, TypeOK, Call
<1>2. Goes(p)
  BY CommitCalls DEF Goes
<1>3. Unnamed'
  <2>1. \A q \in Procs : tx'[q].ids = tx[q].ids
    BY CommitCalls
  <2>2. \A q \in Procs, i \in Ids : tx'[q].changes[i] = "postgres" => tx[q].changes[i] = "postgres"
    BY CommitCalls
  <2>. QED  BY <1>1, <2>1, <2>2 DEF WholeInv, Unnamed
<1>4. ASSUME NEW q \in Procs, q # p PROVE Whole(q)'
  <2>1. /\ tx'[q].pc = tx[q].pc /\ tx'[q].op = tx[q].op /\ tx'[q].ids = tx[q].ids
        /\ tx'[q].size = tx[q].size /\ tx'[q].scan = tx[q].scan
        /\ tx'[q].changes = tx[q].changes
    BY <1>4, CommitCalls
  <2>2. \A i \in tx[q].ids : ~Stored(i) => ~Stored(i)'
    BY <1>1, CommitRows DEF WholeInv, Unnamed, Stored
  <2>3. Whole(q)
    BY DEF WholeInv
  <2>. QED  BY <2>1, <2>2, <2>3 DEF Whole
<1>5. Whole(p)'
  BY CommitCalls DEF Whole
<1>. QED  BY <1>2, <1>3, <1>4, <1>5 DEF WholeInv

(* Every step keeps the batches whole, and every open call what it is.      *)
LEMMA NextWhole ==
  ASSUME IInv, ReadInv, WholeInv, NEW p \in Procs,
         \/ /\ p \in Writers
            /\ \/ BeginPut(p) \/ BeginTier(p) \/ BeginDelete(p) \/ Write(p)
               \/ CommitLost(p) \/ Fail(p) \/ Abort(p) \/ Disconnect(p) \/ Crash(p)
         \/ p \in Readers /\ (BeginRead(p) \/ Read(p))
         \/ Return(p)
  PROVE  WholeInv' /\ Goes(p)
<1>1. CASE BeginPut(p) \/ BeginTier(p) \/ BeginDelete(p) \/ BeginRead(p)
  BY <1>1, WholeBegin
<1>2. CASE Write(p)
  BY <1>2, WholeRows, WholeTiering, WholeCommit, WholeEnd DEF Write
<1>3. CASE CommitLost(p)
  BY <1>3, WholeCommit
<1>4. CASE Fail(p) \/ Abort(p) \/ Disconnect(p) \/ Crash(p) \/ Return(p)
  BY <1>4, WholeEnd
<1>5. CASE p \in Readers /\ Read(p)
  BY <1>5, WholeRead
<1>. QED  BY <1>1, <1>2, <1>3, <1>4, <1>5

(* A reader of the adapter finds the bytes of every stored row.             *)
LEMMA ImagesAreRows ==
  ASSUME IInv, IInv'
  PROVE  /\ Images = [i \in Ids |-> IF Stored(i) THEN "bytes" ELSE "none"]
         /\ Images' = [i \in Ids |-> IF Stored(i)' THEN "bytes" ELSE "none"]
<1>1. \A i \in Ids : row[i] = "postgres" \/ (row[i] = "object_storage" /\ i \in objects) <=> Stored(i)
  BY DEF IInv, NoLostBytes, Stored
<1>2. \A i \in Ids : row'[i] = "postgres" \/ (row'[i] = "object_storage" /\ i \in objects')
                     <=> Stored(i)'
  BY DEF IInv, NoLostBytes, Stored
<1>. QED  BY <1>1, <1>2 DEF Images

(* The instance has its own copy of Cardinality.                            *)
LEMMA SameCardinality ==
  ASSUME NEW S
  PROVE  Abstract!Cardinality(S) = Cardinality(S)
BY DEF Cardinality, Abstract!Cardinality

(* The calls that the image store sees: the other clients' do not change.   *)
LEMMA OpenCallsStep ==
  ASSUME NEW p \in Procs, Goes(p),
         \A q \in Procs : q # p => /\ tx'[q].pc = tx[q].pc /\ tx'[q].op = tx[q].op
                                   /\ tx'[q].ids = tx[q].ids /\ tx'[q].size = tx[q].size
  PROVE  /\ OpenCalls' = [OpenCalls EXCEPT ![p] = OpenCalls'[p]]
         /\ OpenCalls[p] = IF IsOpen(tx[p])
              THEN [kind |-> IF tx[p].op = "put_many" THEN "put" ELSE "delete",
                    want |-> [c \in {"bytes"} |-> tx[p].size], ids |-> tx[p].ids]
              ELSE Abstract!Closed
         /\ OpenCalls'[p] = IF IsOpen(tx'[p])
              THEN [kind |-> IF tx'[p].op = "put_many" THEN "put" ELSE "delete",
                    want |-> [c \in {"bytes"} |-> tx'[p].size], ids |-> tx'[p].ids]
              ELSE Abstract!Closed
         /\ IsOpen(tx[p]) => OpenCalls' = OpenCalls
                             \/ OpenCalls' = [OpenCalls EXCEPT ![p] = Abstract!Closed]
<1>1. \A q \in Procs : q # p => OpenCalls'[q] = OpenCalls[q]
  BY DEF OpenCalls
<1>2. OpenCalls' = [q \in Procs |-> OpenCalls'[q]] /\ OpenCalls = [q \in Procs |-> OpenCalls[q]]
  BY DEF OpenCalls
<1>3. OpenCalls' = [OpenCalls EXCEPT ![p] = OpenCalls'[p]]
  BY <1>1, <1>2
<1>4. OpenCalls[p] = IF IsOpen(tx[p])
        THEN [kind |-> IF tx[p].op = "put_many" THEN "put" ELSE "delete",
              want |-> [c \in {"bytes"} |-> tx[p].size], ids |-> tx[p].ids]
        ELSE Abstract!Closed
  BY DEF OpenCalls, IsOpen, Abstract!Closed
<1>5. OpenCalls'[p] = IF IsOpen(tx'[p])
        THEN [kind |-> IF tx'[p].op = "put_many" THEN "put" ELSE "delete",
              want |-> [c \in {"bytes"} |-> tx'[p].size], ids |-> tx'[p].ids]
        ELSE Abstract!Closed
  BY DEF OpenCalls, IsOpen, Abstract!Closed
<1>6. IsOpen(tx[p]) => OpenCalls'[p] \in {OpenCalls[p], Abstract!Closed}
  BY <1>4, <1>5 DEF Goes
<1>7. OpenCalls'[p] = OpenCalls[p] => OpenCalls' = OpenCalls
  BY <1>2, <1>3
<1>. QED  BY <1>3, <1>4, <1>5, <1>6, <1>7

(* A step that writes no row opens a call, closes it, or is not seen.       *)
LEMMA QuietMaps ==
  ASSUME IInv, IInv', NEW p \in Procs, Goes(p), row' = row,
         \A q \in Procs : q # p => tx'[q] = tx[q]
  PROVE  [Abstract!Next]_(Abstract!vars)
<1>1. Images' = Images
  BY ImagesAreRows DEF Stored
<1>2. /\ OpenCalls' = [OpenCalls EXCEPT ![p] = OpenCalls'[p]]
      /\ ~IsOpen(tx[p]) => OpenCalls[p] = Abstract!Closed
      /\ OpenCalls'[p] = IF IsOpen(tx'[p])
              THEN [kind |-> IF tx'[p].op = "put_many" THEN "put" ELSE "delete",
                    want |-> [c \in {"bytes"} |-> tx'[p].size], ids |-> tx'[p].ids]
              ELSE Abstract!Closed
      /\ IsOpen(tx[p]) => OpenCalls' = OpenCalls
                          \/ OpenCalls' = [OpenCalls EXCEPT ![p] = Abstract!Closed]
  BY OpenCallsStep
<1>3. CASE IsOpen(tx[p])
  BY <1>1, <1>2, <1>3 DEF Abstract!Next, Abstract!GiveUp, Abstract!vars
<1>4. CASE ~IsOpen(tx'[p])
  BY <1>1, <1>2, <1>4 DEF Abstract!Next, Abstract!GiveUp
<1>5. CASE ~IsOpen(tx[p]) /\ IsOpen(tx'[p])
  <2>1. tx'[p] \in Call
    BY DEF IInv, TypeOK
  <2>2. [c \in {"bytes"} |-> tx'[p].size] \in [{"bytes"} -> Nat]
    BY <2>1 DEF Call
  <2>3. OpenCalls'[p] \in Abstract!OpenCall /\ OpenCalls'[p].kind # "none"
    BY <1>2, <1>5, <2>1, <2>2 DEF Abstract!OpenCall, Call
  <2>4. OpenCalls[p].kind = "none"
    BY <1>2, <1>5 DEF Abstract!Closed
  <2>. QED  BY <1>1, <1>2, <2>3, <2>4 DEF Abstract!Next, Abstract!Open
<1>. QED  BY <1>3, <1>4, <1>5

(* A commit puts or deletes a whole batch, or only moves bytes.             *)
LEMMA CommitMaps ==
  ASSUME IInv, IInv', WholeInv, NEW p \in Procs, Goes(p), Commit(p) \/ CommitLost(p)
  PROVE  [Abstract!Next]_(Abstract!vars)
<1>1. /\ tx[p].pc = "commit" /\ Install(p) /\ tx[p] \in Call /\ tx[p].ids \subseteq Ids
      /\ Whole(p)
  BY DEF Commit, CommitLost, IInv, TypeOK, WholeInv, Call
<1>2. \A q \in Procs : q # p => /\ tx'[q].pc = tx[q].pc /\ tx'[q].op = tx[q].op
                                /\ tx'[q].ids = tx[q].ids /\ tx'[q].size = tx[q].size
  BY CommitCalls
<1>3. /\ OpenCalls[p] = IF IsOpen(tx[p])
              THEN [kind |-> IF tx[p].op = "put_many" THEN "put" ELSE "delete",
                    want |-> [c \in {"bytes"} |-> tx[p].size], ids |-> tx[p].ids]
              ELSE Abstract!Closed
      /\ IsOpen(tx[p]) => Abstract!OpenOrClosed(p)
  BY <1>2, OpenCallsStep DEF Abstract!OpenOrClosed
<1>4. /\ Images = [i \in Ids |-> IF Stored(i) THEN "bytes" ELSE "none"]
      /\ Images' = [i \in Ids |-> IF Stored(i)' THEN "bytes" ELSE "none"]
  BY ImagesAreRows
<1>5. ASSUME NEW i \in Ids
      PROVE  \/ Stored(i)' = Stored(i) /\ tx[p].changes[i] \in {"same", "object_storage"}
             \/ ~Stored(i) /\ Stored(i)' /\ tx[p].changes[i] = "postgres"
             \/ Stored(i) /\ ~Stored(i)' /\ tx[p].changes[i] = "deleted"
  BY <1>1, CommitRows DEF Stored
<1>6. CASE tx[p].op = "put_many"
  <2>. DEFINE new == [i \in Ids |-> IF tx[p].changes[i] = "postgres" THEN "bytes" ELSE "none"]
  <2>1. /\ \A i \in Ids : tx[p].changes[i] \in {"same", "postgres"}
        /\ Cardinality({i \in Ids : tx[p].changes[i] = "postgres"}) = tx[p].size
    BY <1>1, <1>6 DEF Whole
  <2>2. new \in [Ids -> {"bytes"} \cup {"none"}]
    OBVIOUS
  <2>3. \A i \in Ids : new[i] = "bytes" <=> tx[p].changes[i] = "postgres"
    OBVIOUS
  <2>4. {i \in Ids : new[i] = "bytes"} = {i \in Ids : tx[p].changes[i] = "postgres"}
    BY <2>3
  <2>5. /\ OpenCalls[p].kind = "put" /\ OpenCalls[p].want["bytes"] = tx[p].size
        /\ Abstract!OpenOrClosed(p)
    BY <1>1, <1>3, <1>6 DEF IsOpen
  <2>6. \A c \in {"bytes"} :
          Abstract!Cardinality({i \in Ids : new[i] = c}) = OpenCalls[p].want[c]
    BY <2>1, <2>4, <2>5, SameCardinality
  <2>7. \A i \in Ids : new[i] # "none" => Images[i] = "none"
    BY <1>4, <1>5
  <2>8. Images' = [i \in Ids |-> IF new[i] # "none" THEN new[i] ELSE Images[i]]
    BY <1>4, <1>5, <2>1
  <2>. HIDE DEF new
  <2>9. Abstract!Put(p)
    BY <2>2, <2>5, <2>6, <2>7, <2>8 DEF Abstract!Put
  <2>. QED  BY <2>9 DEF Abstract!Next
<1>7. CASE tx[p].op = "delete_many"
  <2>1. /\ \A i \in Ids : tx[p].changes[i] \in {"same", "deleted"}
        /\ \A i \in Ids : tx[p].changes[i] = "deleted" => i \in tx[p].ids
        /\ \A i \in tx[p].ids : tx[p].changes[i] = "deleted" \/ ~Stored(i)
    BY <1>1, <1>7 DEF Whole
  <2>2. /\ OpenCalls[p].kind = "delete" /\ OpenCalls[p].ids = tx[p].ids
        /\ Abstract!OpenOrClosed(p)
    BY <1>1, <1>3, <1>7 DEF IsOpen
  <2>3. Images' = [i \in Ids |-> IF i \in OpenCalls[p].ids THEN "none" ELSE Images[i]]
    BY <1>4, <1>5, <2>1, <2>2
  <2>. QED  BY <2>2, <2>3 DEF Abstract!Next, Abstract!Delete
<1>8. CASE tx[p].op = "tier_to_object_storage"
  <2>1. \A i \in Ids : tx[p].changes[i] \in {"same", "object_storage"}
    BY <1>1, <1>8 DEF Whole
  <2>2. Images' = Images
    BY <1>4, <1>5, <2>1
  <2>3. ~IsOpen(tx[p]) /\ ~IsOpen(tx'[p])
    BY <1>8, CommitCalls DEF IsOpen
  <2>4. OpenCalls' = [OpenCalls EXCEPT ![p] = Abstract!Closed]
    BY <1>2, <2>3, OpenCallsStep
  <2>. QED  BY <2>2, <2>4 DEF Abstract!Next, Abstract!GiveUp
<1>. QED  BY <1>1, <1>6, <1>7, <1>8 DEF Whole

(* Every step is a step of the image store, or is not seen there.           *)
LEMMA StepMaps ==
  IInv /\ IInv' /\ ReadInv /\ WholeInv /\ [Next]_vars
    => WholeInv' /\ [Abstract!Next]_(Abstract!vars)
<1> SUFFICES ASSUME IInv, IInv', ReadInv, WholeInv, [Next]_vars
             PROVE  WholeInv' /\ [Abstract!Next]_(Abstract!vars)
  OBVIOUS
<1>1. CASE UNCHANGED vars
  BY <1>1, WholeStays DEF vars, Abstract!vars, Images, OpenCalls
<1>2. ASSUME NEW p \in Writers,
             \/ BeginPut(p) \/ BeginTier(p) \/ BeginDelete(p) \/ Write(p)
             \/ CommitLost(p) \/ Fail(p) \/ Abort(p) \/ Disconnect(p) \/ Crash(p)
      PROVE  WholeInv' /\ [Abstract!Next]_(Abstract!vars)
  <2>1. p \in Procs
    BY DEF Procs
  <2>2. WholeInv' /\ Goes(p)
    BY <1>2, <2>1, NextWhole
  <2>3. CASE Commit(p) \/ CommitLost(p)
    BY <2>1, <2>2, <2>3, CommitMaps
  <2>4. CASE ~(Commit(p) \/ CommitLost(p))
    <3>1. row' = row /\ \A q \in Procs : q # p => tx'[q] = tx[q]
      BY <1>2, <2>4, WriterAlone DEF Write
    <3>. QED  BY <2>1, <2>2, <3>1, QuietMaps
  <2>. QED  BY <2>3, <2>4
<1>3. ASSUME NEW p \in Readers, BeginRead(p) \/ Read(p)
      PROVE  WholeInv' /\ [Abstract!Next]_(Abstract!vars)
  <2>1. p \in Procs
    BY DEF Procs
  <2>2. WholeInv' /\ Goes(p)
    BY <1>3, <2>1, NextWhole
  <2>3. row' = row /\ \A q \in Procs : q # p => tx'[q] = tx[q]
    BY <1>3 DEF IInv, TypeOK, BeginRead, Begin, Read, SelectRow, ReadChunk, ReadObject
  <2>. QED  BY <2>1, <2>2, <2>3, QuietMaps
<1>4. ASSUME NEW p \in Procs, Return(p)
      PROVE  WholeInv' /\ [Abstract!Next]_(Abstract!vars)
  <2>1. WholeInv' /\ Goes(p)
    BY <1>4, NextWhole
  <2>2. row' = row /\ \A q \in Procs : q # p => tx'[q] = tx[q]
    BY <1>4 DEF IInv, TypeOK, Return
  <2>. QED  BY <2>1, <2>2, QuietMaps
<1>. QED  BY <1>1, <1>2, <1>3, <1>4 DEF Next

(* put_many, delete_many and tier_to_object_storage implement the image     *)
(* store (Refinement in TieredStore) whatever uploads, commits, connections *)
(* and clients fail: batches come and go whole, and to a reader a tiering   *)
(* is no step at all.                                                       *)
THEOREM Implements == Spec => Refinement
<1>1. Init => Abstract!Init
  BY DEF Init, Images, OpenCalls, Idle, Abstract!Init, Abstract!Closed
<1>2. Init => ReadInv /\ WholeInv
  BY DEF Init, ReadInv, Reading, WholeInv, Unnamed, Whole, Idle, Untouched, Procs
<1>. QED
  BY <1>1, <1>2, StepMaps, NextReadInv, Invariance, PTL DEF Spec, Refinement, Abstract!Spec
=============================================================================
