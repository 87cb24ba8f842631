-------------------------- MODULE DedupStoreProofs --------------------------
(***************************************************************************)
(* Why the counter of a blob is never wrong: IInv of DedupStore is         *)
(* inductive, for any number of clients, ids and checksums and any batch   *)
(* and retry bounds.  Its heart is that a transaction sees the count of a  *)
(* blob that it has locked at the committed count, plus its own upserts or *)
(* minus its own deletes (PutProgress, DeleteProgress), so that at commit  *)
(* the installed count is again the number of installed refs.              *)
(* The second part shows that the sorted order of upserts and decrements   *)
(* keeps every client that waits for a blob out of a deadlock.  The third  *)
(* part shows that a retried put with ids of its own stores its images     *)
(* once.                                                                   *)
(***************************************************************************)
EXTENDS DedupStore, FiniteSetTheorems, WellFoundedInduction, TLAPS

(* The refs of a blob are finitely many. *)
LEMMA RowsFinite ==
  ASSUME NEW f, NEW c
  PROVE  IsFiniteSet(RowsOf(f, c)) /\ Cardinality(RowsOf(f, c)) \in Nat
<1>1. RowsOf(f, c) \in SUBSET Ids
  BY DEF RowsOf
<1>. QED
  BY <1>1, ConstantsAssumption, FS_Subset, FS_CardinalityType

(* The empty ref map points nowhere. *)
LEMMA NoRows ==
  ASSUME NEW f, NEW c
  PROVE  Cardinality(RowsOf(f, c)) = 0 <=> \A i \in Ids : f[i] # c
<1>1. Cardinality(RowsOf(f, c)) = 0 <=> RowsOf(f, c) = {}
  BY RowsFinite, FS_EmptySet
<1>. QED
  BY <1>1 DEF RowsOf

(* A call that starts again is a call. *)
LEMMA RestartedType ==
  ASSUME NEW r \in Call, r.attempt < MaxRetries
  PROVE  [Restarted(r) EXCEPT !.attempt = r.attempt + 1] \in Call
<1>1. NoRefs \in RefMap /\ Zero \in [Checksums -> Nat] /\ Zero \in [Checksums -> Int]
  BY DEF NoRefs, RefMap, Zero
<1>2. (IF ClientIds THEN r.placed ELSE NoRefs) \in RefMap
  BY <1>1 DEF Call
<1>3. Restarted(r) \in Call
  BY <1>1, <1>2 DEF Restarted, Call
<1>4. r.attempt + 1 \in Nat
  BY DEF Call
<1>. QED
  BY <1>3, <1>4 DEF Call

(* A failed call starts again or has returned. *)
LEMMA AfterFailureType ==
  ASSUME NEW r \in Call
  PROVE  AfterFailure(r) \in Call /\ Raised(r) \in Call
<1>1. Raised(r) \in Call
  BY DEF Raised, Call
<1>2. CASE r.pooled /\ r.attempt < MaxRetries
  BY <1>1, <1>2, RestartedType DEF AfterFailure
<1>3. CASE ~(r.pooled /\ r.attempt < MaxRetries)
  BY <1>1, <1>3 DEF AfterFailure
<1>. QED  BY <1>2, <1>3

(* Idle is a call. *)
LEMMA IdleType == Idle \in Call
  BY DEF Idle, Call, RefMap, NoRefs, Zero

(* Empty tables, no locks, no calls. *)
THEOREM InitIInv == Init => IInv
<1> SUFFICES ASSUME Init PROVE IInv
  OBVIOUS
<1>1. TypeOK
  BY IdleType DEF Init, TypeOK, RefMap, NoRefs, Zero
<1>2. \A p \in Procs : tx[p] = Idle
  BY DEF Init
<1>3. RefCountExact /\ NoDanglingRef /\ NoLeakedBlob
  BY NoRows, RowsFinite, ConstantsAssumption DEF Init, RefCountExact, NoDanglingRef, NoLeakedBlob, Zero, NoRefs
<1>4. DrawsDisjoint
  BY <1>2 DEF DrawsDisjoint, Idle, NoRefs
<1>5. ASSUME NEW p \in Procs PROVE AtRest(p) /\ PutProgress(p) /\ DeleteProgress(p)
  BY <1>2, ConstantsAssumption DEF AtRest, PutProgress, DeleteProgress, Idle, Init, Holds
<1>. QED  BY <1>1, <1>3, <1>4, <1>5 DEF IInv
(* Another client's progress depends only on its own locks, call and rows. *)
LEMMA FrameLocks ==
  ASSUME NEW q \in Procs, tx'[q] = tx[q], UNCHANGED db,
         \A c \in Checksums : blobLock'[c] = q <=> blobLock[c] = q,
         \A i \in Ids : refLock'[i] = q <=> refLock[i] = q,
         AtRest(q), PutProgress(q), DeleteProgress(q)
  PROVE  AtRest(q)' /\ PutProgress(q)' /\ DeleteProgress(q)'
<1>1. AtRest(q)'
  BY DEF AtRest, Holds
<1>2. PutProgress(q)'
  BY DEF PutProgress, Holds, Support, RowsOf, db
<1>3. DeleteProgress(q)'
  BY DEF DeleteProgress, Holds, Owed, RowsOf, db
<1>. QED  BY <1>1, <1>2, <1>3

(* What is said of the committed tables is kept by a step that leaves them alone. *)
LEMMA FrameDB ==
  ASSUME UNCHANGED db, RefCountExact, NoDanglingRef, NoLeakedBlob
  PROVE  RefCountExact' /\ NoDanglingRef' /\ NoLeakedBlob'
  BY DEF db, RefCountExact, NoDanglingRef, NoLeakedBlob, RowsOf

(* Ids stay disjoint if the ids of the client that moves do. *)
LEMMA FrameDraws ==
  ASSUME DrawsDisjoint, NEW p \in Procs,
         \A q \in Procs : q # p => tx'[q] = tx[q],
         \A i \in Ids : tx'[p].placed[i] # NoSum =>
            /\ i \notin tx'[p].ids
            /\ \/ tx[p].placed[i] # NoSum
               \/ \A q \in Procs : tx[q].placed[i] = NoSum /\ i \notin tx[q].ids,
         \A i \in Ids : i \in tx'[p].ids =>
            i \in tx[p].ids \/ \A q \in Procs : tx[q].placed[i] = NoSum
  PROVE  DrawsDisjoint'
<1> SUFFICES ASSUME NEW a \in Procs, NEW b \in Procs, NEW i \in Ids,
                    tx'[a].placed[i] # NoSum
             PROVE  (a = b \/ tx'[b].placed[i] = NoSum) /\ i \notin tx'[b].ids
  BY DEF DrawsDisjoint
<1>1. CASE a = p /\ b = p  BY <1>1
<1>2. CASE a = p /\ b # p  BY <1>2 DEF DrawsDisjoint
<1>3. CASE a # p /\ b = p  BY <1>3 DEF DrawsDisjoint
<1>4. CASE a # p /\ b # p  BY <1>4 DEF DrawsDisjoint
<1>. QED  BY <1>1, <1>2, <1>3, <1>4

(* A step of p that leaves the committed tables alone: what remains to be   *)
(* shown of it.                                                             *)
LEMMA LocalStep ==
  ASSUME IInv, NEW p \in Procs, NEW r \in Call,
         tx' = [tx EXCEPT ![p] = r],
         UNCHANGED db,
         blobLock' \in [Checksums -> Procs \cup {NoProc}],
         refLock' \in [Ids -> Procs \cup {NoProc}],
         \A q \in Procs : q # p =>
            /\ \A c \in Checksums : blobLock'[c] = q <=> blobLock[c] = q
            /\ \A i \in Ids : refLock'[i] = q <=> refLock[i] = q,
         \A i \in Ids : r.placed[i] # NoSum =>
            /\ i \notin r.ids
            /\ \/ tx[p].placed[i] # NoSum
               \/ \A q \in Procs : tx[q].placed[i] = NoSum /\ i \notin tx[q].ids,
         \A i \in Ids : i \in r.ids =>
            i \in tx[p].ids \/ \A q \in Procs : tx[q].placed[i] = NoSum,
         AtRest(p)', PutProgress(p)', DeleteProgress(p)'
  PROVE  IInv'
<1>1. TypeOK
  BY DEF IInv
<1>2. tx'[p] = r /\ \A q \in Procs : q # p => tx'[q] = tx[q]
  BY <1>1 DEF TypeOK
<1>3. TypeOK'
  BY <1>1 DEF TypeOK, db
<1>4. DrawsDisjoint'
  BY <1>2, FrameDraws DEF IInv
<1>5. ASSUME NEW q \in Procs
      PROVE  AtRest(q)' /\ PutProgress(q)' /\ DeleteProgress(q)'
  <2>1. CASE q = p  BY <2>1
  <2>2. CASE q # p  BY <1>2, <2>2, FrameLocks DEF IInv
  <2>. QED  BY <2>1, <2>2
<1>. QED
  BY <1>3, <1>4, <1>5, FrameDB DEF IInv

(* put, put_many: the call and, for client-drawn ids, the ids. *)
LEMMA BeginPutIInv ==
  ASSUME IInv, NEW p \in Procs, BeginPut(p)
  PROVE  IInv'
<1>1. PICK w \in Batches, own \in BOOLEAN :
        \E f \in IF ClientIds THEN Draws(w) ELSE {NoRefs} :
          tx' = [tx EXCEPT ![p] = [Idle EXCEPT !.pc = "work", !.kind = "put",
                    !.pooled = own, !.want = w, !.left = w, !.placed = f]]
  BY DEF BeginPut
<1>2. PICK f \in IF ClientIds THEN Draws(w) ELSE {NoRefs} :
          tx' = [tx EXCEPT ![p] = [Idle EXCEPT !.pc = "work", !.kind = "put",
                    !.pooled = own, !.want = w, !.left = w, !.placed = f]]
  BY <1>1
<1> DEFINE r == [Idle EXCEPT !.pc = "work", !.kind = "put",
                    !.pooled = own, !.want = w, !.left = w, !.placed = f]
<1>3. w \in [Checksums -> Nat] /\ f \in RefMap
  BY ConstantsAssumption DEF Batches, Draws, NoRefs, RefMap
<1>4. r \in Call
  BY <1>3, IdleType DEF Call
<1>5. tx[p].pc = "idle" /\ TypeOK /\ UNCHANGED <<db, locks>>
  BY DEF BeginPut, IInv
<1>6. tx' = [tx EXCEPT ![p] = r] /\ tx'[p] = r
  BY <1>2, <1>5 DEF TypeOK
<1>7. /\ r.pc = "work" /\ r.kind = "put" /\ r.want = w /\ r.left = w /\ r.placed = f
      /\ r.ids = {} /\ r.deleted = NoRefs /\ r.purged = {}
  BY DEF Idle
<1> HIDE DEF r
<1>8. \A i \in Ids : r.placed[i] # NoSum =>
        \A q \in Procs : tx[q].placed[i] = NoSum /\ i \notin tx[q].ids
  BY <1>2, <1>7 DEF Draws, Support, NoRefs, Fresh
<1>9. AtRest(p)' /\ DeleteProgress(p)'
  BY <1>6, <1>7 DEF AtRest, DeleteProgress
<1>10. PutProgress(p)'
  <2>1. /\ \A c \in Checksums : ~Holds(p, c)'
        /\ \A i \in Ids : refLock'[i] # p
    BY <1>5 DEF IInv, AtRest, Holds, locks
  <2>2. IF ClientIds
        THEN \A c \in Checksums : Cardinality(RowsOf(f, c)) = w[c]
        ELSE f = NoRefs
    BY <1>2 DEF Draws
  <2>. QED
    BY <1>3, <1>6, <1>7, <2>1, <2>2 DEF PutProgress, RowsOf
<1>. QED
  BY <1>4, <1>5, <1>6, <1>7, <1>8, <1>9, <1>10, LocalStep DEF locks, TypeOK

(* One upsert: the lock makes the count it sees the committed one plus its own. *)
LEMMA UpsertBlobIInv ==
  ASSUME IInv, NEW p \in Procs, NEW c \in Checksums, UpsertBlob(p, c)
  PROVE  IInv'
<1> DEFINE r == [tx[p] EXCEPT !.left[c] = @ - 1, !.counts[c] = Bumped(p, c)]
<1>1. TypeOK /\ tx[p] \in Call /\ PutProgress(p) /\ RefCountExact /\ NoDanglingRef
  BY DEF IInv, TypeOK
<1>2. /\ tx[p].pc = "work" /\ tx[p].kind = "put" /\ tx[p].left[c] > 0
      /\ \A d \in Checksums : tx[p].left[d] > 0 => c <= d
      /\ blobLock[c] \in {p, NoProc}
      /\ blobLock' = [blobLock EXCEPT ![c] = p]
      /\ UNCHANGED db /\ UNCHANGED refLock
  BY DEF UpsertBlob, Free
<1>3. tx' = [tx EXCEPT ![p] = r]
  BY DEF UpsertBlob
<1>4. tx'[p] = r
  BY <1>1, <1>3 DEF TypeOK
<1>5. Bumped(p, c) \in Int
  BY <1>1 DEF Bumped, Seen, TypeOK, Call
<1>6. /\ r.pc = "work" /\ r.kind = "put" /\ r.want = tx[p].want /\ r.ids = tx[p].ids
      /\ r.placed = tx[p].placed /\ r.deleted = tx[p].deleted /\ r.purged = tx[p].purged
      /\ r.left = [tx[p].left EXCEPT ![c] = @ - 1]
      /\ r.counts = [tx[p].counts EXCEPT ![c] = Bumped(p, c)]
  BY <1>1, <1>2 DEF Call
<1>7. r \in Call
  <2>1. [tx[p].left EXCEPT ![c] = @ - 1] \in [Checksums -> Nat]
    BY <1>1, <1>2 DEF Call
  <2>2. [tx[p].counts EXCEPT ![c] = Bumped(p, c)] \in [Checksums -> Int]
    BY <1>1, <1>5 DEF Call
  <2>. QED  BY <1>1, <2>1, <2>2 DEF Call
<1>8. refCount[c] = 0 \/ c \in blobs
  <2>1. c \in blobs \/ \A i \in Ids : refs[i] # c
    BY <1>1, ConstantsAssumption DEF NoDanglingRef
  <2>. QED  BY <1>1, <2>1, NoRows DEF RefCountExact
<1>9. Bumped(p, c) = refCount[c] + tx[p].want[c] - tx[p].left[c] + 1
  BY <1>1, <1>2, <1>8 DEF Bumped, Seen, PutProgress, Holds, TypeOK, Call
<1> HIDE DEF r
<1>10. AtRest(p)' /\ DeleteProgress(p)'
  BY <1>4, <1>6 DEF AtRest, DeleteProgress
<1>11. PutProgress(p)'
  <2>1. /\ tx[p].deleted = NoRefs /\ tx[p].purged = {} /\ tx[p].ids = {}
        /\ \A i \in Ids : refLock'[i] # p
    BY <1>1, <1>2 DEF PutProgress
  <2>2. ASSUME NEW e \in Checksums
        PROVE  /\ r.left[e] <= r.want[e]
               /\ Holds(p, e)' <=> r.left[e] < r.want[e]
               /\ Holds(p, e)' => r.counts[e] = refCount'[e] + r.want[e] - r.left[e]
               /\ \A d \in Checksums : Holds(p, e)' /\ r.left[d] > 0 => e <= d
    <3>1. CASE e = c
      BY <1>1, <1>2, <1>6, <1>9, <3>1 DEF PutProgress, Holds, TypeOK, Call, db
    <3>2. CASE e # c
      BY <1>1, <1>2, <1>6, <3>2 DEF PutProgress, Holds, TypeOK, Call, db
    <3>. QED  BY <3>1, <3>2
  <2>3. IF ClientIds
        THEN \A e \in Checksums : Cardinality(RowsOf(tx[p].placed, e)) = tx[p].want[e]
        ELSE tx[p].placed = NoRefs
    BY <1>1, <1>2 DEF PutProgress
  <2>. QED
    BY <1>4, <1>6, <2>1, <2>2, <2>3 DEF PutProgress, RowsOf
<1>12. \A i \in Ids : r.placed[i] # NoSum => i \notin r.ids
  BY <1>6 DEF IInv, DrawsDisjoint
<1>13. /\ blobLock' \in [Checksums -> Procs \cup {NoProc}]
       /\ refLock' \in [Ids -> Procs \cup {NoProc}]
       /\ \A q \in Procs : q # p => \A d \in Checksums : blobLock'[d] = q <=> blobLock[d] = q
  BY <1>1, <1>2, ConstantsAssumption DEF TypeOK
<1>. QED
  BY <1>2, <1>3, <1>6, <1>7, <1>10, <1>11, <1>12, <1>13, LocalStep
(* The end of a transaction frees its locks and no others. *)
LEMMA UnlockEffect ==
  ASSUME TypeOK, NEW p \in Procs, Unlock(p)
  PROVE  /\ blobLock' \in [Checksums -> Procs \cup {NoProc}]
         /\ refLock' \in [Ids -> Procs \cup {NoProc}]
         /\ \A q \in Procs : q # p =>
              /\ \A c \in Checksums : blobLock'[c] = q <=> blobLock[c] = q
              /\ \A i \in Ids : refLock'[i] = q <=> refLock[i] = q
         /\ \A c \in Checksums : ~Holds(p, c)'
         /\ \A i \in Ids : refLock'[i] # p
  BY ConstantsAssumption DEF TypeOK, Unlock, Holds

(* What a failed attempt leaves: a call that raised, or one that begins     *)
(* again with its arguments and, where the client draws the ids, its ids.   *)
LEMMA FailedAttempt ==
  ASSUME IInv, NEW p \in Procs, tx[p].pc \in {"work", "commit"},
         NEW r \in Call,
         r.kind = tx[p].kind, r.want = tx[p].want, r.ids = tx[p].ids,
         r.placed = tx[p].placed,
         NEW s, s \in {AfterFailure(r), Raised(r)},
         tx'[p] = s,
         \A c \in Checksums : ~Holds(p, c)',
         \A i \in Ids : refLock'[i] # p
  PROVE  /\ s \in Call
         /\ AtRest(p)' /\ PutProgress(p)' /\ DeleteProgress(p)'
         /\ s.ids = tx[p].ids
         /\ \A i \in Ids : s.placed[i] # NoSum => tx[p].placed[i] # NoSum
<1>1. CASE s = Raised(r)
  <2>1. s \in Call /\ s.pc = "returned" /\ s.ids = tx[p].ids /\ s.placed = tx[p].placed
    BY ZenonT(60), <1>1, AfterFailureType DEF Raised, Call
  <2>. QED  BY <2>1 DEF AtRest, PutProgress, DeleteProgress
<1>2. CASE s # Raised(r)
  <2> DEFINE t == [Restarted(r) EXCEPT !.attempt = r.attempt + 1]
  <2>1. s = t /\ s \in Call
    BY <1>2, AfterFailureType DEF AfterFailure
  <2>2. /\ t.pc = "work" /\ t.kind = r.kind /\ t.want = r.want /\ t.ids = r.ids
        /\ t.left = r.want /\ t.scan = r.ids /\ t.deleted = NoRefs
        /\ t.spent = {} /\ t.purged = {}
        /\ t.placed = IF ClientIds THEN r.placed ELSE NoRefs
    BY DEF Restarted, Call
  <2> HIDE DEF t
  <2>3. AtRest(p)'
    BY <2>1, <2>2 DEF AtRest
  <2>4. PutProgress(p)'
    <3> SUFFICES ASSUME s.kind = "put" PROVE PutProgress(p)'
      BY DEF PutProgress
    <3>1. PutProgress(p) /\ tx[p].kind = "put"
      BY <2>1, <2>2 DEF IInv
    <3>2. tx[p].ids = {}
      BY <3>1 DEF PutProgress
    <3>3. ClientIds => \A c \in Checksums : Cardinality(RowsOf(tx[p].placed, c)) = tx[p].want[c]
      BY <3>1 DEF PutProgress
    <3>4. r.want \in [Checksums -> Nat]
      BY DEF Call
    <3>. QED
      BY <2>1, <2>2, <3>2, <3>3, <3>4 DEF PutProgress, RowsOf
  <2>5. DeleteProgress(p)'
    <3> SUFFICES ASSUME s.kind = "delete" PROVE DeleteProgress(p)'
      BY DEF DeleteProgress
    <3>1. tx[p].placed = NoRefs
      BY <2>1, <2>2 DEF IInv, DeleteProgress
    <3>. QED
      BY <2>1, <2>2, <3>1 DEF DeleteProgress, NoRefs
  <2>6. \A i \in Ids : s.placed[i] # NoSum => tx[p].placed[i] # NoSum
    BY <2>1, <2>2 DEF NoRefs
  <2>. QED  BY <2>1, <2>2, <2>3, <2>4, <2>5, <2>6
<1>. QED  BY <1>1, <1>2

(* The draws of a step that neither adds an id to the batch nor to the      *)
(* named ids.                                                               *)
LEMMA SameDraws ==
  ASSUME IInv, NEW p \in Procs, NEW r,
         r.ids = tx[p].ids,
         \A i \in Ids : r.placed[i] # NoSum => tx[p].placed[i] # NoSum
  PROVE  /\ \A i \in Ids : r.placed[i] # NoSum =>
              /\ i \notin r.ids
              /\ \/ tx[p].placed[i] # NoSum
                 \/ \A q \in Procs : tx[q].placed[i] = NoSum /\ i \notin tx[q].ids
         /\ \A i \in Ids : i \in r.ids =>
              i \in tx[p].ids \/ \A q \in Procs : tx[q].placed[i] = NoSum
  BY DEF IInv, DrawsDisjoint

(* A rollback leaves the tables as they were. *)
LEMMA FailIInv ==
  ASSUME IInv, NEW p \in Procs, Fail(p) \/ Abort(p)
  PROVE  IInv'
<1>1. PICK r \in {AfterFailure(tx[p]), Raised(tx[p])} :
        /\ tx[p].pc \in {"work", "commit"} /\ Unlock(p) /\ UNCHANGED db
        /\ tx' = [tx EXCEPT ![p] = r]
  BY DEF Fail, Abort
<1>2. TypeOK /\ tx[p] \in Call
  BY DEF IInv, TypeOK
<1>3. tx'[p] = r
  BY <1>1, <1>2 DEF TypeOK
<1>4. /\ r \in Call
      /\ AtRest(p)' /\ PutProgress(p)' /\ DeleteProgress(p)'
      /\ r.ids = tx[p].ids
      /\ \A i \in Ids : r.placed[i] # NoSum => tx[p].placed[i] # NoSum
  BY <1>1, <1>2, <1>3, FailedAttempt, UnlockEffect
<1>. QED
  BY <1>1, <1>2, <1>4, UnlockEffect, SameDraws, LocalStep

(* The caller goes on. *)
LEMMA ReturnIInv ==
  ASSUME IInv, NEW p \in Procs, Return(p)
  PROVE  IInv'
<1>1. tx[p].pc = "returned" /\ tx' = [tx EXCEPT ![p] = Idle] /\ UNCHANGED <<db, locks>>
  BY DEF Return
<1>2. TypeOK /\ AtRest(p)
  BY DEF IInv
<1>3. tx'[p] = Idle
  BY <1>1, <1>2 DEF TypeOK
<1>4. Idle.pc = "idle" /\ Idle.ids = {} /\ Idle.placed = NoRefs
  BY DEF Idle
<1>5. AtRest(p)' /\ PutProgress(p)' /\ DeleteProgress(p)'
  BY <1>1, <1>2, <1>3, <1>4 DEF AtRest, PutProgress, DeleteProgress, Holds, locks
<1>. QED
  BY <1>1, <1>2, <1>4, <1>5, IdleType, LocalStep DEF TypeOK, locks, NoRefs

(* delete, delete_many: nothing is touched yet. *)
LEMMA BeginDeleteIInv ==
  ASSUME IInv, NEW p \in Procs, BeginDelete(p)
  PROVE  IInv'
<1>1. PICK S \in SUBSET Ids, own \in BOOLEAN :
        /\ \A i \in S, q \in Procs : tx[q].placed[i] = NoSum
        /\ tx' = [tx EXCEPT ![p] = [Idle EXCEPT !.pc = "work",
                   !.kind = "delete", !.pooled = own, !.ids = S, !.scan = S]]
  BY DEF BeginDelete
<1> DEFINE r == [Idle EXCEPT !.pc = "work",
                   !.kind = "delete", !.pooled = own, !.ids = S, !.scan = S]
<1>2. tx[p].pc = "idle" /\ TypeOK /\ AtRest(p) /\ UNCHANGED <<db, locks>>
  BY DEF BeginDelete, IInv
<1>3. tx' = [tx EXCEPT ![p] = r] /\ tx'[p] = r
  BY <1>1, <1>2 DEF TypeOK
<1>4. r \in Call
  BY IdleType DEF Call
<1>5. /\ r.pc = "work" /\ r.kind = "delete" /\ r.ids = S /\ r.scan = S /\ r.spent = {}
      /\ r.placed = NoRefs /\ r.deleted = NoRefs /\ r.purged = {}
  BY DEF Idle
<1> HIDE DEF r
<1>6. AtRest(p)' /\ PutProgress(p)'
  BY <1>3, <1>5 DEF AtRest, PutProgress
<1>7. DeleteProgress(p)'
  <2>1. \A c \in Checksums : ~Holds(p, c)'
    BY <1>2 DEF AtRest, Holds, locks
  <2>. QED
    BY <1>3, <1>5, <2>1 DEF DeleteProgress, NoRefs
<1>8. \A i \in Ids : r.placed[i] = NoSum /\ (i \in r.ids => \A q \in Procs : tx[q].placed[i] = NoSum)
  BY <1>1, <1>5 DEF NoRefs
<1>9. UNCHANGED db /\ blobLock' = blobLock /\ refLock' = refLock
  BY <1>2 DEF locks
<1>. QED
  BY <1>2, <1>3, <1>4, <1>6, <1>7, <1>8, <1>9, LocalStep DEF TypeOK
(* The refs of a batch: new ids, one per row of the batch. *)
LEMMA InsertRefsIInv ==
  ASSUME IInv, NEW p \in Procs, InsertRefs(p)
  PROVE  IInv'
<1>1. /\ tx[p].pc = "work" /\ tx[p].kind = "put" /\ UNCHANGED db
      /\ \A c \in Checksums : tx[p].left[c] = 0
  BY DEF InsertRefs
<1>2. TypeOK /\ tx[p] \in Call /\ PutProgress(p)
  BY DEF IInv, TypeOK
<1>3. ASSUME NEW f \in RefMap,
             \A i \in Ids : f[i] # NoSum => refs[i] = NoSum,
             \A c \in Checksums : Cardinality(RowsOf(f, c)) = tx[p].want[c],
             \A i \in Ids : f[i] # NoSum =>
               \/ tx[p].placed[i] # NoSum
               \/ \A q \in Procs : tx[q].placed[i] = NoSum /\ i \notin tx[q].ids,
             tx' = [tx EXCEPT ![p].placed = f, ![p].pc = "commit"],
             UNCHANGED locks
      PROVE  IInv'
  <2> DEFINE r == [tx[p] EXCEPT !.placed = f, !.pc = "commit"]
  <2>1. r \in Call
    BY <1>2 DEF Call
  <2>2. /\ r.pc = "commit" /\ r.placed = f /\ r.kind = "put" /\ r.want = tx[p].want
        /\ r.left = tx[p].left /\ r.ids = tx[p].ids /\ r.deleted = tx[p].deleted
        /\ r.purged = tx[p].purged /\ r.counts = tx[p].counts
    BY <1>1, <1>2 DEF Call
  <2>3. tx' = [tx EXCEPT ![p] = r]
    BY <1>3
  <2> HIDE DEF r
  <2>4. tx'[p] = r
    BY <1>2, <2>3 DEF TypeOK
  <2>5. AtRest(p)' /\ DeleteProgress(p)'
    BY <2>2, <2>4 DEF AtRest, DeleteProgress
  <2>6. tx[p].ids = {} /\ tx[p].deleted = NoRefs /\ tx[p].purged = {}
    BY <1>1, <1>2 DEF PutProgress
  <2>7. PutProgress(p)'
    <3>1. \A i \in Ids : refLock'[i] # p
      BY <1>1, <1>2, <1>3 DEF PutProgress, locks
    <3>2. ASSUME NEW c \in Checksums
          PROVE  /\ r.left[c] <= r.want[c] /\ r.left[c] = 0
                 /\ Holds(p, c)' <=> r.left[c] < r.want[c]
                 /\ Holds(p, c)' => r.counts[c] = refCount'[c] + r.want[c] - r.left[c]
      BY <1>1, <1>2, <1>3, <2>2 DEF PutProgress, Holds, locks, db
    <3>3. \A i \in Support(r.placed) : refs'[i] = NoSum
      BY <1>1, <1>3, <2>2 DEF Support, db
    <3>4. \A c \in Checksums : Cardinality(RowsOf(r.placed, c)) = r.want[c]
      BY <1>3, <2>2
    <3>5. r.deleted = NoRefs /\ r.purged = {} /\ r.ids = {}
      BY <2>2, <2>6
    <3>6. Support(tx[p].placed)' = Support(r.placed)
          /\ \A c \in Checksums : RowsOf(tx[p].placed, c)' = RowsOf(r.placed, c)
      BY <2>4 DEF Support, RowsOf
    <3>. QED
      BY <2>2, <2>4, <3>1, <3>2, <3>3, <3>4, <3>5, <3>6 DEF PutProgress
  <2>8. UNCHANGED db /\ blobLock' = blobLock /\ refLock' = refLock
    BY <1>1, <1>3 DEF locks
  <2>9. /\ \A i \in Ids : r.placed[i] # NoSum =>
             /\ i \notin r.ids
             /\ \/ tx[p].placed[i] # NoSum
                \/ \A q \in Procs : tx[q].placed[i] = NoSum /\ i \notin tx[q].ids
        /\ \A i \in Ids : i \in r.ids =>
             i \in tx[p].ids \/ \A q \in Procs : tx[q].placed[i] = NoSum
    BY <1>3, <2>2, <2>6
  <2>10. /\ blobLock' \in [Checksums -> Procs \cup {NoProc}]
         /\ refLock' \in [Ids -> Procs \cup {NoProc}]
    BY <1>2, <2>8 DEF TypeOK
  <2>. QED
    BY <1>1, <2>1, <2>3, <2>5, <2>7, <2>8, <2>9, <2>10, LocalStep
<1>4. CASE ~ClientIds
  <2>1. PICK f \in Draws(tx[p].want) :
          tx' = [tx EXCEPT ![p].placed = f, ![p].pc = "commit"]
    BY <1>4 DEF InsertRefs
  <2>2. UNCHANGED locks
    BY <1>4 DEF InsertRefs
  <2>3. /\ f \in RefMap
        /\ \A c \in Checksums : Cardinality(RowsOf(f, c)) = tx[p].want[c]
        /\ \A i \in Ids : f[i] # NoSum => Fresh(i)
    BY DEF Draws, Support
  <2>4. \A i \in Ids : f[i] # NoSum =>
          /\ refs[i] = NoSum
          /\ \A q \in Procs : tx[q].placed[i] = NoSum /\ i \notin tx[q].ids
    BY <2>3 DEF Fresh
  <2>. QED
    BY ZenonT(60), <1>3, <2>1, <2>2, <2>3, <2>4
<1>5. CASE ClientIds /\ \A i \in Support(tx[p].placed) : refs[i] = NoSum
  <2>1. tx' = [tx EXCEPT ![p].pc = "commit"] /\ UNCHANGED locks
    BY <1>5 DEF InsertRefs
  <2>2. [tx EXCEPT ![p].pc = "commit"] =
          [tx EXCEPT ![p].placed = tx[p].placed, ![p].pc = "commit"]
    BY <1>2 DEF TypeOK, Call
  <2>3. tx[p].placed \in RefMap
    BY <1>2 DEF Call
  <2>4. \A c \in Checksums : Cardinality(RowsOf(tx[p].placed, c)) = tx[p].want[c]
    BY <1>1, <1>2, <1>5 DEF PutProgress
  <2>. QED
    BY <1>3, <1>5, <2>1, <2>2, <2>3, <2>4 DEF Support
<1>6. CASE ClientIds /\ ~(\A i \in Support(tx[p].placed) : refs[i] = NoSum)
  <2> DEFINE r == Raised(tx[p])
  <2>1. tx' = [tx EXCEPT ![p] = r] /\ Unlock(p)
    BY <1>6 DEF InsertRefs
  <2>2. tx'[p] = r
    BY <1>2, <2>1 DEF TypeOK
  <2>3. /\ r \in Call
        /\ AtRest(p)' /\ PutProgress(p)' /\ DeleteProgress(p)'
        /\ r.ids = tx[p].ids
        /\ \A i \in Ids : r.placed[i] # NoSum => tx[p].placed[i] # NoSum
    BY <1>1, <1>2, <2>1, <2>2, FailedAttempt, UnlockEffect
  <2> HIDE DEF r
  <2>. QED
    BY <1>1, <1>2, <2>1, <2>3, UnlockEffect, SameDraws, LocalStep
<1>. QED  BY <1>4, <1>5, <1>6

(* A row that the DELETE has locked stays as it was until the end. *)
LEMMA DeleteRefIInv ==
  ASSUME IInv, NEW p \in Procs, NEW i \in Ids, DeleteRef(p, i)
  PROVE  IInv'
<1> DEFINE r == [tx[p] EXCEPT !.scan = @ \ {i}, !.deleted[i] = refs[i]]
<1>1. /\ tx[p].pc = "work" /\ tx[p].kind = "delete" /\ i \in tx[p].scan
      /\ refLock[i] = NoProc
      /\ refLock' = IF refs[i] = NoSum THEN refLock ELSE [refLock EXCEPT ![i] = p]
      /\ UNCHANGED db /\ blobLock' = blobLock
  BY DEF DeleteRef
<1>2. TypeOK /\ tx[p] \in Call /\ DeleteProgress(p)
  BY DEF IInv, TypeOK
<1>3. tx' = [tx EXCEPT ![p] = r]
  BY DEF DeleteRef
<1>4. tx'[p] = r
  BY <1>2, <1>3 DEF TypeOK
<1>5. /\ r.pc = "work" /\ r.kind = "delete" /\ r.ids = tx[p].ids /\ r.placed = tx[p].placed
      /\ r.spent = tx[p].spent /\ r.counts = tx[p].counts /\ r.purged = tx[p].purged
      /\ r.scan = tx[p].scan \ {i}
      /\ r.deleted = [tx[p].deleted EXCEPT ![i] = refs[i]]
  BY <1>1, <1>2 DEF Call
<1>6. r \in Call
  <2>1. [tx[p].deleted EXCEPT ![i] = refs[i]] \in RefMap
    BY <1>2 DEF Call, RefMap, TypeOK
  <2>2. tx[p].scan \ {i} \in SUBSET Ids
    BY <1>2 DEF Call
  <2>. QED  BY <1>2, <2>1, <2>2 DEF Call
<1> HIDE DEF r
<1>7. /\ refLock' \in [Ids -> Procs \cup {NoProc}]
      /\ \A q \in Procs : q # p => \A j \in Ids : refLock'[j] = q <=> refLock[j] = q
  BY <1>1, <1>2, ConstantsAssumption DEF TypeOK
<1>8. AtRest(p)' /\ PutProgress(p)'
  BY <1>4, <1>5 DEF AtRest, PutProgress
<1>9. DeleteProgress(p)'
  <2>1. /\ tx[p].placed = NoRefs /\ tx[p].spent = {} /\ tx[p].purged = {}
        /\ tx[p].scan \subseteq tx[p].ids
        /\ \A c \in Checksums : ~Holds(p, c)'
    BY <1>1, <1>2 DEF DeleteProgress, Holds
  <2>2. ASSUME NEW j \in Ids
        PROVE  /\ r.deleted[j] # NoSum => refLock'[j] = p /\ refs'[j] = r.deleted[j] /\ j \in r.ids
               /\ j \in r.ids => j \in r.scan \/ refs'[j] = r.deleted[j]
    <3>1. CASE j = i
      BY <1>1, <1>2, <1>5, <2>1, <3>1 DEF TypeOK, Call, RefMap, db
    <3>2. CASE j # i
      BY <1>1, <1>2, <1>5, <2>1, <3>2 DEF DeleteProgress, TypeOK, Call, RefMap, db
    <3>. QED  BY <3>1, <3>2
  <2>. QED
    BY <1>4, <1>5, <2>1, <2>2 DEF DeleteProgress
<1>10. /\ \A j \in Ids : r.placed[j] # NoSum =>
            j \notin r.ids /\ tx[p].placed[j] # NoSum
       /\ \A j \in Ids : j \in r.ids => j \in tx[p].ids
  BY <1>5, SameDraws
<1>. QED
  BY <1>1, <1>2, <1>3, <1>6, <1>7, <1>8, <1>9, <1>10, LocalStep DEF TypeOK
(* A decrement: the lock makes the count it sees the committed one minus its rows. *)
LEMMA DecrementBlobIInv ==
  ASSUME IInv, NEW p \in Procs, NEW c \in Checksums, DecrementBlob(p, c)
  PROVE  IInv'
<1> DEFINE n == Seen(p, c) - Cardinality(RowsOf(tx[p].deleted, c))
           r == [tx[p] EXCEPT !.spent = @ \cup {c}, !.counts[c] = n]
<1>1. TypeOK /\ tx[p] \in Call /\ DeleteProgress(p) /\ NoDanglingRef
  BY DEF IInv, TypeOK
<1>2. /\ tx[p].pc = "work" /\ tx[p].kind = "delete" /\ tx[p].scan = {}
      /\ c \in Owed(p) /\ \A d \in Owed(p) : c <= d
      /\ blobLock[c] \in {p, NoProc}
      /\ UNCHANGED db
  BY DEF DecrementBlob, Free
<1>3. c \in blobs
  <2>1. PICK i \in Ids : tx[p].deleted[i] = c
    BY <1>2 DEF Owed, RowsOf
  <2>2. refs[i] = c
    BY <1>1, <1>2, <2>1, ConstantsAssumption DEF DeleteProgress
  <2>. QED  BY <1>1, <2>2, ConstantsAssumption DEF NoDanglingRef
<1>4. /\ blobLock' = [blobLock EXCEPT ![c] = p]
      /\ refLock' = refLock
      /\ tx' = [tx EXCEPT ![p].spent = @ \cup {c}, ![p].counts[c] = n]
  BY <1>3 DEF DecrementBlob
<1>5. ~Holds(p, c) /\ c \notin tx[p].spent
  BY <1>1, <1>2 DEF DeleteProgress, Owed
<1>6. n = refCount[c] - Cardinality(RowsOf(tx[p].deleted, c)) /\ n \in Int
  BY <1>1, <1>5, RowsFinite DEF Seen, Holds, TypeOK
<1>7. r \in Call
  <2>1. [tx[p].counts EXCEPT ![c] = n] \in [Checksums -> Int]
    BY <1>1, <1>6 DEF Call
  <2>2. tx[p].spent \cup {c} \in SUBSET Checksums
    BY <1>1 DEF Call
  <2>. QED  BY <1>1, <2>1, <2>2 DEF Call
<1>8. /\ r.pc = "work" /\ r.kind = "delete" /\ r.ids = tx[p].ids /\ r.placed = tx[p].placed
      /\ r.scan = {} /\ r.deleted = tx[p].deleted /\ r.purged = tx[p].purged
      /\ r.spent = tx[p].spent \cup {c}
      /\ r.counts = [tx[p].counts EXCEPT ![c] = n]
  BY <1>1, <1>2 DEF Call
<1>9. tx' = [tx EXCEPT ![p] = r]
  BY <1>4
<1> HIDE DEF r, n
<1>10. tx'[p] = r
  BY <1>1, <1>9 DEF TypeOK
<1>11. AtRest(p)' /\ PutProgress(p)'
  BY <1>8, <1>10 DEF AtRest, PutProgress
<1>12. Owed(p)' = Owed(p) \ {c}
  BY <1>8, <1>10 DEF Owed, RowsOf
<1>13. DeleteProgress(p)'
  <2>1. ASSUME NEW i \in Ids
        PROVE  /\ r.deleted[i] # NoSum => refLock'[i] = p /\ refs'[i] = r.deleted[i] /\ i \in r.ids
               /\ i \in r.ids => i \in r.scan \/ refs'[i] = r.deleted[i]
    BY <1>1, <1>2, <1>4, <1>8 DEF DeleteProgress, db
  <2>2. \A d \in Checksums : Holds(p, d)' <=> d \in r.spent
    BY <1>1, <1>2, <1>4, <1>8 DEF DeleteProgress, Holds, TypeOK
  <2>3. ASSUME NEW d \in r.spent
        PROVE  /\ RowsOf(r.deleted, d) # {}
               /\ r.counts[d] = refCount'[d] - Cardinality(RowsOf(r.deleted, d))
               /\ \A e \in Owed(p)' : d <= e
    <3>1. CASE d = c
      BY <1>1, <1>2, <1>6, <1>8, <1>12, <3>1 DEF Owed, Call, db
    <3>2. CASE d # c
      BY <1>1, <1>2, <1>8, <1>12, <2>3, <3>2 DEF DeleteProgress, Call, db
    <3>. QED  BY <3>1, <3>2
  <2>4. r.placed = NoRefs /\ r.purged = {} /\ r.scan \subseteq r.ids
    BY <1>1, <1>2, <1>8 DEF DeleteProgress
  <2>5. \A d \in Checksums : RowsOf(tx[p].deleted, d)' = RowsOf(r.deleted, d)
    BY <1>10 DEF RowsOf
  <2>6. r.spent \subseteq Checksums
    BY <1>7 DEF Call
  <2>. QED
    BY <1>8, <1>10, <2>1, <2>2, <2>3, <2>4, <2>5, <2>6 DEF DeleteProgress
<1>14. /\ blobLock' \in [Checksums -> Procs \cup {NoProc}]
       /\ refLock' \in [Ids -> Procs \cup {NoProc}]
       /\ \A q \in Procs : q # p => \A d \in Checksums : blobLock'[d] = q <=> blobLock[d] = q
  BY <1>1, <1>2, <1>4, ConstantsAssumption DEF TypeOK
<1>15. /\ \A j \in Ids : r.placed[j] # NoSum =>
            j \notin r.ids /\ tx[p].placed[j] # NoSum
       /\ \A j \in Ids : j \in r.ids => j \in tx[p].ids
  BY <1>8, SameDraws
<1>. QED
  BY <1>2, <1>4, <1>7, <1>9, <1>11, <1>13, <1>14, <1>15, LocalStep

(* The purge names the decremented blobs whose count came to nothing. *)
LEMMA PurgeBlobsIInv ==
  ASSUME IInv, NEW p \in Procs, PurgeBlobs(p)
  PROVE  IInv'
<1> DEFINE e == {c \in tx[p].spent : tx[p].counts[c] <= 0}
           r == [tx[p] EXCEPT !.pc = "commit", !.purged = e]
<1>1. TypeOK /\ tx[p] \in Call /\ DeleteProgress(p)
  BY DEF IInv, TypeOK
<1>2. /\ tx[p].pc = "work" /\ tx[p].kind = "delete" /\ tx[p].scan = {} /\ Owed(p) = {}
      /\ UNCHANGED db /\ blobLock' = blobLock /\ refLock' = refLock
  BY DEF PurgeBlobs, locks
<1>3. tx' = [tx EXCEPT ![p] = r]
  BY DEF PurgeBlobs
<1>4. r \in Call
  BY <1>1 DEF Call
<1>5. /\ r.pc = "commit" /\ r.kind = "delete" /\ r.ids = tx[p].ids /\ r.placed = tx[p].placed
      /\ r.scan = {} /\ r.deleted = tx[p].deleted /\ r.purged = e
      /\ r.spent = tx[p].spent /\ r.counts = tx[p].counts
  BY <1>1, <1>2 DEF Call
<1> HIDE DEF r
<1>6. tx'[p] = r
  BY <1>1, <1>3 DEF TypeOK
<1>7. AtRest(p)' /\ PutProgress(p)'
  BY <1>5, <1>6 DEF AtRest, PutProgress
<1>8. DeleteProgress(p)'
  <2>1. Owed(p)' = {} /\ \A d \in Checksums : RowsOf(tx[p].deleted, d)' = RowsOf(tx[p].deleted, d)
    BY <1>2, <1>5, <1>6 DEF Owed, RowsOf
  <2>2. tx[p].spent \subseteq Checksums
    BY <1>1 DEF Call
  <2>. QED
    BY <1>1, <1>2, <1>5, <1>6, <2>1, <2>2 DEF DeleteProgress, Holds, db
<1>9. /\ \A j \in Ids : r.placed[j] # NoSum =>
            j \notin r.ids /\ tx[p].placed[j] # NoSum
      /\ \A j \in Ids : j \in r.ids => j \in tx[p].ids
  BY <1>5, SameDraws
<1>. QED
  BY <1>1, <1>2, <1>3, <1>4, <1>7, <1>8, <1>9, LocalStep DEF TypeOK

(* Two ref maps with no id in common: the rows of their union add up. *)
LEMMA AddRows ==
  ASSUME NEW f \in RefMap, NEW g \in RefMap, NEW h \in RefMap, NEW c \in Checksums,
         \A i \in Ids : g[i] # NoSum => f[i] = NoSum,
         \A i \in Ids : h[i] = IF g[i] # NoSum THEN g[i] ELSE f[i]
  PROVE  Cardinality(RowsOf(h, c)) = Cardinality(RowsOf(f, c)) + Cardinality(RowsOf(g, c))
<1>1. c # NoSum
  BY ConstantsAssumption
<1>2. RowsOf(h, c) = RowsOf(f, c) \cup RowsOf(g, c)
  BY <1>1 DEF RowsOf
<1>3. RowsOf(f, c) \cap RowsOf(g, c) = {}
  BY <1>1 DEF RowsOf
<1>4. Cardinality({}) = 0
  BY FS_EmptySet
<1>5. Cardinality(RowsOf(f, c) \cup RowsOf(g, c)) =
        Cardinality(RowsOf(f, c)) + Cardinality(RowsOf(g, c)) - Cardinality(RowsOf(f, c) \cap RowsOf(g, c))
  BY RowsFinite, FS_Union
<1>6. Cardinality(RowsOf(f, c) \cap RowsOf(g, c)) = 0
  BY <1>3, <1>4
<1>7. Cardinality(RowsOf(f, c)) \in Nat /\ Cardinality(RowsOf(g, c)) \in Nat
  BY RowsFinite
<1>8. Cardinality(RowsOf(h, c)) = Cardinality(RowsOf(f, c) \cup RowsOf(g, c))
  BY <1>2
<1>. QED
  BY <1>5, <1>6, <1>7, <1>8

(* The committed tables agree when each blob row is there exactly while its *)
(* exact count is not 0.                                                    *)
LEMMA CountsDecide ==
  ASSUME NEW B \in SUBSET Checksums, NEW f \in RefMap, NEW n \in [Checksums -> Int],
         \A c \in Checksums : n[c] = Cardinality(RowsOf(f, c))
  PROVE  (\A c \in Checksums : c \in B <=> n[c] # 0) <=>
         /\ \A i \in Ids : f[i] # NoSum => f[i] \in B
         /\ \A c \in B : \E i \in Ids : f[i] = c
<1>1. \A c \in Checksums : n[c] # 0 <=> \E i \in Ids : f[i] = c
  BY NoRows
<1>2. \A i \in Ids : f[i] # NoSum => f[i] \in Checksums
  BY DEF RefMap
<1>3. NoSum \notin Checksums
  BY ConstantsAssumption
<1>. QED
  BY <1>1, <1>2, <1>3

(* The commit itself: tables, counts and refs change together, and still agree. *)
LEMMA BlobsCounted ==
  ASSUME IInv
  PROVE  \A c \in Checksums : c \in blobs <=> refCount[c] # 0
<1>1. /\ blobs \in SUBSET Checksums /\ refs \in RefMap /\ refCount \in [Checksums -> Int]
      /\ \A c \in Checksums : refCount[c] = Cardinality(RowsOf(refs, c))
      /\ \A i \in Ids : refs[i] # NoSum => refs[i] \in blobs
      /\ \A c \in blobs : \E i \in Ids : refs[i] = c
  BY DEF IInv, TypeOK, RefCountExact, NoDanglingRef, NoLeakedBlob
<1>. QED
  BY <1>1, CountsDecide

(* What the commit of a put does to the committed tables. *)
LEMMA InstallPut ==
  ASSUME IInv, NEW p \in Procs, tx[p].pc = "commit", tx[p].kind = "put", Install(p)
  PROVE  /\ RefCountExact'
         /\ \A c \in Checksums : c \in blobs' <=> refCount'[c] # 0
         /\ \A i \in Ids : refs'[i] = IF tx[p].placed[i] # NoSum THEN tx[p].placed[i] ELSE refs[i]
         /\ \A c \in Checksums : ~Holds(p, c) => refCount'[c] = refCount[c]
<1>1. TypeOK /\ tx[p] \in Call /\ PutProgress(p) /\ RefCountExact
  BY DEF IInv, TypeOK
<1>2. /\ tx[p].deleted = NoRefs /\ tx[p].purged = {}
      /\ \A i \in Ids : tx[p].placed[i] # NoSum => refs[i] = NoSum
  BY <1>1 DEF PutProgress, Support
<1>3. ASSUME NEW c \in Checksums
      PROVE  /\ tx[p].want[c] \in Nat
             /\ Cardinality(RowsOf(tx[p].placed, c)) = tx[p].want[c]
             /\ Holds(p, c) <=> 0 < tx[p].want[c]
             /\ Holds(p, c) => tx[p].counts[c] = refCount[c] + tx[p].want[c]
  BY <1>1 DEF PutProgress, Call, TypeOK
<1>4. \A i \in Ids : refs'[i] = IF tx[p].placed[i] # NoSum THEN tx[p].placed[i] ELSE refs[i]
  BY <1>2 DEF Install, NoRefs
<1>5. refs' \in RefMap /\ tx[p].placed \in RefMap /\ refs \in RefMap
  BY <1>1 DEF Install, TypeOK, Call, RefMap
<1>6. \A c \in Checksums : Cardinality(RowsOf(refs', c)) = Cardinality(RowsOf(refs, c)) + tx[p].want[c]
  BY <1>2, <1>3, <1>4, <1>5, AddRows
<1>7. \A c \in Checksums : /\ refCount[c] \in Nat
                           /\ refCount[c] = Cardinality(RowsOf(refs, c))
  BY <1>1, RowsFinite DEF RefCountExact
<1>8. \A c \in Checksums : /\ refCount'[c] = refCount[c] + tx[p].want[c]
                           /\ c \in blobs' <=> c \in blobs \/ Holds(p, c)
  BY <1>2, <1>3, <1>7 DEF Install, Holds
<1>9. \A c \in Checksums : c \in blobs <=> refCount[c] # 0
  BY BlobsCounted
<1>10. RefCountExact'
  BY <1>6, <1>7, <1>8 DEF RefCountExact
<1>11. \A c \in Checksums : c \in blobs' <=> refCount'[c] # 0
  BY <1>3, <1>7, <1>8, <1>9
<1>12. \A c \in Checksums : ~Holds(p, c) => refCount'[c] = refCount[c]
  BY <1>3, <1>7, <1>8
<1>. QED
  BY <1>4, <1>10, <1>11, <1>12

(* What the commit of a delete does to the committed tables. *)
LEMMA InstallDelete ==
  ASSUME IInv, NEW p \in Procs, tx[p].pc = "commit", tx[p].kind = "delete", Install(p)
  PROVE  /\ RefCountExact'
         /\ \A c \in Checksums : c \in blobs' <=> refCount'[c] # 0
         /\ \A i \in Ids : refs'[i] = IF tx[p].deleted[i] # NoSum THEN NoSum ELSE refs[i]
         /\ \A c \in Checksums : ~Holds(p, c) => refCount'[c] = refCount[c]
<1> DEFINE gone(c) == Cardinality(RowsOf(tx[p].deleted, c))
<1>1. TypeOK /\ tx[p] \in Call /\ DeleteProgress(p) /\ RefCountExact
  BY DEF IInv, TypeOK
<1>2. /\ tx[p].placed = NoRefs /\ Owed(p) = {}
      /\ tx[p].purged = {c \in tx[p].spent : tx[p].counts[c] <= 0}
      /\ \A i \in Ids : tx[p].deleted[i] # NoSum => refs[i] = tx[p].deleted[i]
      /\ \A c \in Checksums : Holds(p, c) <=> c \in tx[p].spent
      /\ \A c \in tx[p].spent : tx[p].counts[c] = refCount[c] - gone(c)
  BY <1>1 DEF DeleteProgress
<1>3. \A i \in Ids : refs'[i] = IF tx[p].deleted[i] # NoSum THEN NoSum ELSE refs[i]
  BY <1>2 DEF Install, NoRefs
<1>4. refs' \in RefMap /\ tx[p].deleted \in RefMap /\ refs \in RefMap
  BY <1>1 DEF Install, TypeOK, Call, RefMap
<1>5. \A c \in Checksums : Cardinality(RowsOf(refs, c)) = Cardinality(RowsOf(refs', c)) + gone(c)
  BY <1>2, <1>3, <1>4, AddRows
<1>6. \A c \in Checksums : /\ refCount[c] \in Nat
                           /\ refCount[c] = Cardinality(RowsOf(refs, c))
                           /\ Cardinality(RowsOf(refs', c)) \in Nat
                           /\ gone(c) \in Nat
  BY <1>1, RowsFinite DEF RefCountExact
<1>7. \A c \in Checksums : c \notin tx[p].spent => gone(c) = 0
  BY <1>2, FS_EmptySet DEF Owed
<1>8. ASSUME NEW c \in Checksums
      PROVE  /\ refCount'[c] = refCount[c] - gone(c)
             /\ c \in blobs' <=> (c \in blobs \/ Holds(p, c)) /\ c \notin tx[p].purged
  <2>1. c \in blobs' <=> (c \in blobs \/ Holds(p, c)) /\ c \notin tx[p].purged
    BY DEF Install, Holds
  <2>2. refCount'[c] = IF c \in tx[p].purged THEN 0
                       ELSE IF Holds(p, c) THEN tx[p].counts[c] ELSE refCount[c]
    BY DEF Install, Holds
  <2>3. CASE c \in tx[p].spent
    <3>1. tx[p].counts[c] = refCount[c] - gone(c) /\ Holds(p, c)
      BY <1>2, <2>3
    <3>2. refCount[c] - gone(c) >= 0
      BY <1>5, <1>6
    <3>3. c \in tx[p].purged <=> tx[p].counts[c] <= 0
      BY <1>2, <2>3
    <3>4. gone(c) \in Nat /\ refCount[c] \in Nat
      BY <1>6
    <3> HIDE DEF gone
    <3>. QED  BY <2>1, <2>2, <3>1, <3>2, <3>3, <3>4
  <2>4. CASE c \notin tx[p].spent
    <3>1. gone(c) = 0 /\ c \notin tx[p].purged /\ ~Holds(p, c) /\ refCount[c] \in Nat
      BY <1>2, <1>6, <1>7, <2>4
    <3> HIDE DEF gone
    <3>. QED  BY <2>1, <2>2, <3>1
  <2>. QED  BY <2>3, <2>4
<1>9. \A c \in Checksums : c \in blobs <=> refCount[c] # 0
  BY BlobsCounted
<1>10. ASSUME NEW c \in Checksums PROVE refCount'[c] = Cardinality(RowsOf(refs', c))
  <2>1. /\ refCount'[c] = refCount[c] - gone(c)
        /\ refCount[c] = Cardinality(RowsOf(refs', c)) + gone(c)
        /\ Cardinality(RowsOf(refs', c)) \in Nat /\ gone(c) \in Nat
    BY <1>5, <1>6, <1>8
  <2> HIDE DEF gone
  <2>. QED  BY <2>1
<1>11. ASSUME NEW c \in Checksums PROVE c \in blobs' <=> refCount'[c] # 0
  <2>1. CASE c \in tx[p].spent
    <3>1. /\ refCount'[c] = refCount[c] - gone(c) /\ tx[p].counts[c] = refCount[c] - gone(c)
          /\ Holds(p, c)
          /\ c \in tx[p].purged <=> tx[p].counts[c] <= 0
      BY <1>2, <1>8, <2>1
    <3>2. refCount'[c] \in Nat
      BY <1>6, <1>10
    <3>. QED  BY <1>8, <3>1, <3>2
  <2>2. CASE c \notin tx[p].spent
    <3>1. gone(c) = 0 /\ c \notin tx[p].purged /\ ~Holds(p, c) /\ refCount[c] \in Nat
      BY <1>2, <1>6, <1>7, <2>2
    <3>2. refCount'[c] = refCount[c] - gone(c)
      BY <1>8
    <3>3. refCount'[c] = refCount[c]
      BY <3>1, <3>2
    <3>. QED  BY <1>8, <1>9, <3>1, <3>3
  <2>. QED  BY <2>1, <2>2
<1>12. ASSUME NEW c \in Checksums, ~Holds(p, c) PROVE refCount'[c] = refCount[c]
  <2>1. gone(c) = 0 /\ refCount[c] \in Nat /\ refCount'[c] = refCount[c] - gone(c)
    BY <1>2, <1>6, <1>7, <1>8, <1>12
  <2>. QED  BY <2>1
<1>. QED
  BY <1>3, <1>10, <1>11, <1>12 DEF RefCountExact

(* A commit keeps the committed tables consistent with each other. *)
LEMMA InstallDB ==
  ASSUME IInv, NEW p \in Procs, tx[p].pc = "commit", Install(p)
  PROVE  /\ blobs' \subseteq Checksums
         /\ refCount' \in [Checksums -> Int]
         /\ refs' \in RefMap
         /\ RefCountExact' /\ NoDanglingRef' /\ NoLeakedBlob'
<1>1. TypeOK /\ tx[p] \in Call
  BY DEF IInv, TypeOK
<1>2. /\ blobs' \in SUBSET Checksums
      /\ refCount' \in [Checksums -> Int]
      /\ refs' \in RefMap
  BY <1>1 DEF Install, TypeOK, Call, RefMap
<1>3. tx[p].kind \in {"put", "delete"}
  BY <1>1 DEF Call
<1>4. RefCountExact' /\ \A c \in Checksums : c \in blobs' <=> refCount'[c] # 0
  BY <1>3, InstallPut, InstallDelete
<1>5. \A c \in Checksums : refCount'[c] = Cardinality(RowsOf(refs', c))
  BY <1>4 DEF RefCountExact, RowsOf
<1>6. /\ \A i \in Ids : refs'[i] # NoSum => refs'[i] \in blobs'
      /\ \A c \in blobs' : \E i \in Ids : refs'[i] = c
  BY <1>2, <1>4, <1>5, CountsDecide
<1>. QED
  BY <1>2, <1>4, <1>6 DEF NoDanglingRef, NoLeakedBlob

(* The commit of p changes no blob and no ref row that another call q has   *)
(* locked, and stores no id that q has drawn or names.                      *)
LEMMA InstallOthers ==
  ASSUME IInv, NEW p \in Procs, tx[p].pc = "commit", Install(p),
         NEW q \in Procs, q # p, tx'[q] = tx[q]
  PROVE  AtRest(q)' /\ PutProgress(q)' /\ DeleteProgress(q)'
<1>1. /\ TypeOK /\ tx[p] \in Call /\ AtRest(q) /\ PutProgress(q) /\ DeleteProgress(q)
      /\ DeleteProgress(p) /\ PutProgress(p) /\ DrawsDisjoint
  BY DEF IInv, TypeOK
<1>2. /\ \A c \in Checksums : Holds(q, c)' <=> Holds(q, c)
      /\ \A i \in Ids : refLock'[i] = q <=> refLock[i] = q
  BY <1>1, UnlockEffect DEF Install, Holds
<1>3. \A c \in Checksums : Holds(q, c) => refCount'[c] = refCount[c]
  <2>1. \A c \in Checksums : ~Holds(p, c) => refCount'[c] = refCount[c]
    BY <1>1, InstallPut, InstallDelete DEF Call
  <2>. QED  BY <2>1 DEF Holds
<1>4. \A i \in Ids : refs'[i] =
        IF tx[p].deleted[i] # NoSum THEN NoSum
        ELSE IF tx[p].placed[i] # NoSum THEN tx[p].placed[i] ELSE refs[i]
  BY DEF Install
<1>5. \A i \in Ids : tx[q].placed[i] # NoSum /\ refs[i] = NoSum => refs'[i] = NoSum
  BY <1>1, <1>4 DEF DrawsDisjoint
<1>6. \A i \in Ids : tx[p].deleted[i] # NoSum => refLock[i] = p
  BY <1>1 DEF DeleteProgress, PutProgress, NoRefs, Call
<1>7. \A i \in Ids : i \in tx[q].ids => tx[p].placed[i] = NoSum
  BY <1>1 DEF DrawsDisjoint
<1>8. AtRest(q)'
  BY <1>1, <1>2 DEF AtRest, Holds
<1>9. PutProgress(q)'
  <2>1. /\ Support(tx[q].placed)' = Support(tx[q].placed)
        /\ \A c \in Checksums : RowsOf(tx[q].placed, c)' = RowsOf(tx[q].placed, c)
    BY DEF Support, RowsOf
  <2>2. (\A i \in Support(tx[q].placed) : refs[i] = NoSum) =>
          \A i \in Support(tx[q].placed) : refs'[i] = NoSum
    BY <1>5 DEF Support
  <2>. QED
    BY <1>1, <1>2, <1>3, <2>1, <2>2 DEF PutProgress
<1>10. DeleteProgress(q)'
  <2> SUFFICES ASSUME tx[q].pc \in {"work", "commit"}, tx[q].kind = "delete"
               PROVE  DeleteProgress(q)'
    BY DEF DeleteProgress
  <2>1. /\ Owed(q)' = Owed(q)
        /\ \A c \in Checksums : RowsOf(tx[q].deleted, c)' = RowsOf(tx[q].deleted, c)
    BY DEF Owed, RowsOf
  <2>2. ASSUME NEW i \in Ids
        PROVE  /\ tx[q].deleted[i] # NoSum => refLock'[i] = q /\ refs'[i] = tx[q].deleted[i]
                                              /\ i \in tx[q].ids
               /\ i \in tx[q].ids => i \in tx[q].scan \/ refs'[i] = tx[q].deleted[i]
    <3>1. /\ tx[q].deleted[i] # NoSum => refLock[i] = q /\ refs[i] = tx[q].deleted[i]
                                          /\ i \in tx[q].ids
          /\ i \in tx[q].ids => i \in tx[q].scan \/ refs[i] = tx[q].deleted[i]
      BY <1>1 DEF DeleteProgress
    <3>2. CASE tx[q].deleted[i] # NoSum
      BY <1>2, <1>4, <1>6, <1>7, <3>1, <3>2
    <3>3. CASE tx[q].deleted[i] = NoSum
      BY <1>4, <1>7, <3>1, <3>3
    <3>. QED  BY <3>2, <3>3
  <2>3. tx[q].spent \subseteq Checksums
    BY <1>1 DEF TypeOK, Call
  <2>4. \A c \in tx[q].spent : Holds(q, c) /\ refCount'[c] = refCount[c]
    BY <1>1, <1>3, <2>3 DEF DeleteProgress
  <2>. QED
    BY <1>1, <1>2, <2>1, <2>2, <2>3, <2>4 DEF DeleteProgress
<1>. QED
  BY <1>8, <1>9, <1>10

(* A commit of p, whatever p makes of its outcome. *)
LEMMA InstallIInv ==
  ASSUME IInv, NEW p \in Procs, tx[p].pc = "commit", Install(p),
         NEW r \in Call, tx' = [tx EXCEPT ![p] = r],
         r.ids = tx[p].ids,
         \A i \in Ids : r.placed[i] # NoSum => tx[p].placed[i] # NoSum,
         AtRest(p)', PutProgress(p)', DeleteProgress(p)'
  PROVE  IInv'
<1>1. TypeOK /\ Unlock(p)
  BY DEF IInv, Install
<1>2. tx'[p] = r /\ \A q \in Procs : q # p => tx'[q] = tx[q]
  BY <1>1 DEF TypeOK
<1>3. TypeOK'
  BY <1>1, InstallDB, UnlockEffect DEF TypeOK
<1>4. DrawsDisjoint'
  BY <1>2, SameDraws, FrameDraws DEF IInv
<1>5. ASSUME NEW q \in Procs
      PROVE  AtRest(q)' /\ PutProgress(q)' /\ DeleteProgress(q)'
  BY <1>2, InstallOthers
<1>. QED
  BY <1>3, <1>4, <1>5, InstallDB DEF IInv

(* What a commit adds to its call is bookkeeping. *)
LEMMA AppliedCall ==
  ASSUME IInv, NEW p \in Procs
  PROVE  /\ Applied(p) \in Call
         /\ Applied(p).kind = tx[p].kind /\ Applied(p).want = tx[p].want
         /\ Applied(p).ids = tx[p].ids /\ Applied(p).placed = tx[p].placed
<1>1. tx[p] \in Call
  BY DEF IInv, TypeOK
<1>2. tx[p].applied \cup Touched(p) \in SUBSET Ids
  BY <1>1 DEF Touched, Support, Call
<1>. QED
  BY <1>1, <1>2 DEF Applied, Call

(* A commit whose client hears of it. *)
LEMMA CommitIInv ==
  ASSUME IInv, NEW p \in Procs, Commit(p)
  PROVE  IInv'
<1> DEFINE r == [Applied(p) EXCEPT !.pc = "returned", !.ok = TRUE]
<1>1. tx[p].pc = "commit" /\ Install(p) /\ tx' = [tx EXCEPT ![p] = r] /\ TypeOK
  BY DEF Commit, IInv
<1>2. /\ r \in Call /\ r.pc = "returned"
      /\ r.ids = tx[p].ids /\ r.placed = tx[p].placed
  BY ZenonT(60), AppliedCall DEF Call
<1> HIDE DEF r
<1>3. tx'[p] = r
  BY <1>1 DEF TypeOK
<1>4. AtRest(p)' /\ PutProgress(p)' /\ DeleteProgress(p)'
  BY <1>1, <1>2, <1>3, UnlockEffect DEF AtRest, PutProgress, DeleteProgress, Install
<1>. QED
  BY <1>1, <1>2, <1>4, InstallIInv

(* A commit whose client sees an error, and retries. *)
LEMMA CommitLostIInv ==
  ASSUME IInv, NEW p \in Procs, CommitLost(p)
  PROVE  IInv'
<1> DEFINE r == AfterFailure(Applied(p))
<1>1. tx[p].pc = "commit" /\ Install(p) /\ tx' = [tx EXCEPT ![p] = r] /\ TypeOK
  BY DEF CommitLost, IInv
<1>2. tx'[p] = r
  BY <1>1 DEF TypeOK
<1>3. Unlock(p)
  BY <1>1 DEF Install
<1>4. /\ r \in Call
      /\ AtRest(p)' /\ PutProgress(p)' /\ DeleteProgress(p)'
      /\ r.ids = tx[p].ids
      /\ \A i \in Ids : r.placed[i] # NoSum => tx[p].placed[i] # NoSum
  BY <1>1, <1>2, <1>3, AppliedCall, FailedAttempt, UnlockEffect
<1> HIDE DEF r
<1>. QED
  BY <1>1, <1>4, InstallIInv

(* Every step of every client preserves the invariant. *)
THEOREM NextIInv == IInv /\ [Next]_vars => IInv'
<1> SUFFICES ASSUME IInv, [Next]_vars PROVE IInv'
  OBVIOUS
<1>1. ASSUME NEW p \in Procs, Statement(p) PROVE IInv'
  BY <1>1, UpsertBlobIInv, DecrementBlobIInv, DeleteRefIInv, InsertRefsIInv,
     PurgeBlobsIInv, CommitIInv DEF Statement
<1>2. ASSUME NEW p \in Procs, BeginPut(p) \/ BeginDelete(p) \/ Return(p) PROVE IInv'
  BY <1>2, BeginPutIInv, BeginDeleteIInv, ReturnIInv
<1>3. ASSUME NEW p \in Procs, CommitLost(p) \/ Fail(p) \/ Abort(p) \/ DeadlockVictim(p)
      PROVE IInv'
  BY <1>3, CommitLostIInv, FailIInv DEF DeadlockVictim
<1>4. CASE UNCHANGED vars
  <2>1. /\ UNCHANGED db /\ blobLock' = blobLock /\ refLock' = refLock /\ tx' = tx
    BY <1>4 DEF vars, db
  <2>2. ASSUME NEW q \in Procs PROVE AtRest(q)' /\ PutProgress(q)' /\ DeleteProgress(q)'
    BY <2>1, FrameLocks DEF IInv
  <2>3. TypeOK' /\ DrawsDisjoint'
    BY <2>1 DEF IInv, TypeOK, DrawsDisjoint, db
  <2>. QED
    BY <2>1, <2>2, <2>3, FrameDB DEF IInv
<1>. QED
  BY <1>1, <1>2, <1>3, <1>4 DEF Next

(* In every reachable state of any number of clients, with any batch sizes  *)
(* and retry limits, all parts of the invariant hold.                       *)
THEOREM Invariance == Spec => []IInv
<1>. QED
  BY InitIInv, NextIInv, PTL DEF Spec

-----------------------------------------------------------------------------
(* The lock order *)

(* A finite set of numbers has a largest one. *)
LEMMA Largest ==
  ASSUME NEW W \in SUBSET Nat, IsFiniteSet(W), W # {}
  PROVE  \E m \in W : \A d \in W : d <= m
<1> DEFINE above(c) == {d \in W : c <= d}
           T == {above(c) : c \in W}
           R == StrictSubsetOrdering(W)
<1>1. T \subseteq FiniteSubsetsOf(W) /\ T # {}
  <2>1. \A c \in W : above(c) \in SUBSET W
    OBVIOUS
  <2>2. \A V \in SUBSET W : V \in FiniteSubsetsOf(W)
    BY FS_Subset DEF FiniteSubsetsOf
  <2>. QED  BY <2>1, <2>2
<1>2. PICK x \in T : \A y \in T : <<y, x>> \notin R
  <2>1. IsWellFoundedOn(R, FiniteSubsetsOf(W))
    BY FS_StrictSubsetOrderingWellFounded
  <2> HIDE DEF T, R
  <2>. QED  BY <1>1, <2>1, WFMin
<1>3. PICK m \in W : x = above(m)
  OBVIOUS
<1>4. ASSUME NEW d \in W, ~(d <= m) PROVE FALSE
  <2>1. above(d) \subseteq above(m) /\ above(d) # above(m)
    <3>1. d \in Nat /\ m \in Nat /\ \A e \in W : e \in Nat
      OBVIOUS
    <3>2. m < d
      BY <1>4, <3>1
    <3>3. \A e \in W : d <= e => m <= e
      BY <3>1, <3>2
    <3>4. m \in above(m) /\ m \notin above(d)
      BY <3>1, <3>2
    <3>. QED  BY <3>3, <3>4
  <2>2. above(d) \in SUBSET W /\ above(m) \in SUBSET W /\ above(d) \in T
    OBVIOUS
  <2>3. <<above(d), above(m)>> \in R
    BY <2>1, <2>2 DEF StrictSubsetOrdering
  <2>. QED  BY <1>2, <1>3, <2>2, <2>3
<1>. QED  BY <1>4

(* Whoever holds a blob waits, if at all, for a larger blob. *)
LEMMA WaitsUpward ==
  ASSUME IInv, NEW q \in Procs, NEW c \in Checksums, Holds(q, c),
         NEW r \in Procs, WaitsFor(q, r)
  PROVE  \E d \in Checksums :
           c < d /\ NextBlob(q, d) /\ blobLock[d] = r /\ r \notin {q, NoProc}
<1>1. TypeOK /\ tx[q] \in Call /\ PutProgress(q) /\ DeleteProgress(q)
  BY DEF IInv, TypeOK
<1>2. c \in Nat
  BY ConstantsAssumption
<1>3. CASE WaitsForBlob(q, r)
  <2>1. PICK d \in Checksums : NextBlob(q, d) /\ blobLock[d] = r /\ r \notin {q, NoProc}
    BY <1>3 DEF WaitsForBlob
  <2>2. d \in Nat /\ d # c
    BY <2>1, ConstantsAssumption DEF Holds
  <2>3. c <= d
    <3>1. CASE tx[q].kind = "put"
      BY <1>1, <2>1, <3>1 DEF NextBlob, PutProgress
    <3>2. CASE tx[q].kind = "delete"
      BY <1>1, <2>1, <3>2 DEF NextBlob, DeleteProgress
    <3>. QED  BY <2>1, <3>1, <3>2 DEF NextBlob
  <2>. QED  BY <1>2, <2>1, <2>2, <2>3
<1>4. CASE WaitsForRef(q, r)
  <2>1. tx[q].pc = "work" /\ tx[q].kind = "delete" /\ tx[q].scan # {}
    BY <1>4 DEF WaitsForRef
  <2>2. tx[q].spent = {}
    BY <1>1, <2>1 DEF DeleteProgress
  <2>. QED  BY <1>1, <2>1, <2>2 DEF DeleteProgress
<1>. QED  BY <1>3, <1>4 DEF WaitsFor

(* Taking blobs in sorted order is enough: a client that waits for a blob   *)
(* is never on or behind a deadlock.                                        *)
LEMMA LockOrder == IInv => BlobLocksAcyclic
<1> SUFFICES ASSUME IInv, NEW p \in Procs, NEW q \in Procs,
                    WaitsForBlob(p, q), Deadlocked(p)
             PROVE  FALSE
  BY DEF BlobLocksAcyclic
<1>1. PICK S \in SUBSET Procs :
        /\ p \in S
        /\ \A x \in S : /\ \E r \in Procs : WaitsFor(x, r)
                        /\ \A r \in Procs : WaitsFor(x, r) => r \in S
  BY DEF Deadlocked
<1> DEFINE awaited(x, r, c) == NextBlob(x, c) /\ blobLock[c] = r /\ r \notin {x, NoProc}
           W == {c \in Checksums : \E x, r \in S : awaited(x, r, c)}
<1>2. \A x, r \in Procs, c \in Checksums : awaited(x, r, c) => WaitsFor(x, r)
  BY DEF WaitsFor, WaitsForBlob
<1>3. W # {}
  <2>1. PICK c \in Checksums : awaited(p, q, c)
    BY DEF WaitsForBlob
  <2>2. q \in S
    BY <1>1, <1>2, <2>1
  <2>. QED  BY <1>1, <2>1, <2>2
<1>4. ASSUME NEW c \in W PROVE \E d \in W : c < d
  <2>1. PICK x \in S, r \in S : awaited(x, r, c)
    OBVIOUS
  <2>2. PICK y \in Procs : WaitsFor(r, y) /\ y \in S
    BY <1>1
  <2>3. Holds(r, c) /\ r \in Procs
    BY <2>1 DEF Holds
  <2>4. PICK d \in Checksums : c < d /\ awaited(r, y, d)
    BY <2>2, <2>3, WaitsUpward
  <2>. QED  BY <2>2, <2>4
<1>5. W \in SUBSET Nat /\ IsFiniteSet(W)
  <2>1. W \in SUBSET Checksums
    OBVIOUS
  <2> HIDE DEF W
  <2>. QED  BY <2>1, ConstantsAssumption, FS_Subset
<1> HIDE DEF W
<1>6. PICK m \in W : \A d \in W : d <= m
  BY <1>3, <1>5, Largest
<1>7. PICK d \in W : m < d
  BY <1>4
<1>8. d <= m /\ d \in Nat /\ m \in Nat
  BY <1>5, <1>6
<1>. QED  BY <1>7, <1>8

-----------------------------------------------------------------------------
(* What follows for every reachable state *)

(* TypeOK of DedupStore. *)
THEOREM TypeCorrect == Spec => []TypeOK
<1>1. IInv => TypeOK
  BY DEF IInv
<1>. QED  BY <1>1, Invariance, PTL

(* No update of a ref_count is lost: put, put_many, delete and delete_many   *)
(* keep the counter equal to the number of refs.                            *)
THEOREM CounterCorrect == Spec => []RefCountExact
<1>1. IInv => RefCountExact
  BY DEF IInv
<1>. QED  BY <1>1, Invariance, PTL

(* Every stored image has its bytes, and no bytes outlive their images.     *)
THEOREM BlobsCorrect == Spec => [](NoDanglingRef /\ NoLeakedBlob)
<1>1. IInv => NoDanglingRef /\ NoLeakedBlob
  BY DEF IInv
<1>. QED  BY <1>1, Invariance, PTL

(* Waiting for a blob never closes a cycle ("A single global order removes  *)
(* the cycle", _put_many_dedup).                                            *)
THEOREM BlobOrderCorrect == Spec => []BlobLocksAcyclic
<1>. QED  BY LockOrder, Invariance, PTL

-----------------------------------------------------------------------------
(* A retry stores nothing a second time, where the client draws the ids     *)

(* The rows a put has stored are rows it has placed: a lost answer to the   *)
(* commit, and the retry after it, do not change the ids that were drawn    *)
(* before the loop.                                                         *)
Stores(r) ==
  r.kind = "put" =>
    /\ r.deleted = NoRefs
    /\ r.applied \subseteq Support(r.placed)
    /\ r.pc = "returned" /\ r.ok => r.applied = Support(r.placed)

OnceInv == \A p \in Procs : Stores(tx[p])

(* A put that starts again, or raises, keeps its ids and what it stored.    *)
LEMMA FailureStores ==
  ASSUME ClientIds, NEW r \in Call, Stores(r)
  PROVE  Stores(AfterFailure(r)) /\ Stores(Raised(r))
<1>1. /\ Raised(r).kind = r.kind /\ Raised(r).deleted = r.deleted
      /\ Raised(r).applied = r.applied /\ Raised(r).placed = r.placed
      /\ ~Raised(r).ok
  BY DEF Raised, Call
<1>2. Stores(Raised(r))
  BY <1>1 DEF Stores
<1> DEFINE s == [Restarted(r) EXCEPT !.attempt = r.attempt + 1]
<1>3. /\ s.kind = r.kind /\ s.deleted = NoRefs
      /\ s.applied = r.applied /\ s.placed = r.placed
      /\ s.pc = "work"
  BY DEF Restarted, Call
<1>4. Stores(s)
  BY <1>3 DEF Stores
<1>5. AfterFailure(r) \in {s, Raised(r)}
  BY DEF AfterFailure
<1>. QED
  BY <1>2, <1>4, <1>5

(* What a commit makes of a put.                                            *)
LEMMA AppliedStores ==
  ASSUME IInv, NEW p \in Procs, Stores(tx[p])
  PROVE  /\ Applied(p) \in Call
         /\ tx[p].pc = "commit" => Stores(Applied(p))
         /\ Stores([Applied(p) EXCEPT !.pc = "returned", !.ok = TRUE])
<1> DEFINE a == Applied(p)
           r == [a EXCEPT !.pc = "returned", !.ok = TRUE]
<1>1. /\ a \in Call /\ tx[p] \in Call
      /\ a.kind = tx[p].kind /\ a.placed = tx[p].placed
  BY AppliedCall DEF IInv, TypeOK
<1>2. a.applied = tx[p].applied \cup Touched(p) /\ a.deleted = tx[p].deleted /\ a.pc = tx[p].pc
  BY <1>1 DEF Applied, Call
<1>3. tx[p].kind = "put" => a.applied = Support(a.placed)
  BY <1>1, <1>2 DEF Stores, Touched, Support, NoRefs
<1>4. tx[p].pc = "commit" => Stores(a)
  BY <1>1, <1>2, <1>3 DEF Stores
<1> HIDE DEF a
<1>5. /\ r.kind = a.kind /\ r.placed = a.placed /\ r.applied = a.applied
      /\ r.deleted = a.deleted
  BY <1>1 DEF Call
<1>6. Stores(r)
  BY <1>1, <1>2, <1>3, <1>5 DEF Stores
<1>. QED
  BY <1>1, <1>4, <1>6 DEF a

(* A step of one client gives it a call that stores its draws.              *)
LEMMA OneCallStores ==
  ASSUME TypeOK, OnceInv, NEW p \in Procs, NEW r,
         tx' = [tx EXCEPT ![p] = r], Stores(r)
  PROVE  OnceInv'
<1>1. ASSUME NEW q \in Procs PROVE Stores(tx'[q])
  <2>1. tx'[q] = IF q = p THEN r ELSE tx[q]
    BY DEF TypeOK
  <2>. QED  BY <2>1 DEF OnceInv
<1>2. ASSUME NEW q \in Procs PROVE Stores(tx[q])'
  BY <1>1, <1>1 DEF Stores, Support
<1>. QED
  BY <1>2 DEF OnceInv

(* The statements of a transaction change neither what a put has stored     *)
(* nor, where the client draws the ids, what it places.                     *)
LEMMA StatementStores ==
  ASSUME ClientIds, IInv, OnceInv, NEW p \in Procs, Statement(p)
  PROVE  OnceInv'
<1>. USE DEF IInv
<1>1. tx[p] \in Call /\ Stores(tx[p]) /\ TypeOK
  BY DEF TypeOK, OnceInv
<1>2. ASSUME NEW r, tx' = [tx EXCEPT ![p] = r], r.kind = tx[p].kind, r.placed = tx[p].placed,
             r.applied = tx[p].applied, r.pc # "returned",
             r.deleted = tx[p].deleted \/ tx[p].kind = "delete"
      PROVE  OnceInv'
  <2>1. Stores(r)
    BY <1>1, <1>2 DEF Stores
  <2>. QED  BY <1>2, <2>1, OneCallStores
<1>3. ASSUME NEW c \in Checksums, UpsertBlob(p, c) PROVE OnceInv'
  <2> DEFINE r == [tx[p] EXCEPT !.left[c] = @ - 1, !.counts[c] = Bumped(p, c)]
  <2>1. tx' = [tx EXCEPT ![p] = r] /\ tx[p].pc = "work"
    BY <1>1, <1>3 DEF UpsertBlob, TypeOK
  <2>2. /\ r.kind = tx[p].kind /\ r.placed = tx[p].placed /\ r.applied = tx[p].applied
        /\ r.pc = tx[p].pc /\ r.deleted = tx[p].deleted
    BY <1>1 DEF Call
  <2> HIDE DEF r
  <2>. QED  BY <1>2, <2>1, <2>2
<1>4. ASSUME NEW c \in Checksums, DecrementBlob(p, c) PROVE OnceInv'
  <2>1. CASE tx' = [tx EXCEPT ![p] = Raised(tx[p])]
    BY <1>1, <2>1, FailureStores, OneCallStores
  <2> DEFINE n == Seen(p, c) - Cardinality(RowsOf(tx[p].deleted, c))
             r == [tx[p] EXCEPT !.spent = @ \cup {c}, !.counts[c] = n]
  <2>2. CASE tx' = [tx EXCEPT ![p] = r] /\ tx[p].pc = "work"
    <3>1. /\ r.kind = tx[p].kind /\ r.placed = tx[p].placed /\ r.applied = tx[p].applied
          /\ r.pc = tx[p].pc /\ r.deleted = tx[p].deleted
      BY <1>1 DEF Call
    <3> HIDE DEF r
    <3>. QED  BY <1>2, <2>2, <3>1
  <2>. QED  BY <1>1, <1>4, <2>1, <2>2 DEF DecrementBlob, TypeOK
<1>5. ASSUME NEW i \in Ids, DeleteRef(p, i) PROVE OnceInv'
  <2> DEFINE r == [tx[p] EXCEPT !.scan = @ \ {i}, !.deleted[i] = refs[i]]
  <2>1. tx' = [tx EXCEPT ![p] = r] /\ tx[p].pc = "work" /\ tx[p].kind = "delete"
    BY <1>1, <1>5 DEF DeleteRef, TypeOK
  <2>2. /\ r.kind = tx[p].kind /\ r.placed = tx[p].placed /\ r.applied = tx[p].applied
        /\ r.pc = tx[p].pc
    BY <1>1 DEF Call
  <2> HIDE DEF r
  <2>. QED  BY <1>2, <2>1, <2>2
<1>6. ASSUME InsertRefs(p) PROVE OnceInv'
  <2>1. CASE tx' = [tx EXCEPT ![p] = Raised(tx[p])]
    BY <1>1, <2>1, FailureStores, OneCallStores
  <2> DEFINE r == [tx[p] EXCEPT !.pc = "commit"]
  <2>2. CASE tx' = [tx EXCEPT ![p] = r]
    <3>1. /\ r.kind = tx[p].kind /\ r.placed = tx[p].placed /\ r.applied = tx[p].applied
          /\ r.pc = "commit" /\ r.deleted = tx[p].deleted
      BY <1>1 DEF Call
    <3> HIDE DEF r
    <3>. QED  BY <1>2, <2>2, <3>1
  <2>. QED  BY <1>1, <1>6, <2>1, <2>2 DEF InsertRefs, TypeOK
<1>7. ASSUME PurgeBlobs(p) PROVE OnceInv'
  <2> DEFINE s == {c \in tx[p].spent : tx[p].counts[c] <= 0}
             r == [tx[p] EXCEPT !.pc = "commit", !.purged = s]
  <2>1. tx' = [tx EXCEPT ![p] = r]
    BY <1>1, <1>7 DEF PurgeBlobs, TypeOK
  <2>2. /\ r.kind = tx[p].kind /\ r.placed = tx[p].placed /\ r.applied = tx[p].applied
        /\ r.pc = "commit" /\ r.deleted = tx[p].deleted
    BY <1>1 DEF Call
  <2> HIDE DEF r
  <2>. QED  BY <1>2, <2>1, <2>2
<1>8. ASSUME Commit(p) PROVE OnceInv'
  BY <1>1, <1>8, AppliedStores, OneCallStores DEF Commit
<1>. QED
  BY <1>3, <1>4, <1>5, <1>6, <1>7, <1>8 DEF Statement

(* Every step keeps it.                                                     *)
LEMMA NextStores ==
  ASSUME ClientIds, IInv, OnceInv, [Next]_vars
  PROVE  OnceInv'
<1>. USE DEF IInv
<1>1. \A p \in Procs : tx[p] \in Call /\ Stores(tx[p])
  BY DEF TypeOK, OnceInv
<1>2. ASSUME NEW p \in Procs, BeginPut(p) \/ BeginDelete(p) \/ Return(p) PROVE OnceInv'
  <2> DEFINE Blank(r) == r.applied = {} /\ r.deleted = NoRefs /\ r.pc # "returned"
             put(w, own, f) == [Idle EXCEPT !.pc = "work", !.kind = "put",
                   !.pooled = own, !.want = w, !.left = w, !.placed = f]
             delete(S, own) == [Idle EXCEPT !.pc = "work", !.kind = "delete",
                   !.pooled = own, !.ids = S, !.scan = S]
  <2>a. CASE BeginPut(p)
    <3>1. PICK w, own, f : tx' = [tx EXCEPT ![p] = put(w, own, f)]
      BY <2>a DEF BeginPut
    <3>2. Blank(put(w, own, f))
      BY DEF Idle
    <3>. QED  BY <3>1, <3>2, OneCallStores DEF Stores
  <2>b. CASE BeginDelete(p)
    <3>1. PICK S, own : tx' = [tx EXCEPT ![p] = delete(S, own)]
      BY <2>b DEF BeginDelete
    <3>2. Blank(delete(S, own))
      BY DEF Idle
    <3>. QED  BY <3>1, <3>2, OneCallStores DEF Stores
  <2>c. CASE Return(p)
    <3>2. Blank(Idle)
      BY DEF Idle
    <3>. QED  BY <2>c, <3>2, OneCallStores DEF Return, Stores
  <2>. QED  BY <1>2, <2>a, <2>b, <2>c
<1>3. ASSUME NEW p \in Procs, Fail(p) \/ Abort(p) \/ DeadlockVictim(p) PROVE OnceInv'
  <2>1. \E r \in {AfterFailure(tx[p]), Raised(tx[p])} : tx' = [tx EXCEPT ![p] = r]
    BY <1>3 DEF Fail, Abort, DeadlockVictim
  <2>. QED  BY <1>1, <2>1, FailureStores, OneCallStores
<1>4. ASSUME NEW p \in Procs, CommitLost(p) PROVE OnceInv'
  <2>1. tx' = [tx EXCEPT ![p] = AfterFailure(Applied(p))] /\ tx[p].pc = "commit"
    BY <1>4 DEF CommitLost
  <2>2. Applied(p) \in Call /\ Stores(Applied(p))
    BY <1>1, <2>1, AppliedStores
  <2>. QED  BY <2>1, <2>2, FailureStores, OneCallStores
<1>5. CASE UNCHANGED vars
  BY <1>5 DEF vars, OnceInv, Stores, Support
<1>. QED
  BY <1>2, <1>3, <1>4, <1>5, StatementStores DEF Next

(* Where the client draws the ids (MySQL, SQLite), a put that returns has   *)
(* stored exactly the rows whose ids it returns, however many commits were  *)
(* lost and retried.  With ids that the server draws it does not hold.      *)
THEOREM RetriesStoreOnce == ASSUME ClientIds PROVE Spec => []PutStoredOnce
<1>1. Init => OnceInv
  BY DEF Init, OnceInv, Stores, Idle
<1>2. OnceInv => PutStoredOnce
  <2> SUFFICES ASSUME OnceInv, NEW p \in Procs, tx[p].pc = "returned", tx[p].ok,
                      tx[p].kind = "put"
               PROVE  tx[p].applied = Touched(p)
    BY DEF PutStoredOnce
  <2>. QED  BY DEF OnceInv, Stores, Touched, Support, NoRefs
<1>3. IInv /\ OnceInv /\ [Next]_vars => OnceInv'
  BY NextStores
<1>. QED
  BY <1>1, <1>2, <1>3, Invariance, PTL DEF Spec
=============================================================================
