------------------------ MODULE DedupRefinementProofs ------------------------
(***************************************************************************)
(* Dedup mode implements the image store: under the mapping of DedupStore  *)
(* (Images, OpenCalls) every step of its transactions is a step of         *)
(* ImageStore or changes nothing there.  The inductive invariant of        *)
(* DedupStoreProofs is what makes a commit a whole Put or Delete.          *)
(***************************************************************************)
EXTENDS DedupStoreProofs

(* Every ref has its blob, so a reader sees the ref table. *)
LEMMA ImagesAreRefs ==
  ASSUME NoDanglingRef, blobs \subseteq Checksums, refs \in RefMap
  PROVE  Images = refs
<1>1. \A i \in Ids : Images[i] = refs[i]
  BY ConstantsAssumption DEF Images, NoDanglingRef, RefMap
<1>. QED
  BY <1>1 DEF Images, RefMap

(* A call as the abstract store sees it. *)
LEMMA OpenCallsStep ==
  ASSUME TypeOK, NEW p \in Procs, NEW r, tx' = [tx EXCEPT ![p] = r]
  PROVE  /\ OpenCalls' = [OpenCalls EXCEPT ![p] = OpenCalls'[p]]
         /\ r.pc \in {"work", "commit"} =>
              OpenCalls'[p] = [kind |-> r.kind, want |-> r.want, ids |-> r.ids]
         /\ r.pc \notin {"work", "commit"} => OpenCalls'[p] = Abstract!Closed
         /\ /\ r.pc \in {"work", "commit"} <=> tx[p].pc \in {"work", "commit"}
            /\ r.kind = tx[p].kind /\ r.want = tx[p].want /\ r.ids = tx[p].ids
            => OpenCalls' = OpenCalls
<1>1. tx'[p] = r /\ \A q \in Procs : q # p => tx'[q] = tx[q]
  BY DEF TypeOK
<1>2. \A q \in Procs : q # p => OpenCalls'[q] = OpenCalls[q]
  BY <1>1 DEF OpenCalls
<1>3. OpenCalls' = [q \in Procs |-> OpenCalls'[q]] /\ OpenCalls = [q \in Procs |-> OpenCalls[q]]
  BY DEF OpenCalls
<1>4. OpenCalls' = [OpenCalls EXCEPT ![p] = OpenCalls'[p]]
  BY <1>2, <1>3
<1>5. r.pc \in {"work", "commit"} =>
        OpenCalls'[p] = [kind |-> r.kind, want |-> r.want, ids |-> r.ids]
  BY <1>1 DEF OpenCalls
<1>6. r.pc \notin {"work", "commit"} => OpenCalls'[p] = Abstract!Closed
  BY <1>1 DEF OpenCalls, Abstract!Closed, Zero
<1>7. tx[p].pc \notin {"work", "commit"} => OpenCalls[p] = Abstract!Closed
  BY DEF OpenCalls, Abstract!Closed, Zero
<1>8. tx[p].pc \in {"work", "commit"} =>
        OpenCalls[p] = [kind |-> tx[p].kind, want |-> tx[p].want, ids |-> tx[p].ids]
  BY DEF OpenCalls
<1>9. /\ r.pc \in {"work", "commit"} <=> tx[p].pc \in {"work", "commit"}
      /\ r.kind = tx[p].kind /\ r.want = tx[p].want /\ r.ids = tx[p].ids
      => OpenCalls'[p] = OpenCalls[p]
  BY <1>5, <1>6, <1>7, <1>8
<1>10. OpenCalls'[p] = OpenCalls[p] => OpenCalls' = OpenCalls
  BY <1>3, <1>4
<1>. QED
  BY <1>4, <1>5, <1>6, <1>9, <1>10

(* A failed attempt is a stutter of the abstract store, or its GiveUp. *)
LEMMA FailureMaps ==
  ASSUME TypeOK, NEW p \in Procs, tx[p].pc \in {"work", "commit"},
         NEW r \in Call, r.kind = tx[p].kind, r.want = tx[p].want, r.ids = tx[p].ids,
         NEW s, s \in {AfterFailure(r), Raised(r)},
         tx' = [tx EXCEPT ![p] = s]
  PROVE  OpenCalls' = OpenCalls \/ OpenCalls' = [OpenCalls EXCEPT ![p] = Abstract!Closed]
<1>1. CASE s = Raised(r)
  <2>1. s.pc = "returned"
    BY <1>1 DEF Raised, Call
  <2>. QED  BY <2>1, OpenCallsStep
<1>2. CASE s # Raised(r)
  <2>1. s = [Restarted(r) EXCEPT !.attempt = r.attempt + 1]
    BY <1>2 DEF AfterFailure
  <2>2. s.pc = "work" /\ s.kind = tx[p].kind /\ s.want = tx[p].want /\ s.ids = tx[p].ids
    BY <2>1 DEF Restarted, Call
  <2>. QED  BY <2>2, OpenCallsStep
<1>. QED  BY <1>1, <1>2

(* The beginning of a call opens it in the image store. *)
LEMMA BeginMaps ==
  ASSUME IInv, IInv', NEW p \in Procs, BeginPut(p) \/ BeginDelete(p)
  PROVE  Abstract!Open(p)
<1>1. TypeOK /\ TypeOK' /\ tx[p].pc = "idle" /\ UNCHANGED db
  BY DEF IInv, BeginPut, BeginDelete
<1>2. PICK r : /\ tx' = [tx EXCEPT ![p] = r]
               /\ r.pc = "work" /\ r.kind \in {"put", "delete"}
  <2>1. CASE BeginPut(p)
    <3>1. PICK w, own, f :
            tx' = [tx EXCEPT ![p] = [Idle EXCEPT !.pc = "work", !.kind = "put",
                      !.pooled = own, !.want = w, !.left = w, !.placed = f]]
      BY <2>1 DEF BeginPut
    <3> DEFINE r == [Idle EXCEPT !.pc = "work", !.kind = "put",
                       !.pooled = own, !.want = w, !.left = w, !.placed = f]
    <3>2. r.pc = "work" /\ r.kind = "put"
      BY DEF Idle
    <3>3. tx' = [tx EXCEPT ![p] = r]
      BY <3>1
    <3> HIDE DEF r
    <3>. QED  BY <3>2, <3>3
  <2>2. CASE BeginDelete(p)
    <3>1. PICK S, own :
            tx' = [tx EXCEPT ![p] = [Idle EXCEPT !.pc = "work",
                      !.kind = "delete", !.pooled = own, !.ids = S, !.scan = S]]
      BY <2>2 DEF BeginDelete
    <3> DEFINE r == [Idle EXCEPT !.pc = "work",
                       !.kind = "delete", !.pooled = own, !.ids = S, !.scan = S]
    <3>2. r.pc = "work" /\ r.kind = "delete"
      BY DEF Idle
    <3>3. tx' = [tx EXCEPT ![p] = r]
      BY <3>1
    <3> HIDE DEF r
    <3>. QED  BY <3>2, <3>3
  <2>. QED  BY <2>1, <2>2
<1>3. OpenCalls' = [OpenCalls EXCEPT ![p] = OpenCalls'[p]]
      /\ OpenCalls'[p] = [kind |-> r.kind, want |-> r.want, ids |-> r.ids]
  BY <1>1, <1>2, OpenCallsStep
<1>4. r \in Call
  BY <1>1, <1>2 DEF TypeOK
<1>5. OpenCalls[p].kind = "none"
  BY <1>1 DEF OpenCalls
<1>6. OpenCalls'[p] \in Abstract!OpenCall /\ OpenCalls'[p].kind # "none"
  BY <1>2, <1>3, <1>4 DEF Abstract!OpenCall, Call
<1>7. Images' = Images
  BY <1>1 DEF Images, db
<1>. QED
  BY <1>3, <1>5, <1>6, <1>7 DEF Abstract!Open

(* The instance has its own copy of Cardinality. *)
LEMMA SameCardinality ==
  ASSUME NEW S
  PROVE  Abstract!Cardinality(S) = Cardinality(S)
  BY DEF Cardinality, Abstract!Cardinality

(* A commit puts or deletes the whole batch of its call. *)
LEMMA CommitMaps ==
  ASSUME IInv, IInv', NEW p \in Procs, tx[p].pc = "commit", Install(p),
         OpenCalls' = OpenCalls \/ OpenCalls' = [OpenCalls EXCEPT ![p] = Abstract!Closed]
  PROVE  Abstract!Put(p) \/ Abstract!Delete(p)
<1>1. /\ TypeOK /\ tx[p] \in Call /\ refs \in RefMap /\ refs' \in RefMap
      /\ PutProgress(p) /\ DeleteProgress(p)
  BY DEF IInv, TypeOK
<1>2. Images = refs /\ Images' = refs'
  BY ImagesAreRefs DEF IInv, TypeOK, Images, NoDanglingRef, RefMap
<1>3. OpenCalls[p] = [kind |-> tx[p].kind, want |-> tx[p].want, ids |-> tx[p].ids]
  BY DEF OpenCalls
<1>4. CASE tx[p].kind = "put"
  <2>1. tx[p].placed \in [Ids -> Checksums \cup {NoSum}]
    BY <1>1 DEF Call, RefMap
  <2>2. \A i \in Ids : tx[p].placed[i] # NoSum => Images[i] = NoSum
    BY <1>1, <1>2, <1>4 DEF PutProgress, Support
  <2>3. \A c \in Checksums :
          Abstract!Cardinality({i \in Ids : tx[p].placed[i] = c}) = OpenCalls[p].want[c]
    BY <1>1, <1>3, <1>4, SameCardinality DEF PutProgress, RowsOf
  <2>4. \A i \in Ids : refs'[i] = IF tx[p].placed[i] # NoSum THEN tx[p].placed[i] ELSE refs[i]
    BY <1>4, InstallPut
  <2>5. Images' = [i \in Ids |-> IF tx[p].placed[i] # NoSum THEN tx[p].placed[i] ELSE Images[i]]
    BY <1>1, <1>2, <2>4 DEF RefMap
  <2>6. OpenCalls[p].kind = "put" /\ Abstract!OpenOrClosed(p)
    BY <1>3, <1>4 DEF Abstract!OpenOrClosed
  <2>7. \E new \in [Ids -> Checksums \cup {NoSum}] :
          /\ \A i \in Ids : new[i] # NoSum => Images[i] = NoSum
          /\ \A c \in Checksums :
               Abstract!Cardinality({i \in Ids : new[i] = c}) = OpenCalls[p].want[c]
          /\ Images' = [i \in Ids |-> IF new[i] # NoSum THEN new[i] ELSE Images[i]]
    <3> WITNESS tx[p].placed \in [Ids -> Checksums \cup {NoSum}]
    <3>. QED
      BY <2>1, <2>2, <2>3, <2>5
  <2>. QED
    BY <2>6, <2>7 DEF Abstract!Put
<1>5. CASE tx[p].kind = "delete"
  <2>1. \A i \in Ids : refs'[i] = IF tx[p].deleted[i] # NoSum THEN NoSum ELSE refs[i]
    BY <1>5, InstallDelete
  <2>2. \A i \in Ids : /\ i \in tx[p].ids => refs[i] = tx[p].deleted[i]
                       /\ tx[p].deleted[i] # NoSum => i \in tx[p].ids
    BY <1>1, <1>5 DEF DeleteProgress
  <2>3. \A i \in Ids : refs'[i] = IF i \in tx[p].ids THEN NoSum ELSE refs[i]
    BY <2>1, <2>2
  <2>4. Images' = [i \in Ids |-> IF i \in OpenCalls[p].ids THEN NoSum ELSE Images[i]]
    BY <1>1, <1>2, <1>3, <2>3 DEF RefMap
  <2>. QED
    BY <1>3, <1>5, <2>4 DEF Abstract!Delete, Abstract!OpenOrClosed
<1>. QED
  BY <1>1, <1>4, <1>5 DEF Call

(* A call that returns, or whose attempt fails, changes no image. *)
LEMMA QuietMaps ==
  ASSUME NEW p \in Procs, UNCHANGED db,
         OpenCalls' = OpenCalls \/ OpenCalls' = [OpenCalls EXCEPT ![p] = Abstract!Closed]
  PROVE  [Abstract!Next]_(Abstract!vars)
<1>1. Images' = Images
  BY DEF Images, db
<1>. QED
  BY <1>1 DEF Abstract!Next, Abstract!GiveUp, Abstract!vars

(* Every step of the transactions is a step of the abstract store, or none. *)
LEMMA StepMaps ==
  ASSUME IInv, IInv', [Next]_vars
  PROVE  [Abstract!Next]_(Abstract!vars)
<1>1. TypeOK /\ \A q \in Procs : tx[q] \in Call
  BY DEF IInv, TypeOK
<1>2. ASSUME NEW p \in Procs, BeginPut(p) \/ BeginDelete(p)
      PROVE  [Abstract!Next]_(Abstract!vars)
  BY <1>2, BeginMaps DEF Abstract!Next
<1>3. ASSUME NEW p \in Procs, NEW r, tx' = [tx EXCEPT ![p] = r], UNCHANGED db,
             r.pc \in {"work", "commit"}, tx[p].pc \in {"work", "commit"},
             r.kind = tx[p].kind, r.want = tx[p].want, r.ids = tx[p].ids
      PROVE  [Abstract!Next]_(Abstract!vars)
  BY <1>1, <1>3, OpenCallsStep, QuietMaps
<1>4. ASSUME NEW p \in Procs, tx[p].pc \in {"work", "commit"}, UNCHANGED db,
             NEW s, s \in {AfterFailure(tx[p]), Raised(tx[p])}, tx' = [tx EXCEPT ![p] = s]
      PROVE  [Abstract!Next]_(Abstract!vars)
  <2>1. OpenCalls' = OpenCalls \/ OpenCalls' = [OpenCalls EXCEPT ![p] = Abstract!Closed]
    BY <1>1, <1>4, FailureMaps
  <2>. QED  BY <1>4, <2>1, QuietMaps
<1>5. ASSUME NEW p \in Procs, NEW c \in Checksums, UpsertBlob(p, c)
      PROVE  [Abstract!Next]_(Abstract!vars)
  <2> DEFINE r == [tx[p] EXCEPT !.left[c] = @ - 1, !.counts[c] = Bumped(p, c)]
  <2>1. tx' = [tx EXCEPT ![p] = r] /\ UNCHANGED db /\ tx[p].pc = "work"
    BY <1>5 DEF UpsertBlob
  <2>2. r.pc = tx[p].pc /\ r.kind = tx[p].kind /\ r.want = tx[p].want /\ r.ids = tx[p].ids
    BY <1>1 DEF Call
  <2> HIDE DEF r
  <2>. QED  BY <1>3, <2>1, <2>2
<1>6. ASSUME NEW p \in Procs, NEW c \in Checksums, DecrementBlob(p, c)
      PROVE  [Abstract!Next]_(Abstract!vars)
  <2>1. CASE c \in blobs
    <3> DEFINE r == [tx[p] EXCEPT !.spent = @ \cup {c},
                       !.counts[c] = Seen(p, c) - Cardinality(RowsOf(tx[p].deleted, c))]
    <3>1. tx' = [tx EXCEPT ![p] = r] /\ UNCHANGED db /\ tx[p].pc = "work"
      BY <1>6, <2>1 DEF DecrementBlob
    <3>2. r.pc = tx[p].pc /\ r.kind = tx[p].kind /\ r.want = tx[p].want /\ r.ids = tx[p].ids
      BY <1>1 DEF Call
    <3> HIDE DEF r
    <3>. QED  BY <1>3, <3>1, <3>2
  <2>2. CASE c \notin blobs
    BY <1>4, <1>6, <2>2 DEF DecrementBlob
  <2>. QED  BY <2>1, <2>2
<1>7. ASSUME NEW p \in Procs, NEW i \in Ids, DeleteRef(p, i)
      PROVE  [Abstract!Next]_(Abstract!vars)
  <2> DEFINE r == [tx[p] EXCEPT !.scan = @ \ {i}, !.deleted[i] = refs[i]]
  <2>1. tx' = [tx EXCEPT ![p] = r] /\ UNCHANGED db /\ tx[p].pc = "work"
    BY <1>7 DEF DeleteRef
  <2>2. r.pc = tx[p].pc /\ r.kind = tx[p].kind /\ r.want = tx[p].want /\ r.ids = tx[p].ids
    BY <1>1 DEF Call
  <2> HIDE DEF r
  <2>. QED  BY <1>3, <2>1, <2>2
<1>8. ASSUME NEW p \in Procs, InsertRefs(p)
      PROVE  [Abstract!Next]_(Abstract!vars)
  <2>1. tx[p].pc = "work" /\ UNCHANGED db
    BY <1>8 DEF InsertRefs
  <2>2. CASE \E f : tx' = [tx EXCEPT ![p] = [tx[p] EXCEPT !.placed = f, !.pc = "commit"]]
    <3>1. PICK f : tx' = [tx EXCEPT ![p] = [tx[p] EXCEPT !.placed = f, !.pc = "commit"]]
      BY <2>2
    <3> DEFINE r == [tx[p] EXCEPT !.placed = f, !.pc = "commit"]
    <3>2. r.pc = "commit" /\ r.kind = tx[p].kind /\ r.want = tx[p].want /\ r.ids = tx[p].ids
      BY <1>1 DEF Call
    <3>3. tx' = [tx EXCEPT ![p] = r]
      BY <3>1
    <3> HIDE DEF r
    <3>. QED  BY <1>3, <2>1, <3>2, <3>3
  <2>3. CASE tx' = [tx EXCEPT ![p] = [tx[p] EXCEPT !.pc = "commit"]]
    <3> DEFINE r == [tx[p] EXCEPT !.pc = "commit"]
    <3>1. r.pc = "commit" /\ r.kind = tx[p].kind /\ r.want = tx[p].want /\ r.ids = tx[p].ids
      BY <1>1 DEF Call
    <3>2. tx' = [tx EXCEPT ![p] = r]
      BY <2>3
    <3> HIDE DEF r
    <3>. QED  BY <1>3, <2>1, <3>1, <3>2
  <2>4. CASE tx' = [tx EXCEPT ![p] = Raised(tx[p])]
    BY <1>4, <2>1, <2>4
  <2>5. \/ \E f : tx' = [tx EXCEPT ![p] = [tx[p] EXCEPT !.placed = f, !.pc = "commit"]]
        \/ tx' = [tx EXCEPT ![p] = [tx[p] EXCEPT !.pc = "commit"]]
        \/ tx' = [tx EXCEPT ![p] = Raised(tx[p])]
    BY <1>8 DEF InsertRefs
  <2>. QED  BY <2>2, <2>3, <2>4, <2>5
<1>9. ASSUME NEW p \in Procs, PurgeBlobs(p)
      PROVE  [Abstract!Next]_(Abstract!vars)
  <2> DEFINE r == [tx[p] EXCEPT !.pc = "commit",
                     !.purged = {c \in tx[p].spent : tx[p].counts[c] <= 0}]
  <2>1. tx' = [tx EXCEPT ![p] = r] /\ UNCHANGED db /\ tx[p].pc = "work"
    BY <1>9 DEF PurgeBlobs
  <2>2. r.pc = "commit" /\ r.kind = tx[p].kind /\ r.want = tx[p].want /\ r.ids = tx[p].ids
    BY <1>1 DEF Call
  <2> HIDE DEF r
  <2>. QED  BY <1>3, <2>1, <2>2
<1>10. ASSUME NEW p \in Procs, Commit(p) \/ CommitLost(p)
       PROVE  [Abstract!Next]_(Abstract!vars)
  <2>1. tx[p].pc = "commit" /\ Install(p)
    BY <1>10 DEF Commit, CommitLost
  <2>2. OpenCalls' = OpenCalls \/ OpenCalls' = [OpenCalls EXCEPT ![p] = Abstract!Closed]
    <3>1. CASE Commit(p)
      <4> DEFINE r == [Applied(p) EXCEPT !.pc = "returned", !.ok = TRUE]
      <4>1. r.pc = "returned"
        BY AppliedCall DEF Call
      <4>2. tx' = [tx EXCEPT ![p] = r]
        BY <3>1 DEF Commit
      <4> HIDE DEF r
      <4>. QED  BY <1>1, <4>1, <4>2, OpenCallsStep
    <3>2. CASE CommitLost(p)
      <4>1. tx' = [tx EXCEPT ![p] = AfterFailure(Applied(p))]
        BY <3>2 DEF CommitLost
      <4>. QED  BY <1>1, <2>1, <4>1, AppliedCall, FailureMaps
    <3>. QED  BY <1>10, <3>1, <3>2
  <2>. QED
    BY <2>1, <2>2, CommitMaps DEF Abstract!Next
<1>11. ASSUME NEW p \in Procs, Fail(p) \/ Abort(p) \/ DeadlockVictim(p)
       PROVE  [Abstract!Next]_(Abstract!vars)
  BY <1>4, <1>11 DEF Fail, Abort, DeadlockVictim
<1>12. ASSUME NEW p \in Procs, Return(p)
       PROVE  [Abstract!Next]_(Abstract!vars)
  <2>1. tx' = [tx EXCEPT ![p] = Idle] /\ UNCHANGED db /\ Idle.pc = "idle"
    BY <1>12 DEF Return, Idle
  <2>2. OpenCalls' = [OpenCalls EXCEPT ![p] = Abstract!Closed]
    BY <1>1, <2>1, OpenCallsStep
  <2>. QED  BY <2>1, <2>2, QuietMaps
<1>13. CASE UNCHANGED vars
  BY <1>13 DEF vars, Abstract!vars, Images, OpenCalls
<1>. QED
  BY <1>2, <1>5, <1>6, <1>7, <1>8, <1>9, <1>10, <1>11, <1>12, <1>13 DEF Next, Statement

(* The empty tables are the empty image store. *)
LEMMA InitMaps ==
  ASSUME Init
  PROVE  Abstract!Init
<1>1. Images = [i \in Ids |-> NoSum]
  BY DEF Init, Images, NoRefs
<1>2. OpenCalls = [p \in Procs |-> Abstract!Closed]
  BY DEF Init, Idle, OpenCalls, Abstract!Closed, Zero
<1>. QED
  BY <1>1, <1>2 DEF Abstract!Init

(* Dedup mode implements the image store (Refinement in DedupStore).  *)
THEOREM Implements == Spec => Refinement
<1>1. Init => Abstract!Init
  BY InitMaps
<1>2. IInv /\ IInv' /\ [Next]_vars => [Abstract!Next]_(Abstract!vars)
  BY StepMaps
<1>. QED
  BY <1>1, <1>2, Invariance, PTL DEF Spec, Refinement, Abstract!Spec

(* An image id answers with the bytes it was given for as long as it exists, *)
(* whatever other clients put and delete, and however often a call is tried. *)
THEOREM ContentsImmutable == Spec => Abstract!ContentImmutable
<1>1. [Abstract!Next]_(Abstract!vars)
        => [\A i \in Ids : Images[i] # NoSum => Images'[i] \in {Images[i], NoSum}]_Images
  <2> SUFFICES ASSUME Abstract!Next
               PROVE  Images' = Images \/ \A i \in Ids : Images[i] # NoSum => Images'[i] \in {Images[i], NoSum}
    BY DEF Abstract!vars
  <2>1. PICK p \in Procs : Abstract!Open(p) \/ Abstract!Put(p) \/ Abstract!Delete(p) \/ Abstract!GiveUp(p)
    BY DEF Abstract!Next
  <2>2. CASE Abstract!Open(p) \/ Abstract!GiveUp(p)
    BY <2>2 DEF Abstract!Open, Abstract!GiveUp
  <2>3. CASE Abstract!Put(p)
    <3>1. PICK new \in [Ids -> Checksums \cup {NoSum}] :
            /\ \A i \in Ids : new[i] # NoSum => Images[i] = NoSum
            /\ Images' = [i \in Ids |-> IF new[i] # NoSum THEN new[i] ELSE Images[i]]
      BY <2>3 DEF Abstract!Put
    <3>. QED  BY <3>1
  <2>4. CASE Abstract!Delete(p)
    <3>1. Images' = [i \in Ids |-> IF i \in OpenCalls[p].ids THEN NoSum ELSE Images[i]]
      BY <2>4 DEF Abstract!Delete
    <3>. QED  BY <3>1
  <2>. QED  BY <2>1, <2>2, <2>3, <2>4
<1>. QED
  BY <1>1, Implements, PTL DEF Refinement, Abstract!Spec, Abstract!ContentImmutable
==============================================================================
