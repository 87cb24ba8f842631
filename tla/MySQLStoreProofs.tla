-------------------------- MODULE MySQLStoreProofs --------------------------
(***************************************************************************)
(* What holds of MySQLStore for all values of its constants: the pool gets *)
(* back clean connections, no update of a ref_count is lost although it is *)
(* computed in Python, a tiered row has its object, and a stream delivers  *)
(* its image.  IInv is the inductive invariant.  It says, for every call,  *)
(* what the statements it has executed have locked and what its commit     *)
(* will write.                                                             *)
(***************************************************************************)
EXTENDS MySQLStore, FiniteSetTheorems, WellFoundedInduction, TLAPS

(* Between BEGIN and the commit; a call that waits for a connection, reads  *)
(* or cleans up has no transaction.                                         *)
Writing == {"blobs", "refs", "upload", "update", "commit"}

(* Which operation is where, and what its call carries there. *)
Shape(p) ==
  /\ tx[p].pc = "idle" => tx[p].op = "get_many"
  /\ tx[p].pc = "returned" => tx[p].op = "get_stream"
  /\ tx[p].pc = "blobs" => mode = "dedup" /\ tx[p].op \in {"put_many", "delete_many"}
                           /\ tx[p].sums # {}
  /\ tx[p].pc = "refs" => mode = "dedup" /\ tx[p].op = "put_many"
  /\ tx[p].pc \in {"upload", "update"} => tx[p].op = "tier_to_object_storage"
  /\ tx[p].pc = "commit" => tx[p].op \in {"put_many", "delete_many", "tier_to_object_storage"}
  /\ tx[p].pc = "cleanup" => tx[p].op = "delete_many"
  /\ tx[p].pc = "fetch" => tx[p].op = "get_many"
  /\ tx[p].pc = "object" => tx[p].op = "get_stream" /\ tx[p].left > 0
  /\ tx[p].op = "tier_to_object_storage" => mode = "classic"
  /\ tx[p].op = "put_many" => tx[p].ids # {}
  /\ tx[p].op \in {"tier_to_object_storage", "get_stream"} => \E i \in Ids : tx[p].ids = {i}
  /\ tx[p].pc # "blobs" => tx[p].sums = {}
  /\ tx[p].pc \notin Writing => tx[p].wrote = {}
  /\ tx[p].pc \notin {"upload", "update"} => tx[p].alive
  /\ tx[p].op \in {"put_many", "tier_to_object_storage"} => tx[p].todo = {}
  /\ tx[p].late \in {0, 1} /\ (tx[p].late = 1 => closed /\ tx[p].pc # "connect")

(* A stream delivers nothing but its image, and ends with all of it. *)
Streaming(p) ==
  /\ tx[p].op = "get_stream" => tx[p].got \subseteq SumsOf(tx[p].ids)
  /\ tx[p].op # "get_stream" => tx[p].left = 0 /\ tx[p].got = {}
  /\ tx[p].op = "get_stream" /\ tx[p].result = "bytes" =>
       tx[p].left = 0 /\ tx[p].got = SumsOf(tx[p].ids)
  /\ tx[p].pc # "returned" => tx[p].result = "none"

(* The blobs a transaction has written are locked, and the values it will   *)
(* commit are the present counts plus or minus its own references.          *)
Batch(p) == IF tx[p].op = "put_many" THEN tx[p].ids ELSE tx[p].wrote
Target(p, s) ==
  IF tx[p].op = "put_many" THEN blobs[s] + Count(tx[p].ids, s)
  ELSE blobs[s] - Count(tx[p].wrote, s)

Counting(p) ==
  /\ tx[p].sums \subseteq SumsOf(Batch(p))
  /\ \A s \in Sums :
       IF /\ mode = "dedup" /\ tx[p].pc \in {"blobs", "refs", "commit"}
          /\ s \in SumsOf(Batch(p)) \ tx[p].sums
       THEN lock[s] = p /\ tx[p].counts[s] = Target(p, s) /\ tx[p].counts[s] >= 0
       ELSE tx[p].counts[s] = -1

(* A put inserts ids that nobody else has; a delete and a tiering hold the  *)
(* rows they found; the objects a delete removes belong to rows that are    *)
(* gone; a call without a transaction holds nothing.                        *)
Holding(p) ==
  /\ tx[p].pc \notin Writing => \A k \in Ids \cup Sums : lock[k] # p
  /\ tx[p].op = "put_many" =>
       IF tx[p].pc = "commit"
       THEN tx[p].wrote = tx[p].ids /\ \A i \in tx[p].ids : rows[i] = "none"
       ELSE tx[p].wrote = {}
  /\ tx[p].op = "delete_many" /\ tx[p].pc \in {"blobs", "commit"} =>
       /\ tx[p].wrote \subseteq tx[p].ids /\ tx[p].todo \subseteq tx[p].wrote
       /\ \A i \in tx[p].ids : IF i \in tx[p].wrote THEN rows[i] # "none" /\ lock[i] = p
                               ELSE rows[i] = "none"
  /\ tx[p].pc = "cleanup" =>
       tx[p].todo \subseteq tx[p].ids /\ \A i \in tx[p].todo : rows[i] = "none"
  /\ tx[p].pc \in {"upload", "update"} =>
       /\ tx[p].wrote = {}
       /\ \A i \in tx[p].ids : given[i] # NoSum
       /\ tx[p].alive => \A i \in tx[p].ids : rows[i] = "mysql" /\ lock[i] = p
       /\ tx[p].alive /\ tx[p].pc = "update" => tx[p].ids \subseteq objects
  /\ tx[p].op = "tier_to_object_storage" /\ tx[p].pc = "commit" =>
       /\ tx[p].wrote \subseteq tx[p].ids
       /\ \A i \in tx[p].wrote : rows[i] = "mysql" /\ lock[i] = p /\ i \in objects

(* The ids of a put_many are in no other call. *)
IdsApart ==
  \A p, q \in Procs : p # q /\ tx[p].op = "put_many" => tx[p].ids \cap tx[q].ids = {}

(* Whatever is stored, or about to be, was drawn. *)
Drawn ==
  /\ \A i \in Ids : rows[i] # "none" \/ i \in objects => given[i] # NoSum
  /\ \A p \in Procs : tx[p].op = "put_many" => \A i \in tx[p].ids : given[i] # NoSum

(* "The image's bytes are always in at least one place": a row that points  *)
(* at an object has it.                                                     *)
BytesSafe == \A i \in Ids : rows[i] = "object_storage" => i \in objects

CallInv(p) == Shape(p) /\ Streaming(p) /\ Counting(p) /\ Holding(p)

IInv ==
  /\ TypeOK /\ PoolClean /\ RefCountExact
  /\ IdsApart /\ Drawn /\ BytesSafe
  /\ \A p \in Procs : CallInv(p)

-----------------------------------------------------------------------------
(* Lemmas about the operators *)

(* An idle call is a call, and so is what a call becomes when it ends or    *)
(* starts again.                                                            *)
LEMMA IdleType == Idle \in Call
  BY DEF Idle, Call, Unwritten, Connected

(* A call that ends with any answer is a call. *)
LEMMA FinishType ==
  ASSUME NEW r \in Call, NEW result \in {"None", "bytes", "StorageError", "TypeError"}
  PROVE  Finish(r, result) \in Call
  BY ZenonT(60), IdleType DEF Finish, Idle, Call, Unwritten, Connected

(* So is one whose attempt has failed. *)
LEMMA AfterFailureType ==
  ASSUME NEW r \in Call
  PROVE  AfterFailure(r) \in Call
<1>1. CASE r.attempt < MaxRetries
  <2>1. AfterFailure(r) =
          [pc |-> "check", op |-> r.op, ids |-> r.ids, attempt |-> r.attempt + 1, alive |-> TRUE,
           wrote |-> {}, counts |-> Unwritten, sums |-> {}, todo |-> {}, left |-> r.left,
           got |-> r.got, late |-> r.late, result |-> "none"]
    BY <1>1 DEF AfterFailure, Idle
  <2>. QED  BY <2>1 DEF Call, Unwritten, Connected
<1>2. CASE ~(r.attempt < MaxRetries)
  BY <1>2, FinishType DEF AfterFailure
<1>. QED  BY <1>1, <1>2

(* Counting the images of a content. *)
LEMMA CountType ==
  ASSUME NEW S \in SUBSET Ids, NEW s
  PROVE  Count(S, s) \in Nat /\ IsFiniteSet({i \in S : given[i] = s})
<1>1. {i \in S : given[i] = s} \in SUBSET Ids
  OBVIOUS
<1>. QED
  BY <1>1, MySQLAssumption, FS_Subset, FS_CardinalityType DEF Count

(* A content that no image has is counted zero times. *)
LEMMA CountZero ==
  ASSUME NEW S \in SUBSET Ids, NEW s
  PROVE  Count(S, s) = 0 <=> s \notin SumsOf(S)
<1>1. Count(S, s) = 0 <=> {i \in S : given[i] = s} = {}
  BY CountType, FS_EmptySet DEF Count
<1>. QED  BY <1>1 DEF SumsOf

(* Batches that share no image add up. *)
LEMMA CountUnion ==
  ASSUME NEW S \in SUBSET Ids, NEW T \in SUBSET Ids, S \cap T = {}, NEW s
  PROVE  Count(S \cup T, s) = Count(S, s) + Count(T, s)
<1> DEFINE A == {i \in S : given[i] = s}
           B == {i \in T : given[i] = s}
<1>1. {i \in S \cup T : given[i] = s} = A \cup B /\ A \cap B = {}
  OBVIOUS
<1>2. IsFiniteSet(A) /\ IsFiniteSet(B) /\ Cardinality(A) \in Nat /\ Cardinality(B) \in Nat
  BY CountType DEF Count
<1>3. Cardinality(A \cup B) = Cardinality(A) + Cardinality(B) - Cardinality(A \cap B)
  BY <1>2, FS_Union
<1>4. Cardinality(A \cap B) = 0
  BY <1>1, FS_EmptySet
<1>5. Cardinality(A \cup B) = Cardinality(A) + Cardinality(B)
  <2> HIDE DEF A, B
  <2>. QED  BY <1>2, <1>3, <1>4
<1>. QED  BY <1>1, <1>5, Zenon DEF Count

(* Part of a batch has no more images of a content than the batch. *)
LEMMA CountMonotonic ==
  ASSUME NEW S \in SUBSET Ids, NEW T \in SUBSET S, NEW s
  PROVE  Count(T, s) <= Count(S, s) /\ Count(S \ T, s) = Count(S, s) - Count(T, s)
<1>1. T \cup (S \ T) = S /\ T \cap (S \ T) = {} /\ T \in SUBSET Ids /\ S \ T \in SUBSET Ids
  OBVIOUS
<1>2. Count(S, s) = Count(T, s) + Count(S \ T, s)
  BY <1>1, CountUnion
<1>3. Count(S, s) \in Nat /\ Count(T, s) \in Nat /\ Count(S \ T, s) \in Nat
  BY <1>1, CountType
<1>. QED  BY <1>2, <1>3

(* A set of checksums has a least one: the blob whose turn it is. *)
LEMMA Least ==
  ASSUME NEW W \in SUBSET Nat, W # {}
  PROVE  Min(W) \in W
<1> DEFINE R == OpToRel(<, Nat)
<1>1. IsWellFoundedOn(R, Nat)
  BY NatLessThanWellFounded
<1>2. \A x, y \in Nat : x < y => <<x, y>> \in R
  BY DEF OpToRel
<1> HIDE DEF R
<1>3. PICK x \in W : \A y \in W : ~ (<<y, x>> \in R)
  BY <1>1, WFMin
<1>4. ASSUME NEW y \in W PROVE x <= y
  <2>1. x \in Nat /\ y \in Nat
    OBVIOUS
  <2>2. ~(y < x)
    BY <1>2, <1>3, <2>1
  <2>. QED  BY <2>1, <2>2
<1>. QED  BY <1>4 DEF Min

(* The pool counts the calls that are connected. *)
LEMMA PoolStep ==
  ASSUME TypeOK, PoolClean, NEW p \in Procs, NEW r, tx' = [tx EXCEPT ![p] = r],
         out' = out + (IF r.pc \in Connected THEN 1 ELSE 0)
                    - (IF tx[p].pc \in Connected THEN 1 ELSE 0)
  PROVE  /\ out' = Cardinality({q \in Procs : tx'[q].pc \in Connected})
         /\ out' \in Nat
<1> DEFINE C == {q \in Procs : tx[q].pc \in Connected}
           D == {q \in Procs : tx'[q].pc \in Connected}
<1>1. tx'[p] = r /\ \A q \in Procs : q # p => tx'[q] = tx[q]
  BY DEF TypeOK
<1>2. C \in SUBSET Procs /\ IsFiniteSet(C) /\ Cardinality(C) \in Nat /\ out = Cardinality(C)
  BY MySQLAssumption, FS_Subset, FS_CardinalityType DEF PoolClean
<1>3. D = IF r.pc \in Connected THEN C \cup {p} ELSE C \ {p}
  BY <1>1
<1>4. p \in C <=> tx[p].pc \in Connected
  OBVIOUS
<1> HIDE DEF C, D
<1>5. /\ Cardinality(C \cup {p}) = IF p \in C THEN Cardinality(C) ELSE Cardinality(C) + 1
      /\ Cardinality(C \ {p}) = IF p \in C THEN Cardinality(C) - 1 ELSE Cardinality(C)
      /\ IsFiniteSet(C \cup {p}) /\ IsFiniteSet(C \ {p})
  BY <1>2, FS_AddElement, FS_RemoveElement
<1>6. Cardinality(C \cup {p}) \in Nat /\ Cardinality(C \ {p}) \in Nat
  BY <1>5, FS_CardinalityType
<1>7. out' = Cardinality(D) /\ out' \in Nat
  <2>1. CASE r.pc \in Connected
    BY <1>2, <1>3, <1>4, <1>5, <1>6, <2>1
  <2>2. CASE r.pc \notin Connected
    BY <1>2, <1>3, <1>4, <1>5, <1>6, <2>2
  <2>. QED  BY <2>1, <2>2
<1>. QED  BY <1>7 DEF D

-----------------------------------------------------------------------------
(* The initial states, and what one call's step leaves of the others *)

(* No rows, no calls. *)
LEMMA InitIInv == Init => IInv
<1> SUFFICES ASSUME Init PROVE IInv
  OBVIOUS
<1>1. \A p \in Procs : tx[p] = Idle
  BY DEF Init
<1>2. TypeOK
  <2>1. PoolMax \in Nat /\ 0 \in 0..PoolMax
    BY MySQLAssumption
  <2>2. tx \in [Procs -> Call]
    BY IdleType DEF Init
  <2>3. blobs \in [Sums -> Nat] /\ lock \in [Ids \cup Sums -> Procs \cup {NoProc}]
    BY DEF Init
  <2>. QED  BY <2>1, <2>2, <2>3 DEF Init, TypeOK, Backend
<1>3. PoolClean
  <2>1. {p \in Procs : tx[p].pc \in Connected} = {}
    BY <1>1 DEF Idle, Connected
  <2>2. \A k \in DOMAIN lock : lock[k] = NoProc
    BY DEF Init
  <2>. QED  BY <2>1, <2>2, FS_EmptySet DEF PoolClean, Init
<1>4. RefCountExact
  <2>1. Stored(Ids) = {}
    BY DEF Stored, Init
  <2>2. ASSUME NEW s \in Sums PROVE Count({}, s) = 0
    BY CountZero DEF SumsOf
  <2>. QED  BY <2>1, <2>2 DEF RefCountExact, Init
<1>5. IdsApart /\ Drawn /\ BytesSafe
  BY <1>1 DEF IdsApart, Drawn, BytesSafe, Init, Idle
<1>6. ASSUME NEW p \in Procs PROVE CallInv(p)
  <2>1. Shape(p) /\ Streaming(p)
    BY <1>1 DEF Shape, Streaming, Idle, Writing
  <2>3. Holding(p)
    BY <1>1, MySQLAssumption DEF Holding, Idle, Init
  <2>2. Counting(p)
    BY <1>1 DEF Counting, Idle, Batch, Unwritten
  <2>. QED  BY <2>1, <2>2, <2>3 DEF CallInv
<1>. QED  BY <1>2, <1>3, <1>4, <1>5, <1>6 DEF IInv

(* A call that takes no step keeps what it knows, if the rows and blobs that *)
(* it has locked, the rows it will insert and those it knows to be gone     *)
(* stay as they are.                                                        *)
LEMMA FrameCall ==
  ASSUME TypeOK, NEW q \in Procs, CallInv(q), tx'[q] = tx[q], mode' = mode, closed => closed',
         \A k \in Ids \cup Sums : lock'[k] = q <=> lock[k] = q,
         \A i \in tx[q].ids : given'[i] = given[i],
         \A s \in Sums : lock[s] = q => blobs'[s] = blobs[s],
         \A i \in tx[q].ids :
            /\ tx[q].op = "put_many" \/ lock[i] = q => rows'[i] = rows[i]
            /\ rows[i] = "none" /\ tx[q].op = "delete_many" => rows'[i] = "none"
            /\ i \in objects /\ lock[i] = q /\ rows[i] = "mysql" => i \in objects'
  PROVE  CallInv(q)'
<1>1. tx[q] \in Call /\ tx[q].ids \subseteq Ids /\ Shape(q) /\ Streaming(q) /\ Counting(q) /\ Holding(q)
  BY DEF TypeOK, Call, CallInv
<1>2. /\ SumsOf(tx[q].ids)' = SumsOf(tx[q].ids) /\ SumsOf(tx[q].wrote)' = SumsOf(tx[q].wrote)
      /\ \A s : Count(tx[q].ids, s)' = Count(tx[q].ids, s)
                /\ Count(tx[q].wrote, s)' = Count(tx[q].wrote, s)
  <2>1. tx[q].wrote \subseteq tx[q].ids
    BY <1>1 DEF Holding, Shape, Writing, Call, Connected
  <2>2. ASSUME NEW s
        PROVE  /\ {i \in tx'[q].ids : given'[i] = s} = {i \in tx[q].ids : given[i] = s}
               /\ {i \in tx'[q].wrote : given'[i] = s} = {i \in tx[q].wrote : given[i] = s}
    BY <2>1
  <2>3. \A s : Count(tx[q].ids, s)' = Count(tx[q].ids, s)
               /\ Count(tx[q].wrote, s)' = Count(tx[q].wrote, s)
    BY <2>2, Zenon DEF Count
  <2>. QED  BY <2>1, <2>3 DEF SumsOf
<1>3. Shape(q)'
  BY <1>1 DEF Shape
<1>4. Streaming(q)'
  BY <1>1, <1>2 DEF Streaming
<1>5. Holding(q)'
  BY <1>1 DEF Holding, Shape
<1>6. Counting(q)'
  <2>1. SumsOf(Batch(q))' = SumsOf(Batch(q))
    BY <1>2 DEF Batch
  <2>2. ASSUME NEW s \in Sums, lock[s] = q PROVE lock'[s] = q /\ Target(q, s)' = Target(q, s)
    BY <1>2, <2>2 DEF Target
  <2>. QED  BY <1>1, <2>1, <2>2 DEF Counting
<1>. QED  BY <1>3, <1>4, <1>5, <1>6 DEF CallInv

(* What remains to be shown of a step of p.  The condition on the others is *)
(* FrameCall's.                                                             *)
LEMMA StepIInv ==
  ASSUME IInv, NEW p \in Procs, NEW r \in Call, tx' = [tx EXCEPT ![p] = r],
         UNCHANGED <<mode, closed>>,
         rows' \in [Ids -> Backend], blobs' \in [Sums -> Nat],
         lock' \in [Ids \cup Sums -> Procs \cup {NoProc}],
         objects' \subseteq Ids, given' \in [Ids -> Sums \cup {NoSum}],
         out' = out + (IF r.pc \in Connected THEN 1 ELSE 0)
                    - (IF tx[p].pc \in Connected THEN 1 ELSE 0),
         out' <= PoolMax,
         \A q \in Procs, k \in Ids \cup Sums : q # p => (lock'[k] = q <=> lock[k] = q),
         \A q \in Procs : q # p =>
           /\ \A i \in tx[q].ids : given'[i] = given[i]
           /\ \A s \in Sums : lock[s] = q => blobs'[s] = blobs[s]
           /\ \A i \in tx[q].ids :
                /\ tx[q].op = "put_many" \/ lock[i] = q => rows'[i] = rows[i]
                /\ rows[i] = "none" /\ tx[q].op = "delete_many" => rows'[i] = "none"
                /\ i \in objects /\ lock[i] = q /\ rows[i] = "mysql" => i \in objects',
         IdsApart', Drawn', BytesSafe', RefCountExact', CallInv(p)'
  PROVE  IInv'
<1>1. TypeOK /\ PoolClean
  BY DEF IInv
<1>2. tx'[p] = r /\ \A q \in Procs : q # p => tx'[q] = tx[q]
  BY <1>1 DEF TypeOK
<1>3. out' = Cardinality({q \in Procs : tx'[q].pc \in Connected}) /\ out' \in Nat
  BY <1>1, PoolStep
<1>4. TypeOK'
  <2>1. tx' \in [Procs -> Call]
    BY <1>1 DEF TypeOK
  <2>2. out' \in 0..PoolMax
    BY <1>3, MySQLAssumption
  <2>. QED  BY <1>1, <2>1, <2>2 DEF TypeOK
<1>5. PoolClean'
  <2>1. ASSUME NEW k \in Ids \cup Sums, lock'[k] # NoProc
        PROVE  tx'[lock'[k]].pc \in Connected
    <3>1. lock'[k] \in Procs
      BY <2>1
    <3>2. CASE lock'[k] = p
      BY <1>2, <2>1, <3>2 DEF CallInv, Holding, Writing, Connected
    <3>3. CASE lock'[k] # p
      <4>1. lock[k] = lock'[k]
        BY <3>1, <3>3
      <4>. QED  BY <1>1, <1>2, <2>1, <3>1, <3>3, <4>1 DEF PoolClean, TypeOK
    <3>. QED  BY <3>2, <3>3
  <2>. QED  BY <1>3, <2>1 DEF PoolClean
<1>6. ASSUME NEW q \in Procs PROVE CallInv(q)'
  <2>1. CASE q = p  BY <2>1
  <2>2. CASE q # p
    <3>1. CallInv(q)
      BY DEF IInv
    <3>. QED  BY <1>1, <1>2, <2>2, <3>1, FrameCall
  <2>. QED  BY <2>1, <2>2
<1>. QED  BY <1>4, <1>5, <1>6 DEF IInv

(* The same for a step that leaves tables and bucket alone. *)
LEMMA LocalStep ==
  ASSUME IInv, NEW p \in Procs, NEW r \in Call, tx' = [tx EXCEPT ![p] = r],
         UNCHANGED <<mode, closed, tables, objects, given>>,
         lock' \in [Ids \cup Sums -> Procs \cup {NoProc}],
         out' = out + (IF r.pc \in Connected THEN 1 ELSE 0)
                    - (IF tx[p].pc \in Connected THEN 1 ELSE 0),
         out' <= PoolMax,
         \A q \in Procs, k \in Ids \cup Sums : q # p => (lock'[k] = q <=> lock[k] = q),
         r.ids \subseteq tx[p].ids, r.op = "put_many" => tx[p].op = "put_many",
         CallInv(p)'
  PROVE  IInv'
<1>1. TypeOK /\ IdsApart /\ Drawn /\ BytesSafe /\ RefCountExact
  BY DEF IInv
<1>2. tx'[p] = r /\ \A q \in Procs : q # p => tx'[q] = tx[q]
  BY <1>1 DEF TypeOK
<1>3. IdsApart'
  <2> SUFFICES ASSUME NEW a \in Procs, NEW b \in Procs, a # b, tx'[a].op = "put_many"
               PROVE  tx'[a].ids \cap tx'[b].ids = {}
    BY DEF IdsApart
  <2>1. tx[a].op = "put_many" /\ tx'[a].ids \subseteq tx[a].ids /\ tx'[b].ids \subseteq tx[b].ids
    BY <1>2
  <2>. QED  BY <1>1, <2>1 DEF IdsApart
<1>4. Drawn' /\ BytesSafe'
  BY <1>1, <1>2 DEF Drawn, BytesSafe, tables
<1>5. RefCountExact'
  BY <1>1 DEF RefCountExact, Count, Stored, tables
<1>6. UNCHANGED <<rows, blobs>>
  BY DEF tables
<1>. QED  BY <1>1, <1>3, <1>4, <1>5, <1>6, StepIInv DEF TypeOK

(* The locks of p, and no others, are given up. *)
LEMMA UnlockEffect ==
  ASSUME TypeOK, NEW p \in Procs, Unlock(p)
  PROVE  /\ lock' \in [Ids \cup Sums -> Procs \cup {NoProc}]
         /\ \A k \in Ids \cup Sums : lock'[k] # p
         /\ \A q \in Procs, k \in Ids \cup Sums : q # p => (lock'[k] = q <=> lock[k] = q)
  BY MySQLAssumption DEF TypeOK, Unlock

(* p takes locks that are free. *)
LEMMA LockEffect ==
  ASSUME TypeOK, NEW p \in Procs, NEW K \in SUBSET (Ids \cup Sums), Free(p, K), Lock(p, K)
  PROVE  /\ lock' \in [Ids \cup Sums -> Procs \cup {NoProc}]
         /\ \A k \in Ids \cup Sums : lock'[k] = p <=> lock[k] = p \/ k \in K
         /\ \A q \in Procs, k \in Ids \cup Sums : q # p => (lock'[k] = q <=> lock[k] = q)
  BY MySQLAssumption DEF TypeOK, Free, Lock

-----------------------------------------------------------------------------
(* Steps that end a call or an attempt of it *)

(* What is left of a call c that ends, or starts again.                     *)
Endings(c) ==
  {Idle, AfterFailure(c), Finish(c, "None"), Finish(c, "StorageError"), Finish(c, "TypeError")}

(* Whichever ending it is, it is a call that has nothing left to write. *)
LEMMA EndingShape ==
  ASSUME NEW c \in Call, NEW r \in Endings(c)
  PROVE  /\ r \in Call /\ r.pc \in {"idle", "check", "returned"}
         /\ r.wrote = {} /\ r.sums = {} /\ r.todo = {} /\ r.counts = Unwritten /\ r.alive
         /\ r.pc = "idle" => r.op = "get_many"
         /\ r.pc = "returned" => r.op = "get_stream"
         /\ \/ r.op = c.op /\ r.ids = c.ids /\ r.left = c.left /\ r.got = c.got
            \/ r.op = "get_many" /\ r.ids = {} /\ r.left = 0 /\ r.got = {}
         /\ r.result # "bytes" /\ (r.pc # "returned" => r.result = "none")
         /\ r.late \in {0, c.late}
<1>1. r \in Call
  BY IdleType, FinishType, AfterFailureType DEF Endings
<1>2. CASE r = Idle
  BY <1>1, <1>2 DEF Idle
<1>3. ASSUME NEW res \in {"None", "StorageError", "TypeError"}, c.op = "get_stream", r = Finish(c, res)
      PROVE  r = [pc |-> "returned", op |-> c.op, ids |-> c.ids, attempt |-> 0, alive |-> TRUE,
                  wrote |-> {}, counts |-> Unwritten, sums |-> {}, todo |-> {}, left |-> c.left,
                  got |-> c.got, late |-> 0, result |-> res]
  BY <1>3 DEF Finish, Idle
<1>4. ASSUME NEW res \in {"None", "StorageError", "TypeError"}, c.op # "get_stream", r = Finish(c, res)
      PROVE  r = Idle
  BY <1>4 DEF Finish
<1>5. CASE r = AfterFailure(c) /\ c.attempt < MaxRetries
  <2>1. r = [pc |-> "check", op |-> c.op, ids |-> c.ids, attempt |-> c.attempt + 1, alive |-> TRUE,
             wrote |-> {}, counts |-> Unwritten, sums |-> {}, todo |-> {}, left |-> c.left,
             got |-> c.got, late |-> c.late, result |-> "none"]
    BY <1>5 DEF AfterFailure, Idle
  <2>. QED  BY <1>1, <2>1
<1>6. r \in {Idle, Finish(c, "None"), Finish(c, "StorageError"), Finish(c, "TypeError")}
      \/ (r = AfterFailure(c) /\ c.attempt < MaxRetries)
  BY DEF Endings, AfterFailure
<1>7. CASE \E res \in {"None", "StorageError", "TypeError"} : r = Finish(c, res)
  <2>1. PICK res \in {"None", "StorageError", "TypeError"} : r = Finish(c, res)
    BY <1>7
  <2>2. CASE c.op = "get_stream"
    BY <1>1, <1>3, <2>1, <2>2
  <2>3. CASE c.op # "get_stream"
    BY <1>2, <1>4, <2>1, <2>3
  <2>. QED  BY <2>2, <2>3
<1>. QED  BY <1>2, <1>5, <1>6, <1>7

(* It knows nothing of the tables any more. *)
LEMMA EndedCall ==
  ASSUME TypeOK, NEW p \in Procs, CallInv(p), tx'[p] \in Endings(tx[p]),
         UNCHANGED <<mode, closed, given>>, \A k \in Ids \cup Sums : lock'[k] # p
  PROVE  CallInv(p)'
<1>1. tx[p] \in Call
  BY DEF TypeOK
<1> DEFINE r == tx'[p]
<1>2. /\ r \in Call /\ r.pc \in {"idle", "check", "returned"}
      /\ r.wrote = {} /\ r.sums = {} /\ r.todo = {} /\ r.counts = Unwritten /\ r.alive
      /\ r.pc = "idle" => r.op = "get_many"
      /\ r.pc = "returned" => r.op = "get_stream"
      /\ \/ r.op = tx[p].op /\ r.ids = tx[p].ids /\ r.left = tx[p].left /\ r.got = tx[p].got
         \/ r.op = "get_many" /\ r.ids = {} /\ r.left = 0 /\ r.got = {}
      /\ r.result # "bytes" /\ (r.pc # "returned" => r.result = "none")
      /\ r.late \in {0, tx[p].late}
  BY <1>1, EndingShape
<1> HIDE DEF r
<1>3. r = tx'[p]
  BY DEF r
<1>4. Shape(p)'
  BY <1>2, <1>3 DEF Shape, CallInv, Writing
<1>5. Streaming(p)'
  BY <1>2, <1>3 DEF Streaming, CallInv, SumsOf
<1>6. Counting(p)'
  BY <1>2, <1>3 DEF Counting, Unwritten
<1>7. Holding(p)'
  BY <1>2, <1>3 DEF Holding
<1>. QED  BY <1>4, <1>5, <1>6, <1>7 DEF CallInv

(* A step that ends the call, or an attempt, and changes nothing else. *)
LEMMA EndStep ==
  ASSUME IInv, NEW p \in Procs, NEW r \in Endings(tx[p]), Goes(p, r),
         UNCHANGED <<mode, closed, tables, objects, given>>,
         lock' \in [Ids \cup Sums -> Procs \cup {NoProc}],
         out' = IF tx[p].pc \in Connected THEN out - 1 ELSE out,
         \A k \in Ids \cup Sums : lock'[k] # p,
         \A q \in Procs, k \in Ids \cup Sums : q # p => (lock'[k] = q <=> lock[k] = q)
  PROVE  IInv'
<1>1. TypeOK /\ CallInv(p) /\ tx[p] \in Call
  BY DEF IInv, TypeOK
<1>2. /\ r \in Call /\ r.pc \in {"idle", "check", "returned"}
      /\ r.ids \subseteq tx[p].ids /\ (r.op = "put_many" => tx[p].op = "put_many")
  BY <1>1, EndingShape
<1>3. out' = out + (IF r.pc \in Connected THEN 1 ELSE 0) - (IF tx[p].pc \in Connected THEN 1 ELSE 0)
      /\ out' <= PoolMax
  BY <1>1, <1>2, MySQLAssumption DEF TypeOK, Connected
<1>4. tx' = [tx EXCEPT ![p] = r] /\ tx'[p] = r
  BY <1>1 DEF Goes, TypeOK
<1>5. CallInv(p)'
  BY <1>1, <1>4, EndedCall
<1>. QED  BY <1>2, <1>3, <1>4, <1>5, LocalStep

(* A call without a transaction has no locks; nor has one that reads. *)
LEMMA NoLocks ==
  ASSUME IInv, NEW p \in Procs, tx[p].pc \notin Writing, lock' = lock
  PROVE  /\ \A k \in Ids \cup Sums : lock'[k] # p
         /\ \A q \in Procs, k \in Ids \cup Sums : q # p => (lock'[k] = q <=> lock[k] = q)
         /\ lock' \in [Ids \cup Sums -> Procs \cup {NoProc}]
  BY DEF IInv, CallInv, Holding, TypeOK

(* No connection: the call ends, and it held nothing. *)
LEMMA ConnectFailsIInv == ASSUME IInv, NEW p \in Procs, ConnectFails(p) PROVE IInv'
  BY NoLocks, EndStep DEF ConnectFails, Endings, Writing, Connected

(* The caller takes the answer. *)
LEMMA ReturnIInv == ASSUME IInv, NEW p \in Procs, Return(p) PROVE IInv'
  BY NoLocks, EndStep DEF Return, Endings, Writing, Connected

(* A rollback, and the call begins again or ends. *)
LEMMA FailIInv == ASSUME IInv, NEW p \in Procs, Fail(p) PROVE IInv'
  BY UnlockEffect, EndStep DEF Fail, Endings, IInv

(* A rollback, and the call ends. *)
LEMMA AbortIInv == ASSUME IInv, NEW p \in Procs, Abort(p) PROVE IInv'
  BY UnlockEffect, EndStep DEF Abort, Endings, IInv

-----------------------------------------------------------------------------
(* Steps of calls that have no transaction *)

(* What such a step keeps is little. *)
LEMMA QuietStep ==
  ASSUME IInv, NEW p \in Procs, NEW r \in Call, Goes(p, r),
         UNCHANGED <<mode, closed, tables, lock, objects, given>>,
         tx[p].pc \notin Writing, r.pc \notin Writing \cup {"cleanup"},
         r.ids = tx[p].ids, r.op = tx[p].op, r.sums = {}, r.wrote = {},
         \A s \in Sums : r.counts[s] = -1,
         out' = out + (IF r.pc \in Connected THEN 1 ELSE 0)
                    - (IF tx[p].pc \in Connected THEN 1 ELSE 0),
         out' <= PoolMax, Shape(p)', Streaming(p)'
  PROVE  IInv'
<1>1. TypeOK /\ tx' = [tx EXCEPT ![p] = r] /\ tx'[p] = r
  BY DEF IInv, TypeOK, Goes
<1>2. Counting(p)'
  BY <1>1 DEF Counting, Writing
<1>3. Holding(p)'
  BY <1>1, NoLocks DEF Holding, Writing
<1>4. CallInv(p)'
  BY <1>2, <1>3 DEF CallInv
<1>5. /\ lock' \in [Ids \cup Sums -> Procs \cup {NoProc}]
      /\ \A q \in Procs, k \in Ids \cup Sums : q # p => (lock'[k] = q <=> lock[k] = q)
      /\ UNCHANGED <<mode, closed, tables, objects, given>>
  BY NoLocks
<1>. QED  BY <1>1, <1>4, <1>5, LocalStep

(* What is known of a call without a transaction. *)
LEMMA QuietCall ==
  ASSUME IInv, NEW p \in Procs, tx[p].pc \notin Writing
  PROVE  /\ TypeOK /\ tx[p] \in Call /\ Shape(p) /\ Streaming(p)
         /\ tx[p].sums = {} /\ tx[p].wrote = {} /\ tx[p].alive
         /\ \A s \in Sums : tx[p].counts[s] = -1
         /\ \A r : tx' = [tx EXCEPT ![p] = r] => tx'[p] = r
<1>1. TypeOK /\ tx[p] \in Call /\ Shape(p) /\ Streaming(p) /\ Counting(p)
  BY DEF IInv, TypeOK, CallInv
<1>2. tx[p].sums = {} /\ tx[p].wrote = {} /\ tx[p].alive
  BY <1>1 DEF Shape, Writing
<1>3. \A s \in Sums : tx[p].counts[s] = -1
  BY <1>1 DEF Counting, Writing
<1>. QED  BY <1>1, <1>2, <1>3 DEF TypeOK

(* A closed backend ends the call; an open one lets it ask for a connection. *)
LEMMA CheckIInv == ASSUME IInv, NEW p \in Procs, Check(p) PROVE IInv'
<1>1. CASE closed
  BY <1>1, NoLocks, EndStep DEF Check, Endings, Writing, Connected
<1>2. CASE ~closed
  <2> DEFINE r == [tx[p] EXCEPT !.pc = "connect"]
  <2>1. tx[p].pc = "check" /\ Goes(p, r) /\ UNCHANGED <<mode, closed, out, tables, lock, objects, given>>
    BY <1>2 DEF Check
  <2>2. /\ TypeOK /\ tx[p] \in Call /\ Shape(p) /\ Streaming(p)
        /\ tx[p].sums = {} /\ tx[p].wrote = {} /\ tx[p].alive
        /\ \A s \in Sums : tx[p].counts[s] = -1
        /\ tx'[p] = r
    BY <2>1, QuietCall DEF Writing, Goes
  <2>3. r \in Call /\ Shape(p)' /\ Streaming(p)'
    <3>1. r \in Call
      BY <2>2 DEF Call
    <3>2. Shape(p)'
      BY <1>2, <2>1, <2>2 DEF Shape, Writing
    <3>3. Streaming(p)'
      BY <2>1, <2>2 DEF Streaming, SumsOf
    <3>. QED  BY <3>1, <3>2, <3>3
  <2>4. out' = out + (IF r.pc \in Connected THEN 1 ELSE 0) - (IF tx[p].pc \in Connected THEN 1 ELSE 0)
        /\ out' <= PoolMax
    BY <2>1, <2>2, MySQLAssumption DEF TypeOK, Connected
  <2>8. /\ r.pc \notin Writing \cup {"cleanup"} /\ r.ids = tx[p].ids /\ r.op = tx[p].op
        /\ r.sums = {} /\ r.wrote = {} /\ \A s \in Sums : r.counts[s] = -1
    BY <2>2 DEF Writing
  <2> HIDE DEF r
  <2>. QED  BY <2>1, <2>2, <2>3, <2>4, <2>8, QuietStep DEF Writing
<1>. QED  BY <1>1, <1>2

(* The one connection after close() is that of a call past its check. *)
LEMMA ConnectIInv == ASSUME IInv, NEW p \in Procs, Connect(p) PROVE IInv'
<1> DEFINE r == [tx[p] EXCEPT !.pc = "work", !.late = IF closed THEN @ + 1 ELSE @]
<1>1. tx[p].pc = "connect" /\ Goes(p, r) /\ UNCHANGED <<mode, closed, tables, lock, objects, given>>
      /\ out < PoolMax /\ out' = out + 1
  BY DEF Connect
<1>2. /\ TypeOK /\ tx[p] \in Call /\ Shape(p) /\ Streaming(p)
      /\ tx[p].sums = {} /\ tx[p].wrote = {} /\ tx[p].alive
      /\ \A s \in Sums : tx[p].counts[s] = -1
      /\ tx'[p] = r
  BY <1>1, QuietCall DEF Writing, Goes
<1>3. r \in Call
  <2>1. r.late \in Nat
    BY <1>2 DEF Call
  <2>2. r = [[tx[p] EXCEPT !.pc = "work"] EXCEPT !.late = r.late]
    BY <1>2 DEF Call
  <2> HIDE DEF r
  <2>. QED  BY <1>2, <2>1, <2>2 DEF Call, Connected
<1>4. Shape(p)'
  <2>1. tx[p].late = 0
    BY <1>1, <1>2 DEF Shape
  <2>2. r.late \in {0, 1} /\ (r.late = 1 => closed')
    BY <1>1, <1>2, <2>1 DEF Call
  <2>. QED  BY <1>1, <1>2, <2>2 DEF Shape, Writing
<1>5. Streaming(p)'
  BY <1>1, <1>2 DEF Streaming, SumsOf
<1>6. out' = out + (IF r.pc \in Connected THEN 1 ELSE 0) - (IF tx[p].pc \in Connected THEN 1 ELSE 0)
      /\ out' <= PoolMax
  BY <1>1, <1>2, MySQLAssumption DEF TypeOK, Connected
<1>8. /\ r.pc \notin Writing \cup {"cleanup"} /\ r.ids = tx[p].ids /\ r.op = tx[p].op
      /\ r.sums = {} /\ r.wrote = {} /\ \A s \in Sums : r.counts[s] = -1
  BY <1>2 DEF Writing
<1> HIDE DEF r
<1>. QED  BY <1>1, <1>2, <1>3, <1>4, <1>5, <1>6, <1>8, QuietStep DEF Writing

(* get_many ends, or knows which objects to fetch. *)
LEMMA SelectIInv == ASSUME IInv, NEW p \in Procs, Select(p) PROVE IInv'
<1> DEFINE found == Stored(tx[p].ids)
           r == [tx[p] EXCEPT !.pc = "fetch", !.todo = Tiered(found)]
<1>1. tx[p].pc = "work" /\ tx[p].op = "get_many" /\ out' = out - 1
      /\ UNCHANGED <<mode, closed, tables, lock, objects, given>>
      /\ Goes(p, IF Tiered(found) = {} THEN Idle ELSE r)
  BY DEF Select, Reads, At
<1>2. CASE Tiered(found) = {}
  BY <1>1, <1>2, NoLocks, EndStep DEF Endings, Writing, Connected
<1>3. CASE Tiered(found) # {}
  <2>1. /\ TypeOK /\ tx[p] \in Call /\ Shape(p) /\ Streaming(p)
        /\ tx[p].sums = {} /\ tx[p].wrote = {} /\ tx[p].alive
        /\ \A s \in Sums : tx[p].counts[s] = -1
        /\ tx'[p] = r
    BY <1>1, <1>3, QuietCall DEF Writing, Goes
  <2>2. r \in Call
    <3>1. Tiered(found) \in SUBSET Ids
      BY <2>1 DEF Tiered, Stored, Call
    <3>. QED  BY <2>1, <3>1 DEF Call
  <2>3. Shape(p)'
    BY <1>1, <2>1 DEF Shape, Writing
  <2>4. Streaming(p)'
    BY <1>1, <2>1 DEF Streaming, SumsOf
  <2>5. out' = out + (IF r.pc \in Connected THEN 1 ELSE 0) - (IF tx[p].pc \in Connected THEN 1 ELSE 0)
        /\ out' <= PoolMax
    BY <1>1, <2>1, MySQLAssumption DEF TypeOK, Connected
  <2>6. Goes(p, r)
    BY <1>1, <1>3
  <2>8. /\ r.pc \notin Writing \cup {"cleanup"} /\ r.ids = tx[p].ids /\ r.op = tx[p].op
        /\ r.sums = {} /\ r.wrote = {} /\ \A s \in Sums : r.counts[s] = -1
    BY <2>1 DEF Writing
  <2> HIDE DEF r
  <2>. QED  BY <1>1, <2>1, <2>2, <2>3, <2>4, <2>5, <2>6, <2>8, QuietStep DEF Writing
<1>. QED  BY <1>2, <1>3

(* One object of get_many. *)
LEMMA FetchIInv == ASSUME IInv, NEW p \in Procs, NEW i \in Ids, Fetch(p, i) PROVE IInv'
<1> DEFINE r == [tx[p] EXCEPT !.todo = @ \ {i}]
<1>1. tx[p].pc = "fetch" /\ UNCHANGED <<mode, closed, out, tables, lock, objects, given>>
  BY DEF Fetch
<1>2. CASE i \notin objects \/ tx[p].todo = {i}
  <2>1. PICK e \in Endings(tx[p]) : Goes(p, e)
    BY <1>2 DEF Fetch, Endings
  <2>. QED  BY <1>1, <2>1, NoLocks, EndStep DEF Writing, Connected
<1>3. CASE ~(i \notin objects \/ tx[p].todo = {i})
  <2>1. /\ TypeOK /\ tx[p] \in Call /\ Shape(p) /\ Streaming(p)
        /\ tx[p].sums = {} /\ tx[p].wrote = {} /\ tx[p].alive
        /\ \A s \in Sums : tx[p].counts[s] = -1
        /\ tx'[p] = r /\ Goes(p, r)
    BY <1>1, <1>3, QuietCall DEF Writing, Goes, Fetch
  <2>2. r \in Call
    BY <2>1 DEF Call
  <2>3. Shape(p)'
    BY <1>1, <2>1 DEF Shape, Writing
  <2>4. Streaming(p)'
    BY <1>1, <2>1 DEF Streaming, SumsOf
  <2>5. out' = out + (IF r.pc \in Connected THEN 1 ELSE 0) - (IF tx[p].pc \in Connected THEN 1 ELSE 0)
        /\ out' <= PoolMax
    BY <1>1, <2>1, MySQLAssumption DEF TypeOK, Connected
  <2>8. /\ r.pc \notin Writing \cup {"cleanup"} /\ r.ids = tx[p].ids /\ r.op = tx[p].op
        /\ r.sums = {} /\ r.wrote = {} /\ \A s \in Sums : r.counts[s] = -1
    BY <1>1, <2>1 DEF Writing
  <2> HIDE DEF r
  <2>. QED  BY <1>1, <2>1, <2>2, <2>3, <2>4, <2>5, <2>8, QuietStep DEF Writing
<1>. QED  BY <1>2, <1>3

-----------------------------------------------------------------------------
(* The chunks of a stream *)

(* A chunk is the last one, or the call goes on. *)
LEMMA DeliveredShape ==
  ASSUME NEW c \in Call, c.op = "get_stream", c.left > 0, c.sums = {}, c.wrote = {}, c.alive,
         \A s \in Sums : c.counts[s] = -1, c.result = "none",
         NEW W \in SUBSET Sums, c.got \subseteq W, NEW pc \in {"check", "object"},
         NEW r, r = Delivered(c, W, pc)
  PROVE  /\ r \in Call /\ r.op = c.op /\ r.ids = c.ids /\ r.got = W
         /\ r.sums = {} /\ r.wrote = {} /\ r.alive /\ \A s \in Sums : r.counts[s] = -1
         /\ r.late \in {0, c.late}
         /\ \/ r.pc = "returned" /\ r.left = 0 /\ r.result = "bytes"
            \/ r.pc = pc /\ r.left > 0 /\ r.result = "none"
<1>1. c.got \cup W = W
  OBVIOUS
<1>2. CASE c.left = 1
  <2>1. Finish(c, "bytes") =
          [pc |-> "returned", op |-> c.op, ids |-> c.ids, attempt |-> 0, alive |-> TRUE,
           wrote |-> {}, counts |-> Unwritten, sums |-> {}, todo |-> {}, left |-> c.left,
           got |-> c.got, late |-> 0, result |-> "bytes"]
    BY DEF Finish, Idle
  <2>2. r = [pc |-> "returned", op |-> c.op, ids |-> c.ids, attempt |-> 0, alive |-> TRUE,
             wrote |-> {}, counts |-> Unwritten, sums |-> {}, todo |-> {}, left |-> 0,
             got |-> W, late |-> 0, result |-> "bytes"]
    <3> DEFINE f == Finish(c, "bytes")
    <3>1. r = [f EXCEPT !.left = 0, !.got = @ \cup W]
      BY <1>2 DEF Delivered
    <3>2. f.got \cup W = W
      BY <1>1, <2>1
    <3>3. r = [f EXCEPT !.left = 0, !.got = W]
      BY <2>1, <3>1, <3>2
    <3> HIDE DEF f
    <3>4. f = [pc |-> "returned", op |-> c.op, ids |-> c.ids, attempt |-> 0, alive |-> TRUE,
               wrote |-> {}, counts |-> Unwritten, sums |-> {}, todo |-> {}, left |-> c.left,
               got |-> c.got, late |-> 0, result |-> "bytes"]
      BY <2>1 DEF f
    <3>. QED  BY <3>3, <3>4
  <2>. QED  BY <2>2 DEF Call, Unwritten
<1>3. CASE c.left # 1
  <2>1. r = [c EXCEPT !.left = c.left - 1, !.got = W, !.pc = pc, !.attempt = 0]
    BY <1>1, <1>3 DEF Delivered
  <2>2. c.left - 1 \in Nat /\ c.left - 1 > 0
    BY <1>3 DEF Call
  <2>3. r \in Call
    <3>1. [c EXCEPT !.left = c.left - 1] \in Call
      BY <2>2 DEF Call
    <3>2. [[c EXCEPT !.left = c.left - 1] EXCEPT !.got = W] \in Call
      BY <3>1 DEF Call
    <3>3. [[[c EXCEPT !.left = c.left - 1] EXCEPT !.got = W] EXCEPT !.pc = pc, !.attempt = 0] \in Call
      BY <3>2 DEF Call
    <3>. QED  BY <2>1, <3>3
  <2>4. r.pc = pc /\ r.left = c.left - 1 /\ r.got = W /\ r.op = c.op /\ r.ids = c.ids
        /\ r.sums = c.sums /\ r.wrote = c.wrote /\ r.alive = c.alive /\ r.counts = c.counts
        /\ r.late = c.late /\ r.result = c.result
    BY <2>1 DEF Call
  <2>. QED  BY <2>2, <2>3, <2>4
<1>. QED  BY <1>2, <1>3

(* The row or object of a stream's image is there: its content was drawn. *)
LEMMA ContentOfStream ==
  ASSUME IInv, NEW p \in Procs, tx[p].op = "get_stream",
         Stored(tx[p].ids) # {} \/ tx[p].ids \subseteq objects
  PROVE  /\ SumsOf(tx[p].ids) \in SUBSET Sums /\ tx[p].got \subseteq SumsOf(tx[p].ids)
         /\ SumsOf(tx[p].ids) # {}
<1>1. TypeOK /\ Drawn /\ Shape(p) /\ Streaming(p)
  BY DEF IInv, CallInv
<1>2. PICK i \in Ids : tx[p].ids = {i}
  BY <1>1 DEF Shape
<1>3. rows[i] # "none" \/ i \in objects
  BY <1>2 DEF Stored
<1>4. given[i] \in Sums
  BY <1>1, <1>3 DEF Drawn, TypeOK
<1>. QED  BY <1>1, <1>2, <1>4 DEF SumsOf, Streaming

(* A step that delivers a chunk. *)
LEMMA DeliveryStep ==
  ASSUME IInv, NEW p \in Procs, tx[p].op = "get_stream", tx[p].left > 0,
         Stored(tx[p].ids) # {} \/ tx[p].ids \subseteq objects,
         tx[p].pc \in {"work", "object"}, NEW pc \in {"check", "object"},
         Goes(p, Delivered(tx[p], SumsOf(tx[p].ids), pc)),
         out' = IF tx[p].pc = "work" THEN out - 1 ELSE out,
         UNCHANGED <<mode, closed, tables, lock, objects, given>>
  PROVE  IInv'
<1> DEFINE r == Delivered(tx[p], SumsOf(tx[p].ids), pc)
<1>1. /\ TypeOK /\ tx[p] \in Call /\ Shape(p) /\ Streaming(p)
      /\ tx[p].sums = {} /\ tx[p].wrote = {} /\ tx[p].alive
      /\ \A s \in Sums : tx[p].counts[s] = -1
      /\ tx'[p] = r
  BY QuietCall DEF Writing, Goes
<1>2. SumsOf(tx[p].ids) \in SUBSET Sums /\ tx[p].got \subseteq SumsOf(tx[p].ids)
  BY ContentOfStream
<1>3. tx[p].result = "none"
  BY <1>1 DEF Streaming
<1>4. /\ r \in Call /\ r.op = tx[p].op /\ r.ids = tx[p].ids /\ r.got = SumsOf(tx[p].ids)
      /\ r.sums = {} /\ r.wrote = {} /\ r.alive /\ \A s \in Sums : r.counts[s] = -1
      /\ r.late \in {0, tx[p].late}
      /\ \/ r.pc = "returned" /\ r.left = 0 /\ r.result = "bytes"
         \/ r.pc = pc /\ r.left > 0 /\ r.result = "none"
  BY <1>1, <1>2, <1>3, DeliveredShape
<1> HIDE DEF r
<1>5. Shape(p)'
  BY <1>1, <1>4 DEF Shape, Writing
<1>6. Streaming(p)'
  BY <1>1, <1>4 DEF Streaming, SumsOf
<1>7. out' = out + (IF r.pc \in Connected THEN 1 ELSE 0) - (IF tx[p].pc \in Connected THEN 1 ELSE 0)
      /\ out' <= PoolMax
  BY <1>1, <1>4, MySQLAssumption DEF TypeOK, Connected
<1>8. Goes(p, r)
  BY DEF r
<1>. QED  BY <1>1, <1>4, <1>5, <1>6, <1>7, <1>8, QuietStep DEF Writing

(* A stream learns where its image is, and has delivered nothing yet. *)
LEMMA StreamInfoIInv == ASSUME IInv, NEW p \in Procs, StreamInfo(p) PROVE IInv'
<1> DEFINE next == IF Tiered(tx[p].ids) # {} THEN "object" ELSE "check"
           r == [tx[p] EXCEPT !.left = Chunks, !.attempt = 0, !.pc = next]
<1>1. tx[p].pc = "work" /\ tx[p].op = "get_stream" /\ tx[p].left = 0 /\ out' = out - 1
      /\ UNCHANGED <<mode, closed, tables, lock, objects, given>>
      /\ Goes(p, IF Stored(tx[p].ids) = {} THEN Finish(tx[p], "None") ELSE r)
  BY DEF StreamInfo, Reads, At
<1>2. CASE Stored(tx[p].ids) = {}
  BY <1>1, <1>2, NoLocks, EndStep DEF Endings, Writing, Connected
<1>3. CASE Stored(tx[p].ids) # {}
  <2>1. /\ TypeOK /\ tx[p] \in Call /\ Shape(p) /\ Streaming(p)
        /\ tx[p].sums = {} /\ tx[p].wrote = {} /\ tx[p].alive
        /\ \A s \in Sums : tx[p].counts[s] = -1
        /\ tx'[p] = r /\ Goes(p, r)
    BY <1>1, <1>3, QuietCall DEF Writing, Goes
  <2>2. Chunks \in Nat /\ Chunks > 0 /\ next \in {"object", "check"}
    BY MySQLAssumption
  <2> HIDE DEF next
  <2>3. r \in Call
    BY <2>1, <2>2 DEF Call
  <2>4. Shape(p)'
    BY <1>1, <2>1, <2>2 DEF Shape, Writing, Call
  <2>5. Streaming(p)'
    BY <1>1, <2>1, <2>2 DEF Streaming, SumsOf, Call
  <2>6. out' = out + (IF r.pc \in Connected THEN 1 ELSE 0) - (IF tx[p].pc \in Connected THEN 1 ELSE 0)
        /\ out' <= PoolMax
    BY <1>1, <2>1, <2>2, MySQLAssumption DEF TypeOK, Connected, Call
  <2>7. /\ r.pc \notin Writing \cup {"cleanup"} /\ r.ids = tx[p].ids /\ r.op = tx[p].op
        /\ r.sums = {} /\ r.wrote = {} /\ \A s \in Sums : r.counts[s] = -1
    BY <2>1, <2>2 DEF Writing, Call
  <2> HIDE DEF r
  <2>. QED  BY <1>1, <2>1, <2>3, <2>4, <2>5, <2>6, <2>7, QuietStep DEF Writing
<1>. QED  BY <1>2, <1>3

(* A chunk of the row, or an end with an error. *)
LEMMA ReadChunkIInv == ASSUME IInv, NEW p \in Procs, ReadChunk(p) PROVE IInv'
<1>1. tx[p].pc = "work" /\ tx[p].op = "get_stream" /\ tx[p].left > 0 /\ out' = out - 1
      /\ UNCHANGED <<mode, closed, tables, lock, objects, given>>
  BY DEF ReadChunk, Reads, At
<1>2. CASE Stored(tx[p].ids) = {} \/ Tiered(tx[p].ids) # {}
  <2>1. PICK e \in Endings(tx[p]) : Goes(p, e)
    BY <1>2 DEF ReadChunk, Reads, Endings
  <2>. QED  BY <1>1, <2>1, NoLocks, EndStep DEF Writing, Connected
<1>3. CASE ~(Stored(tx[p].ids) = {} \/ Tiered(tx[p].ids) # {})
  <2>1. Goes(p, Delivered(tx[p], SumsOf(tx[p].ids), "check"))
    BY <1>3 DEF ReadChunk, Reads
  <2>. QED  BY <1>1, <1>3, <2>1, DeliveryStep
<1>. QED  BY <1>2, <1>3

(* A chunk of the object, or an end with an error. *)
LEMMA ReadObjectIInv == ASSUME IInv, NEW p \in Procs, ReadObject(p) PROVE IInv'
<1>1. tx[p].pc = "object" /\ UNCHANGED <<mode, closed, out, tables, lock, objects, given>>
  BY DEF ReadObject
<1>2. tx[p].op = "get_stream" /\ tx[p].left > 0
  BY <1>1, QuietCall DEF Shape, Writing
<1>3. CASE tx[p].ids \subseteq objects
  <2>1. Goes(p, Delivered(tx[p], SumsOf(tx[p].ids), "object"))
    BY <1>3 DEF ReadObject
  <2>. QED  BY <1>1, <1>2, <1>3, <2>1, DeliveryStep
<1>4. CASE ~(tx[p].ids \subseteq objects)
  <2>1. Goes(p, Finish(tx[p], "StorageError"))
    BY <1>4 DEF ReadObject
  <2>. QED  BY <1>1, <2>1, NoLocks, EndStep DEF Endings, Writing, Connected
<1>. QED  BY <1>3, <1>4

-----------------------------------------------------------------------------
(* Statements of a transaction *)

(* A statement goes from one place of the transaction to another.           *)
LEMMA StatementStep ==
  ASSUME IInv, NEW p \in Procs, NEW r \in Call, Goes(p, r),
         UNCHANGED <<mode, closed, out, tables, objects, given>>,
         tx[p].pc \in Connected, r.pc \in Connected, r.ids = tx[p].ids, r.op = tx[p].op,
         lock' \in [Ids \cup Sums -> Procs \cup {NoProc}],
         \A q \in Procs, k \in Ids \cup Sums : q # p => (lock'[k] = q <=> lock[k] = q),
         Shape(p)', Streaming(p)', Counting(p)', Holding(p)'
  PROVE  IInv'
<1>1. TypeOK
  BY DEF IInv
<1>2. out' = out + (IF r.pc \in Connected THEN 1 ELSE 0) - (IF tx[p].pc \in Connected THEN 1 ELSE 0)
      /\ out' <= PoolMax
  BY <1>1, MySQLAssumption DEF TypeOK
<1>3. CallInv(p)'
  BY DEF CallInv
<1>4. tx' = [tx EXCEPT ![p] = r]
  BY DEF Goes
<1>. QED  BY <1>2, <1>3, <1>4, LocalStep

(* What is known of the call it belongs to. *)
LEMMA CallFacts ==
  ASSUME IInv, NEW p \in Procs
  PROVE  /\ TypeOK /\ tx[p] \in Call /\ tx[p].ids \in SUBSET Ids /\ tx[p].wrote \in SUBSET Ids
         /\ Shape(p) /\ Streaming(p) /\ Counting(p) /\ Holding(p) /\ mode \in {"classic", "dedup"}
         /\ \A r : Goes(p, r) => tx'[p] = r
  BY MySQLAssumption DEF IInv, TypeOK, CallInv, Call, Goes

(* Contents of rows that are stored, or will be, are known. *)
LEMMA KnownSums ==
  ASSUME IInv, NEW S \in SUBSET Ids,
         (\A i \in S : rows[i] # "none") \/ \E p \in Procs : tx[p].op = "put_many" /\ S \subseteq tx[p].ids
  PROVE  SumsOf(S) \in SUBSET Sums
  BY DEF IInv, TypeOK, Drawn, SumsOf

(* All blobs of a put are still to be written. *)
LEMMA SortBlobsIInv == ASSUME IInv, NEW p \in Procs, SortBlobs(p) PROVE IInv'
<1> DEFINE W == SumsOf(tx[p].ids)
           r == [tx[p] EXCEPT !.pc = "blobs", !.sums = W]
<1>1. tx[p].pc = "work" /\ tx[p].op = "put_many" /\ mode = "dedup" /\ Goes(p, r)
      /\ UNCHANGED <<mode, closed, out, tables, lock, objects, given>>
  BY DEF SortBlobs, At
<1>2. /\ TypeOK /\ tx[p] \in Call /\ tx[p].ids \in SUBSET Ids
      /\ Shape(p) /\ Streaming(p) /\ Counting(p) /\ Holding(p) /\ tx'[p] = r
  BY <1>1, CallFacts
<1>3. W \in SUBSET Sums
  BY <1>1, <1>2, KnownSums
<1>4. W # {}
  BY <1>1, <1>2 DEF Shape, SumsOf
<1>5. SumsOf(tx[p].ids)' = W
  BY <1>1, <1>2 DEF SumsOf
<1> HIDE DEF W
<1>6. r \in Call /\ r.pc \in Connected /\ r.ids = tx[p].ids /\ r.op = tx[p].op
  BY <1>2, <1>3 DEF Call, Connected
<1>7. Shape(p)'
  BY <1>1, <1>2, <1>4 DEF Shape, Writing, Call
<1>8. Streaming(p)'
  BY <1>1, <1>2 DEF Streaming, Call
<1>9. Counting(p)'
  <2>1. r.sums = W /\ r.counts = tx[p].counts /\ r.op = "put_many"
    BY <1>1, <1>2 DEF Call
  <2>. QED  BY <1>1, <1>2, <1>5, <2>1 DEF Counting, Batch
<1>10. Holding(p)'
  BY <1>1, <1>2 DEF Holding, Writing, Call
<1>11. /\ lock' \in [Ids \cup Sums -> Procs \cup {NoProc}]
       /\ \A q \in Procs, k \in Ids \cup Sums : q # p => (lock'[k] = q <=> lock[k] = q)
  BY <1>1, <1>2 DEF TypeOK
<1> HIDE DEF r
<1>. QED  BY <1>1, <1>6, <1>7, <1>8, <1>9, <1>10, <1>11, StatementStep DEF Connected

(* The blob whose turn it is. *)
LEMMA NextBlob ==
  ASSUME IInv, NEW p \in Procs, tx[p].pc = "blobs"
  PROVE  /\ Min(tx[p].sums) \in tx[p].sums /\ Min(tx[p].sums) \in Sums
         /\ Min(tx[p].sums) \in SumsOf(Batch(p)) /\ mode = "dedup"
         /\ Seen(p, Min(tx[p].sums)) = blobs[Min(tx[p].sums)]
<1>1. TypeOK /\ Shape(p) /\ Counting(p) /\ tx[p] \in Call
  BY CallFacts
<1>2. tx[p].sums # {} /\ tx[p].sums \in SUBSET Sums /\ mode = "dedup"
  BY <1>1 DEF Shape, Call
<1>3. tx[p].sums \in SUBSET Nat
  BY <1>2, MySQLAssumption
<1>4. Min(tx[p].sums) \in tx[p].sums
  BY <1>2, <1>3, Least
<1>5. tx[p].counts[Min(tx[p].sums)] = -1
  BY <1>1, <1>2, <1>4 DEF Counting
<1>. QED  BY <1>1, <1>2, <1>4, <1>5 DEF Counting, Seen

(* After a statement about the blob s, its count is what the commit will    *)
(* write; last is where the call goes when it was the last blob.            *)
LEMMA BlobStep ==
  ASSUME IInv, NEW p \in Procs, tx[p].pc = "blobs", NEW s, s = Min(tx[p].sums),
         NEW n \in Nat, n = Target(p, s), NEW last \in {"refs", "commit"},
         last = IF tx[p].op = "put_many" THEN "refs" ELSE "commit",
         Goes(p, [tx[p] EXCEPT !.counts[s] = n, !.sums = @ \ {s}, !.pc = Next1(tx[p], s, last)]),
         Free(p, {s}), Lock(p, {s}), UNCHANGED <<mode, closed, out, tables, objects, given>>
  PROVE  IInv'
<1> DEFINE r == [tx[p] EXCEPT !.counts[s] = n, !.sums = @ \ {s}, !.pc = Next1(tx[p], s, last)]
<1>1. /\ TypeOK /\ tx[p] \in Call /\ tx[p].ids \in SUBSET Ids
      /\ Shape(p) /\ Streaming(p) /\ Counting(p) /\ Holding(p) /\ tx'[p] = r
  BY CallFacts
<1>2. s \in tx[p].sums /\ s \in Sums /\ s \in SumsOf(Batch(p)) /\ mode = "dedup"
  BY NextBlob
<1>3. /\ r.pc = Next1(tx[p], s, last) /\ r.sums = tx[p].sums \ {s}
      /\ r.op = tx[p].op /\ r.ids = tx[p].ids /\ r.wrote = tx[p].wrote /\ r.todo = tx[p].todo
      /\ r.alive = tx[p].alive /\ r.left = tx[p].left /\ r.got = tx[p].got
      /\ r.late = tx[p].late /\ r.result = tx[p].result
      /\ r.counts[s] = n /\ \A t \in Sums : t # s => r.counts[t] = tx[p].counts[t]
  BY <1>1, <1>2 DEF Call
<1>4. r \in Call
  <2>1. r.counts \in [Sums -> Int]
    BY <1>1, <1>2 DEF Call
  <2>2. Next1(tx[p], s, last) \in {"blobs", "refs", "commit"} /\ tx[p].sums \ {s} \in SUBSET Sums
    BY <1>1 DEF Next1, Call
  <2>3. r = [tx[p] EXCEPT !.counts = r.counts, !.sums = tx[p].sums \ {s}, !.pc = Next1(tx[p], s, last)]
    BY <1>1, <2>1 DEF Call
  <2> HIDE DEF r
  <2>. QED  BY <1>1, <2>1, <2>2, <2>3 DEF Call, Connected
<1> HIDE DEF r
<1>5. /\ lock' \in [Ids \cup Sums -> Procs \cup {NoProc}]
      /\ \A k \in Ids \cup Sums : lock'[k] = p <=> lock[k] = p \/ k \in {s}
      /\ \A q \in Procs, k \in Ids \cup Sums : q # p => (lock'[k] = q <=> lock[k] = q)
  BY SMTT(30), <1>1, <1>2, LockEffect
<1>6. (r.pc = "blobs" /\ tx[p].sums # {s}) \/ (r.pc = last /\ tx[p].sums = {s})
  BY <1>3 DEF Next1
<1>7. Shape(p)'
  BY <1>1, <1>2, <1>3, <1>6 DEF Shape, Writing
<1>8. Streaming(p)'
  BY <1>1, <1>3, <1>6 DEF Streaming, SumsOf
<1>9. Counting(p)'
  <2>1. SumsOf(Batch(p))' = SumsOf(Batch(p))
    BY <1>1, <1>3 DEF SumsOf, Batch
  <2>2. ASSUME NEW t PROVE Target(p, t)' = Target(p, t)
    <3>1. blobs' = blobs /\ given' = given /\ tx'[p].ids = tx[p].ids /\ tx'[p].wrote = tx[p].wrote
          /\ tx'[p].op = tx[p].op
      BY <1>1, <1>3 DEF tables
    <3>. QED  BY <3>1 DEF Target, Count
  <2>3. ASSUME NEW t \in Sums, t \in SumsOf(Batch(p)) \ r.sums
        PROVE  lock'[t] = p /\ r.counts[t] = Target(p, t) /\ r.counts[t] >= 0
    <3>1. CASE t = s
      BY <1>2, <1>3, <1>5, <3>1
    <3>2. CASE t # s
      BY <1>1, <1>2, <1>3, <1>5, <2>3, <3>2 DEF Counting
    <3>. QED  BY <3>1, <3>2
  <2>4. ASSUME NEW t \in Sums, t \notin SumsOf(Batch(p)) \ r.sums
        PROVE  r.counts[t] = -1
    BY <1>1, <1>2, <1>3, <2>4 DEF Counting
  <2>5. r.sums \subseteq SumsOf(Batch(p)) /\ r.pc \in {"blobs", "refs", "commit"} /\ mode' = "dedup"
    BY <1>1, <1>2, <1>3, <1>6 DEF Counting
  <2>. QED  BY <1>1, <2>1, <2>2, <2>3, <2>4, <2>5 DEF Counting
<1>10. Holding(p)'
  <2>1. rows' = rows /\ objects' = objects /\ given' = given /\ r.pc \in {"blobs", "refs", "commit"}
    BY <1>6 DEF tables
  <2>2. CASE tx[p].op = "put_many"
    BY <1>1, <1>3, <1>6, <2>1, <2>2 DEF Holding, Writing
  <2>3. CASE tx[p].op = "delete_many"
    BY <1>1, <1>3, <1>5, <1>6, <2>1, <2>3 DEF Holding, Writing
  <2>. QED  BY <1>1, <2>2, <2>3 DEF Shape
<1>11. r.pc \in Connected /\ Goes(p, r)
  BY <1>6 DEF Connected, r
<1>. QED  BY <1>1, <1>3, <1>4, <1>5, <1>7, <1>8, <1>9, <1>10, <1>11, StatementStep DEF Connected

(* A put adds its images of a blob. *)
LEMMA UpsertBlobIInv == ASSUME IInv, NEW p \in Procs, UpsertBlob(p) PROVE IInv'
<1> DEFINE s == Min(tx[p].sums)
           n == Seen(p, s) + Count(tx[p].ids, s)
<1>1. tx[p].pc = "blobs" /\ tx[p].op = "put_many" /\ Free(p, {s}) /\ Lock(p, {s})
      /\ Goes(p, [tx[p] EXCEPT !.counts[s] = n, !.sums = @ \ {s}, !.pc = Next1(tx[p], s, "refs")])
      /\ UNCHANGED <<mode, closed, out, tables, objects, given>>
  BY DEF UpsertBlob, At
<1>2. n = Target(p, s) /\ n \in Nat
  <2>1. s \in Sums /\ Seen(p, s) = blobs[s] /\ blobs[s] \in Nat /\ Count(tx[p].ids, s) \in Nat
    BY <1>1, NextBlob, CallFacts, CountType DEF TypeOK
  <2>. QED  BY <1>1, <2>1 DEF Target
<1> HIDE DEF n, s
<1>3. s = Min(tx[p].sums)
  BY DEF s
<1>. QED  BY <1>1, <1>2, <1>3, BlobStep

(* The larger of 0 and a natural number. *)
LEMMA MaxZero == ASSUME NEW n \in Nat PROVE Max({0, n}) = n
<1>1. \A x \in {0, n} : (\A y \in {0, n} : x >= y) => x = n
  OBVIOUS
<1>2. n \in {0, n} /\ \A y \in {0, n} : n >= y
  OBVIOUS
<1>. QED  BY <1>1, <1>2 DEF Max

(* A ref_count is never lower than what a delete takes off it: Max in       *)
(* DecrementBlob does not hide a miscount.                                  *)
LEMMA EnoughRefs ==
  ASSUME IInv, mode = "dedup", NEW S \in SUBSET Ids, \A i \in S : rows[i] # "none", NEW s \in Sums
  PROVE  blobs[s] - Count(S, s) \in Nat /\ blobs[s] \in Nat
<1>1. S \in SUBSET Stored(Ids) /\ Stored(Ids) \in SUBSET Ids
  BY DEF Stored
<1>2. Count(S, s) <= Count(Stored(Ids), s)
  BY <1>1, CountMonotonic
<1>3. Count(S, s) \in Nat /\ Count(Stored(Ids), s) \in Nat /\ blobs[s] = Count(Stored(Ids), s)
  BY <1>1, CountType DEF IInv, RefCountExact
<1>. QED  BY <1>2, <1>3

(* A delete takes its references off a blob. *)
LEMMA DecrementBlobIInv == ASSUME IInv, NEW p \in Procs, DecrementBlob(p) PROVE IInv'
<1> DEFINE s == Min(tx[p].sums)
           n == Max({0, Seen(p, s) - Count(tx[p].wrote, s)})
<1>1. tx[p].pc = "blobs" /\ tx[p].op = "delete_many" /\ Free(p, {s}) /\ Lock(p, {s})
      /\ Goes(p, [tx[p] EXCEPT !.counts[s] = n, !.sums = @ \ {s}, !.pc = Next1(tx[p], s, "commit")])
      /\ UNCHANGED <<mode, closed, out, tables, objects, given>>
  BY DEF DecrementBlob, At
<1>2. n = Target(p, s) /\ n \in Nat
  <2>1. s \in Sums /\ Seen(p, s) = blobs[s] /\ mode = "dedup"
    BY <1>1, NextBlob
  <2>2. tx[p].wrote \in SUBSET Ids /\ \A i \in tx[p].wrote : rows[i] # "none"
    BY <1>1, CallFacts DEF Holding
  <2>3. blobs[s] - Count(tx[p].wrote, s) \in Nat
    BY <2>1, <2>2, EnoughRefs
  <2>4. n = blobs[s] - Count(tx[p].wrote, s)
    BY <2>1, <2>3, MaxZero
  <2>. QED  BY <1>1, <2>3, <2>4 DEF Target
<1> HIDE DEF n, s
<1>3. s = Min(tx[p].sums)
  BY DEF s
<1>. QED  BY <1>1, <1>2, <1>3, BlobStep

(* The rows of a put are not there yet. *)
LEMMA InsertIInv == ASSUME IInv, NEW p \in Procs, Insert(p) PROVE IInv'
<1> DEFINE r == [tx[p] EXCEPT !.pc = "commit", !.wrote = tx[p].ids]
<1>1. /\ tx[p].op = "put_many" /\ Stored(tx[p].ids) = {} /\ Goes(p, r)
      /\ (tx[p].pc = "work" /\ mode = "classic") \/ tx[p].pc = "refs"
      /\ UNCHANGED <<mode, closed, out, tables, lock, objects, given>>
  BY DEF Insert, At
<1>2. /\ TypeOK /\ tx[p] \in Call /\ tx[p].ids \in SUBSET Ids
      /\ Shape(p) /\ Streaming(p) /\ Counting(p) /\ Holding(p) /\ tx'[p] = r
  BY <1>1, CallFacts
<1>3. r \in Call /\ r.pc = "commit" /\ r.ids = tx[p].ids /\ r.op = "put_many" /\ r.wrote = tx[p].ids
      /\ r.counts = tx[p].counts /\ r.sums = tx[p].sums /\ r.todo = tx[p].todo /\ r.alive = tx[p].alive
      /\ r.left = tx[p].left /\ r.got = tx[p].got /\ r.late = tx[p].late /\ r.result = tx[p].result
  BY <1>1, <1>2 DEF Call, Connected
<1> HIDE DEF r
<1>4. Shape(p)'
  BY <1>1, <1>2, <1>3 DEF Shape, Writing
<1>5. Streaming(p)'
  BY <1>1, <1>2, <1>3 DEF Streaming
<1>6. Counting(p)'
  <2>1. SumsOf(Batch(p))' = SumsOf(Batch(p))
    BY <1>1, <1>2, <1>3 DEF SumsOf, Batch
  <2>2. ASSUME NEW s PROVE Target(p, s)' = Target(p, s)
    <3>1. blobs' = blobs /\ given' = given /\ tx'[p].ids = tx[p].ids /\ tx'[p].op = "put_many"
      BY <1>1, <1>2, <1>3 DEF tables
    <3>2. Count(tx[p].ids, s)' = Count(tx[p].ids, s)
      BY <3>1 DEF Count
    <3>. QED  BY <1>1, <3>1, <3>2 DEF Target
  <2>3. r.pc = "commit" /\ (mode = "classic" \/ tx[p].pc = "refs") /\ mode' = mode /\ lock' = lock
    BY <1>1, <1>3
  <2>. QED  BY <1>2, <1>3, <2>1, <2>2, <2>3 DEF Counting
<1>7. Holding(p)'
  BY <1>1, <1>2, <1>3 DEF Holding, Writing, Stored, tables
<1>8. /\ lock' \in [Ids \cup Sums -> Procs \cup {NoProc}]
      /\ \A q \in Procs, k \in Ids \cup Sums : q # p => (lock'[k] = q <=> lock[k] = q)
  BY <1>1, <1>2 DEF TypeOK
<1>. QED  BY <1>1, <1>3, <1>4, <1>5, <1>6, <1>7, <1>8, StatementStep DEF Connected

(* A delete locks the rows it has found, and they stay. *)
LEMMA DeleteRowsIInv == ASSUME IInv, NEW p \in Procs, DeleteRows(p) PROVE IInv'
<1> DEFINE found == Stored(tx[p].ids)
           sums == IF mode = "dedup" THEN SumsOf(found) ELSE {}
           pc == IF mode = "dedup" /\ found # {} THEN "blobs" ELSE "commit"
           r == [tx[p] EXCEPT !.wrote = found, !.todo = Tiered(found), !.sums = sums, !.pc = pc]
<1>1. /\ tx[p].pc = "work" /\ tx[p].op = "delete_many" /\ Goes(p, r)
      /\ Free(p, tx[p].ids) /\ Lock(p, found)
      /\ UNCHANGED <<mode, closed, out, tables, objects, given>>
  BY DEF DeleteRows, At
<1>2. /\ TypeOK /\ tx[p] \in Call /\ tx[p].ids \in SUBSET Ids /\ mode \in {"classic", "dedup"}
      /\ Shape(p) /\ Streaming(p) /\ Counting(p) /\ Holding(p) /\ tx'[p] = r
  BY <1>1, CallFacts
<1>3. /\ found \in SUBSET Ids /\ found \subseteq tx[p].ids
      /\ Tiered(found) \in SUBSET Ids /\ Tiered(found) \subseteq found
      /\ \A i \in tx[p].ids : i \in found <=> rows[i] # "none"
  BY <1>2 DEF Stored, Tiered
<1>4. sums \in SUBSET Sums
  BY <1>3, KnownSums
<1>5. mode = "dedup" => sums = SumsOf(found)
  OBVIOUS
<1>6. /\ mode = "classic" => pc = "commit" /\ sums = {}
      /\ mode = "dedup" => (pc = "blobs" /\ sums # {}) \/ (pc = "commit" /\ sums = {})
  BY <1>5 DEF SumsOf
<1>7. pc \in {"blobs", "commit"}
  OBVIOUS
<1>8. Free(p, found)
  BY <1>1, <1>3 DEF Free
<1> HIDE DEF sums, pc
<1>9. r \in Call /\ r.pc = pc /\ r.ids = tx[p].ids /\ r.op = "delete_many" /\ r.wrote = found
      /\ r.counts = tx[p].counts /\ r.sums = sums /\ r.todo = Tiered(found) /\ r.alive = tx[p].alive
      /\ r.left = tx[p].left /\ r.got = tx[p].got /\ r.late = tx[p].late /\ r.result = tx[p].result
  <2> HIDE DEF found
  <2>. QED  BY <1>1, <1>2, <1>3, <1>4, <1>7 DEF Call, Connected
<1> HIDE DEF r
<1>10. /\ lock' \in [Ids \cup Sums -> Procs \cup {NoProc}]
       /\ \A k \in Ids \cup Sums : lock'[k] = p <=> lock[k] = p \/ k \in found
       /\ \A q \in Procs, k \in Ids \cup Sums : q # p => (lock'[k] = q <=> lock[k] = q)
  BY SMTT(30), <1>1, <1>2, <1>3, <1>8, LockEffect
<1>11. Shape(p)'
  BY <1>1, <1>2, <1>6, <1>7, <1>9 DEF Shape, Writing
<1>12. Streaming(p)'
  BY <1>1, <1>2, <1>7, <1>9 DEF Streaming
<1>13. Counting(p)'
  <2>1. SumsOf(Batch(p))' = SumsOf(found)
    <3>1. tx'[p].wrote = found /\ tx'[p].op = "delete_many" /\ given' = given
      BY <1>1, <1>2, <1>9
    <3> HIDE DEF found
    <3>. QED  BY <3>1 DEF Batch, SumsOf
  <2>2. \A s \in Sums : r.counts[s] = -1
    BY <1>1, <1>2, <1>9 DEF Counting
  <2>3. mode' = mode
    BY <1>1
  <2>. QED  BY <1>2, <1>5, <1>6, <1>7, <1>9, <2>1, <2>2, <2>3 DEF Counting
<1>14. Holding(p)'
  <2>1. rows' = rows
    BY <1>1 DEF tables
  <2> HIDE DEF found
  <2>. QED  BY <1>2, <1>3, <1>7, <1>9, <1>10, <2>1 DEF Holding, Writing
<1>15. Goes(p, r) /\ r.pc \in Connected /\ tx[p].pc \in Connected
  BY <1>1, <1>7, <1>9 DEF Connected, r
<1>. QED  BY <1>1, <1>9, <1>10, <1>11, <1>12, <1>13, <1>14, <1>15, StatementStep

(* A tiering goes on only with a row whose bytes are in MySQL. *)
LEMMA SelectForTieringIInv == ASSUME IInv, NEW p \in Procs, SelectForTiering(p) PROVE IInv'
<1> DEFINE found == Stored(tx[p].ids)
           pc == IF found = {} \/ Tiered(tx[p].ids) # {} THEN "commit" ELSE "upload"
           r == [tx[p] EXCEPT !.pc = pc]
<1>1. /\ tx[p].pc = "work" /\ tx[p].op = "tier_to_object_storage" /\ Goes(p, r)
      /\ Free(p, tx[p].ids) /\ Lock(p, found)
      /\ UNCHANGED <<mode, closed, out, tables, objects, given>>
  BY DEF SelectForTiering, At
<1>2. /\ TypeOK /\ tx[p] \in Call /\ tx[p].ids \in SUBSET Ids
      /\ Shape(p) /\ Streaming(p) /\ Counting(p) /\ Holding(p) /\ tx'[p] = r
  BY <1>1, CallFacts
<1>3. found \in SUBSET Ids /\ found \subseteq tx[p].ids
  BY <1>2 DEF Stored
<1>4. pc = "upload" => found = tx[p].ids /\ \A i \in tx[p].ids : rows[i] = "mysql" /\ given[i] # NoSum
  <2> SUFFICES ASSUME pc = "upload"
               PROVE  found = tx[p].ids /\ \A i \in tx[p].ids : rows[i] = "mysql" /\ given[i] # NoSum
    OBVIOUS
  <2>1. found # {} /\ Tiered(tx[p].ids) = {}
    OBVIOUS
  <2>2. PICK i \in Ids : tx[p].ids = {i}
    BY <1>1, <1>2 DEF Shape
  <2>3. rows[i] # "none" /\ rows[i] # "object_storage" /\ rows[i] \in Backend
    BY <1>2, <2>1, <2>2 DEF Stored, Tiered, TypeOK
  <2>4. given[i] # NoSum
    BY <2>3 DEF IInv, Drawn
  <2>. QED  BY <1>3, <2>1, <2>2, <2>3, <2>4 DEF Backend
<1>5. pc \in {"commit", "upload"}
  OBVIOUS
<1>6. Free(p, found)
  BY <1>1, <1>3 DEF Free
<1> HIDE DEF pc
<1>7. r \in Call /\ r.pc = pc /\ r.ids = tx[p].ids /\ r.op = tx[p].op /\ r.wrote = {}
      /\ r.counts = tx[p].counts /\ r.sums = {} /\ r.todo = tx[p].todo /\ r.alive = tx[p].alive
      /\ r.left = tx[p].left /\ r.got = tx[p].got /\ r.late = tx[p].late /\ r.result = tx[p].result
  BY <1>1, <1>2, <1>5 DEF Call, Connected, Shape, Writing
<1> HIDE DEF r
<1>8. /\ lock' \in [Ids \cup Sums -> Procs \cup {NoProc}]
      /\ \A k \in Ids \cup Sums : lock'[k] = p <=> lock[k] = p \/ k \in found
      /\ \A q \in Procs, k \in Ids \cup Sums : q # p => (lock'[k] = q <=> lock[k] = q)
  <2> HIDE DEF found
  <2>. QED  BY <1>1, <1>2, <1>3, <1>6, LockEffect
<1>9. Shape(p)'
  BY <1>1, <1>2, <1>5, <1>7 DEF Shape, Writing
<1>10. Streaming(p)'
  BY <1>1, <1>2, <1>5, <1>7 DEF Streaming
<1>11. Counting(p)'
  BY <1>1, <1>2, <1>7 DEF Counting, Shape
<1>12. Holding(p)'
  <2>1. rows' = rows /\ given' = given
    BY <1>1 DEF tables
  <2> HIDE DEF found
  <2>. QED  BY <1>1, <1>2, <1>4, <1>5, <1>7, <1>8, <2>1 DEF Holding, Writing
<1>13. Goes(p, r) /\ r.pc \in Connected /\ tx[p].pc \in Connected
  BY <1>1, <1>5, <1>7 DEF Connected, r
<1>. QED  BY <1>1, <1>7, <1>8, <1>9, <1>10, <1>11, <1>12, <1>13, StatementStep

(* The lock of the SELECT is still held when the connection is. *)
LEMMA UpdateIInv == ASSUME IInv, NEW p \in Procs, Update(p) PROVE IInv'
<1> DEFINE r == [tx[p] EXCEPT !.pc = "commit", !.wrote = tx[p].ids]
<1>1. tx[p].pc = "update" /\ tx[p].alive /\ Goes(p, r)
      /\ UNCHANGED <<mode, closed, out, tables, lock, objects, given>>
  BY DEF Update
<1>2. /\ TypeOK /\ tx[p] \in Call /\ tx[p].ids \in SUBSET Ids
      /\ Shape(p) /\ Streaming(p) /\ Counting(p) /\ Holding(p) /\ tx'[p] = r
  BY <1>1, CallFacts
<1>3. tx[p].op = "tier_to_object_storage" /\ mode = "classic"
  BY <1>1, <1>2 DEF Shape
<1>4. r \in Call /\ r.pc = "commit" /\ r.ids = tx[p].ids /\ r.op = tx[p].op /\ r.wrote = tx[p].ids
      /\ r.counts = tx[p].counts /\ r.sums = {} /\ r.todo = tx[p].todo /\ r.alive
      /\ r.left = tx[p].left /\ r.got = tx[p].got /\ r.late = tx[p].late /\ r.result = tx[p].result
  BY <1>1, <1>2 DEF Call, Connected, Shape
<1> HIDE DEF r
<1>5. Shape(p)'
  BY <1>1, <1>2, <1>3, <1>4 DEF Shape, Writing
<1>6. Streaming(p)'
  BY <1>1, <1>2, <1>3, <1>4 DEF Streaming
<1>7. Counting(p)'
  BY <1>1, <1>2, <1>3, <1>4 DEF Counting
<1>8. Holding(p)'
  BY <1>1, <1>2, <1>3, <1>4 DEF Holding, Writing, tables
<1>9. /\ lock' \in [Ids \cup Sums -> Procs \cup {NoProc}]
      /\ \A q \in Procs, k \in Ids \cup Sums : q # p => (lock'[k] = q <=> lock[k] = q)
  BY <1>1, <1>2 DEF TypeOK
<1>. QED  BY <1>1, <1>4, <1>5, <1>6, <1>7, <1>8, <1>9, StatementStep DEF Connected

(* Without its connection a tiering holds no row, and cannot go on to Update. *)
LEMMA DisconnectIInv == ASSUME IInv, NEW p \in Procs, Disconnect(p) PROVE IInv'
<1> DEFINE r == [tx[p] EXCEPT !.alive = FALSE]
<1>1. tx[p].pc = "upload" /\ tx[p].alive /\ Unlock(p) /\ Goes(p, r)
      /\ UNCHANGED <<mode, closed, out, tables, objects, given>>
  BY DEF Disconnect
<1>2. /\ TypeOK /\ tx[p] \in Call /\ tx[p].ids \in SUBSET Ids
      /\ Shape(p) /\ Streaming(p) /\ Counting(p) /\ Holding(p) /\ tx'[p] = r
  BY <1>1, CallFacts
<1>3. tx[p].op = "tier_to_object_storage" /\ mode = "classic"
  BY <1>1, <1>2 DEF Shape
<1>4. r \in Call /\ r.pc = "upload" /\ r.ids = tx[p].ids /\ r.op = tx[p].op /\ r.wrote = tx[p].wrote
      /\ r.counts = tx[p].counts /\ r.sums = {} /\ r.todo = tx[p].todo /\ ~r.alive
      /\ r.left = tx[p].left /\ r.got = tx[p].got /\ r.late = tx[p].late /\ r.result = tx[p].result
  BY <1>1, <1>2 DEF Call, Shape
<1> HIDE DEF r
<1>5. Shape(p)'
  BY <1>1, <1>2, <1>3, <1>4 DEF Shape, Writing
<1>6. Streaming(p)'
  BY <1>1, <1>2, <1>3, <1>4 DEF Streaming
<1>7. Counting(p)'
  BY <1>1, <1>2, <1>3, <1>4 DEF Counting
<1>8. Holding(p)'
  BY <1>1, <1>2, <1>3, <1>4 DEF Holding, Writing
<1>. QED  BY <1>1, <1>2, <1>4, <1>5, <1>6, <1>7, <1>8, StatementStep, UnlockEffect DEF Connected

-----------------------------------------------------------------------------
(* Steps that change the tables or the bucket *)

(* The ids of calls that get no new ids stay apart. *)
LEMMA SameIds ==
  ASSUME IInv, NEW p \in Procs, NEW r, Goes(p, r), r.ids \subseteq tx[p].ids,
         r.op = "put_many" => tx[p].op = "put_many"
  PROVE  /\ IdsApart' /\ tx' = [tx EXCEPT ![p] = r]
         /\ \A q \in Procs : tx'[q].ids \subseteq tx[q].ids
                             /\ (tx'[q].op = "put_many" => tx[q].op = "put_many")
<1>1. tx' = [tx EXCEPT ![p] = r] /\ tx'[p] = r /\ \A q \in Procs : q # p => tx'[q] = tx[q]
  BY DEF IInv, TypeOK, Goes
<1>2. \A q \in Procs : tx'[q].ids \subseteq tx[q].ids
                       /\ (tx'[q].op = "put_many" => tx[q].op = "put_many")
  BY <1>1
<1>3. IdsApart'
  <2> SUFFICES ASSUME NEW a \in Procs, NEW b \in Procs, a # b, tx'[a].op = "put_many"
               PROVE  tx'[a].ids \cap tx'[b].ids = {}
    BY DEF IdsApart
  <2>1. tx[a].op = "put_many" /\ tx'[a].ids \subseteq tx[a].ids /\ tx'[b].ids \subseteq tx[b].ids
    BY <1>2
  <2>. QED  BY <2>1 DEF IInv, IdsApart
<1>. QED  BY <1>1, <1>2, <1>3

(* A step that changes only objects which no row points at. *)
LEMMA ObjectsStep ==
  ASSUME IInv, NEW p \in Procs, NEW r \in Call, Goes(p, r),
         UNCHANGED <<mode, closed, tables, given>>,
         r.ids \subseteq tx[p].ids, r.op = "put_many" => tx[p].op = "put_many",
         lock' \in [Ids \cup Sums -> Procs \cup {NoProc}],
         \A q \in Procs, k \in Ids \cup Sums : q # p => (lock'[k] = q <=> lock[k] = q),
         out' = out + (IF r.pc \in Connected THEN 1 ELSE 0)
                    - (IF tx[p].pc \in Connected THEN 1 ELSE 0),
         out' <= PoolMax,
         objects' \subseteq Ids, \A i \in objects' : given[i] # NoSum,
         \A i \in objects \ objects' : rows[i] = "none",
         CallInv(p)'
  PROVE  IInv'
<1>1. TypeOK /\ Drawn /\ BytesSafe /\ RefCountExact
  BY DEF IInv
<1>2. /\ IdsApart' /\ tx' = [tx EXCEPT ![p] = r]
      /\ \A q \in Procs : tx'[q].ids \subseteq tx[q].ids
                          /\ (tx'[q].op = "put_many" => tx[q].op = "put_many")
  BY SameIds
<1>3. UNCHANGED <<mode, closed, rows, blobs, given>>
  BY DEF tables
<1>4. Drawn'
  BY <1>1, <1>2, <1>3 DEF Drawn
<1>5. BytesSafe'
  BY <1>1, <1>3 DEF BytesSafe
<1>6. RefCountExact'
  BY <1>1, <1>3 DEF RefCountExact, Count, Stored
<1>7. \A i \in Ids : i \in objects /\ rows[i] = "mysql" => i \in objects'
  OBVIOUS
<1>8. /\ rows' \in [Ids -> Backend] /\ blobs' \in [Sums -> Nat]
      /\ given' \in [Ids -> Sums \cup {NoSum}] /\ \A q \in Procs : tx[q].ids \subseteq Ids
  BY <1>1, <1>3, CallFacts DEF TypeOK
<1>. QED  BY <1>2, <1>3, <1>4, <1>5, <1>6, <1>7, <1>8, StepIInv

(* The object is there after the upload. *)
LEMMA UploadIInv == ASSUME IInv, NEW p \in Procs, Upload(p) PROVE IInv'
<1> DEFINE r == [tx[p] EXCEPT !.pc = "update"]
<1>1. tx[p].pc = "upload" /\ objects' = objects \cup tx[p].ids /\ Goes(p, r)
      /\ UNCHANGED <<mode, closed, out, tables, lock, given>>
  BY DEF Upload
<1>2. /\ TypeOK /\ tx[p] \in Call /\ tx[p].ids \in SUBSET Ids
      /\ Shape(p) /\ Streaming(p) /\ Counting(p) /\ Holding(p) /\ tx'[p] = r
  BY <1>1, CallFacts
<1>3. tx[p].op = "tier_to_object_storage" /\ mode = "classic"
  BY <1>1, <1>2 DEF Shape
<1>4. r \in Call /\ r.pc = "update" /\ r.ids = tx[p].ids /\ r.op = tx[p].op /\ r.wrote = tx[p].wrote
      /\ r.counts = tx[p].counts /\ r.sums = {} /\ r.todo = tx[p].todo /\ r.alive = tx[p].alive
      /\ r.left = tx[p].left /\ r.got = tx[p].got /\ r.late = tx[p].late /\ r.result = tx[p].result
  BY <1>1, <1>2 DEF Call, Shape, Connected
<1> HIDE DEF r
<1>5. Shape(p)'
  BY <1>1, <1>2, <1>3, <1>4 DEF Shape, Writing
<1>6. Streaming(p)'
  BY <1>1, <1>2, <1>3, <1>4 DEF Streaming
<1>7. Counting(p)'
  BY <1>1, <1>2, <1>3, <1>4 DEF Counting
<1>8. Holding(p)'
  BY <1>1, <1>2, <1>3, <1>4 DEF Holding, Writing, tables
<1>9. CallInv(p)'
  BY <1>5, <1>6, <1>7, <1>8 DEF CallInv
<1>10. /\ lock' \in [Ids \cup Sums -> Procs \cup {NoProc}]
       /\ \A q \in Procs, k \in Ids \cup Sums : q # p => (lock'[k] = q <=> lock[k] = q)
  BY <1>1, <1>2 DEF TypeOK
<1>11. out' = out + (IF r.pc \in Connected THEN 1 ELSE 0) - (IF tx[p].pc \in Connected THEN 1 ELSE 0)
       /\ out' <= PoolMax
  BY <1>1, <1>2, <1>4, MySQLAssumption DEF TypeOK, Connected
<1>12. objects' \subseteq Ids /\ \A i \in objects' : given[i] # NoSum
  BY <1>1, <1>2 DEF IInv, Drawn, Holding, TypeOK
<1>13. /\ UNCHANGED <<mode, closed, tables, given>> /\ \A i \in objects \ objects' : rows[i] = "none"
       /\ r.ids \subseteq tx[p].ids /\ (r.op = "put_many" => tx[p].op = "put_many")
  BY <1>1, <1>4
<1>. QED  BY <1>1, <1>4, <1>9, <1>10, <1>11, <1>12, <1>13, ObjectsStep

(* A failed upload may leave an object that no row points at. *)
LEMMA UploadFailsIInv == ASSUME IInv, NEW p \in Procs, UploadFails(p) PROVE IInv'
<1> DEFINE r == Finish(tx[p], "StorageError")
<1>1. tx[p].pc = "upload" /\ objects' \in {objects, objects \cup tx[p].ids} /\ Goes(p, r)
      /\ Unlock(p) /\ out' = out - 1 /\ UNCHANGED <<mode, closed, tables, given>>
  BY DEF UploadFails
<1>2. TypeOK /\ tx[p] \in Call /\ tx[p].ids \in SUBSET Ids /\ CallInv(p) /\ Holding(p) /\ tx'[p] = r
  BY <1>1, CallFacts DEF IInv
<1>3. r \in Endings(tx[p])
  BY DEF Endings
<1> HIDE DEF r
<1>4. /\ r \in Call /\ r.pc \in {"idle", "check", "returned"}
      /\ r.ids \subseteq tx[p].ids /\ (r.op = "put_many" => tx[p].op = "put_many")
  BY <1>2, <1>3, EndingShape
<1>5. /\ lock' \in [Ids \cup Sums -> Procs \cup {NoProc}]
      /\ \A k \in Ids \cup Sums : lock'[k] # p
      /\ \A q \in Procs, k \in Ids \cup Sums : q # p => (lock'[k] = q <=> lock[k] = q)
  BY <1>1, <1>2, UnlockEffect
<1>6. CallInv(p)'
  BY <1>1, <1>2, <1>3, <1>5, EndedCall
<1>7. out' = out + (IF r.pc \in Connected THEN 1 ELSE 0) - (IF tx[p].pc \in Connected THEN 1 ELSE 0)
      /\ out' <= PoolMax
  BY <1>1, <1>2, <1>4, MySQLAssumption DEF TypeOK, Connected
<1>8. objects' \subseteq Ids /\ \A i \in objects' : given[i] # NoSum
  BY <1>1, <1>2 DEF IInv, Drawn, Holding, TypeOK
<1>9. UNCHANGED <<mode, closed, tables, given>> /\ \A i \in objects \ objects' : rows[i] = "none"
  BY <1>1
<1>. QED  BY <1>1, <1>4, <1>5, <1>6, <1>7, <1>8, <1>9, ObjectsStep

(* The rows of objects that a delete removes are gone. *)
LEMMA RemoveObjectIInv == ASSUME IInv, NEW p \in Procs, NEW i \in Ids, RemoveObject(p, i) PROVE IInv'
<1> DEFINE r == IF tx[p].todo = {i} THEN Idle ELSE [tx[p] EXCEPT !.todo = @ \ {i}]
<1>1. tx[p].pc = "cleanup" /\ i \in tx[p].todo /\ objects' \in {objects, objects \ {i}} /\ Goes(p, r)
      /\ UNCHANGED <<mode, closed, out, tables, lock, given>>
  BY DEF RemoveObject
<1>2. /\ TypeOK /\ tx[p] \in Call /\ tx[p].ids \in SUBSET Ids /\ CallInv(p)
      /\ Shape(p) /\ Streaming(p) /\ Counting(p) /\ Holding(p) /\ tx'[p] = r
  BY <1>1, CallFacts DEF IInv
<1>3. /\ lock' \in [Ids \cup Sums -> Procs \cup {NoProc}]
      /\ \A k \in Ids \cup Sums : lock'[k] # p
      /\ \A q \in Procs, k \in Ids \cup Sums : q # p => (lock'[k] = q <=> lock[k] = q)
  BY <1>1, NoLocks DEF Writing
<1>4. objects' \subseteq Ids /\ (\A k \in objects' : given[k] # NoSum)
      /\ (\A k \in objects \ objects' : rows[k] = "none") /\ UNCHANGED <<mode, closed, tables, given>>
  BY <1>1, <1>2 DEF IInv, Drawn, TypeOK, Holding
<1>5. CASE tx[p].todo = {i}
  <2>1. r = Idle /\ r \in Endings(tx[p])
    BY <1>5 DEF Endings
  <2> HIDE DEF r
  <2>2. r \in Call /\ r.pc = "idle" /\ r.ids = {} /\ r.op = "get_many"
    BY <2>1, IdleType DEF Idle
  <2>3. CallInv(p)'
    BY <1>1, <1>2, <1>3, <2>1, EndedCall
  <2>4. out' = out + (IF r.pc \in Connected THEN 1 ELSE 0) - (IF tx[p].pc \in Connected THEN 1 ELSE 0)
        /\ out' <= PoolMax
    BY <1>1, <1>2, <2>2, MySQLAssumption DEF TypeOK, Connected
  <2>. QED  BY <1>1, <1>3, <1>4, <2>2, <2>3, <2>4, ObjectsStep
<1>6. CASE tx[p].todo # {i}
  <2>1. r = [tx[p] EXCEPT !.todo = @ \ {i}]
    BY <1>6
  <2>2. r \in Call /\ r.pc = "cleanup" /\ r.ids = tx[p].ids /\ r.op = "delete_many" /\ r.wrote = {}
        /\ r.counts = tx[p].counts /\ r.sums = {} /\ r.todo = tx[p].todo \ {i} /\ r.alive
        /\ r.left = tx[p].left /\ r.got = tx[p].got /\ r.late = tx[p].late /\ r.result = tx[p].result
    BY <1>1, <1>2, <2>1 DEF Call, Shape, Writing
  <2> HIDE DEF r
  <2>3. Shape(p)'
    BY <1>1, <1>2, <2>2 DEF Shape, Writing
  <2>4. Streaming(p)'
    BY <1>1, <1>2, <2>2 DEF Streaming, Shape
  <2>5. Counting(p)'
    BY <1>1, <1>2, <2>2 DEF Counting
  <2>6. Holding(p)'
    BY <1>1, <1>2, <1>3, <2>2 DEF Holding, Writing, tables
  <2>7. CallInv(p)'
    BY <2>3, <2>4, <2>5, <2>6 DEF CallInv
  <2>8. out' = out + (IF r.pc \in Connected THEN 1 ELSE 0) - (IF tx[p].pc \in Connected THEN 1 ELSE 0)
        /\ out' <= PoolMax
    BY <1>1, <1>2, <2>2, MySQLAssumption DEF TypeOK, Connected
  <2>. QED  BY <1>1, <1>3, <1>4, <2>2, <2>7, <2>8, ObjectsStep
<1>. QED  BY <1>5, <1>6

-----------------------------------------------------------------------------
(* The commit *)

(* What it writes into the rows, and into the blobs: exactly the target.    *)
LEMMA CommittedRows ==
  ASSUME IInv, NEW p \in Procs, tx[p].pc = "commit", Install(p)
  PROVE  /\ rows' \in [Ids -> Backend]
         /\ \A i \in Ids : i \notin tx[p].wrote => rows'[i] = rows[i]
         /\ tx[p].wrote \subseteq tx[p].ids
         /\ tx[p].op = "put_many" => \A i \in tx[p].wrote : rows[i] = "none" /\ rows'[i] = "mysql"
         /\ tx[p].op = "delete_many" =>
              \A i \in tx[p].wrote : rows[i] # "none" /\ lock[i] = p /\ rows'[i] = "none"
         /\ tx[p].op = "tier_to_object_storage" =>
              \A i \in tx[p].wrote : /\ rows[i] = "mysql" /\ lock[i] = p /\ i \in objects
                                     /\ rows'[i] = "object_storage"
         /\ tx[p].op \in {"put_many", "delete_many", "tier_to_object_storage"}
<1>1. /\ TypeOK /\ tx[p].ids \in SUBSET Ids /\ tx[p].wrote \in SUBSET Ids /\ Shape(p) /\ Holding(p)
  BY CallFacts
<1>2. tx[p].op \in {"put_many", "delete_many", "tier_to_object_storage"} /\ tx[p].wrote \subseteq tx[p].ids
  BY <1>1 DEF Shape, Holding
<1>3. rows' = [i \in Ids |-> IF i \notin tx[p].wrote THEN rows[i]
                             ELSE CASE tx[p].op = "put_many" -> "mysql"
                                    [] tx[p].op = "delete_many" -> "none"
                                    [] OTHER -> "object_storage"]
  BY DEF Install
<1>4. CASE tx[p].op = "put_many"
  BY <1>1, <1>2, <1>3, <1>4 DEF Holding, TypeOK, Backend
<1>5. CASE tx[p].op = "delete_many"
  BY <1>1, <1>2, <1>3, <1>5 DEF Holding, TypeOK, Backend
<1>6. CASE tx[p].op = "tier_to_object_storage"
  BY <1>1, <1>2, <1>3, <1>6 DEF Holding, TypeOK, Backend
<1>. QED  BY <1>2, <1>4, <1>5, <1>6

(* A count that was written is locked and is the target; any other one stays. *)
LEMMA CommittedBlobs ==
  ASSUME IInv, NEW p \in Procs, tx[p].pc = "commit", Install(p), NEW s \in Sums
  PROVE  /\ blobs'[s] \in Nat /\ (lock[s] # p => blobs'[s] = blobs[s])
         /\ mode = "dedup" => blobs'[s] = Target(p, s)
<1>1. /\ TypeOK /\ Shape(p) /\ Counting(p) /\ tx[p] \in Call
      /\ tx[p].ids \in SUBSET Ids /\ tx[p].wrote \in SUBSET Ids
  BY CallFacts
<1>2. blobs'[s] = IF tx[p].counts[s] >= 0 THEN tx[p].counts[s] ELSE blobs[s]
  BY DEF Install, Seen
<1>3. tx[p].sums = {}
  BY <1>1 DEF Shape
<1>4. blobs[s] \in Nat /\ tx[p].counts[s] \in Int
  BY <1>1 DEF TypeOK, Call
<1>5. CASE mode = "dedup" /\ s \in SumsOf(Batch(p))
  <2>1. lock[s] = p /\ tx[p].counts[s] = Target(p, s) /\ tx[p].counts[s] >= 0
    BY <1>1, <1>3, <1>5 DEF Counting
  <2>. QED  BY <1>2, <1>4, <2>1
<1>6. CASE ~(mode = "dedup" /\ s \in SumsOf(Batch(p)))
  <2>1. tx[p].counts[s] = -1
    BY <1>1, <1>3, <1>6 DEF Counting
  <2>2. blobs'[s] = blobs[s]
    BY <1>2, <2>1
  <2>3. ASSUME mode = "dedup" PROVE blobs[s] = Target(p, s)
    <3>1. CASE tx[p].op = "put_many"
      <4>1. Count(tx[p].ids, s) = 0
        BY <1>1, <1>6, <2>3, <3>1, CountZero DEF Batch
      <4>. QED  BY <1>4, <3>1, <4>1 DEF Target
    <3>2. CASE tx[p].op # "put_many"
      <4>1. Count(tx[p].wrote, s) = 0
        BY <1>1, <1>6, <2>3, <3>2, CountZero DEF Batch
      <4>. QED  BY <1>4, <3>2, <4>1 DEF Target
    <3>. QED  BY <3>1, <3>2
  <2>. QED  BY <1>4, <2>2, <2>3
<1>. QED  BY <1>5, <1>6

(* So the ref_counts are right after it. *)
LEMMA CommittedCounts ==
  ASSUME IInv, NEW p \in Procs, tx[p].pc = "commit", Install(p)
  PROVE  RefCountExact'
<1> SUFFICES ASSUME mode = "dedup", NEW s \in Sums PROVE (blobs[s] = Count(Stored(Ids), s))'
  BY DEF RefCountExact, Install
<1> DEFINE S == Stored(Ids)
           T == {i \in Ids : rows'[i] # "none"}
<1>1. /\ Shape(p) /\ tx[p].ids \in SUBSET Ids /\ tx[p].wrote \in SUBSET Ids /\ S \in SUBSET Ids
      /\ (tx[p].op = "put_many" => tx[p].wrote = tx[p].ids)
  BY CallFacts DEF Stored, Holding
<1>2. blobs[s] = Count(S, s) /\ blobs'[s] = Target(p, s)
  BY CommittedBlobs DEF IInv, RefCountExact
<1>3. Count(Stored(Ids), s)' = Count(T, s)
  <2>1. given' = given
    BY DEF Install
  <2>. QED  BY <2>1 DEF Count, Stored
<1>4. CASE tx[p].op = "put_many"
  <2>1. T = S \cup tx[p].ids /\ S \cap tx[p].ids = {}
    BY <1>1, <1>4, CommittedRows DEF Stored
  <2> HIDE DEF S, T
  <2>2. Count(T, s) = Count(S, s) + Count(tx[p].ids, s)
    BY <1>1, <2>1, CountUnion
  <2>. QED  BY <1>2, <1>3, <1>4, <2>2 DEF Target
<1>5. CASE tx[p].op = "delete_many"
  <2>1. T = S \ tx[p].wrote /\ tx[p].wrote \in SUBSET S
    BY <1>1, <1>5, CommittedRows DEF Stored
  <2> HIDE DEF S, T
  <2>2. Count(T, s) = Count(S, s) - Count(tx[p].wrote, s)
    BY <1>1, <2>1, CountMonotonic
  <2>. QED  BY <1>2, <1>3, <1>5, <2>2 DEF Target
<1>. QED  BY <1>1, <1>4, <1>5 DEF Shape

(* The other calls do not notice it. *)
LEMMA CommitStep ==
  ASSUME IInv, NEW p \in Procs, tx[p].pc = "commit", Install(p), NEW r \in Call, Goes(p, r),
         r.pc \notin Connected, r.ids \subseteq tx[p].ids, r.op = "put_many" => tx[p].op = "put_many",
         CallInv(p)'
  PROVE  IInv'
<1>1. /\ TypeOK /\ IdsApart /\ Drawn /\ BytesSafe
      /\ \A q \in Procs : tx[q].ids \subseteq Ids /\ Shape(q)
  BY CallFacts DEF IInv
<1>2. UNCHANGED <<mode, closed, objects, given>> /\ out' = out - 1 /\ Unlock(p)
  BY DEF Install
<1>3. /\ IdsApart' /\ tx' = [tx EXCEPT ![p] = r]
      /\ \A q \in Procs : tx'[q].ids \subseteq tx[q].ids
                          /\ (tx'[q].op = "put_many" => tx[q].op = "put_many")
  BY SameIds
<1>4. /\ rows' \in [Ids -> Backend]
      /\ \A i \in Ids : i \notin tx[p].wrote => rows'[i] = rows[i]
      /\ tx[p].wrote \subseteq tx[p].ids
      /\ tx[p].op = "put_many" => \A i \in tx[p].wrote : rows[i] = "none" /\ rows'[i] = "mysql"
      /\ tx[p].op = "delete_many" =>
           \A i \in tx[p].wrote : rows[i] # "none" /\ lock[i] = p /\ rows'[i] = "none"
      /\ tx[p].op = "tier_to_object_storage" =>
           \A i \in tx[p].wrote : /\ rows[i] = "mysql" /\ lock[i] = p /\ i \in objects
                                  /\ rows'[i] = "object_storage"
      /\ tx[p].op \in {"put_many", "delete_many", "tier_to_object_storage"}
  BY CommittedRows
<1>5. blobs' \in [Sums -> Nat] /\ \A s \in Sums : lock[s] # p => blobs'[s] = blobs[s]
  <2>1. blobs' = [s \in Sums |-> blobs'[s]]
    BY DEF Install
  <2>. QED  BY <2>1, CommittedBlobs
<1>6. /\ lock' \in [Ids \cup Sums -> Procs \cup {NoProc}]
      /\ \A q \in Procs, k \in Ids \cup Sums : q # p => (lock'[k] = q <=> lock[k] = q)
  BY <1>1, <1>2, UnlockEffect
<1>7. out' = out + (IF r.pc \in Connected THEN 1 ELSE 0) - (IF tx[p].pc \in Connected THEN 1 ELSE 0)
      /\ out' <= PoolMax
  BY <1>1, <1>2, MySQLAssumption DEF TypeOK, Connected
<1>8. ASSUME NEW q \in Procs, q # p
      PROVE  /\ \A i \in tx[q].ids : given'[i] = given[i]
             /\ \A s \in Sums : lock[s] = q => blobs'[s] = blobs[s]
             /\ \A i \in tx[q].ids :
                  /\ tx[q].op = "put_many" \/ lock[i] = q => rows'[i] = rows[i]
                  /\ rows[i] = "none" /\ tx[q].op = "delete_many" => rows'[i] = "none"
                  /\ i \in objects /\ lock[i] = q /\ rows[i] = "mysql" => i \in objects'
  <2>1. ASSUME NEW i \in tx[q].ids, tx[q].op = "put_many" \/ lock[i] = q PROVE rows'[i] = rows[i]
    <3>1. i \in Ids /\ (tx[q].op = "put_many" \/ tx[p].op = "put_many" => i \notin tx[p].ids)
      BY <1>1, <1>8 DEF IdsApart
    <3>. QED  BY <1>4, <1>8, <2>1, <3>1
  <2>2. ASSUME NEW i \in tx[q].ids, rows[i] = "none" PROVE rows'[i] = "none"
    <3>1. i \in Ids /\ (tx[p].op = "put_many" => i \notin tx[p].ids)
      BY <1>1, <1>8 DEF IdsApart
    <3>. QED  BY <1>4, <1>8, <2>2, <3>1
  <2>. QED  BY <1>2, <1>5, <1>8, <2>1, <2>2
<1>9. Drawn'
  <2>1. ASSUME NEW i \in Ids, rows'[i] # "none" PROVE given[i] # NoSum
    <3>1. CASE i \notin tx[p].wrote
      BY <1>1, <1>4, <2>1, <3>1 DEF Drawn
    <3>2. CASE i \in tx[p].wrote
      BY <1>1, <1>4, <2>1, <3>2 DEF Drawn
    <3>. QED  BY <3>1, <3>2
  <2>2. \A q \in Procs : tx'[q].op = "put_many" => \A i \in tx'[q].ids : given[i] # NoSum
    BY <1>1, <1>3 DEF Drawn
  <2>. QED  BY <1>1, <1>2, <2>1, <2>2 DEF Drawn
<1>10. BytesSafe'
  <2> SUFFICES ASSUME NEW i \in Ids, rows'[i] = "object_storage" PROVE i \in objects
    BY <1>2 DEF BytesSafe
  <2>1. CASE i \notin tx[p].wrote
    BY <1>1, <1>4, <2>1 DEF BytesSafe
  <2>2. CASE i \in tx[p].wrote
    BY <1>4, <2>2
  <2>. QED  BY <2>1, <2>2
<1>11. RefCountExact' /\ objects' \subseteq Ids /\ given' \in [Ids -> Sums \cup {NoSum}]
  BY <1>1, <1>2, CommittedCounts DEF TypeOK
<1>. QED  BY <1>2, <1>3, <1>4, <1>5, <1>6, <1>7, <1>8, <1>9, <1>10, <1>11, StepIInv

(* A commit whose acknowledgement is lost is a commit for everybody else. *)
LEMMA CommitLostIInv == ASSUME IInv, NEW p \in Procs, CommitLost(p) PROVE IInv'
<1> DEFINE r == AfterFailure(tx[p])
<1>1. tx[p].pc = "commit" /\ Install(p) /\ Goes(p, r) /\ r \in Endings(tx[p])
  BY DEF CommitLost, Endings
<1>2. TypeOK /\ CallInv(p) /\ tx[p] \in Call /\ tx'[p] = r
  BY <1>1, CallFacts DEF IInv
<1> HIDE DEF r
<1>3. /\ r \in Call /\ r.pc \notin Connected
      /\ r.ids \subseteq tx[p].ids /\ (r.op = "put_many" => tx[p].op = "put_many")
  BY <1>1, <1>2, EndingShape DEF Connected
<1>4. CallInv(p)'
  BY <1>1, <1>2, EndedCall, UnlockEffect DEF Install
<1>. QED  BY <1>1, <1>3, <1>4, CommitStep

(* After the commit a delete has the objects of its rows to remove. *)
LEMMA CommitIInv == ASSUME IInv, NEW p \in Procs, Commit(p) PROVE IInv'
<1> DEFINE r == [tx[p] EXCEPT !.pc = "cleanup", !.wrote = {}, !.counts = Unwritten]
<1>1. tx[p].pc = "commit" /\ Install(p) /\ Goes(p, IF tx[p].todo = {} THEN Idle ELSE r)
  BY DEF Commit
<1>2. /\ TypeOK /\ CallInv(p) /\ tx[p] \in Call /\ tx[p].ids \in SUBSET Ids
      /\ Shape(p) /\ Streaming(p) /\ Counting(p) /\ Holding(p)
  BY CallFacts DEF IInv
<1>3. \A k \in Ids \cup Sums : lock'[k] # p
  BY <1>1, <1>2, UnlockEffect DEF Install
<1>4. CASE tx[p].todo = {}
  <2>1. Goes(p, Idle) /\ tx'[p] = Idle /\ Idle \in Endings(tx[p])
    BY <1>1, <1>4, CallFacts DEF Endings
  <2>2. CallInv(p)'
    BY <1>1, <1>2, <1>3, <2>1, EndedCall DEF Install
  <2>3. Idle \in Call /\ Idle.pc \notin Connected /\ Idle.ids \subseteq tx[p].ids /\ Idle.op # "put_many"
    BY IdleType DEF Idle, Connected
  <2>. QED  BY <1>1, <2>1, <2>2, <2>3, CommitStep
<1>5. CASE tx[p].todo # {}
  <2>1. Goes(p, r) /\ tx'[p] = r
    BY <1>1, <1>5, CallFacts
  <2>2. tx[p].op = "delete_many"
    BY <1>1, <1>2, <1>5 DEF Shape
  <2>3. r \in Call /\ r.pc = "cleanup" /\ r.ids = tx[p].ids /\ r.op = "delete_many" /\ r.wrote = {}
        /\ r.counts = Unwritten /\ r.sums = {} /\ r.todo = tx[p].todo /\ r.alive
        /\ r.left = tx[p].left /\ r.got = tx[p].got /\ r.late = tx[p].late /\ r.result = tx[p].result
    <3>1. Unwritten \in [Sums -> Int]
      BY DEF Unwritten
    <3>2. [tx[p] EXCEPT !.pc = "cleanup", !.wrote = {}] \in Call
      BY <1>2 DEF Call
    <3>3. [[tx[p] EXCEPT !.pc = "cleanup", !.wrote = {}] EXCEPT !.counts = Unwritten] \in Call
      BY <3>1, <3>2 DEF Call
    <3>. QED  BY <1>1, <1>2, <2>2, <3>3 DEF Call, Shape
  <2> HIDE DEF r
  <2>4. UNCHANGED <<mode, closed, given>>
    BY <1>1 DEF Install
  <2>5. Shape(p)'
    BY <1>1, <1>2, <2>1, <2>2, <2>3, <2>4 DEF Shape, Writing
  <2>6. Streaming(p)'
    BY <1>1, <1>2, <2>1, <2>2, <2>3, <2>4 DEF Streaming
  <2>7. Counting(p)'
    BY <2>1, <2>3 DEF Counting, Unwritten
  <2>8. Holding(p)'
    <3>1. tx[p].todo \subseteq tx[p].wrote /\ tx[p].wrote \subseteq tx[p].ids
          /\ \A i \in tx[p].wrote : rows'[i] = "none"
      BY <1>1, <1>2, <2>2, CommittedRows DEF Holding
    <3>. QED  BY <1>3, <2>1, <2>3, <3>1 DEF Holding
  <2>9. CallInv(p)'
    BY <2>5, <2>6, <2>7, <2>8 DEF CallInv
  <2>. QED  BY <1>1, <2>1, <2>3, <2>9, CommitStep DEF Connected
<1>. QED  BY <1>4, <1>5

-----------------------------------------------------------------------------
(* The beginning of a call, and close() *)

(* What Begin makes of an idle call. *)
LEMMA BeginEffect ==
  ASSUME TypeOK, NEW p \in Procs, NEW S \in SUBSET Ids,
         NEW op \in {"put_many", "delete_many", "tier_to_object_storage", "get_many", "get_stream"},
         Begin(p, [Idle EXCEPT !.op = op, !.ids = S])
  PROVE  /\ tx[p].pc = "idle" /\ UNCHANGED <<mode, closed, out, tables, lock, objects>>
         /\ tx' = [tx EXCEPT ![p] = tx'[p]]
         /\ tx'[p] \in Call /\ tx'[p].pc = "check" /\ tx'[p].op = op /\ tx'[p].ids = S
         /\ tx'[p].alive /\ tx'[p].wrote = {} /\ tx'[p].counts = Unwritten /\ tx'[p].sums = {}
         /\ tx'[p].todo = {} /\ tx'[p].left = 0 /\ tx'[p].got = {} /\ tx'[p].late = 0
         /\ tx'[p].result = "none"
<1> DEFINE c == [Idle EXCEPT !.op = op, !.ids = S]
           r == [c EXCEPT !.pc = "check"]
<1>1. tx[p].pc = "idle" /\ UNCHANGED <<mode, closed, out, tables, lock, objects>>
      /\ tx' = [tx EXCEPT ![p] = r]
  BY DEF Begin, Goes
<1>2. c \in Call
  BY IdleType DEF Call
<1>3. c.alive /\ c.wrote = {} /\ c.counts = Unwritten /\ c.sums = {} /\ c.todo = {} /\ c.left = 0
      /\ c.got = {} /\ c.late = 0 /\ c.result = "none" /\ c.op = op /\ c.ids = S
  BY DEF Idle
<1> HIDE DEF c
<1>4. r \in Call /\ r.pc = "check" /\ r.op = op /\ r.ids = S /\ r.alive /\ r.wrote = {}
      /\ r.counts = Unwritten /\ r.sums = {} /\ r.todo = {} /\ r.left = 0 /\ r.got = {}
      /\ r.late = 0 /\ r.result = "none"
  BY <1>2, <1>3 DEF Call
<1>5. tx'[p] = r
  BY <1>1 DEF TypeOK
<1> HIDE DEF r
<1>. QED  BY <1>1, <1>4, <1>5

(* A call that begins has its ids to itself, or names some that no put has. *)
LEMMA BeginStep ==
  ASSUME IInv, NEW p \in Procs, NEW op \in {"put_many", "delete_many", "tier_to_object_storage",
                                            "get_many", "get_stream"},
         NEW S \in SUBSET Ids, S # {},
         Begin(p, [Idle EXCEPT !.op = op, !.ids = S]),
         op = "put_many" => S \subseteq Fresh, op # "put_many" => S \subseteq Nameable,
         op = "tier_to_object_storage" => mode = "classic",
         op \in {"tier_to_object_storage", "get_stream"} => \E i \in Ids : S = {i},
         given' \in [Ids -> Sums \cup {NoSum}], op # "put_many" => given' = given,
         \A i \in Ids : i \notin S => given'[i] = given[i],
         op = "put_many" => \A i \in S : given'[i] # NoSum
  PROVE  IInv'
<1>1. tx[p].pc = "idle" /\ UNCHANGED <<mode, closed, out, tables, lock, objects>>
  BY BeginEffect DEF IInv
<1>2. PICK r \in Call : tx'[p] = r
  BY BeginEffect DEF IInv
<1>3. /\ tx' = [tx EXCEPT ![p] = r]
      /\ r \in Call /\ r.pc = "check" /\ r.op = op /\ r.ids = S
      /\ r.alive /\ r.wrote = {} /\ r.counts = Unwritten /\ r.sums = {}
      /\ r.todo = {} /\ r.left = 0 /\ r.got = {} /\ r.late = 0 /\ r.result = "none"
  BY <1>2, BeginEffect DEF IInv
<1>4. /\ TypeOK /\ IdsApart /\ Drawn /\ BytesSafe /\ RefCountExact
      /\ tx' = [tx EXCEPT ![p] = r] /\ tx'[p] = r
      /\ \A q \in Procs : q # p => tx'[q] = tx[q]
      /\ \A q \in Procs : tx[q].ids \subseteq Ids
  BY <1>3, <1>2, CallFacts DEF IInv, TypeOK, Goes
<1>5. UNCHANGED <<mode, closed, out, rows, blobs, lock, objects>>
  BY <1>1 DEF tables
<1>6. \A q \in Procs : op = "put_many" => S \cap tx[q].ids = {}
  BY DEF Fresh
<1>7. \A q \in Procs : tx[q].op = "put_many" => S \cap tx[q].ids = {}
  BY DEF Fresh, Nameable
<1>8. \A q \in Procs : \A i \in tx[q].ids : given'[i] = given[i]
  BY <1>4, <1>6
<1>9. \A i \in Ids : rows[i] # "none" \/ i \in objects => given'[i] = given[i]
  <2>1. \A i \in S : op = "put_many" => given[i] = NoSum
    BY DEF Fresh
  <2>. QED  BY <1>4, <2>1 DEF Drawn
<1>10. IdsApart'
  <2> SUFFICES ASSUME NEW a \in Procs, NEW b \in Procs, a # b, tx'[a].op = "put_many"
               PROVE  tx'[a].ids \cap tx'[b].ids = {}
    BY DEF IdsApart
  <2>1. CASE a = p
    BY <1>4, <1>3, <1>2, <1>6, <2>1
  <2>2. CASE b = p
    BY <1>4, <1>3, <1>2, <1>7, <2>2
  <2>3. CASE a # p /\ b # p
    BY <1>4, <2>3 DEF IdsApart
  <2>. QED  BY <2>1, <2>2, <2>3
<1>11. Drawn'
  <2>1. ASSUME NEW q \in Procs, tx'[q].op = "put_many", NEW i \in tx'[q].ids
        PROVE  given'[i] # NoSum
    <3>1. CASE q = p
      BY <1>4, <1>3, <1>2, <2>1, <3>1
    <3>2. CASE q # p
      BY <1>4, <1>8, <2>1, <3>2 DEF Drawn
    <3>. QED  BY <3>1, <3>2
  <2>. QED  BY <1>4, <1>5, <1>9, <2>1 DEF Drawn
<1>12. BytesSafe'
  BY <1>4, <1>5 DEF BytesSafe
<1>13. RefCountExact'
  <2> SUFFICES ASSUME mode = "dedup", NEW s \in Sums PROVE (blobs[s] = Count(Stored(Ids), s))'
    BY <1>5 DEF RefCountExact
  <2>1. {i \in Stored(Ids) : given[i] = s} = {i \in Stored(Ids) : given'[i] = s}
        /\ Stored(Ids)' = Stored(Ids)
    BY <1>5, <1>9 DEF Stored
  <2>2. Count(Stored(Ids), s)' = Count(Stored(Ids), s)
    BY <2>1, Zenon DEF Count
  <2>. QED  BY <1>4, <1>5, <2>2 DEF RefCountExact
<1>14. CallInv(p)'
  <2>1. Shape(p)'
    BY <1>4, <1>3, <1>2, <1>5 DEF Shape, Writing
  <2>2. Streaming(p)'
    BY <1>4, <1>3, <1>2 DEF Streaming
  <2>3. Counting(p)'
    BY <1>4, <1>3, <1>2 DEF Counting, Unwritten
  <2>4. Holding(p)'
    BY <1>1, <1>4, <1>3, <1>2, NoLocks DEF Holding, Writing
  <2>. QED  BY <2>1, <2>2, <2>3, <2>4 DEF CallInv
<1>15. out' = out + (IF r.pc \in Connected THEN 1 ELSE 0) - (IF tx[p].pc \in Connected THEN 1 ELSE 0)
       /\ out' <= PoolMax
  BY <1>1, <1>4, <1>3, <1>2, MySQLAssumption DEF TypeOK, Connected
<1>16. /\ rows' \in [Ids -> Backend] /\ blobs' \in [Sums -> Nat] /\ objects' \subseteq Ids
       /\ lock' \in [Ids \cup Sums -> Procs \cup {NoProc}]
  BY <1>4, <1>5 DEF TypeOK
<1>17. ASSUME NEW q \in Procs, q # p
       PROVE  /\ \A i \in tx[q].ids : given'[i] = given[i]
              /\ \A s \in Sums : lock[s] = q => blobs'[s] = blobs[s]
              /\ \A i \in tx[q].ids :
                   /\ tx[q].op = "put_many" \/ lock[i] = q => rows'[i] = rows[i]
                   /\ rows[i] = "none" /\ tx[q].op = "delete_many" => rows'[i] = "none"
                   /\ i \in objects /\ lock[i] = q /\ rows[i] = "mysql" => i \in objects'
  BY <1>5, <1>8
<1>18. /\ UNCHANGED <<mode, closed>>
       /\ \A q \in Procs, k \in Ids \cup Sums : q # p => (lock'[k] = q <=> lock[k] = q)
       /\ given' \in [Ids -> Sums \cup {NoSum}]
  BY <1>5
<1>. QED
  BY <1>4, <1>3, <1>10, <1>11, <1>12, <1>13, <1>14, <1>15, <1>16, <1>17, <1>18, StepIInv

(* A batch has an image. *)
LEMMA BatchNotEmpty ==
  ASSUME NEW R \in SUBSET Ids, NEW S \in BatchOf(R)
  PROVE  S \in SUBSET Ids /\ S \subseteq R /\ S # {}
  BY FS_EmptySet DEF BatchOf

(* put_many draws ids that no call has used. *)
LEMMA BeginPutIInv == ASSUME IInv, NEW p \in Procs, BeginPut(p) PROVE IInv'
<1>1. PICK S \in BatchOf(Fresh) : \E c \in [S -> Sums] :
        /\ Begin(p, [Idle EXCEPT !.op = "put_many", !.ids = S])
        /\ given' = [i \in Ids |-> IF i \in S THEN c[i] ELSE given[i]]
  BY DEF BeginPut
<1>2. PICK c \in [S -> Sums] :
        /\ Begin(p, [Idle EXCEPT !.op = "put_many", !.ids = S])
        /\ given' = [i \in Ids |-> IF i \in S THEN c[i] ELSE given[i]]
  BY <1>1
<1>3. S \in SUBSET Ids /\ S \subseteq Fresh /\ S # {}
  BY BatchNotEmpty DEF Fresh
<1>4. \A i \in S : c[i] \in Sums /\ c[i] # NoSum
  BY MySQLAssumption
<1>5. given \in [Ids -> Sums \cup {NoSum}]
  BY DEF IInv, TypeOK
<1>6. given' \in [Ids -> Sums \cup {NoSum}] /\ (\A i \in Ids : i \notin S => given'[i] = given[i])
      /\ \A i \in S : given'[i] # NoSum
  BY <1>2, <1>3, <1>4, <1>5
<1>. QED  BY <1>2, <1>3, <1>6, BeginStep

(* delete_many names ids of its caller. *)
LEMMA BeginDeleteIInv == ASSUME IInv, NEW p \in Procs, BeginDelete(p) PROVE IInv'
<1>1. PICK S \in BatchOf(Nameable) :
        Begin(p, [Idle EXCEPT !.op = "delete_many", !.ids = S]) /\ UNCHANGED given
  BY DEF BeginDelete
<1>2. S \in SUBSET Ids /\ S \subseteq Nameable /\ S # {}
  BY BatchNotEmpty DEF Nameable
<1>3. given' \in [Ids -> Sums \cup {NoSum}]
  BY <1>1 DEF IInv, TypeOK
<1>. QED  BY <1>1, <1>2, <1>3, BeginStep

(* tier_to_object_storage names one, in classic mode. *)
LEMMA BeginTierIInv == ASSUME IInv, NEW p \in Procs, BeginTier(p) PROVE IInv'
<1>1. PICK i \in Nameable :
        /\ mode = "classic"
        /\ Begin(p, [Idle EXCEPT !.op = "tier_to_object_storage", !.ids = {i}])
        /\ UNCHANGED given
  BY DEF BeginTier
<1>2. {i} \in SUBSET Ids /\ {i} \subseteq Nameable /\ {i} # {} /\ i \in Ids
  BY DEF Nameable
<1>3. given' \in [Ids -> Sums \cup {NoSum}]
  BY <1>1 DEF IInv, TypeOK
<1>. QED  BY <1>1, <1>2, <1>3, BeginStep

(* get_many and get_stream name some, get_stream one. *)
LEMMA BeginReadIInv == ASSUME IInv, NEW p \in Procs, BeginRead(p) PROVE IInv'
<1>1. PICK S \in BatchOf(Nameable), op \in {"get_many", "get_stream"} :
        /\ op = "get_stream" => Cardinality(S) = 1
        /\ Begin(p, [Idle EXCEPT !.op = op, !.ids = S])
        /\ UNCHANGED given
  BY DEF BeginRead
<1>2. S \in SUBSET Ids /\ S \subseteq Nameable /\ S # {}
  BY BatchNotEmpty DEF Nameable
<1>3. given' \in [Ids -> Sums \cup {NoSum}]
  BY <1>1 DEF IInv, TypeOK
<1>4. op = "get_stream" => \E i \in Ids : S = {i}
  <2>1. IsFiniteSet(S)
    BY <1>2, MySQLAssumption, FS_Subset
  <2>2. op = "get_stream" => \E i : S = {i}
    BY <1>1, <2>1, FS_Singleton
  <2>. QED  BY <1>2, <2>2
<1>. QED  BY <1>1, <1>2, <1>3, <1>4, BeginStep

(* close() changes no call. *)
LEMMA CloseIInv == ASSUME IInv, Close PROVE IInv'
<1>1. closed' = TRUE /\ UNCHANGED <<mode, out, rows, blobs, lock, objects, given, tx>>
  BY DEF Close, tables
<1>2. TypeOK /\ PoolClean /\ RefCountExact /\ IdsApart /\ Drawn /\ BytesSafe
  BY DEF IInv
<1>3. TypeOK'
  BY <1>1, <1>2 DEF TypeOK
<1>4. PoolClean' /\ IdsApart' /\ Drawn' /\ BytesSafe'
  BY <1>1, <1>2 DEF PoolClean, IdsApart, Drawn, BytesSafe
<1>5. RefCountExact'
  BY <1>1, <1>2 DEF RefCountExact, Count, Stored
<1>6. ASSUME NEW q \in Procs PROVE CallInv(q)'
  <2>1. CallInv(q) /\ tx'[q] = tx[q] /\ tx[q].ids \subseteq Ids
    BY <1>1, CallFacts DEF IInv
  <2>. QED  BY <1>1, <1>2, <2>1, FrameCall
<1>. QED  BY <1>3, <1>4, <1>5, <1>6 DEF IInv

-----------------------------------------------------------------------------
(* The theorems *)

(* Every step preserves the invariant. *)
LEMMA NextIInv == IInv /\ [Next]_vars => IInv'
<1> SUFFICES ASSUME IInv, [Next]_vars PROVE IInv'
  OBVIOUS
<1>1. CASE Close
  BY <1>1, CloseIInv
<1>2. ASSUME NEW p \in Procs, BeginCall(p) PROVE IInv'
  BY <1>2, BeginPutIInv, BeginDeleteIInv, BeginTierIInv, BeginReadIInv DEF BeginCall
<1>3. ASSUME NEW p \in Procs, Step(p) PROVE IInv'
  <2>1. CASE Write(p)
    BY <2>1, InsertIInv, SortBlobsIInv, UpsertBlobIInv, DeleteRowsIInv, DecrementBlobIInv,
       SelectForTieringIInv, UploadIInv, UploadFailsIInv, UpdateIInv, CommitIInv, CommitLostIInv,
       RemoveObjectIInv DEF Write
  <2>2. CASE Read(p)
    BY <2>2, SelectIInv, StreamInfoIInv, ReadChunkIInv, ReadObjectIInv, FetchIInv DEF Read
  <2>. QED
    BY <1>3, <2>1, <2>2, CheckIInv, ConnectIInv, ConnectFailsIInv, FailIInv, AbortIInv, ReturnIInv
    DEF Step
<1>4. ASSUME NEW p \in Procs, Disconnect(p) PROVE IInv'
  BY <1>4, DisconnectIInv
<1>5. CASE UNCHANGED vars
  <2>1. UNCHANGED <<mode, closed, out, rows, blobs, lock, objects, given, tx>>
    BY <1>5 DEF vars, tables
  <2>2. TypeOK' /\ PoolClean' /\ IdsApart' /\ Drawn' /\ BytesSafe'
    BY <2>1 DEF IInv, TypeOK, PoolClean, IdsApart, Drawn, BytesSafe
  <2>3. RefCountExact'
    BY <2>1 DEF IInv, RefCountExact, Count, Stored
  <2>4. ASSUME NEW q \in Procs PROVE CallInv(q)'
    <3>1. TypeOK /\ CallInv(q) /\ tx'[q] = tx[q] /\ tx[q].ids \subseteq Ids
      BY <2>1, CallFacts DEF IInv
    <3>. QED  BY <2>1, <3>1, FrameCall
  <2>. QED  BY <2>2, <2>3, <2>4 DEF IInv
<1>. QED  BY <1>1, <1>2, <1>3, <1>4, <1>5 DEF Next

(* IInv holds in every reachable state. *)
THEOREM Invariance == Spec => []IInv
<1>1. Init => IInv
  BY InitIInv
<1>2. IInv /\ [Next]_vars => IInv'
  BY NextIInv
<1>. QED  BY <1>1, <1>2, PTL DEF Spec

(* The tables, the locks, the pool and the calls stay well formed, and the  *)
(* pool never hands out more than max_size connections.                     *)
THEOREM TypeCorrect == Spec => []TypeOK
<1>1. IInv => TypeOK
  BY DEF IInv
<1>. QED  BY <1>1, Invariance, PTL

(* _run: whichever attempt of whichever operation fails where, the          *)
(* connection goes back once, without a transaction and without locks.      *)
THEOREM PoolStaysClean == Spec => []PoolClean
<1>1. IInv => PoolClean
  BY DEF IInv
<1>. QED  BY <1>1, Invariance, PTL

(* put_many and delete_many in dedup mode: no update of a ref_count is lost, *)
(* for any number of threads, batches, blobs, retries and lost commits.     *)
THEOREM RefCountsExact == Spec => []RefCountExact
<1>1. IInv => RefCountExact
  BY DEF IInv
<1>. QED  BY <1>1, Invariance, PTL

(* get_stream: what ends without an error is the whole image, whatever      *)
(* deletes, tierings and reconnections come between two chunks.             *)
THEOREM StreamsDeliverWhole == Spec => []StreamsWhole
<1>1. IInv => StreamsWhole
  BY DEF IInv, CallInv, Streaming, StreamsWhole, At
<1>. QED  BY <1>1, Invariance, PTL

(* close(): a call takes at most one connection afterwards, the one it was  *)
(* about to ask for.                                                        *)
THEOREM CloseStopsCalls == Spec => []CloseStops
<1>1. IInv => CloseStops
  BY DEF IInv, CallInv, Shape, CloseStops
<1>. QED  BY <1>1, Invariance, PTL

(* tier_to_object_storage: a row that points at an object has it in the     *)
(* bucket, although a reconnection may lose the lock during the upload.     *)
THEOREM TieredBytesSafe == Spec => []BytesSafe
<1>1. IInv => BytesSafe
  BY DEF IInv
<1>. QED  BY <1>1, Invariance, PTL
=============================================================================
