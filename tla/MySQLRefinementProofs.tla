------------------------ MODULE MySQLRefinementProofs ------------------------
(***************************************************************************)
(* The MySQL backend implements the image store in both modes: under the   *)
(* mapping of MySQLStore (Images, OpenCalls) every step is a step of       *)
(* ImageStore or changes nothing there.  The inductive invariant of        *)
(* MySQLStoreProofs makes a commit a whole Put or Delete, and a tiering,   *)
(* the removal of an object and a ref_count no step at all.                *)
(***************************************************************************)
EXTENDS MySQLStoreProofs

(* A reader finds the image of every row: its blob or its object is there. *)
Shown == [i \in Ids |-> IF rows[i] # "none" THEN given[i] ELSE NoSum]

(* What the tables store is what the abstract store shows. *)
LEMMA ImagesShown == IInv => Images = Shown
<1> SUFFICES ASSUME IInv PROVE Images = Shown
  OBVIOUS
<1>1. TypeOK /\ RefCountExact /\ Drawn /\ BytesSafe
  BY DEF IInv
<1>2. ASSUME NEW i \in Ids PROVE Images[i] = Shown[i]
  <2>1. CASE rows[i] = "none"
    BY <2>1 DEF Images, Shown
  <2>2. CASE rows[i] = "object_storage"
    BY <1>1, <2>2 DEF Images, Shown, BytesSafe
  <2>3. CASE rows[i] = "mysql"
    <3>1. ASSUME mode = "dedup" PROVE blobs[given[i]] > 0
      <4>1. given[i] \in Sums /\ given[i] \in SumsOf(Stored(Ids)) /\ Stored(Ids) \in SUBSET Ids
        BY <1>1, <2>3 DEF Drawn, TypeOK, SumsOf, Stored
      <4>2. Count(Stored(Ids), given[i]) # 0 /\ blobs[given[i]] = Count(Stored(Ids), given[i])
        BY <1>1, <3>1, <4>1, CountZero DEF RefCountExact
      <4>. QED  BY <1>1, <4>1, <4>2 DEF TypeOK
    <3>. QED  BY <2>3, <3>1 DEF Images, Shown
  <2>. QED  BY <1>1, <2>1, <2>2, <2>3 DEF TypeOK, Backend
<1>. QED  BY <1>2 DEF Images, Shown

(* The same in the next state. *)
LEMMA ImagesShownNext == IInv' => (Images = Shown)'
  BY ImagesShown, PTL

(* A call that the image store sees: a batch that has not ended.            *)
IsOpen(c) == c.op \in {"put_many", "delete_many"} /\ c.pc \in {"check", "connect"} \cup Connected

(* What a step of one call changes of the calls that the image store sees.  *)
LEMMA OpenCallsStep ==
  ASSUME TypeOK, NEW p \in Procs, NEW r, tx' = [tx EXCEPT ![p] = r],
         \A q \in Procs : q # p => \A i \in tx[q].ids : given'[i] = given[i]
  PROVE  /\ OpenCalls' = [OpenCalls EXCEPT ![p] = OpenCalls'[p]]
         /\ ~IsOpen(r) => OpenCalls'[p] = Abstract!Closed
         /\ /\ IsOpen(r) /\ IsOpen(tx[p]) /\ given' = given
            /\ r.op = tx[p].op /\ r.ids = tx[p].ids
            => OpenCalls' = OpenCalls
<1>1. tx'[p] = r /\ \A q \in Procs : q # p => tx'[q] = tx[q]
  BY DEF TypeOK
<1>2. ASSUME NEW q \in Procs, q # p PROVE OpenCalls'[q] = OpenCalls[q]
  <2>1. ASSUME NEW s PROVE Count(tx[q].ids, s)' = Count(tx[q].ids, s)
    <3>1. {i \in tx'[q].ids : given'[i] = s} = {i \in tx[q].ids : given[i] = s}
      BY <1>1, <1>2
    <3>. QED  BY <3>1, Zenon DEF Count
  <2>. QED  BY <1>1, <1>2, <2>1 DEF OpenCalls
<1>3. OpenCalls' = [q \in Procs |-> OpenCalls'[q]] /\ OpenCalls = [q \in Procs |-> OpenCalls[q]]
  BY DEF OpenCalls
<1>4. OpenCalls' = [OpenCalls EXCEPT ![p] = OpenCalls'[p]]
  BY <1>2, <1>3
<1>5. ~IsOpen(r) => OpenCalls'[p] = Abstract!Closed
  BY <1>1 DEF OpenCalls, IsOpen, Abstract!Closed
<1>6. /\ IsOpen(r) /\ IsOpen(tx[p]) /\ given' = given
      /\ r.op = tx[p].op /\ r.ids = tx[p].ids
      => OpenCalls'[p] = OpenCalls[p]
  <2> SUFFICES ASSUME IsOpen(r), IsOpen(tx[p]), given' = given, r.op = tx[p].op, r.ids = tx[p].ids
               PROVE  OpenCalls'[p] = OpenCalls[p]
    OBVIOUS
  <2>1. ASSUME NEW s PROVE Count(tx[p].ids, s)' = Count(tx[p].ids, s)
    BY <1>1 DEF Count
  <2>. QED  BY <1>1, <2>1 DEF OpenCalls, IsOpen
<1>. QED
  BY <1>3, <1>4, <1>5, <1>6

(* What a step makes of its call: the same batch, or no open batch.         *)
Kept(c, r) ==
  \/ ~IsOpen(r)
  \/ IsOpen(c) /\ r.op = c.op /\ r.ids = c.ids

(* A step that draws no id leaves its call open there, or closes it. *)
LEMMA KeptMaps ==
  ASSUME TypeOK, NEW p \in Procs, NEW r, tx' = [tx EXCEPT ![p] = r], Kept(tx[p], r), given' = given
  PROVE  Abstract!OpenOrClosed(p)
  BY OpenCallsStep DEF Kept, Abstract!OpenOrClosed

(* A step that inserts and deletes no row. *)
LEMMA QuietMaps ==
  ASSUME IInv, IInv', NEW p \in Procs, NEW r, tx' = [tx EXCEPT ![p] = r], Kept(tx[p], r),
         given' = given, \A i \in Ids : rows'[i] = "none" <=> rows[i] = "none"
  PROVE  [Abstract!Next]_(Abstract!vars)
<1>1. Images' = Images
  <2>1. Images = Shown /\ Images' = Shown'
    BY ImagesShown, ImagesShownNext
  <2>2. Shown' = Shown
    BY DEF Shown
  <2>. QED  BY <2>1, <2>2
<1>2. OpenCalls' = OpenCalls \/ OpenCalls' = [OpenCalls EXCEPT ![p] = Abstract!Closed]
  BY KeptMaps DEF IInv, Abstract!OpenOrClosed
<1>. QED
  BY <1>1, <1>2 DEF Abstract!Next, Abstract!GiveUp, Abstract!vars

(* An attempt that ends, with the call or to be tried again. *)
LEMMA EndingKept ==
  ASSUME TypeOK, NEW p \in Procs, NEW r \in Endings(tx[p]),
         tx[p].op \in {"put_many", "delete_many"} => IsOpen(tx[p]) \/ r = Idle
  PROVE  Kept(tx[p], r)
<1>1. tx[p] \in Call
  BY DEF TypeOK
<1>2. /\ r.pc \in {"idle", "check", "returned"}
      /\ (r.pc = "idle" => r.op = "get_many") /\ (r.pc = "returned" => r.op = "get_stream")
      /\ (r.op = tx[p].op /\ r.ids = tx[p].ids) \/ r.op = "get_many"
  BY <1>1, EndingShape
<1>. QED
  BY <1>2 DEF Kept, IsOpen, Idle

(* The instance has its own copy of Cardinality. *)
LEMMA SameCardinality ==
  ASSUME NEW S
  PROVE  Abstract!Cardinality(S) = Cardinality(S)
  BY DEF Cardinality, Abstract!Cardinality

(* The commit of a put stores the whole batch, in rows that were not there. *)
LEMMA PutMaps ==
  ASSUME IInv, IInv', NEW p \in Procs, tx[p].pc = "commit", tx[p].op = "put_many", Install(p),
         Abstract!OpenOrClosed(p)
  PROVE  Abstract!Put(p)
<1> DEFINE B == tx[p].ids
           new == [i \in Ids |-> IF i \in B THEN given[i] ELSE NoSum]
<1>1. TypeOK /\ B \in SUBSET Ids /\ Holding(p) /\ Drawn
  BY CallFacts DEF IInv
<1>2. Images = Shown /\ Images' = Shown' /\ given' = given
  BY ImagesShown, ImagesShownNext DEF Install
<1>3. OpenCalls[p].kind = "put" /\ OpenCalls[p].want = [s \in Sums |-> Count(B, s)]
  BY DEF OpenCalls, Connected
<1>4. \A i \in B : rows[i] = "none" /\ rows'[i] = "mysql" /\ given[i] # NoSum
  BY <1>1, CommittedRows DEF Holding, Drawn
<1>5. \A i \in Ids : i \notin B => rows'[i] = rows[i]
  BY CommittedRows
<1>6. new \in [Ids -> Sums \cup {NoSum}]
  BY <1>1 DEF TypeOK
<1>7. \A i \in Ids : new[i] # NoSum => Images[i] = NoSum
  BY <1>2, <1>4 DEF Shown
<1>8. ASSUME NEW s \in Sums
      PROVE  Abstract!Cardinality({i \in Ids : new[i] = s}) = OpenCalls[p].want[s]
  <2>1. s # NoSum
    BY MySQLAssumption
  <2>2. {i \in Ids : new[i] = s} = {i \in B : given[i] = s}
    BY <1>1, <2>1
  <2> HIDE DEF new, B
  <2>3. Cardinality({i \in Ids : new[i] = s}) = Count(B, s)
    BY <2>2, Zenon DEF Count
  <2>. QED  BY <1>3, <2>3, SameCardinality
<1>9. Images' = [i \in Ids |-> IF new[i] # NoSum THEN new[i] ELSE Images[i]]
  BY <1>2, <1>4, <1>5 DEF Shown
<1> HIDE DEF new
<1>. QED  BY <1>3, <1>6, <1>7, <1>8, <1>9 DEF Abstract!Put

(* The commit of a delete removes all images that were named: its rows, and *)
(* those that were not there when it looked are still not there.            *)
LEMMA DeleteMaps ==
  ASSUME IInv, IInv', NEW p \in Procs, tx[p].pc = "commit", tx[p].op = "delete_many", Install(p),
         Abstract!OpenOrClosed(p)
  PROVE  Abstract!Delete(p)
<1>1. Holding(p) /\ tx[p].ids \in SUBSET Ids
  BY CallFacts
<1>2. Images = Shown /\ Images' = Shown' /\ given' = given
  BY ImagesShown, ImagesShownNext DEF Install
<1>3. OpenCalls[p].kind = "delete" /\ OpenCalls[p].ids = tx[p].ids
  BY DEF OpenCalls, Connected
<1>4. \A i \in Ids : IF i \in tx[p].ids THEN rows'[i] = "none" ELSE rows'[i] = rows[i]
  BY <1>1, CommittedRows DEF Holding
<1>5. Images' = [i \in Ids |-> IF i \in tx[p].ids THEN NoSum ELSE Images[i]]
  BY <1>2, <1>4 DEF Shown
<1>. QED  BY <1>3, <1>5 DEF Abstract!Delete

(* A commit, acknowledged or not. *)
LEMMA CommitMaps ==
  ASSUME IInv, IInv', NEW p \in Procs, tx[p].pc = "commit", Install(p),
         NEW r, tx' = [tx EXCEPT ![p] = r], Kept(tx[p], r)
  PROVE  [Abstract!Next]_(Abstract!vars)
<1>1. TypeOK /\ Shape(p) /\ given' = given
  BY CallFacts DEF Install
<1>2. Abstract!OpenOrClosed(p)
  BY <1>1, KeptMaps
<1>3. CASE tx[p].op = "tier_to_object_storage"
  <2>1. \A i \in Ids : rows'[i] = "none" <=> rows[i] = "none"
    BY <1>3, CommittedRows
  <2>. QED  BY <1>1, <2>1, QuietMaps
<1>. QED
  BY <1>1, <1>2, <1>3, PutMaps, DeleteMaps DEF Shape, Abstract!Next

(* The beginning of a batch opens it; its ids have no image yet. *)
LEMMA BeginMaps ==
  ASSUME IInv, IInv', NEW p \in Procs, BeginCall(p)
  PROVE  [Abstract!Next]_(Abstract!vars)
<1>1. TypeOK /\ TypeOK' /\ Drawn /\ tx[p].pc = "idle" /\ tx[p].op = "get_many" /\ rows' = rows
      /\ tx' = [tx EXCEPT ![p] = tx'[p]] /\ tx'[p] \in Call
  <2>1. tx[p].pc = "idle" /\ rows' = rows /\ \E r : tx' = [tx EXCEPT ![p] = r]
    BY DEF BeginCall, BeginPut, BeginDelete, BeginTier, BeginRead, Begin, Goes, tables
  <2>2. TypeOK /\ TypeOK' /\ Drawn /\ Shape(p)
    BY CallFacts DEF IInv
  <2>. QED  BY <2>1, <2>2 DEF TypeOK, Shape
<1>2. PICK r \in Call : tx'[p] = r
  BY <1>1
<1>3. \A i \in Ids : rows[i] # "none" \/ (\E q \in Procs : q # p /\ i \in tx[q].ids) => given'[i] = given[i]
  <2>1. CASE BeginPut(p)
    <3>1. PICK S \in BatchOf(Fresh) : \A i \in Ids : i \notin S => given'[i] = given[i]
      BY <2>1 DEF BeginPut
    <3>2. S \subseteq Fresh
      BY <3>1, BatchNotEmpty DEF Fresh
    <3>. QED  BY <1>1, <3>1, <3>2 DEF Fresh, Drawn
  <2>2. CASE ~BeginPut(p)
    BY <2>2 DEF BeginCall, BeginDelete, BeginTier, BeginRead
  <2>. QED  BY <2>1, <2>2
<1>4. Images' = Images
  <2>1. Images = Shown /\ Images' = Shown'
    BY ImagesShown, ImagesShownNext
  <2>2. Shown' = Shown
    BY <1>1, <1>3 DEF Shown
  <2>. QED  BY <2>1, <2>2
<1>5. \A q \in Procs : q # p => \A i \in tx[q].ids : given'[i] = given[i]
  BY <1>3, CallFacts
<1>6. /\ OpenCalls' = [OpenCalls EXCEPT ![p] = OpenCalls'[p]]
      /\ ~IsOpen(r) => OpenCalls'[p] = Abstract!Closed
  BY <1>1, <1>2, <1>5, OpenCallsStep
<1>7. OpenCalls[p].kind = "none"
  BY <1>1 DEF OpenCalls
<1>8. CASE IsOpen(r)
  <2>1. OpenCalls'[p] \in Abstract!OpenCall /\ OpenCalls'[p].kind # "none"
    <3>1. ASSUME NEW s \in Sums PROVE Count(tx[p].ids, s)' \in Nat
      <4>1. {i \in tx'[p].ids : given'[i] = s} \in SUBSET Ids
        BY <1>2 DEF Call
      <4>2. Cardinality({i \in tx'[p].ids : given'[i] = s}) \in Nat
        BY <4>1, MySQLAssumption, FS_Subset, FS_CardinalityType
      <4>. QED  BY <4>2 DEF Count
    <3>. QED  BY <1>2, <1>8, <3>1 DEF OpenCalls, IsOpen, Abstract!OpenCall, Call
  <2>. QED  BY <1>4, <1>6, <1>7, <2>1 DEF Abstract!Next, Abstract!Open
<1>9. CASE ~IsOpen(r)
  BY <1>4, <1>6, <1>9 DEF Abstract!Next, Abstract!GiveUp
<1>. QED  BY <1>8, <1>9

(* A step of a call that goes on with the same batch, or ends: everything   *)
(* but the commits.                                                         *)
LEMMA CallStepMaps ==
  ASSUME IInv, IInv', NEW p \in Procs, UNCHANGED <<rows, given>>, NEW r, tx' = [tx EXCEPT ![p] = r],
         \/ r.op = tx[p].op /\ r.ids = tx[p].ids /\ (IsOpen(tx[p]) \/ ~IsOpen(r))
         \/ r \in Endings(tx[p]) /\ (tx[p].op \in {"put_many", "delete_many"} => IsOpen(tx[p]) \/ r = Idle)
  PROVE  [Abstract!Next]_(Abstract!vars)
<1>1. Kept(tx[p], r)
  BY EndingKept DEF Kept, IInv
<1>. QED  BY <1>1, QuietMaps

(* Taking a connection, or failing to. *)
LEMMA PoolMaps ==
  ASSUME IInv, IInv', NEW p \in Procs,
         Check(p) \/ Connect(p) \/ ConnectFails(p) \/ Fail(p) \/ Abort(p) \/ Return(p) \/ Disconnect(p)
  PROVE  [Abstract!Next]_(Abstract!vars)
<1>1. TypeOK /\ tx[p] \in Call /\ Shape(p)
  BY CallFacts
<1>2. CASE \E r \in Endings(tx[p]) : Goes(p, r) /\ UNCHANGED <<rows, given>>
           /\ (tx[p].op \in {"put_many", "delete_many"} => IsOpen(tx[p]))
  BY <1>2, CallStepMaps DEF Goes
<1>3. CASE ConnectFails(p) \/ Fail(p) \/ Abort(p) \/ Return(p) \/ (Check(p) /\ closed)
  <2>1. tx[p].op \in {"put_many", "delete_many"} => IsOpen(tx[p])
    BY <1>1, <1>3 DEF ConnectFails, Fail, Abort, Return, Check, IsOpen, Shape, Connected
  <2>2. \E r \in Endings(tx[p]) : Goes(p, r) /\ UNCHANGED <<rows, given>>
    BY <1>3 DEF ConnectFails, Fail, Abort, Return, Check, Endings, tables
  <2>. QED  BY <1>2, <2>1, <2>2
<1>4. CASE Check(p) /\ ~closed
  <2> DEFINE r == [tx[p] EXCEPT !.pc = "connect"]
  <2>1. tx' = [tx EXCEPT ![p] = r] /\ UNCHANGED <<rows, given>> /\ tx[p].pc = "check"
    BY <1>4 DEF Check, Goes, tables
  <2>2. r.op = tx[p].op /\ r.ids = tx[p].ids /\ (IsOpen(tx[p]) \/ ~IsOpen(r))
    BY <1>1, <2>1 DEF IsOpen, Call
  <2> HIDE DEF r
  <2>. QED  BY <2>1, <2>2, CallStepMaps
<1>5. CASE Connect(p)
  <2> DEFINE r == [tx[p] EXCEPT !.pc = "work", !.late = IF closed THEN @ + 1 ELSE @]
  <2>1. tx' = [tx EXCEPT ![p] = r] /\ UNCHANGED <<rows, given>> /\ tx[p].pc = "connect"
    BY <1>5 DEF Connect, Goes, tables
  <2>2. r.op = tx[p].op /\ r.ids = tx[p].ids /\ (IsOpen(tx[p]) \/ ~IsOpen(r))
    BY <1>1, <2>1 DEF IsOpen, Call
  <2> HIDE DEF r
  <2>. QED  BY <2>1, <2>2, CallStepMaps
<1>6. CASE Disconnect(p)
  <2> DEFINE r == [tx[p] EXCEPT !.alive = FALSE]
  <2>1. tx' = [tx EXCEPT ![p] = r] /\ UNCHANGED <<rows, given>> /\ tx[p].pc = "upload"
    BY <1>6 DEF Disconnect, Goes, tables
  <2>2. r.op = tx[p].op /\ r.ids = tx[p].ids /\ (IsOpen(tx[p]) \/ ~IsOpen(r))
    BY <1>1, <2>1 DEF IsOpen, Call, Connected
  <2> HIDE DEF r
  <2>. QED  BY <2>1, <2>2, CallStepMaps
<1>. QED  BY <1>3, <1>4, <1>5, <1>6

(* The statements of a batch before its commit, and the removal of objects  *)
(* after it.                                                                *)
LEMMA BatchMaps ==
  ASSUME IInv, IInv', NEW p \in Procs,
         \/ Insert(p) \/ SortBlobs(p) \/ UpsertBlob(p) \/ DeleteRows(p) \/ DecrementBlob(p)
         \/ \E i \in Ids : RemoveObject(p, i)
  PROVE  [Abstract!Next]_(Abstract!vars)
<1>1. TypeOK /\ tx[p] \in Call /\ Shape(p)
  BY CallFacts
<1>2. ASSUME NEW r, tx' = [tx EXCEPT ![p] = r], UNCHANGED <<rows, given>>,
             r.op = tx[p].op, r.ids = tx[p].ids, IsOpen(tx[p])
      PROVE  [Abstract!Next]_(Abstract!vars)
  BY <1>2, CallStepMaps
<1>3. CASE Insert(p)
  <2> DEFINE r == [tx[p] EXCEPT !.pc = "commit", !.wrote = tx[p].ids]
  <2>1. tx' = [tx EXCEPT ![p] = r] /\ UNCHANGED <<rows, given>> /\ IsOpen(tx[p])
    BY <1>3 DEF Insert, At, Goes, tables, IsOpen, Connected
  <2>2. r.op = tx[p].op /\ r.ids = tx[p].ids
    BY <1>1 DEF Call
  <2> HIDE DEF r
  <2>. QED  BY <1>2, <2>1, <2>2
<1>4. CASE SortBlobs(p)
  <2> DEFINE r == [tx[p] EXCEPT !.pc = "blobs", !.sums = SumsOf(tx[p].ids)]
  <2>1. tx' = [tx EXCEPT ![p] = r] /\ UNCHANGED <<rows, given>> /\ IsOpen(tx[p])
    BY <1>4 DEF SortBlobs, At, Goes, tables, IsOpen, Connected
  <2>2. r.op = tx[p].op /\ r.ids = tx[p].ids
    BY <1>1 DEF Call
  <2> HIDE DEF r
  <2>. QED  BY <1>2, <2>1, <2>2
<1>5. CASE UpsertBlob(p)
  <2> DEFINE s == Min(tx[p].sums)
             r == [tx[p] EXCEPT !.counts[s] = Seen(p, s) + Count(tx[p].ids, s),
                                !.sums = @ \ {s}, !.pc = Next1(tx[p], s, "refs")]
  <2>1. tx' = [tx EXCEPT ![p] = r] /\ UNCHANGED <<rows, given>> /\ IsOpen(tx[p])
    BY <1>5 DEF UpsertBlob, At, Goes, tables, IsOpen, Connected
  <2>2. r.op = tx[p].op /\ r.ids = tx[p].ids
    BY <1>1 DEF Call
  <2> HIDE DEF r
  <2>. QED  BY <1>2, <2>1, <2>2
<1>6. CASE DeleteRows(p)
  <2> DEFINE found == Stored(tx[p].ids)
             r == [tx[p] EXCEPT !.wrote = found, !.todo = Tiered(found),
                      !.sums = IF mode = "dedup" THEN SumsOf(found) ELSE {},
                      !.pc = IF mode = "dedup" /\ found # {} THEN "blobs" ELSE "commit"]
  <2>1. tx' = [tx EXCEPT ![p] = r] /\ UNCHANGED <<rows, given>> /\ IsOpen(tx[p])
    BY <1>6 DEF DeleteRows, At, Goes, tables, IsOpen, Connected
  <2>2. r.op = tx[p].op /\ r.ids = tx[p].ids
    BY <1>1 DEF Call
  <2> HIDE DEF r
  <2>. QED  BY <1>2, <2>1, <2>2
<1>7. CASE DecrementBlob(p)
  <2> DEFINE s == Min(tx[p].sums)
             r == [tx[p] EXCEPT !.counts[s] = Max({0, Seen(p, s) - Count(tx[p].wrote, s)}),
                                !.sums = @ \ {s}, !.pc = Next1(tx[p], s, "commit")]
  <2>1. tx' = [tx EXCEPT ![p] = r] /\ UNCHANGED <<rows, given>> /\ IsOpen(tx[p])
    BY <1>7 DEF DecrementBlob, At, Goes, tables, IsOpen, Connected
  <2>2. r.op = tx[p].op /\ r.ids = tx[p].ids
    BY <1>1 DEF Call
  <2> HIDE DEF r
  <2>. QED  BY <1>2, <2>1, <2>2
<1>8. ASSUME NEW i \in Ids, RemoveObject(p, i)
      PROVE  [Abstract!Next]_(Abstract!vars)
  <2> DEFINE r == [tx[p] EXCEPT !.todo = @ \ {i}]
  <2>1. UNCHANGED <<rows, given>> /\ tx[p].pc = "cleanup"
        /\ (tx' = [tx EXCEPT ![p] = r] \/ tx' = [tx EXCEPT ![p] = Idle])
    BY <1>8 DEF RemoveObject, Goes, tables
  <2>2. r.op = tx[p].op /\ r.ids = tx[p].ids /\ ~IsOpen(r)
    BY <1>1, <2>1 DEF Call, IsOpen, Connected
  <2>3. Idle \in Endings(tx[p])
    BY DEF Endings
  <2> HIDE DEF r
  <2>. QED  BY <2>1, <2>2, <2>3, CallStepMaps
<1>. QED  BY <1>3, <1>4, <1>5, <1>6, <1>7, <1>8

(* A tiering before its commit, and the reads: no batch is open. *)
LEMMA OtherMaps ==
  ASSUME IInv, IInv', NEW p \in Procs,
         SelectForTiering(p) \/ Upload(p) \/ UploadFails(p) \/ Update(p) \/ Read(p)
  PROVE  [Abstract!Next]_(Abstract!vars)
<1>1. TypeOK /\ tx[p] \in Call /\ Shape(p)
  BY CallFacts
<1>2. ASSUME NEW r, tx' = [tx EXCEPT ![p] = r], UNCHANGED <<rows, given>>,
             r.op \notin {"put_many", "delete_many"}
      PROVE  [Abstract!Next]_(Abstract!vars)
  <2>1. Kept(tx[p], r)
    BY <1>2 DEF Kept, IsOpen
  <2>. QED  BY <1>2, <2>1, QuietMaps
<1>3. tx[p].op \notin {"put_many", "delete_many"}
  BY <1>1 DEF Shape, SelectForTiering, Upload, UploadFails, Update, Read, Select, StreamInfo, ReadChunk,
     ReadObject, Fetch, At
<1>4. ASSUME NEW r \in Endings(tx[p]) PROVE r.op \notin {"put_many", "delete_many"}
  BY <1>1, <1>3, EndingShape
<1>5. CASE SelectForTiering(p) \/ Upload(p) \/ Update(p)
  <2>1. UNCHANGED <<rows, given>>
    BY <1>5 DEF SelectForTiering, Upload, Update, tables
  <2>2. CASE \E pc : tx' = [tx EXCEPT ![p] = [tx[p] EXCEPT !.pc = pc]]
    <3>1. PICK pc : tx' = [tx EXCEPT ![p] = [tx[p] EXCEPT !.pc = pc]]
      BY <2>2
    <3> DEFINE r == [tx[p] EXCEPT !.pc = pc]
    <3>2. r.op = tx[p].op /\ tx' = [tx EXCEPT ![p] = r]
      BY <1>1, <3>1 DEF Call
    <3> HIDE DEF r
    <3>. QED  BY <1>2, <1>3, <2>1, <3>2
  <2>3. CASE Update(p)
    <3> DEFINE r == [tx[p] EXCEPT !.pc = "commit", !.wrote = tx[p].ids]
    <3>1. r.op = tx[p].op /\ tx' = [tx EXCEPT ![p] = r]
      BY <1>1, <2>3 DEF Call, Update, Goes
    <3> HIDE DEF r
    <3>. QED  BY <1>2, <1>3, <2>1, <3>1
  <2>. QED  BY <1>5, <2>2, <2>3 DEF SelectForTiering, Upload, Goes
<1>6. CASE UploadFails(p)
  <2>1. UNCHANGED <<rows, given>> /\ \E r \in Endings(tx[p]) : tx' = [tx EXCEPT ![p] = r]
    BY <1>6 DEF UploadFails, Goes, tables, Endings
  <2>. QED  BY <1>2, <1>4, <2>1
<1>7. CASE Read(p)
  <2>1. UNCHANGED <<rows, given>>
    BY <1>7 DEF Read, Select, StreamInfo, ReadChunk, ReadObject, Fetch, Reads, tables
  <2>2. CASE \E r \in Endings(tx[p]) : tx' = [tx EXCEPT ![p] = r]
    BY <1>2, <1>4, <2>1, <2>2
  <2>3. CASE \E pc, T : tx' = [tx EXCEPT ![p] = [tx[p] EXCEPT !.pc = pc, !.todo = T]]
    <3>1. PICK pc, T : tx' = [tx EXCEPT ![p] = [tx[p] EXCEPT !.pc = pc, !.todo = T]]
      BY <2>3
    <3> DEFINE r == [tx[p] EXCEPT !.pc = pc, !.todo = T]
    <3>2. r.op = tx[p].op /\ tx' = [tx EXCEPT ![p] = r]
      BY <1>1, <3>1 DEF Call
    <3> HIDE DEF r
    <3>. QED  BY <1>2, <1>3, <2>1, <3>2
  <2>4. CASE \E n, pc : tx' = [tx EXCEPT ![p] = [tx[p] EXCEPT !.left = n, !.attempt = 0, !.pc = pc]]
    <3>1. PICK n, pc : tx' = [tx EXCEPT ![p] = [tx[p] EXCEPT !.left = n, !.attempt = 0, !.pc = pc]]
      BY <2>4
    <3> DEFINE r == [tx[p] EXCEPT !.left = n, !.attempt = 0, !.pc = pc]
    <3>2. r.op = tx[p].op /\ tx' = [tx EXCEPT ![p] = r]
      BY <1>1, <3>1 DEF Call
    <3> HIDE DEF r
    <3>. QED  BY <1>2, <1>3, <2>1, <3>2
  <2>5. CASE /\ tx[p].op = "get_stream" /\ tx[p].left > 0 /\ tx[p].pc \in {"work", "object"}
             /\ Stored(tx[p].ids) # {} \/ tx[p].ids \subseteq objects
             /\ \E pc \in {"check", "object"} :
                  tx' = [tx EXCEPT ![p] = Delivered(tx[p], SumsOf(tx[p].ids), pc)]
    <3>1. PICK pc \in {"check", "object"} :
            tx' = [tx EXCEPT ![p] = Delivered(tx[p], SumsOf(tx[p].ids), pc)]
      BY <2>5
    <3> DEFINE r == Delivered(tx[p], SumsOf(tx[p].ids), pc)
    <3>2. SumsOf(tx[p].ids) \in SUBSET Sums /\ tx[p].got \subseteq SumsOf(tx[p].ids)
      BY <2>5, ContentOfStream
    <3>3. tx[p].sums = {} /\ tx[p].wrote = {} /\ tx[p].alive /\ tx[p].result = "none"
          /\ \A s \in Sums : tx[p].counts[s] = -1
      BY <2>5, QuietCall DEF Writing, Streaming
    <3>4. r.op = tx[p].op
      BY <1>1, <2>5, <3>2, <3>3, DeliveredShape
    <3>5. tx' = [tx EXCEPT ![p] = r]
      BY <3>1
    <3> HIDE DEF r
    <3>. QED  BY <1>2, <1>3, <2>1, <3>4, <3>5
  <2>6. CASE Select(p)
    BY <2>2, <2>3, <2>6 DEF Select, Reads, Goes, Endings
  <2>7. CASE \E i \in Ids : Fetch(p, i)
    <3>1. PICK i \in Ids : Fetch(p, i)
      BY <2>7
    <3>2. [tx[p] EXCEPT !.todo = @ \ {i}] =
            [tx[p] EXCEPT !.pc = tx[p].pc, !.todo = tx[p].todo \ {i}]
      BY <1>1 DEF Call
    <3>. QED  BY <2>2, <2>3, <3>1, <3>2 DEF Fetch, Goes, Endings
  <2>8. CASE StreamInfo(p)
    BY <2>2, <2>4, <2>8 DEF StreamInfo, Reads, Goes, Endings
  <2>9. CASE ReadChunk(p)
    BY <2>2, <2>5, <2>9 DEF ReadChunk, Reads, Goes, Endings, At
  <2>10. CASE ReadObject(p)
    BY <1>1, <2>2, <2>5, <2>10 DEF ReadObject, Goes, Endings, Shape
  <2>. QED  BY <1>7, <2>6, <2>7, <2>8, <2>9, <2>10 DEF Read
<1>. QED  BY <1>5, <1>6, <1>7

(* Every step of the backend is a step of the abstract store, or none. *)
LEMMA StepMaps ==
  ASSUME IInv, IInv', [Next]_vars
  PROVE  [Abstract!Next]_(Abstract!vars)
<1>1. ASSUME UNCHANGED <<mode, rows, blobs, objects, given, tx>>
      PROVE  [Abstract!Next]_(Abstract!vars)
  BY <1>1 DEF Abstract!vars, Images, OpenCalls, Count
<1>2. ASSUME NEW p \in Procs, Commit(p) \/ CommitLost(p)
      PROVE  [Abstract!Next]_(Abstract!vars)
  <2>1. TypeOK /\ tx[p] \in Call /\ tx[p].pc = "commit" /\ Install(p)
    BY <1>2, CallFacts DEF Commit, CommitLost
  <2>2. IsOpen(tx[p]) \/ tx[p].op \notin {"put_many", "delete_many"}
    BY <2>1 DEF IsOpen, Connected
  <2>3. CASE \E r \in Endings(tx[p]) : tx' = [tx EXCEPT ![p] = r]
    BY <2>1, <2>2, <2>3, EndingKept, CommitMaps
  <2>4. CASE tx' = [tx EXCEPT ![p] = [tx[p] EXCEPT !.pc = "cleanup", !.wrote = {}, !.counts = Unwritten]]
    <3> DEFINE r == [tx[p] EXCEPT !.pc = "cleanup", !.wrote = {}, !.counts = Unwritten]
    <3>1. r.pc = "cleanup" /\ tx' = [tx EXCEPT ![p] = r]
      BY <2>1, <2>4 DEF Call
    <3> HIDE DEF r
    <3>2. Kept(tx[p], r)
      BY <3>1 DEF Kept, IsOpen, Connected
    <3>. QED  BY <2>1, <3>1, <3>2, CommitMaps
  <2>. QED  BY <1>2, <2>3, <2>4 DEF Commit, CommitLost, Goes, Endings
<1>3. ASSUME NEW p \in Procs, Step(p)
      PROVE  [Abstract!Next]_(Abstract!vars)
  BY <1>2, <1>3, PoolMaps, BatchMaps, OtherMaps DEF Step, Write
<1>4. ASSUME NEW p \in Procs, BeginCall(p) \/ Disconnect(p)
      PROVE  [Abstract!Next]_(Abstract!vars)
  BY <1>4, BeginMaps, PoolMaps
<1>5. CASE Close \/ UNCHANGED vars
  BY <1>1, <1>5 DEF Close, vars, tables
<1>. QED  BY <1>3, <1>4, <1>5 DEF Next

(* The empty tables are the empty image store. *)
LEMMA InitMaps ==
  ASSUME Init
  PROVE  Abstract!Init
<1>1. Images = [i \in Ids |-> NoSum]
  BY DEF Init, Images
<1>2. OpenCalls = [p \in Procs |-> Abstract!Closed]
  BY DEF Init, Idle, OpenCalls, Abstract!Closed
<1>. QED
  BY <1>1, <1>2 DEF Abstract!Init

(* The backend implements the image store (Refinement in MySQLStore): with  *)
(* any number of threads, batches are whole whatever fails and is retried,  *)
(* and neither a tiering nor a reconnection loses an image.                 *)
THEOREM Implements == Spec => Refinement
<1>1. Init => Abstract!Init
  BY InitMaps
<1>2. IInv /\ IInv' /\ [Next]_vars => [Abstract!Next]_(Abstract!vars)
  BY StepMaps
<1>. QED
  BY <1>1, <1>2, Invariance, PTL DEF Spec, Refinement, Abstract!Spec

(* An id answers with the bytes it was given for as long as its image       *)
(* exists, whether they are in MySQL or in the bucket.                      *)
THEOREM ContentsImmutable == Spec => Abstract!ContentImmutable
<1>1. [Abstract!Next]_(Abstract!vars)
        => [\A i \in Ids : Images[i] # NoSum => Images'[i] \in {Images[i], NoSum}]_Images
  <2> SUFFICES ASSUME Abstract!Next
               PROVE  Images' = Images \/ \A i \in Ids : Images[i] # NoSum => Images'[i] \in {Images[i], NoSum}
    BY DEF Abstract!vars
  <2>1. PICK p \in Procs : Abstract!Open(p) \/ Abstract!Put(p) \/ Abstract!Delete(p) \/ Abstract!GiveUp(p)
    BY DEF Abstract!Next
  <2>2. CASE Abstract!Open(p) \/ Abstract!GiveUp(p)
    BY <2>2 DEF Abstract!Open, Abstract!GiveUp
  <2>3. CASE Abstract!Put(p)
    <3>1. PICK new \in [Ids -> Sums \cup {NoSum}] :
            /\ \A i \in Ids : new[i] # NoSum => Images[i] = NoSum
            /\ Images' = [i \in Ids |-> IF new[i] # NoSum THEN new[i] ELSE Images[i]]
      BY <2>3 DEF Abstract!Put
    <3>. QED  BY <3>1
  <2>4. CASE Abstract!Delete(p)
    <3>1. Images' = [i \in Ids |-> IF i \in OpenCalls[p].ids THEN NoSum ELSE Images[i]]
      BY <2>4 DEF Abstract!Delete
    <3>. QED  BY <3>1
  <2>. QED  BY <2>1, <2>2, <2>3, <2>4
<1>. QED
  BY <1>1, Implements, PTL DEF Refinement, Abstract!Spec, Abstract!ContentImmutable
=============================================================================
