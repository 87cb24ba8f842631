-------------------------- MODULE SQLiteSystemProofs --------------------------
(***************************************************************************)
(* Why the database file of SQLite and the bucket beside it stay right,    *)
(* for any number of clients and tasks, any images and contents, any       *)
(* batches, retries and chunks, in classic and in dedup mode: an inductive *)
(* invariant of SQLiteSystem.  Its parts: an id is drawn for one put, so a *)
(* row that was deleted never comes back (Settled, Gone); what the holder  *)
(* of the writer lock has drafted is still a change of the committed       *)
(* tables (Drafted); an object has a row, or is excused, or its upload is  *)
(* the writer's (Bucketed); and the answer of a call is what the call has  *)
(* changed (Answered).  Every statement of an asynchronous task is one of  *)
(* SQLiteBackend's, so most steps are proved once for both.                *)
(***************************************************************************)
EXTENDS SQLiteSystem, FiniteSetTheorems, WellFoundedInduction, TLAPS

View == [rows : [Ids -> Row], blobs : [Sums -> Blob]]

(* A put that has drawn its ids and not yet committed or given up. *)
Pending(r) == r.op = "put_many" /\ r.pc \in {"ready", "migrate", "work", "commit"}

(* The put that drew id i is over: no row i will ever be inserted.          *)
Settled(i) ==
  /\ given[i] # NoSum
  /\ \A q \in Procs : Pending(tx[q]) => i \notin tx[q].ids

Gone(i) == Settled(i) /\ ~Stored(db, i)

Types == TypeOK /\ db \in View /\ draft \in View

AsyncTyped == readyLock \in AsyncProcs \cup {NoProc} /\ ready \in BOOLEAN

RowsGiven ==
  \A i \in Ids :
    /\ Stored(db, i) => Settled(i) /\ db.rows[i].sum = given[i]
    /\ ~Stored(db, i) => db.rows[i] = NoRow

(* No two rows that a stream may open have one rowid. *)
Numbered(view) ==
  IF mode = "dedup"
  THEN \A s, t \in Sums : Exists(view, s) /\ view.blobs[s].rowid = view.blobs[t].rowid => s = t
  ELSE \A i, j \in Ids : Stored(view, i) /\ Stored(view, j)
                         /\ view.rows[i].rowid = view.rows[j].rowid => i = j

RowsOf(view, s) == {i \in Ids : view.rows[i].sum = s}

Counted(view) ==
  mode = "dedup" =>
    \A s \in Sums : /\ view.blobs[s].count = Cardinality(RowsOf(view, s))
                    /\ Exists(view, s) <=> view.blobs[s].count > 0

DrawnOnce ==
  /\ \A p \in Procs : Pending(tx[p]) => \A i \in tx[p].ids : given[i] = tx[p].new[i]
  /\ \A p, q \in Procs : p # q /\ Pending(tx[p]) /\ Pending(tx[q])
                           => tx[p].ids \cap tx[q].ids = {}

Tier == "tier_to_object_storage"

Uploaded(r, i) == r.op = Tier /\ r.pc = "commit" /\ r.ids = {i}

Bucketed ==
  /\ \A i \in objects \cup excused : Settled(i)
  /\ NoLostBytes
  /\ \A i \in objects : Stored(db, i) => \/ Tiered(db, i) \/ i \in excused
                                         \/ \E p \in Procs : Uploaded(tx[p], i)

(* The writer lock is held from the first write to the commit. *)
Holding(r) == r.pc \in {"upload", "commit"}

Locked == \A p \in Procs : writer = p <=> Holding(tx[p])

(* What the writer has drafted. *)
Drafted(r) ==
  /\ r.op = "put_many" /\ Holding(r) => draft \in PutDrafts(r.new)
  /\ r.op = "delete_many" /\ Holding(r) =>
       draft = DeleteDraft(r.ids) /\ r.todo = {i \in r.ids : Tiered(db, i)}
  /\ r.op = Tier /\ Holding(r) =>
       \A i \in r.ids : /\ db.rows[i].backend = "sqlite"
                        /\ r.pc = "upload" => draft = db
                        /\ r.pc = "commit" => draft = MarkTiered(db, i) /\ i \in objects

(* What a delete has removed stays removed. *)
Removed(r) ==
  r.op = "delete_many" =>
    /\ \A i \in r.applied : Gone(i)
    /\ r.pc = "cleanup" => r.todo \subseteq r.applied /\ r.applied \cap objects \subseteq excused \cup r.todo
    /\ r.pc = "returned" /\ r.own /\ r.result = "ids" => r.applied \cap objects \subseteq excused

(* Which contents a stream has delivered. *)
Streamed(p, r) ==
  r.op = "get_stream" =>
    /\ p \in AsyncProcs => r.got \subseteq {given[i] : i \in r.ids} /\ ~r.begun
    /\ r.begun /\ r.pc = "chunks" => r.pinned = {given[i] : i \in r.ids} /\ r.got \subseteq r.pinned
    /\ r.begun /\ r.pc = "returned" => r.got = {given[i] : i \in r.ids}

(* Which operation has which step, and what a call has before it needs it.  *)
Shaped(r) ==
  /\ r.pc = "upload" => r.op = Tier
  /\ r.pc = "commit" => r.op \in {"put_many", "delete_many", Tier}
  /\ r.pc = "commit" => r.result = (IF r.op = Tier THEN "True" ELSE "ids")
  /\ r.pc = "cleanup" => r.op = "delete_many" /\ r.result = "ids"
  /\ r.pc = "fetch" => r.op = "get_many"
  /\ r.pc \in {"opened", "chunks", "object"} => r.op = "get_stream" /\ r.left > 0
  /\ r.op \in {Tier, "get_stream"} => \E i \in Ids : r.ids = {i}
  /\ Pending(r) => \A i \in Ids : i \in r.ids <=> r.new[i] # NoSum
  /\ r.pc \in {"idle", "ready", "migrate", "work", "upload"} => r.todo = {}
  /\ r.pc = "commit" /\ r.op # "delete_many" => r.todo = {}
  /\ r.pc \notin {"chunks", "object", "returned"} => r.got = {}
  /\ r.begun => r.op = "get_stream" /\ r.pc \in {"chunks", "returned"}

(* The answer of a call is what the call has changed. *)
Answered(r) ==
  /\ r.pc \notin {"cleanup", "returned"} /\ r.op # "get_many" => r.applied = {}
  /\ r.pc = "returned" /\ r.op = "get_stream" /\ r.result = "bytes" => r.left = 0
  /\ r.pc = "returned" /\ r.begun => r.result = "bytes"
  /\ r.pc \in {"cleanup", "returned"} =>
       /\ r.op = "put_many" /\ r.result = "ids" => r.applied = r.ids
       /\ r.op = Tier /\ r.result = "True" => r.applied = r.ids
       /\ r.op # "get_many" /\ r.result \in {"StorageError", "None", "False"} => r.applied = {}

Tabled(r) == r.pc \notin {"idle", "ready", "migrate", "returned"} /\ r.op # "migrate" => schema

Kept(p) ==
  /\ Shaped(tx[p]) /\ Answered(tx[p]) /\ Tabled(tx[p])
  /\ Drafted(tx[p]) /\ Removed(tx[p]) /\ Streamed(p, tx[p])

(* What does not mention the tasks' lazy initialisation. *)
FileInv ==
  /\ Types /\ RowsGiven /\ Numbered(db) /\ Counted(db)
  /\ DrawnOnce /\ Bucketed /\ Locked
  /\ \A p \in Procs : Kept(p)

IInv == FileInv /\ (ready => schema)

-----------------------------------------------------------------------------
(* Rowids *)

(* A finite set of numbers has a largest one. *)
LEMMA Largest ==
  ASSUME NEW W \in SUBSET Nat, IsFiniteSet(W), W # {}
  PROVE  \E m \in W : \A d \in W : d <= m
<1> DEFINE above(c) == {d \in W : c <= d}
           T == {above(c) : c \in W}
           R == StrictSubsetOrdering(W)
<1>1. T \subseteq FiniteSubsetsOf(W) /\ T # {}
  <2>1. \A c \in W : above(c) \in SUBSET W
    OBVIOUS
  <2>2. \A V \in SUBSET W : V \in FiniteSubsetsOf(W)
    BY FS_Subset DEF FiniteSubsetsOf
  <2>. QED  BY <2>1, <2>2
<1>2. PICK x \in T : \A y \in T : <<y, x>> \notin R
  <2>1. IsWellFoundedOn(R, FiniteSubsetsOf(W))
    BY FS_StrictSubsetOrderingWellFounded
  <2> HIDE DEF T, R
  <2>. QED  BY <1>1, <2>1, WFMin
<1>3. PICK m \in W : x = above(m)
  OBVIOUS
<1>4. ASSUME NEW d \in W, ~(d <= m) PROVE FALSE
  <2>1. above(d) \subseteq above(m) /\ above(d) # above(m)
    <3>1. d \in Nat /\ m \in Nat /\ \A e \in W : e \in Nat
      OBVIOUS
    <3>2. m < d
      BY <1>4, <3>1
    <3>3. \A e \in W : d <= e => m <= e
      BY <3>1, <3>2
    <3>4. m \in above(m) /\ m \notin above(d)
      BY <3>1, <3>2
    <3>. QED  BY <3>3, <3>4
  <2>2. above(d) \in SUBSET W /\ above(m) \in SUBSET W /\ above(d) \in T
    OBVIOUS
  <2>3. <<above(d), above(m)>> \in R
    BY <2>1, <2>2 DEF StrictSubsetOrdering
  <2>. QED  BY <1>2, <1>3, <2>2, <2>3
<1>. QED  BY <1>4

(* The values of a function on a finite set are finitely many. *)
LEMMA FiniteRange ==
  ASSUME NEW S, IsFiniteSet(S), NEW f, DOMAIN f = S, f = [x \in S |-> f[x]]
  PROVE  IsFiniteSet({f[x] : x \in S})
<1> DEFINE T == {f[x] : x \in S}
<1>1. f \in Surjection(S, T)
  BY DEF Surjection
<1> HIDE DEF T
<1>2. IsFiniteSet(T)
  BY <1>1, FS_Surjection
<1>. QED  BY <1>2 DEF T

(* A new row gets a rowid that no row has. *)
LEMMA NewRowIds ==
  ASSUME NEW view \in View, NEW S, IsFiniteSet(S), NEW f \in Numberings(view, S)
  PROVE  /\ f \in [S -> Nat]
         /\ \A a \in S : f[a] > 0
         /\ \A a \in S : f[a] \notin RowIds(view)
         /\ \A a, b \in S : f[a] = f[b] => a = b
<1>1. RowIds(view) \in SUBSET Nat /\ IsFiniteSet(RowIds(view))
  <2> DEFINE g == [s \in Sums |-> view.blobs[s].rowid]
             h == [i \in Ids |-> view.rows[i].rowid]
  <2>1. IsFiniteSet({g[s] : s \in Sums}) /\ IsFiniteSet({h[i] : i \in Ids})
    <3>1. DOMAIN g = Sums /\ g = [s \in Sums |-> g[s]]
      OBVIOUS
    <3>2. DOMAIN h = Ids /\ h = [i \in Ids |-> h[i]]
      OBVIOUS
    <3> HIDE DEF g, h
    <3>. QED  BY <3>1, <3>2, SQLiteAssumption, FiniteRange
  <2>2. {g[s] : s \in Sums} = {view.blobs[s].rowid : s \in Sums}
        /\ {h[i] : i \in Ids} = {view.rows[i].rowid : i \in Ids}
    OBVIOUS
  <2>3. /\ {view.blobs[s].rowid : s \in Sums} \subseteq Nat
        /\ {view.rows[i].rowid : i \in Ids} \subseteq Nat
    BY DEF View, Row, Blob
  <2>. QED  BY <2>1, <2>2, <2>3 DEF RowIds
<1> DEFINE W == RowIds(view) \cup {0}
           next == Max(W) + 1
<1>2. W \in SUBSET Nat /\ IsFiniteSet(W) /\ W # {}
  BY <1>1, FS_AddElement
<1>3. Max(W) \in W /\ \A d \in W : d <= Max(W)
  <2> HIDE DEF W
  <2>1. PICK m \in W : \A d \in W : d <= m
    BY <1>2, Largest
  <2>2. \A d \in W : m >= d
    BY <1>2, <2>1
  <2>3. Max(W) \in W /\ \A d \in W : Max(W) >= d
    BY <2>2 DEF Max
  <2>. QED  BY <1>2, <2>3
<1>4. next \in Nat /\ next > 0 /\ \A d \in W : d < next
  BY <1>2, <1>3
<1>5. Cardinality(S) \in Nat
  BY FS_CardinalityType
<1>6. f \in [S -> next .. next + Cardinality(S) - 1] /\ \A a, b \in S : f[a] = f[b] => a = b
  BY DEF Numberings
<1> HIDE DEF next
<1>7. \A a \in S : f[a] \in Nat /\ f[a] >= next
  BY <1>4, <1>5, <1>6
<1>8. \A a \in S : f[a] \notin W /\ f[a] > 0
  <2> HIDE DEF W
  <2>. QED  BY <1>2, <1>4, <1>7
<1>. QED  BY <1>6, <1>7, <1>8

-----------------------------------------------------------------------------
(* The drafts *)

(* An inserted batch: its rows, and no other, with numbers of their own. *)
LEMMA InsertImagesGood ==
  ASSUME mode # "dedup", NEW view \in View, Numbered(view),
         NEW new \in [Ids -> Sums \cup {NoSum}],
         \A i \in Ids : new[i] # NoSum => ~Stored(view, i),
         NEW d \in InsertImages(view, new)
  PROVE  /\ d \in View /\ Numbered(d)
         /\ \A i \in Ids : new[i] = NoSum => d.rows[i] = view.rows[i]
         /\ \A i \in Ids : new[i] # NoSum =>
              d.rows[i].sum = new[i] /\ d.rows[i].backend = "sqlite"
<1> DEFINE S == {i \in Ids : new[i] # NoSum}
<1>1. IsFiniteSet(S)
  BY SQLiteAssumption, FS_Subset
<1>2. PICK f \in Numberings(view, S) :
        d = [view EXCEPT !.rows = [i \in Ids |->
               IF i \in S THEN [sum |-> new[i], rowid |-> f[i], backend |-> "sqlite"]
               ELSE view.rows[i]]]
  BY DEF InsertImages
<1>3. /\ f \in [S -> Nat]
      /\ \A a \in S : f[a] > 0
      /\ \A a \in S : f[a] \notin RowIds(view)
      /\ \A a, b \in S : f[a] = f[b] => a = b
  <2> HIDE DEF S
  <2>. QED  BY <1>1, NewRowIds
<1>4. d.blobs = view.blobs /\ d = [rows |-> d.rows, blobs |-> d.blobs]
      /\ d.rows = [i \in Ids |->
               IF i \in S THEN [sum |-> new[i], rowid |-> f[i], backend |-> "sqlite"]
               ELSE view.rows[i]]
  BY <1>2 DEF View
<1>5. ASSUME NEW i \in Ids
      PROVE  /\ i \in S => /\ d.rows[i].sum = new[i] /\ d.rows[i].rowid = f[i]
                           /\ d.rows[i].backend = "sqlite" /\ d.rows[i] \in Row
             /\ i \notin S => d.rows[i] = view.rows[i] /\ d.rows[i] \in Row
  BY <1>3, <1>4 DEF Row, View, Backend
<1>6. d \in View
  BY <1>4, <1>5 DEF View
<1>7. \A i \in Ids : view.rows[i].rowid \in RowIds(view)
  BY DEF RowIds
<1>8. Numbered(d)
  <2> SUFFICES ASSUME NEW i \in Ids, NEW j \in Ids, Stored(d, i), Stored(d, j),
                      d.rows[i].rowid = d.rows[j].rowid
               PROVE  i = j
    BY DEF Numbered
  <2>1. CASE i \in S /\ j \in S
    BY <1>3, <1>5, <2>1
  <2>2. CASE (i \in S /\ j \notin S) \/ (i \notin S /\ j \in S)
    BY <1>3, <1>5, <1>7, <2>2
  <2>3. CASE i \notin S /\ j \notin S
    BY <1>5, <2>3 DEF Numbered, Stored
  <2>. QED  BY <2>1, <2>2, <2>3
<1>. QED  BY <1>5, <1>6, <1>8

(* The refs of a content are finitely many. *)
LEMMA RowsFinite ==
  ASSUME NEW view, NEW s
  PROVE  IsFiniteSet(RowsOf(view, s)) /\ Cardinality(RowsOf(view, s)) \in Nat
<1>1. RowsOf(view, s) \in SUBSET Ids
  BY DEF RowsOf
<1>. QED  BY <1>1, SQLiteAssumption, FS_Subset, FS_CardinalityType

(* A batch in dedup mode: its refs, a blob for each new content, and every  *)
(* count as many higher as the batch has images of that content.            *)
LEMMA UpsertsGood ==
  ASSUME mode = "dedup", NEW view \in View, Numbered(view), Counted(view),
         NEW new \in [Ids -> Sums \cup {NoSum}],
         \A i \in Ids : new[i] # NoSum => view.rows[i] = NoRow,
         NEW b \in UpsertBlobs(view, new),
         NEW d, d = [rows |-> InsertRefs(view, new), blobs |-> b]
  PROVE  /\ d \in View /\ Numbered(d) /\ Counted(d)
         /\ \A i \in Ids : new[i] = NoSum => d.rows[i] = view.rows[i]
         /\ \A i \in Ids : new[i] # NoSum =>
              d.rows[i].sum = new[i] /\ d.rows[i].backend = "sqlite"
<1> DEFINE S == {s \in Sums : Count(new, s) > 0 /\ ~Exists(view, s)}
           Drawn(s) == {i \in Ids : new[i] = s}
<1>1. PICK f \in Numberings(view, S) :
        b = [s \in Sums |->
               IF Count(new, s) = 0 THEN view.blobs[s]
               ELSE [rowid |-> IF s \in S THEN f[s] ELSE view.blobs[s].rowid,
                     count |-> view.blobs[s].count + Count(new, s)]]
  BY DEF UpsertBlobs
<1>2. /\ f \in [S -> Nat]
      /\ \A a \in S : f[a] > 0
      /\ \A a \in S : f[a] \notin RowIds(view)
      /\ \A x, y \in S : f[x] = f[y] => x = y
  <2>1. IsFiniteSet(S)
    BY SQLiteAssumption, FS_Subset
  <2> HIDE DEF S
  <2>. QED  BY <2>1, NewRowIds
<1>3. /\ d.blobs = b /\ d.rows = InsertRefs(view, new)
  OBVIOUS
<1>4. \A s \in Sums : IsFiniteSet(Drawn(s)) /\ Count(new, s) \in Nat /\ Count(new, s) = Cardinality(Drawn(s))
  <2> SUFFICES ASSUME NEW s \in Sums
               PROVE IsFiniteSet(Drawn(s)) /\ Count(new, s) \in Nat /\ Count(new, s) = Cardinality(Drawn(s))
    OBVIOUS
  <2>1. Drawn(s) \in SUBSET Ids
    OBVIOUS
  <2>. QED  BY <2>1, SQLiteAssumption, FS_Subset, FS_CardinalityType DEF Count
<1>5. ASSUME NEW s \in Sums
      PROVE  /\ Count(new, s) = 0 => b[s] = view.blobs[s]
             /\ Count(new, s) > 0 => b[s].count = view.blobs[s].count + Count(new, s)
             /\ s \in S => b[s].rowid = f[s]
             /\ s \notin S => b[s].rowid = view.blobs[s].rowid
             /\ b[s] \in Blob
             /\ b[s].count = view.blobs[s].count + Count(new, s)
  <2>1. view.blobs[s] \in Blob /\ Count(new, s) \in Nat
    BY <1>4 DEF View
  <2>2. CASE Count(new, s) = 0
    <3>1. b[s] = view.blobs[s] /\ s \notin S
      BY <1>1, <2>2
    <3>. QED  BY <2>1, <2>2, <3>1 DEF Blob
  <2>3. CASE Count(new, s) > 0
    <3>1. b[s] = [rowid |-> IF s \in S THEN f[s] ELSE view.blobs[s].rowid,
                  count |-> view.blobs[s].count + Count(new, s)]
      BY <1>1, <2>1, <2>3
    <3>. QED  BY <1>2, <2>1, <2>3, <3>1 DEF Blob
  <2>. QED  BY <2>1, <2>2, <2>3
<1>6. ASSUME NEW i \in Ids
      PROVE  /\ new[i] # NoSum => d.rows[i].sum = new[i] /\ d.rows[i].backend = "sqlite"
             /\ new[i] = NoSum => d.rows[i] = view.rows[i]
             /\ d.rows[i] \in Row
  BY <1>3 DEF InsertRefs, View, Row, Backend
<1>7. d \in View
  <2>1. d.rows \in [Ids -> Row]
    BY <1>3, <1>6 DEF InsertRefs
  <2>2. d.blobs \in [Sums -> Blob]
    BY <1>1, <1>3, <1>5
  <2>. QED  BY <2>1, <2>2 DEF View
<1>8. \A s \in Sums : view.blobs[s].rowid \in RowIds(view)
  BY DEF RowIds
<1>9. Numbered(d)
  <2> SUFFICES ASSUME NEW s \in Sums, NEW t \in Sums, d.blobs[s].rowid # 0,
                      d.blobs[s].rowid = d.blobs[t].rowid
               PROVE  s = t
    BY DEF Numbered, Exists
  <2>1. CASE s \in S /\ t \in S
    BY <1>2, <1>3, <1>5, <2>1
  <2>2. CASE (s \in S /\ t \notin S) \/ (s \notin S /\ t \in S)
    BY <1>2, <1>3, <1>5, <1>8, <2>2
  <2>3. CASE s \notin S /\ t \notin S
    <3>1. view.blobs[s].rowid # 0 /\ view.blobs[s].rowid = view.blobs[t].rowid
      BY <1>3, <1>5, <2>3
    <3>. QED  BY <3>1 DEF Numbered, Exists
  <2>. QED  BY <2>1, <2>2, <2>3
<1>10. ASSUME NEW s \in Sums PROVE d.blobs[s].count = Cardinality(RowsOf(d, s))
  <2>1. RowsOf(d, s) = RowsOf(view, s) \cup Drawn(s)
    <3>1. s # NoSum
      BY SQLiteAssumption
    <3>2. ASSUME NEW i \in Ids PROVE d.rows[i].sum = s <=> view.rows[i].sum = s \/ new[i] = s
      <4>1. CASE new[i] = NoSum
        BY <1>6, <3>1, <4>1
      <4>2. CASE new[i] # NoSum
        <5>1. view.rows[i].sum = NoSum
          BY <4>2 DEF NoRow
        <5>2. d.rows[i].sum = new[i]
          BY <1>6, <4>2
        <5>. QED  BY <3>1, <5>1, <5>2
      <4>. QED  BY <4>1, <4>2
    <3>. QED  BY <3>2 DEF RowsOf
  <2>2. RowsOf(view, s) \cap Drawn(s) = {}
    BY SQLiteAssumption DEF RowsOf, NoRow
  <2>3. Cardinality(RowsOf(view, s) \cup Drawn(s))
          = Cardinality(RowsOf(view, s)) + Cardinality(Drawn(s)) - Cardinality(RowsOf(view, s) \cap Drawn(s))
    BY <1>4, RowsFinite, FS_Union
  <2>4. Cardinality(RowsOf(view, s) \cap Drawn(s)) = 0
    BY <2>2, FS_EmptySet
  <2>5. view.blobs[s].count = Cardinality(RowsOf(view, s))
    BY DEF Counted
  <2>6. Cardinality(RowsOf(d, s)) = view.blobs[s].count + Count(new, s)
    BY SMTT(30), <1>4, <2>1, <2>3, <2>4, <2>5, RowsFinite
  <2>. QED  BY <1>3, <1>5, <2>6
<1>11. ASSUME NEW s \in Sums PROVE Exists(d, s) <=> d.blobs[s].count > 0
  <2>1. view.blobs[s].count \in Nat /\ (Exists(view, s) <=> view.blobs[s].count > 0)
    BY RowsFinite DEF Counted
  <2>2. Count(new, s) \in Nat /\ b[s].count = view.blobs[s].count + Count(new, s)
    BY <1>4, <1>5
  <2>3. CASE s \in S
    <3>1. Count(new, s) > 0 /\ f[s] > 0
      BY <1>2, <2>3
    <3>2. b[s].rowid # 0 /\ b[s].count > 0
      BY <1>2, <1>5, <2>1, <2>2, <2>3, <3>1
    <3>. QED  BY <1>3, <3>2 DEF Exists
  <2>4. CASE s \notin S
    <3>1. b[s].rowid = view.blobs[s].rowid /\ (Count(new, s) = 0 \/ Exists(view, s))
      BY <1>5, <2>2, <2>4
    <3>2. b[s].rowid # 0 <=> b[s].count > 0
      BY <2>1, <2>2, <3>1 DEF Exists
    <3>. QED  BY <1>3, <3>2 DEF Exists
  <2>. QED  BY <2>3, <2>4
<1>12. Counted(d)
  BY <1>10, <1>11 DEF Counted
<1>13. \A i \in Ids : new[i] = NoSum => d.rows[i] = view.rows[i]
  BY <1>6
<1>14. \A i \in Ids : new[i] # NoSum => d.rows[i].sum = new[i] /\ d.rows[i].backend = "sqlite"
  BY <1>6
<1>. QED  BY <1>7, <1>9, <1>12, <1>13, <1>14, Zenon

(* What a put drafts, in both modes. *)
LEMMA PutDraftGood ==
  ASSUME db \in View, Numbered(db), Counted(db),
         NEW new \in [Ids -> Sums \cup {NoSum}],
         \A i \in Ids : new[i] # NoSum => db.rows[i] = NoRow,
         NEW d \in PutDrafts(new)
  PROVE  /\ d \in View /\ Numbered(d) /\ Counted(d)
         /\ \A i \in Ids : new[i] = NoSum => d.rows[i] = db.rows[i]
         /\ \A i \in Ids : new[i] # NoSum =>
              d.rows[i].sum = new[i] /\ d.rows[i].backend = "sqlite"
<1>1. CASE mode = "dedup"
  <2>1. PICK b \in UpsertBlobs(db, new) : d = [rows |-> InsertRefs(db, new), blobs |-> b]
    BY <1>1 DEF PutDrafts
  <2>. QED  BY <1>1, <2>1, UpsertsGood
<1>2. CASE mode # "dedup"
  <2>1. d \in InsertImages(db, new)
    BY <1>2 DEF PutDrafts
  <2>2. \A i \in Ids : new[i] # NoSum => ~Stored(db, i)
    BY DEF Stored, NoRow
  <2>3. Counted(d)
    BY <1>2 DEF Counted
  <2>. QED  BY <1>2, <2>1, <2>2, <2>3, InsertImagesGood
<1>. QED  BY <1>1, <1>2

(* What a delete drafts: each blob loses its deleted refs, and goes with    *)
(* the last one.                                                            *)
LEMMA DeleteDraftGood ==
  ASSUME db \in View, Numbered(db), Counted(db), NEW S \in SUBSET Ids,
         NEW d, d = DeleteDraft(S)
  PROVE  /\ d \in View /\ Numbered(d) /\ Counted(d)
         /\ \A i \in Ids : d.rows[i] = IF i \in S THEN NoRow ELSE db.rows[i]
<1>1. d.rows = [i \in Ids |-> IF i \in S THEN NoRow ELSE db.rows[i]]
  BY DEF DeleteDraft, RemoveRows
<1>2. NoRow \in Row /\ NoBlob \in Blob
  BY DEF NoRow, NoBlob, Row, Blob, Backend
<1>3. d.rows \in [Ids -> Row]
  BY <1>1, <1>2 DEF View
<1>4. CASE mode = "dedup"
  <2> DEFINE left(s) == db.blobs[s].count - Cardinality({i \in S : db.rows[i].sum = s})
  <2>1. d.blobs = [s \in Sums |-> IF left(s) <= 0 THEN NoBlob ELSE [db.blobs[s] EXCEPT !.count = left(s)]]
    BY <1>4 DEF DeleteDraft, DecrementBlobs
  <2>2. ASSUME NEW s \in Sums
        PROVE  left(s) = Cardinality(RowsOf(d, s)) /\ left(s) \in Nat
    <3>1. RowsOf(d, s) = RowsOf(db, s) \ S
      <4>1. s # NoSum
        BY SQLiteAssumption
      <4>. QED  BY <1>1, <4>1 DEF RowsOf, NoRow
    <3>2. {i \in S : db.rows[i].sum = s} = RowsOf(db, s) \cap S
      BY DEF RowsOf
    <3>3. Cardinality(RowsOf(db, s) \ S) = Cardinality(RowsOf(db, s)) - Cardinality(RowsOf(db, s) \cap S)
      BY RowsFinite, FS_Difference
    <3>4. db.blobs[s].count = Cardinality(RowsOf(db, s))
      BY <1>4 DEF Counted
    <3>5. Cardinality(RowsOf(d, s)) = left(s)
      BY <3>1, <3>2, <3>3, <3>4
    <3>6. Cardinality(RowsOf(d, s)) \in Nat
      BY RowsFinite
    <3>. QED  BY <3>5, <3>6
  <2>3. ASSUME NEW s \in Sums
        PROVE  /\ left(s) = 0 => d.blobs[s] = NoBlob
               /\ left(s) > 0 => d.blobs[s].rowid = db.blobs[s].rowid /\ d.blobs[s].count = left(s)
               /\ d.blobs[s] \in Blob
    <3>1. left(s) \in Nat /\ db.blobs[s] \in Blob
      BY <2>2 DEF View
    <3> HIDE DEF left
    <3>. QED  BY <1>2, <2>1, <3>1 DEF Blob
  <2>4. d \in View
    <3>1. d.blobs \in [Sums -> Blob]
      <4> HIDE DEF left
      <4>. QED  BY <2>1, <2>3
    <3>2. d = [rows |-> d.rows, blobs |-> d.blobs]
      BY DEF DeleteDraft
    <3>. QED  BY <1>3, <3>1, <3>2 DEF View
  <2> HIDE DEF left
  <2>5. Counted(d)
    <3> SUFFICES ASSUME NEW s \in Sums
                 PROVE  d.blobs[s].count = Cardinality(RowsOf(d, s)) /\ (Exists(d, s) <=> d.blobs[s].count > 0)
      BY DEF Counted
    <3>1. CASE left(s) = 0
      BY <2>2, <2>3, <3>1 DEF NoBlob, Exists
    <3>2. CASE left(s) > 0
      <4>1. Exists(db, s)
        <5>1. db.blobs[s].count = Cardinality(RowsOf(db, s)) /\ (Exists(db, s) <=> db.blobs[s].count > 0)
          BY <1>4 DEF Counted
        <5>2. Cardinality({i \in S : db.rows[i].sum = s}) \in Nat
          <6>1. {i \in S : db.rows[i].sum = s} \in SUBSET Ids
            OBVIOUS
          <6>. QED  BY <6>1, SQLiteAssumption, FS_Subset, FS_CardinalityType
        <5>. QED  BY <5>1, <5>2, <3>2, RowsFinite DEF left
      <4>. QED  BY <2>2, <2>3, <3>2, <4>1 DEF Exists
    <3>. QED  BY <2>2, <3>1, <3>2
  <2>6. Numbered(d)
    <3> SUFFICES ASSUME NEW s \in Sums, NEW t \in Sums, d.blobs[s].rowid # 0,
                        d.blobs[s].rowid = d.blobs[t].rowid
                 PROVE  s = t
      BY <1>4 DEF Numbered, Exists
    <3>1. left(s) > 0 /\ left(t) > 0
      BY <2>2, <2>3 DEF NoBlob
    <3>2. db.blobs[s].rowid # 0 /\ db.blobs[s].rowid = db.blobs[t].rowid
      BY <2>3, <3>1
    <3>. QED  BY <1>4, <3>2 DEF Numbered, Exists
  <2>. QED  BY <1>1, <2>4, <2>5, <2>6
<1>5. CASE mode # "dedup"
  <2>1. d.blobs = db.blobs /\ d = [rows |-> d.rows, blobs |-> d.blobs]
    BY <1>5 DEF DeleteDraft
  <2>2. d \in View /\ Counted(d)
    BY <1>3, <1>5, <2>1 DEF View, Counted
  <2>3. Numbered(d)
    BY <1>1, <1>5 DEF Numbered, Stored, NoRow
  <2>. QED  BY <1>1, <2>2, <2>3
<1>. QED  BY <1>4, <1>5

(* What a tiering drafts: the row points at its object. *)
LEMMA TierDraftGood ==
  ASSUME db \in View, Numbered(db), Counted(db), NEW i \in Ids, Stored(db, i),
         NEW d, d = MarkTiered(db, i)
  PROVE  /\ d \in View /\ Numbered(d) /\ Counted(d)
         /\ \A j \in Ids : d.rows[j].sum = db.rows[j].sum /\ d.rows[j].rowid = db.rows[j].rowid
         /\ \A j \in Ids : j # i => d.rows[j] = db.rows[j]
         /\ d.rows[i].backend = "object_storage"
<1>1. d.blobs = db.blobs /\ d.rows = [db.rows EXCEPT ![i].backend = "object_storage"]
      /\ d = [rows |-> d.rows, blobs |-> d.blobs]
  BY DEF MarkTiered, View
<1>2. ASSUME NEW j \in Ids
      PROVE  /\ d.rows[j].sum = db.rows[j].sum /\ d.rows[j].rowid = db.rows[j].rowid
             /\ j # i => d.rows[j] = db.rows[j]
             /\ j = i => d.rows[j].backend = "object_storage"
             /\ d.rows[j] \in Row
  BY <1>1 DEF View, Row, Backend
<1>3. d \in View
  BY <1>1, <1>2 DEF View
<1>4. \A s \in Sums : RowsOf(d, s) = RowsOf(db, s)
  BY <1>2 DEF RowsOf
<1>5. Counted(d)
  BY <1>1, <1>4 DEF Counted, Exists
<1>6. \A j \in Ids : Stored(d, j) <=> Stored(db, j)
  BY <1>2 DEF Stored
<1>7. Numbered(d)
  BY <1>1, <1>2, <1>6 DEF Numbered, Exists
<1>. QED  BY <1>2, <1>3, <1>5, <1>7

-----------------------------------------------------------------------------
(* What a step leaves alone *)

(* An id that is settled stays so, for new draws are of fresh ids. *)
LEMMA SettledStays ==
  ASSUME Types, NEW p \in Procs, NEW r, tx' = [tx EXCEPT ![p] = r],
         \A i \in Ids : given[i] # NoSum => given'[i] = given[i],
         Pending(r) => \A i \in r.ids : ~Settled(i)
  PROVE  \A i \in Ids : Settled(i) => Settled(i)'
<1> SUFFICES ASSUME NEW i \in Ids, Settled(i), NEW q \in Procs, Pending(tx'[q]), i \in tx'[q].ids
             PROVE  FALSE
  BY DEF Settled, Pending
<1>1. tx'[q] = IF q = p THEN r ELSE tx[q]
  BY DEF Types, TypeOK
<1>. QED  BY <1>1 DEF Settled

(* The part of the invariant that is about a call survives the steps of the *)
(* others.                                                                  *)
LEMMA KeptStays ==
  ASSUME FileInv, NEW q \in Procs, tx'[q] = tx[q], mode' = mode, schema => schema',
         \A i \in Ids : Gone(i) => Gone(i)' /\ (i \in objects' => i \in objects \/ i \in excused'),
         \A i \in Ids : given[i] # NoSum => given'[i] = given[i],
         excused \subseteq excused',
         Holding(tx[q]) => /\ db' = db /\ draft' = draft
                           /\ \A i \in Ids : Stored(db, i) /\ i \in objects => i \in objects'
  PROVE  Kept(q)'
<1> DEFINE r == tx[q]
<1>1. Kept(q) /\ r \in Call
  BY DEF FileInv, Types, TypeOK
<1>2. Shaped(tx[q])' /\ Answered(tx[q])'
  BY <1>1 DEF Kept, Shaped, Answered, Pending
<1>3. Tabled(tx[q])'
  BY <1>1 DEF Kept, Tabled
<1>4. Drafted(tx[q])'
  <2>1. CASE ~Holding(r)
    BY <2>1 DEF Drafted, Holding
  <2>2. CASE Holding(r)
    <3>1. PutDrafts(r.new)' = PutDrafts(r.new) /\ DeleteDraft(r.ids)' = DeleteDraft(r.ids)
      BY <2>2 DEF PutDrafts, DeleteDraft, InsertImages, Numberings, RowIds, UpsertBlobs,
                  InsertRefs, RemoveRows, DecrementBlobs, Exists, Count
    <3>2. \A i \in r.ids : db.rows[i].backend = "sqlite" => Stored(db, i)
      BY DEF Stored
    <3>3. r.ids \subseteq Ids
      BY <1>1 DEF Call
    <3>4. /\ Drafted(r) /\ db' = db /\ draft' = draft
          /\ \A i \in Ids : Stored(db, i) /\ i \in objects => i \in objects'
      BY <1>1, <2>2 DEF Kept
    <3> HIDE DEF r
    <3>5. r.op = "put_many" => draft' \in PutDrafts(r.new)
      BY <2>2, <3>4 DEF Drafted
    <3>6. r.op = "delete_many" => draft' = DeleteDraft(r.ids) /\ r.todo = {i \in r.ids : Tiered(db', i)}
      BY <2>2, <3>4 DEF Drafted
    <3>7. r.op = Tier =>
            \A i \in r.ids : /\ db'.rows[i].backend = "sqlite"
                             /\ r.pc = "upload" => draft' = db'
                             /\ r.pc = "commit" => draft' = MarkTiered(db', i) /\ i \in objects'
      BY <2>2, <3>2, <3>3, <3>4 DEF Drafted
    <3>8. tx'[q] = r
      BY DEF r
    <3>9. PutDrafts(tx[q].new)' = PutDrafts(r.new) /\ DeleteDraft(tx[q].ids)' = DeleteDraft(r.ids)
      BY <3>1, <3>8 DEF r
    <3>. QED  BY <3>5, <3>6, <3>7, <3>8, <3>9 DEF Drafted
  <2>. QED  BY <2>1, <2>2
<1>5. Removed(tx[q])'
  <2>1. r.applied \subseteq Ids
    BY <1>1 DEF Call
  <2>2. Removed(r)
    BY <1>1 DEF Kept
  <2> HIDE DEF r
  <2>3. tx'[q] = r
    BY DEF r
  <2>4. r.op = "delete_many" => \A i \in r.applied : Gone(i)'
    BY <2>1, <2>2 DEF Removed
  <2>5. r.op = "delete_many" /\ r.pc = "cleanup" =>
          r.todo \subseteq r.applied /\ r.applied \cap objects' \subseteq excused' \cup r.todo
    BY <2>1, <2>2 DEF Removed
  <2>6. r.op = "delete_many" /\ r.pc = "returned" /\ r.own /\ r.result = "ids"
          => r.applied \cap objects' \subseteq excused'
    BY <2>1, <2>2 DEF Removed
  <2>. QED  BY <2>3, <2>4, <2>5, <2>6 DEF Removed
<1>6. Streamed(q, tx[q])'
  <2>1. r.ids \subseteq Ids /\ r.got \subseteq Sums /\ r.pinned \subseteq Sums
    BY <1>1 DEF Call
  <2>2. Streamed(q, r)
    BY <1>1 DEF Kept
  <2>3. NoSum \notin Sums
    BY SQLiteAssumption
  <2> HIDE DEF r
  <2>4. tx'[q] = r
    BY DEF r
  <2> DEFINE G == {given[i] : i \in r.ids}
             H == {given'[i] : i \in r.ids}
  <2>5. r.got \subseteq G => r.got \subseteq H
    BY <2>1, <2>3
  <2>6. ASSUME NEW S \in SUBSET Sums, S = G
        PROVE  S = H
    <3>1. \A i \in r.ids : given[i] \in Sums
      BY <2>6
    <3>2. \A i \in r.ids : given'[i] = given[i]
      BY <2>1, <2>3, <3>1
    <3>. QED  BY <2>6, <3>2
  <2>7. r.op = "get_stream" =>
          /\ q \in AsyncProcs => r.got \subseteq G /\ ~r.begun
          /\ r.begun /\ r.pc = "chunks" => r.pinned = G /\ r.got \subseteq r.pinned
          /\ r.begun /\ r.pc = "returned" => r.got = G
    BY <2>2 DEF Streamed
  <2> HIDE DEF G, H
  <2>8. (r.pinned = G => r.pinned = H) /\ (r.got = G => r.got = H)
    BY <2>1, <2>6
  <2>9. r.op = "get_stream" =>
          /\ q \in AsyncProcs => r.got \subseteq H /\ ~r.begun
          /\ r.begun /\ r.pc = "chunks" => r.pinned = H /\ r.got \subseteq r.pinned
          /\ r.begun /\ r.pc = "returned" => r.got = H
    BY <2>5, <2>7, <2>8
  <2>. QED  BY <2>4, <2>9 DEF Streamed, H
<1>. QED  BY <1>2, <1>3, <1>4, <1>5, <1>6 DEF Kept

(* A call that goes on with the ids it has drawn, or has drawn none. *)
LEMMA DrawnStays ==
  ASSUME FileInv, NEW p \in Procs, NEW r, tx' = [tx EXCEPT ![p] = r], given' = given,
         Pending(r) => Pending(tx[p]) /\ r.ids = tx[p].ids /\ r.new = tx[p].new
  PROVE  DrawnOnce' /\ \A i \in Ids : Settled(i) => Settled(i)'
<1>1. \A q \in Procs : tx'[q] = IF q = p THEN r ELSE tx[q]
  BY DEF FileInv, Types, TypeOK
<1>2. \A q \in Procs : Pending(tx'[q]) =>
        Pending(tx[q]) /\ tx'[q].ids = tx[q].ids /\ tx'[q].new = tx[q].new
  BY <1>1
<1>3. DrawnOnce'
  <2>1. ASSUME NEW q \in Procs, Pending(tx'[q]) PROVE \A i \in tx'[q].ids : given'[i] = tx'[q].new[i]
    BY <1>2, <2>1 DEF FileInv, DrawnOnce
  <2>2. ASSUME NEW q \in Procs, NEW s \in Procs, q # s, Pending(tx'[q]), Pending(tx'[s])
        PROVE  tx'[q].ids \cap tx'[s].ids = {}
    BY <1>2, <2>2 DEF FileInv, DrawnOnce
  <2>. QED  BY <2>1, <2>2 DEF DrawnOnce, Pending
<1>4. Pending(r) => \A i \in r.ids : ~Settled(i)
  BY DEF Settled
<1>. QED  BY <1>3, <1>4, SettledStays DEF FileInv

-----------------------------------------------------------------------------
(* Steps that write neither to the file nor to the bucket *)

(* A step that changes one call, and draws ids or creates tables at most.  *)
LEMMA QuietKeeps ==
  ASSUME FileInv, NEW p \in Procs, NEW r \in Call, tx' = [tx EXCEPT ![p] = r],
         UNCHANGED <<mode, db, writer, draft, objects, excused>>,
         schema' \in BOOLEAN, schema => schema',
         given' \in [Ids -> Sums \cup {NoSum}],
         \A i \in Ids : given[i] # NoSum => given'[i] = given[i],
         \A i \in Ids : Settled(i) => Settled(i)',
         DrawnOnce', ~Holding(tx[p]), ~Holding(r),
         AsyncTyped',
         Shaped(r), Answered(r), Removed(r), Streamed(p, r),
         r.pc \notin {"idle", "ready", "migrate", "returned"} /\ r.op # "migrate" => schema'
  PROVE  FileInv'
<1>1. \A q \in Procs : tx'[q] = IF q = p THEN r ELSE tx[q]
  BY DEF FileInv, Types, TypeOK
<1>2. Types'
  <2>1. tx' \in [Procs -> Call]
    BY DEF FileInv, Types, TypeOK
  <2>. QED  BY <2>1 DEF FileInv, Types, TypeOK, AsyncTyped
<1>3. \A i \in Ids : (Stored(db, i)' <=> Stored(db, i)) /\ (Tiered(db, i)' <=> Tiered(db, i))
  BY DEF Stored, Tiered
<1>4. \A i \in Ids : Gone(i) => Gone(i)'
  BY <1>3 DEF Gone
<1>5. RowsGiven'
  BY <1>3 DEF FileInv, RowsGiven, Settled
<1>6. Numbered(db)' /\ Counted(db)'
  BY DEF FileInv, Numbered, Counted, Stored, Exists, RowsOf
<1>7. \A i \in Ids, q \in Procs : Uploaded(tx[q], i) => Uploaded(tx'[q], i)
  BY <1>1 DEF Uploaded, Holding
<1>8. Bucketed'
  <2>1. objects \cup excused \subseteq Ids
    BY DEF FileInv, Types, TypeOK
  <2>2. \A i \in objects' \cup excused' : Settled(i)'
    BY <2>1 DEF FileInv, Bucketed
  <2>3. NoLostBytes'
    BY <1>3 DEF FileInv, Bucketed, NoLostBytes
  <2>4. ASSUME NEW i \in objects', Stored(db, i)'
        PROVE  Tiered(db, i)' \/ i \in excused' \/ \E q \in Procs : Uploaded(tx'[q], i)
    BY <1>3, <1>7, <2>1, <2>4 DEF FileInv, Bucketed
  <2>. QED  BY <2>2, <2>3, <2>4 DEF Bucketed, Uploaded
<1>9. Locked'
  <2>1. ASSUME NEW q \in Procs PROVE writer' = q <=> Holding(tx'[q])
    BY <1>1 DEF FileInv, Locked
  <2>. QED  BY <2>1 DEF Locked, Holding
<1>10. ASSUME NEW q \in Procs, q # p PROVE Kept(q)'
  <2>1. tx'[q] = tx[q]
    BY <1>1, <1>10
  <2>. QED  BY <1>4, <2>1, KeptStays
<1>11. Kept(p)'
  <2>1. tx'[p] = r
    BY <1>1
  <2>2. Shaped(tx[p])' /\ Answered(tx[p])' /\ Tabled(tx[p])' /\ Drafted(tx[p])'
    BY <2>1 DEF Shaped, Answered, Tabled, Drafted, Pending, Holding
  <2>3. Removed(tx[p])'
    <3>1. r.applied \subseteq Ids
      BY DEF Call
    <3>. QED  BY <1>4, <2>1, <3>1 DEF Removed
  <2>4. Streamed(p, tx[p])'
    <3> DEFINE G == {given[i] : i \in r.ids}
               H == {given'[i] : i \in r.ids}
    <3>1. r.ids \subseteq Ids /\ r.got \subseteq Sums /\ r.pinned \subseteq Sums /\ NoSum \notin Sums
      BY SQLiteAssumption DEF Call
    <3>2. r.got \subseteq G => r.got \subseteq H
      BY <3>1
    <3>3. ASSUME NEW S \in SUBSET Sums, S = G
          PROVE  S = H
      <4>1. \A i \in r.ids : given[i] \in Sums
        BY <3>3
      <4>2. \A i \in r.ids : given'[i] = given[i]
        BY <3>1, <4>1
      <4>. QED  BY <3>3, <4>2
    <3>4. r.op = "get_stream" =>
            /\ p \in AsyncProcs => r.got \subseteq G /\ ~r.begun
            /\ r.begun /\ r.pc = "chunks" => r.pinned = G /\ r.got \subseteq r.pinned
            /\ r.begun /\ r.pc = "returned" => r.got = G
      BY DEF Streamed
    <3> HIDE DEF G, H
    <3>5. (r.pinned = G => r.pinned = H) /\ (r.got = G => r.got = H)
      BY <3>1, <3>3
    <3>6. r.op = "get_stream" =>
            /\ p \in AsyncProcs => r.got \subseteq H /\ ~r.begun
            /\ r.begun /\ r.pc = "chunks" => r.pinned = H /\ r.got \subseteq r.pinned
            /\ r.begun /\ r.pc = "returned" => r.got = H
      BY <3>2, <3>4, <3>5
    <3>. QED  BY <2>1, <3>6 DEF Streamed, H
  <2>. QED  BY <2>2, <2>3, <2>4 DEF Kept
<1>12. \A q \in Procs : Kept(q)'
  BY <1>10, <1>11
<1>. QED  BY <1>2, <1>5, <1>6, <1>8, <1>9, <1>12 DEF FileInv

(* The same, where no id is drawn either. *)
LEMMA LocalKeeps ==
  ASSUME FileInv, NEW p \in Procs, NEW r \in Call, tx' = [tx EXCEPT ![p] = r],
         UNCHANGED <<mode, db, writer, draft, objects, excused, given>>,
         schema' \in BOOLEAN, schema => schema',
         ~Holding(tx[p]), ~Holding(r),
         AsyncTyped',
         Pending(r) => Pending(tx[p]) /\ r.ids = tx[p].ids /\ r.new = tx[p].new,
         Shaped(r), Answered(r), Removed(r), Streamed(p, r),
         r.pc \notin {"idle", "ready", "migrate", "returned"} /\ r.op # "migrate" => schema'
  PROVE  FileInv'
<1>1. DrawnOnce' /\ \A i \in Ids : Settled(i) => Settled(i)'
  BY DrawnStays
<1>2. given' \in [Ids -> Sums \cup {NoSum}]
  BY DEF FileInv, Types, TypeOK
<1>. QED  BY <1>1, <1>2, QuietKeeps

-----------------------------------------------------------------------------
(* The calls that local steps make *)

(* What a client without a call has. *)
LEMMA IdleType ==
  /\ Idle \in Call /\ Idle.pc = "idle" /\ Idle.op = "get_many" /\ Idle.todo = {} /\ Idle.got = {}
  /\ ~Idle.begun /\ Idle.applied = {} /\ Idle.own
<1>1. [i \in Ids |-> NoSum] \in [Ids -> Sums \cup {NoSum}]
  OBVIOUS
<1>. QED  BY <1>1 DEF Idle, Call, Ops

Results == {"ids", "True", "False", "None", "bytes", "StorageError", "MigrationFailed", "Cancelled"}

(* A finished call keeps what it is about and what it has done. *)
LEMMA FinishType ==
  ASSUME NEW c \in Call, NEW result \in Results
  PROVE  /\ Finish(c, result) \in Call
         /\ Finish(c, result).pc = "returned" /\ Finish(c, result).op = c.op
         /\ Finish(c, result).own = c.own /\ Finish(c, result).ids = c.ids
         /\ Finish(c, result).todo = {} /\ Finish(c, result).left = c.left
         /\ Finish(c, result).got = c.got /\ Finish(c, result).begun = c.begun
         /\ Finish(c, result).applied = c.applied /\ Finish(c, result).result = result
<1>1. Idle \in Call /\ Idle.todo = {}
  BY IdleType
<1>. QED  BY <1>1 DEF Finish, Call, Results

(* What the invariant says of one call. *)
LEMMA CallOf ==
  ASSUME FileInv, NEW p \in Procs
  PROVE  /\ tx[p] \in Call /\ Shaped(tx[p]) /\ Answered(tx[p]) /\ Tabled(tx[p])
         /\ Drafted(tx[p]) /\ Removed(tx[p]) /\ Streamed(p, tx[p])
         /\ writer = p <=> Holding(tx[p])
         /\ p # NoProc
BY SQLiteAssumption DEF FileInv, Types, TypeOK, Kept, Locked

(* A call other than a put begins. *)
LEMMA BeginKeeps ==
  ASSUME FileInv, NEW p \in Procs, tx[p].pc = "idle", NEW r \in Call,
         r.pc \in {"ready", "work"}, r.op # "put_many",
         r.op \in {Tier, "get_stream"} => \E i \in Ids : r.ids = {i},
         r.todo = {}, r.got = {}, ~r.begun, r.applied = {},
         r.pc = "work" => schema \/ r.op = "migrate",
         tx' = [tx EXCEPT ![p] = r], AsyncTyped',
         UNCHANGED <<mode, schema, db, writer, draft, objects, excused, given>>
  PROVE  FileInv'
<1>1. Shaped(r) /\ Answered(r) /\ Removed(r)
  BY DEF Shaped, Answered, Removed, Pending
<1>2. Streamed(p, r)
  BY DEF Streamed
<1>3. schema' \in BOOLEAN /\ (schema => schema')
  BY DEF FileInv, Types, TypeOK
<1>4. ~Holding(tx[p]) /\ ~Holding(r) /\ ~Pending(r)
  BY DEF Holding, Pending
<1>. QED  BY <1>1, <1>2, <1>3, <1>4, LocalKeeps

(* A put begins: it draws its ids. *)
LEMMA BeginPutKeeps ==
  ASSUME FileInv, NEW p \in Procs, tx[p].pc = "idle", NEW r \in Call,
         r.pc \in {"ready", "work"}, r.op = "put_many",
         r.todo = {}, r.got = {}, ~r.begun, r.applied = {},
         \A i \in Ids : i \in r.ids <=> r.new[i] # NoSum,
         \A i \in r.ids : given[i] = NoSum,
         r.pc = "work" => schema,
         tx' = [tx EXCEPT ![p] = r], AsyncTyped',
         given' = [i \in Ids |-> IF i \in r.ids THEN r.new[i] ELSE given[i]],
         UNCHANGED <<mode, schema, db, writer, draft, objects, excused>>
  PROVE  FileInv'
<1>1. Shaped(r) /\ Answered(r) /\ Removed(r)
  BY DEF Shaped, Answered, Removed, Pending, Tier
<1>2. Streamed(p, r)
  BY DEF Streamed
<1>3. schema' \in BOOLEAN /\ (schema => schema') /\ given \in [Ids -> Sums \cup {NoSum}]
      /\ tx \in [Procs -> Call]
  BY DEF FileInv, Types, TypeOK
<1>4. ~Holding(tx[p]) /\ ~Holding(r)
  BY DEF Holding
<1>5. given' \in [Ids -> Sums \cup {NoSum}]
  BY <1>3 DEF Call
<1>6. \A i \in Ids : given[i] # NoSum => given'[i] = given[i]
  BY <1>3
<1>7. \A i \in r.ids : ~Settled(i)
  BY DEF Settled
<1>8. \A i \in Ids : Settled(i) => Settled(i)'
  BY <1>6, <1>7, SettledStays DEF FileInv
<1>9. DrawnOnce'
  <2>1. \A q \in Procs : tx'[q] = IF q = p THEN r ELSE tx[q]
    BY <1>3
  <2>2. r.ids \subseteq Ids /\ \A i \in r.ids : given'[i] = r.new[i]
    BY DEF Call
  <2>3. ASSUME NEW q \in Procs, q # p, Pending(tx[q])
        PROVE  /\ \A i \in tx[q].ids : given[i] = tx[q].new[i] /\ given[i] # NoSum
               /\ tx[q].ids \subseteq Ids /\ r.ids \cap tx[q].ids = {}
    <3>1. tx[q].ids \subseteq Ids /\ \A i \in Ids : i \in tx[q].ids <=> tx[q].new[i] # NoSum
      BY <1>3, <2>3, CallOf DEF Shaped, Call
    <3>2. \A i \in tx[q].ids : given[i] = tx[q].new[i]
      BY <2>3 DEF FileInv, DrawnOnce
    <3>. QED  BY <3>1, <3>2
  <2>4. ASSUME NEW q \in Procs, Pending(tx'[q]) PROVE \A i \in tx'[q].ids : given'[i] = tx'[q].new[i]
    <3>1. CASE q = p
      BY <2>1, <2>2, <3>1
    <3>2. CASE q # p
      <4>1. tx'[q] = tx[q]
        BY <2>1, <3>2
      <4>. QED  BY <1>6, <2>3, <2>4, <3>2, <4>1
    <3>. QED  BY <3>1, <3>2
  <2>5. ASSUME NEW q \in Procs, NEW s \in Procs, q # s, Pending(tx'[q]), Pending(tx'[s])
        PROVE  tx'[q].ids \cap tx'[s].ids = {}
    <3>1. CASE q = p \/ s = p
      BY <2>1, <2>3, <2>5, <3>1
    <3>2. CASE q # p /\ s # p
      BY <2>1, <2>5, <3>2 DEF FileInv, DrawnOnce
    <3>. QED  BY <3>1, <3>2
  <2>. QED  BY <2>4, <2>5 DEF DrawnOnce, Pending
<1>. QED  BY <1>1, <1>2, <1>3, <1>4, <1>5, <1>6, <1>8, <1>9, QuietKeeps

(* A call that waits, is retried or goes on to its work. *)
LEMMA MoveKeeps ==
  ASSUME FileInv, NEW p \in Procs, tx[p].pc \in {"ready", "migrate", "work"},
         NEW c \in {"ready", "migrate", "work"}, NEW n \in Nat,
         tx' = [tx EXCEPT ![p] = [tx[p] EXCEPT !.pc = c, !.attempt = n]],
         c = "work" /\ tx[p].op # "migrate" => schema',
         schema' \in BOOLEAN, schema => schema', AsyncTyped',
         UNCHANGED <<mode, db, writer, draft, objects, excused, given>>
  PROVE  FileInv'
<1> DEFINE r == [tx[p] EXCEPT !.pc = c, !.attempt = n]
<1>1. /\ r \in Call /\ r.pc = c /\ r.op = tx[p].op /\ r.ids = tx[p].ids /\ r.new = tx[p].new
      /\ r.todo = tx[p].todo /\ r.got = tx[p].got /\ r.begun = tx[p].begun /\ r.applied = tx[p].applied
  BY ZenonT(60), CallOf DEF Call
<1> HIDE DEF r
<1>2. Shaped(r)
  BY <1>1, CallOf DEF Shaped, Pending
<1>3. Answered(r)
  BY <1>1, CallOf DEF Answered
<1>4. Removed(r)
  BY <1>1, CallOf DEF Removed
<1>5. Streamed(p, r)
  BY <1>1, CallOf DEF Streamed
<1>6. Pending(r) => Pending(tx[p])
  BY <1>1 DEF Pending
<1>7. ~Holding(tx[p]) /\ ~Holding(r)
  BY <1>1 DEF Holding
<1>8. tx' = [tx EXCEPT ![p] = r]
  BY DEF r
<1>9. r.pc \notin {"idle", "ready", "migrate", "returned"} /\ r.op # "migrate" => schema'
  BY <1>1
<1>. QED  BY <1>1, <1>2, <1>3, <1>4, <1>5, <1>6, <1>7, <1>8, <1>9, LocalKeeps

(* A call ends without an effect. *)
LEMMA EndKeeps ==
  ASSUME FileInv, NEW p \in Procs, tx[p].pc \notin {"idle", "returned", "cleanup", "upload", "commit"},
         ~tx[p].begun, NEW result \in {"None", "False", "StorageError", "MigrationFailed"},
         tx' = [tx EXCEPT ![p] = Finish(tx[p], result)],
         schema' \in BOOLEAN, schema => schema', AsyncTyped',
         UNCHANGED <<mode, db, writer, draft, objects, excused, given>>
  PROVE  FileInv'
<1> DEFINE r == Finish(tx[p], result)
<1>1. /\ r \in Call /\ r.pc = "returned" /\ r.op = tx[p].op /\ r.ids = tx[p].ids
      /\ r.todo = {} /\ r.got = tx[p].got /\ ~r.begun /\ r.applied = tx[p].applied
      /\ r.result = result
  BY CallOf, FinishType DEF Results
<1> HIDE DEF r
<1>2. Shaped(r)
  BY <1>1, CallOf DEF Shaped, Pending
<1>3. Answered(r)
  BY <1>1, CallOf DEF Answered, Tier
<1>4. Removed(r)
  BY <1>1, CallOf DEF Removed, Answered
<1>5. Streamed(p, r)
  BY <1>1, CallOf DEF Streamed
<1>6. ~Pending(r) /\ ~Holding(tx[p]) /\ ~Holding(r)
  BY <1>1 DEF Holding, Pending
<1>7. tx' = [tx EXCEPT ![p] = r]
  BY DEF r
<1>8. r.pc \notin {"idle", "ready", "migrate", "returned"} /\ r.op # "migrate" => schema'
  BY <1>1
<1>. QED  BY <1>1, <1>2, <1>3, <1>4, <1>5, <1>6, <1>7, <1>8, LocalKeeps

(* The client takes the answer. *)
LEMMA ReturnKeeps ==
  ASSUME FileInv, NEW p \in Procs, Return(p), AsyncTyped'
  PROVE  FileInv'
<1>1. /\ tx[p].pc = "returned" /\ tx' = [tx EXCEPT ![p] = Idle]
      /\ UNCHANGED <<mode, schema, db, writer, draft, objects, excused, given>>
  BY DEF Return, fileVars, bucketVars
<1>2. Shaped(Idle) /\ Answered(Idle) /\ Removed(Idle) /\ Streamed(p, Idle)
      /\ ~Pending(Idle) /\ ~Holding(Idle)
  BY IdleType DEF Shaped, Answered, Removed, Streamed, Pending, Holding, Tier
<1>3. schema' \in BOOLEAN /\ (schema => schema') /\ ~Holding(tx[p])
  BY <1>1 DEF FileInv, Types, TypeOK, Holding
<1>. QED  BY <1>1, <1>2, <1>3, IdleType, LocalKeeps

-----------------------------------------------------------------------------
(* Beginning, and making the tables *)

(* A client of SQLiteBackend calls. *)
LEMMA BeginSyncKeeps ==
  ASSUME FileInv, NEW p \in Procs, SyncBegin(p), AsyncTyped'
  PROVE  FileInv'
<1> USE DEF Begin, fileVars, bucketVars
<1>1. Idle \in Call /\ Idle.todo = {} /\ Idle.got = {} /\ ~Idle.begun /\ Idle.applied = {}
  BY IdleType
<1>2. ASSUME BeginMigrate(p) PROVE FileInv'
  <2> DEFINE r == [[Idle EXCEPT !.op = "migrate"] EXCEPT !.pc = "work"]
  <2>1. tx' = [tx EXCEPT ![p] = r] /\ tx[p].pc = "idle"
        /\ UNCHANGED <<mode, schema, db, writer, draft, objects, excused, given>>
    BY <1>2 DEF BeginMigrate
  <2>2. r \in Call /\ r.pc = "work" /\ r.op = "migrate" /\ r.todo = {} /\ r.got = {} /\ ~r.begun
        /\ r.applied = {}
    BY <1>1 DEF Call, Ops
  <2> HIDE DEF r
  <2>. QED  BY <2>1, <2>2, BeginKeeps DEF Tier
<1>3. ASSUME BeginPut(p) PROVE FileInv'
  <2>0. PICK call \in PutCalls, own \in BOOLEAN :
          /\ Begin(p, [call EXCEPT !.own = own])
          /\ given' = [i \in Ids |-> IF i \in call.ids THEN call.new[i] ELSE given[i]]
    BY <1>3 DEF BeginPut
  <2>1. PICK S \in BatchOf(Fresh), c \in [Ids -> Sums] : call = PutCall(S, c)
    BY DEF PutCalls
  <2> DEFINE new == [i \in Ids |-> IF i \in S THEN c[i] ELSE NoSum]
             r == [[call EXCEPT !.own = own] EXCEPT !.pc = "work"]
  <2>2. S \in SUBSET Ids /\ \A i \in S : given[i] = NoSum
    BY DEF BatchOf, Fresh
  <2>3. new \in [Ids -> Sums \cup {NoSum}] /\ \A i \in Ids : i \in S <=> new[i] # NoSum
    BY SQLiteAssumption
  <2> HIDE DEF new
  <2>4. call \in Call /\ call.ids = S /\ call.new = new /\ call.op = "put_many" /\ call.todo = {}
        /\ call.got = {} /\ ~call.begun /\ call.applied = {}
    <3>1. call = [Idle EXCEPT !.op = "put_many", !.ids = S, !.new = new]
      BY <2>1 DEF new, PutCall
    <3>. QED  BY <1>1, <2>2, <2>3, <3>1 DEF Call, Ops
  <2>6. r \in Call /\ r.pc = "work" /\ r.op = "put_many" /\ r.ids = S /\ r.new = new /\ r.todo = {}
        /\ r.got = {} /\ ~r.begun /\ r.applied = {}
    BY <2>4 DEF Call
  <2>7. tx' = [tx EXCEPT ![p] = r] /\ tx[p].pc = "idle" /\ schema
        /\ UNCHANGED <<mode, schema, db, writer, draft, objects, excused>>
    BY <2>0, <2>4 DEF Call
  <2>8. given' = [i \in Ids |-> IF i \in r.ids THEN r.new[i] ELSE given[i]]
    BY <2>0, <2>4, <2>6
  <2> HIDE DEF r
  <2>. QED  BY <2>2, <2>3, <2>6, <2>7, <2>8, BeginPutKeeps
<1>4. ASSUME NEW op \in {"delete_many", "get_many"}, NEW S \in SUBSET Ids, NEW own \in BOOLEAN,
             Begin(p, [Idle EXCEPT !.op = op, !.ids = S, !.own = own]), UNCHANGED given
      PROVE  FileInv'
  <2> DEFINE r == [[Idle EXCEPT !.op = op, !.ids = S, !.own = own] EXCEPT !.pc = "work"]
  <2>1. [Idle EXCEPT !.op = op, !.ids = S, !.own = own].op # "migrate"
    BY <1>1 DEF Call
  <2>2. tx' = [tx EXCEPT ![p] = r] /\ tx[p].pc = "idle" /\ schema
        /\ UNCHANGED <<mode, schema, db, writer, draft, objects, excused, given>>
    BY <1>4, <2>1
  <2>3. r \in Call /\ r.pc = "work" /\ r.op = op /\ r.todo = {} /\ r.got = {} /\ ~r.begun
        /\ r.applied = {}
    BY <1>1 DEF Call, Ops
  <2> HIDE DEF r
  <2>. QED  BY <2>2, <2>3, BeginKeeps DEF Tier
<1>5. ASSUME NEW op \in {Tier, "get_stream"}, NEW i \in Ids,
             Begin(p, [Idle EXCEPT !.op = op, !.ids = {i}]), UNCHANGED given
      PROVE  FileInv'
  <2> DEFINE r == [[Idle EXCEPT !.op = op, !.ids = {i}] EXCEPT !.pc = "work"]
  <2>1. [Idle EXCEPT !.op = op, !.ids = {i}].op # "migrate"
    BY <1>1 DEF Call, Tier
  <2>2. tx' = [tx EXCEPT ![p] = r] /\ tx[p].pc = "idle" /\ schema
        /\ UNCHANGED <<mode, schema, db, writer, draft, objects, excused, given>>
    BY <1>5, <2>1
  <2>3. r \in Call /\ r.pc = "work" /\ r.op = op /\ r.ids = {i} /\ r.todo = {} /\ r.got = {} /\ ~r.begun
        /\ r.applied = {}
    BY <1>1 DEF Call, Ops, Tier
  <2> HIDE DEF r
  <2>. QED  BY <2>2, <2>3, BeginKeeps DEF Tier
<1>6. ASSUME BeginDelete(p) PROVE FileInv'
  <2>1. PICK S \in BatchOf(Nameable), own \in BOOLEAN :
          Begin(p, [Idle EXCEPT !.op = "delete_many", !.ids = S, !.own = own]) /\ UNCHANGED given
    BY <1>6 DEF BeginDelete
  <2>2. S \in SUBSET Ids
    BY DEF BatchOf, Nameable
  <2>. QED  BY <1>4, <2>1, <2>2
<1>7. ASSUME BeginGet(p) PROVE FileInv'
  <2>1. PICK S \in BatchOf(Nameable) :
          Begin(p, [Idle EXCEPT !.op = "get_many", !.ids = S]) /\ UNCHANGED given
    BY <1>7 DEF BeginGet
  <2>2. S \in SUBSET Ids
    BY DEF BatchOf, Nameable
  <2>3. [Idle EXCEPT !.op = "get_many", !.ids = S] = [Idle EXCEPT !.op = "get_many", !.ids = S, !.own = TRUE]
    BY IdleType DEF Call
  <2>4. Begin(p, [Idle EXCEPT !.op = "get_many", !.ids = S, !.own = TRUE])
    BY <2>1, <2>3
  <2>. QED  BY <1>4, <2>1, <2>2, <2>4
<1>8. ASSUME BeginTier(p) PROVE FileInv'
  <2>1. PICK i \in Nameable : Begin(p, [Idle EXCEPT !.op = Tier, !.ids = {i}]) /\ UNCHANGED given
    BY <1>8 DEF BeginTier, Tier
  <2>. QED  BY <1>5, <2>1 DEF Nameable
<1>9. ASSUME BeginStream(p) PROVE FileInv'
  <2>1. PICK i \in Nameable : Begin(p, [Idle EXCEPT !.op = "get_stream", !.ids = {i}]) /\ UNCHANGED given
    BY <1>9 DEF BeginStream
  <2>. QED  BY <1>5, <2>1 DEF Nameable
<1>. QED  BY <1>2, <1>3, <1>6, <1>7, <1>8, <1>9 DEF SyncBegin

(* A task calls. *)
LEMMA BeginAsyncKeeps ==
  ASSUME FileInv, NEW p \in Procs, AsyncBegin(p), AsyncTyped
  PROVE  FileInv'
<1> USE DEF BeginAsync, fileVars, bucketVars, asyncVars
<1>1. Idle \in Call /\ Idle.todo = {} /\ Idle.got = {} /\ ~Idle.begun /\ Idle.applied = {}
  BY IdleType
<1>2. AsyncTyped'
  BY DEF AsyncBegin, BeginAsyncPut, BeginAsyncDelete, BeginAsyncTier, BeginAsyncRead, AsyncTyped
<1>3. ASSUME BeginAsyncPut(p) PROVE FileInv'
  <2>1. PICK S \in AsyncBatchOf(Fresh), c \in [Ids -> Sums] :
          /\ BeginAsync(p, [Idle EXCEPT !.op = "put_many", !.ids = S,
                              !.new = [i \in Ids |-> IF i \in S THEN c[i] ELSE NoSum]])
          /\ given' = [i \in Ids |-> IF i \in S THEN c[i] ELSE given[i]]
    BY <1>3 DEF BeginAsyncPut
  <2> DEFINE new == [i \in Ids |-> IF i \in S THEN c[i] ELSE NoSum]
             r == [[Idle EXCEPT !.op = "put_many", !.ids = S, !.new = new] EXCEPT !.pc = "ready"]
  <2>2. S \in SUBSET Ids /\ \A i \in S : given[i] = NoSum
    BY DEF AsyncBatchOf, Fresh
  <2>3. new \in [Ids -> Sums \cup {NoSum}] /\ (\A i \in Ids : i \in S <=> new[i] # NoSum)
        /\ \A i \in S : new[i] = c[i]
    BY <2>2, SQLiteAssumption
  <2>4. tx' = [tx EXCEPT ![p] = r] /\ tx[p].pc = "idle"
        /\ UNCHANGED <<mode, schema, db, writer, draft, objects, excused>>
    BY <2>1
  <2> HIDE DEF new
  <2>5. r \in Call /\ r.pc = "ready" /\ r.op = "put_many" /\ r.ids = S /\ r.new = new /\ r.todo = {}
        /\ r.got = {} /\ ~r.begun /\ r.applied = {}
    BY <1>1, <2>2, <2>3 DEF Call, Ops
  <2> HIDE DEF r
  <2>6. given' = [i \in Ids |-> IF i \in r.ids THEN r.new[i] ELSE given[i]]
    BY <2>1, <2>3, <2>5
  <2>. QED  BY <1>2, <2>2, <2>3, <2>4, <2>5, <2>6, BeginPutKeeps
<1>4. ASSUME NEW op \in {"delete_many", "get_many", "get_stream", Tier}, NEW S \in SUBSET Ids,
             op \in {Tier, "get_stream"} => \E i \in Ids : S = {i},
             BeginAsync(p, [Idle EXCEPT !.op = op, !.ids = S]), UNCHANGED given
      PROVE  FileInv'
  <2> DEFINE r == [[Idle EXCEPT !.op = op, !.ids = S] EXCEPT !.pc = "ready"]
  <2>1. tx' = [tx EXCEPT ![p] = r] /\ tx[p].pc = "idle"
        /\ UNCHANGED <<mode, schema, db, writer, draft, objects, excused, given>>
    BY <1>4
  <2>2. r \in Call /\ r.pc = "ready" /\ r.op = op /\ r.ids = S /\ r.todo = {} /\ r.got = {} /\ ~r.begun
        /\ r.applied = {}
    BY <1>1 DEF Call, Ops, Tier
  <2>3. r.op # "put_many"
    BY <2>2 DEF Tier
  <2>4. r.op \in {Tier, "get_stream"} => \E i \in Ids : r.ids = {i}
    BY <1>4, <2>2
  <2> HIDE DEF r
  <2>. QED  BY <1>2, <2>1, <2>2, <2>3, <2>4, BeginKeeps
<1>5. ASSUME BeginAsyncDelete(p) PROVE FileInv'
  <2>1. PICK S \in AsyncBatchOf(Nameable) :
          BeginAsync(p, [Idle EXCEPT !.op = "delete_many", !.ids = S]) /\ UNCHANGED given
    BY <1>5 DEF BeginAsyncDelete
  <2>2. S \in SUBSET Ids
    BY DEF AsyncBatchOf, Nameable
  <2>. QED  BY <1>4, <2>1, <2>2 DEF Tier
<1>6. ASSUME BeginAsyncTier(p) PROVE FileInv'
  <2>1. PICK i \in Nameable : BeginAsync(p, [Idle EXCEPT !.op = Tier, !.ids = {i}]) /\ UNCHANGED given
    BY <1>6 DEF BeginAsyncTier, Tier
  <2>2. i \in Ids
    BY DEF Nameable
  <2>3. \E j \in Ids : {i} = {j}
    BY <2>2
  <2>. QED  BY <1>4, <2>1, <2>2, <2>3
<1>7. ASSUME BeginAsyncRead(p) PROVE FileInv'
  <2>1. PICK S \in AsyncBatchOf(Nameable), op \in {"get_many", "get_stream"} :
          /\ op = "get_stream" => Cardinality(S) = 1
          /\ BeginAsync(p, [Idle EXCEPT !.op = op, !.ids = S]) /\ UNCHANGED given
    BY <1>7 DEF BeginAsyncRead
  <2>2. S \in SUBSET Ids
    BY DEF AsyncBatchOf, Nameable
  <2>3. op = "get_stream" => \E i \in Ids : S = {i}
    <3>1. IsFiniteSet(S)
      BY <2>2, SQLiteAssumption, FS_Subset
    <3>. QED  BY <2>1, <2>2, <3>1, FS_Singleton
  <2>. QED  BY <1>4, <2>1, <2>2, <2>3 DEF Tier
<1>. QED  BY <1>3, <1>5, <1>6, <1>7 DEF AsyncBegin

(* The constructor creates the tables, or finds them. *)
LEMMA MigrateKeeps ==
  ASSUME FileInv, NEW p \in Procs, Migrate(p), AsyncTyped'
  PROVE  FileInv'
<1>1. /\ tx[p].pc = "work" /\ tx[p].op = "migrate" /\ schema' = TRUE
      /\ tx' = [tx EXCEPT ![p] = Finish(tx[p], "None")]
      /\ UNCHANGED <<mode, db, writer, draft, objects, excused, given>>
  BY DEF Migrate, At, bucketVars
<1>2. ~tx[p].begun
  BY <1>1, CallOf DEF Shaped
<1>. QED  BY <1>1, <1>2, EndKeeps

(* _ensure_ready: the steps of a task until the tables are there. *)
LEMMA ReadyKeeps ==
  ASSUME FileInv, AsyncTyped, ready => schema, NEW p \in AsyncProcs,
         EnsureReady(p) \/ AsyncMigrate(p) \/ MigrationFails(p) \/ MigrationBusy(p)
  PROVE  FileInv' /\ (ready' => schema')
<1> USE DEF fileVars, bucketVars, asyncVars
<1>0. p \in Procs /\ tx[p] \in Call /\ schema \in BOOLEAN /\ (tx[p].pc = "ready" => ~tx[p].begun)
      /\ (tx[p].pc = "migrate" => ~tx[p].begun)
  BY CallOf DEF Procs, FileInv, Types, TypeOK, Shaped
<1>1. tx[p].attempt \in Nat /\ MaxRetries \in Nat
  BY <1>0, SQLiteAssumption DEF Call
<1>2. CASE EnsureReady(p)
  <2>1. AsyncTyped'
    BY <1>2 DEF EnsureReady, AsyncTyped
  <2>2. PICK c \in {"work", "migrate"} :
          tx' = [tx EXCEPT ![p].pc = c] /\ (c = "work" => ready)
    BY <1>2 DEF EnsureReady
  <2>3. [tx[p] EXCEPT !.pc = c] = [tx[p] EXCEPT !.pc = c, !.attempt = tx[p].attempt]
    BY <1>0 DEF Call
  <2>4. tx' = [tx EXCEPT ![p] = [tx[p] EXCEPT !.pc = c, !.attempt = tx[p].attempt]]
    BY <2>2, <2>3
  <2>5. /\ tx[p].pc = "ready" /\ ready' = ready
        /\ UNCHANGED <<mode, schema, db, writer, draft, objects, excused, given>>
    BY <1>2 DEF EnsureReady
  <2>6. (c = "work" => schema') /\ schema' \in BOOLEAN /\ (ready' => schema')
    BY <1>0, <2>2, <2>5
  <2>7. FileInv'
    BY <1>0, <1>1, <2>1, <2>4, <2>5, <2>6, MoveKeeps
  <2>. QED  BY <2>6, <2>7
<1>3. CASE AsyncMigrate(p)
  <2>1. AsyncTyped'
    BY <1>3 DEF AsyncMigrate, AsyncTyped
  <2>2. tx' = [tx EXCEPT ![p] = [tx[p] EXCEPT !.pc = "work", !.attempt = 0]]
    BY <1>3 DEF AsyncMigrate
  <2>3. /\ tx[p].pc = "migrate" /\ schema' = TRUE
        /\ UNCHANGED <<mode, db, writer, draft, objects, excused, given>>
    BY <1>3 DEF AsyncMigrate
  <2>. QED  BY <1>0, <2>1, <2>2, <2>3, MoveKeeps
<1>4. CASE MigrationFails(p)
  <2>1. AsyncTyped'
    BY <1>4 DEF MigrationFails, AsyncTyped
  <2>2. /\ tx[p].pc = "migrate" /\ tx' = [tx EXCEPT ![p] = Finish(tx[p], "MigrationFailed")]
        /\ ready' = ready
        /\ UNCHANGED <<mode, schema, db, writer, draft, objects, excused, given>>
    BY <1>4 DEF MigrationFails
  <2>. QED  BY <1>0, <2>1, <2>2, EndKeeps
<1>5. CASE MigrationBusy(p)
  <2>1. AsyncTyped'
    BY <1>5 DEF MigrationBusy, AsyncTyped
  <2>2. /\ tx[p].pc = "migrate" /\ tx' = [tx EXCEPT ![p].attempt = tx[p].attempt + 1]
        /\ ready' = ready
        /\ UNCHANGED <<mode, schema, db, writer, draft, objects, excused, given>>
    BY <1>5 DEF MigrationBusy
  <2>3. [tx[p] EXCEPT !.attempt = tx[p].attempt + 1]
          = [tx[p] EXCEPT !.pc = "migrate", !.attempt = tx[p].attempt + 1]
    BY <1>0, <2>2 DEF Call
  <2>4. tx' = [tx EXCEPT ![p] = [tx[p] EXCEPT !.pc = "migrate", !.attempt = tx[p].attempt + 1]]
    BY <2>2, <2>3
  <2>5. tx[p].attempt + 1 \in Nat /\ schema' \in BOOLEAN /\ (ready' => schema')
    BY <1>0, <1>1, <2>2
  <2>6. FileInv'
    BY <1>0, <2>1, <2>2, <2>4, <2>5, MoveKeeps
  <2>. QED  BY <2>5, <2>6
<1>. QED  BY <1>2, <1>3, <1>4, <1>5

-----------------------------------------------------------------------------
(* Waiting and reading *)

(* SQLITE_BUSY: another attempt, or the end of the call. *)
LEMMA BusyKeeps ==
  ASSUME FileInv, NEW p \in Procs, Busy(p) \/ AsyncBusy(p), AsyncTyped'
  PROVE  FileInv'
<1> DEFINE c == tx[p]
           again == [c EXCEPT !.attempt = c.attempt + 1]
<1>1. /\ c \in Call /\ c.pc = "work" /\ ~c.begun /\ c.attempt \in Nat
      /\ schema \in BOOLEAN /\ (c.op # "migrate" => schema)
      /\ UNCHANGED <<mode, schema, db, writer, draft, objects, excused, given>>
  <2>1. c.pc = "work" /\ UNCHANGED <<mode, schema, db, writer, draft, objects, excused, given>>
    BY DEF Busy, AsyncBusy, fileVars, bucketVars
  <2>2. c \in Call /\ Shaped(c) /\ Tabled(c)
    BY CallOf
  <2>3. schema \in BOOLEAN
    BY DEF FileInv, Types, TypeOK
  <2>. QED  BY <2>1, <2>2, <2>3 DEF Shaped, Tabled, Call
<1>2. \/ tx' = [tx EXCEPT ![p] = again]
      \/ tx' = [tx EXCEPT ![p] = Finish(c, "StorageError")]
  BY DEF Busy, AsyncBusy, AfterBusy, AsyncAfterBusy
<1>3. CASE tx' = [tx EXCEPT ![p] = again]
  <2>1. again = [c EXCEPT !.pc = "work", !.attempt = c.attempt + 1]
    BY <1>1 DEF Call
  <2>2. tx' = [tx EXCEPT ![p] = [tx[p] EXCEPT !.pc = "work", !.attempt = c.attempt + 1]]
    BY <1>3, <2>1
  <2>3. c.attempt + 1 \in Nat
    BY <1>1
  <2>. QED  BY <1>1, <2>2, <2>3, MoveKeeps
<1>4. CASE tx' = [tx EXCEPT ![p] = Finish(c, "StorageError")]
  BY <1>1, <1>4, EndKeeps
<1>. QED  BY <1>2, <1>3, <1>4

(* get_many: nothing of the invariant depends on its answer. *)
LEMMA GetKeeps ==
  ASSUME FileInv, NEW p \in Procs, tx[p].op = "get_many", tx[p].pc \in {"work", "fetch"},
         NEW r \in Call, r.op = "get_many", r.pc \in {"fetch", "returned"}, r.got = {}, ~r.begun,
         tx' = [tx EXCEPT ![p] = r], AsyncTyped',
         UNCHANGED <<mode, schema, db, writer, draft, objects, excused, given>>
  PROVE  FileInv'
<1>1. schema' \in BOOLEAN /\ (schema => schema') /\ schema
  BY CallOf DEF FileInv, Types, TypeOK, Tabled
<1>2. Shaped(r) /\ Answered(r) /\ Removed(r) /\ Streamed(p, r)
  BY DEF Shaped, Answered, Removed, Streamed, Pending, Tier
<1>3. ~Holding(tx[p]) /\ ~Holding(r) /\ ~Pending(r)
  BY DEF Holding, Pending
<1>. QED  BY <1>1, <1>2, <1>3, LocalKeeps

(* The SELECT of get_many. *)
LEMMA SelectKeeps ==
  ASSUME FileInv, NEW p \in Procs, Select(p), AsyncTyped'
  PROVE  FileInv'
<1> DEFINE c == tx[p]
           found == Found(c.ids)
           tiered == {i \in found : Tiered(db, i)}
           last == [Finish(c, "bytes") EXCEPT !.applied = found]
           more == [c EXCEPT !.pc = "fetch", !.todo = tiered, !.applied = found]
<1>1. c.pc = "work" /\ c.op = "get_many" /\ (tx' = [tx EXCEPT ![p] = last] \/ tx' = [tx EXCEPT ![p] = more])
      /\ UNCHANGED <<mode, schema, db, writer, draft, objects, excused, given>>
  BY DEF Select, At, Reads, fileVars, bucketVars
<1>2. c \in Call /\ c.got = {} /\ ~c.begun
  BY <1>1, CallOf DEF Shaped
<1>3. found \in SUBSET Ids /\ tiered \in SUBSET Ids
  BY <1>2 DEF Found, Call
<1>4. /\ Finish(c, "bytes") \in Call /\ Finish(c, "bytes").pc = "returned"
      /\ Finish(c, "bytes").op = "get_many" /\ Finish(c, "bytes").got = {}
      /\ ~Finish(c, "bytes").begun
  BY <1>1, <1>2, FinishType DEF Results
<1> HIDE DEF found, tiered
<1>5. last \in Call /\ last.pc = "returned" /\ last.op = "get_many" /\ last.got = {} /\ ~last.begun
  BY <1>3, <1>4 DEF Call
<1>6. more \in Call /\ more.pc = "fetch" /\ more.op = "get_many" /\ more.got = {} /\ ~more.begun
  BY <1>1, <1>2, <1>3 DEF Call
<1> HIDE DEF last, more
<1>. QED  BY <1>1, <1>5, <1>6, GetKeeps

(* _fetch_tiered_bytes: one download. *)
LEMMA FetchKeeps ==
  ASSUME FileInv, NEW p \in Procs, NEW i \in Ids, Fetch(p, i), AsyncTyped'
  PROVE  FileInv'
<1> DEFINE c == tx[p]
           more == [c EXCEPT !.todo = @ \ {i}]
<1>1. c.pc = "fetch" /\ (\/ \E result \in {"StorageError", "bytes"} : tx' = [tx EXCEPT ![p] = Finish(c, result)]
                         \/ tx' = [tx EXCEPT ![p] = more])
      /\ UNCHANGED <<mode, schema, db, writer, draft, objects, excused, given>>
  BY DEF Fetch, Reads, fileVars, bucketVars
<1>2. c \in Call /\ c.got = {} /\ ~c.begun /\ c.op = "get_many"
  BY <1>1, CallOf DEF Shaped
<1>3. ASSUME NEW result \in {"StorageError", "bytes"}
      PROVE  /\ Finish(c, result) \in Call /\ Finish(c, result).pc = "returned"
             /\ Finish(c, result).op = "get_many" /\ Finish(c, result).got = {}
             /\ ~Finish(c, result).begun
  BY <1>2, FinishType DEF Results
<1>4. more \in Call /\ more.pc = "fetch" /\ more.op = "get_many" /\ more.got = {} /\ ~more.begun
  BY <1>1, <1>2 DEF Call
<1> HIDE DEF more
<1>5. CASE tx' = [tx EXCEPT ![p] = more]
  BY <1>1, <1>2, <1>4, <1>5, GetKeeps
<1>6. ASSUME NEW result \in {"StorageError", "bytes"}, tx' = [tx EXCEPT ![p] = Finish(c, result)]
      PROVE  FileInv'
  BY <1>1, <1>2, <1>3, <1>6, GetKeeps
<1>. QED  BY <1>1, <1>5, <1>6

(* get_stream before its first chunk, or with a chunk more to come. *)
LEMMA StreamGoesOn ==
  ASSUME FileInv, NEW p \in Procs, tx[p].op = "get_stream", tx[p].pc \in {"work", "opened", "chunks", "object"},
         NEW r \in Call, r.op = "get_stream", r.pc \in {"opened", "chunks", "object"}, r.left > 0,
         r.ids = tx[p].ids, r.applied = tx[p].applied, r.pc = "opened" => r.got = {},
         r.begun => r.pc = "chunks", Streamed(p, r),
         tx' = [tx EXCEPT ![p] = r], AsyncTyped',
         UNCHANGED <<mode, schema, db, writer, draft, objects, excused, given>>
  PROVE  FileInv'
<1>1. schema' \in BOOLEAN /\ (schema => schema') /\ schema
  BY CallOf DEF FileInv, Types, TypeOK, Tabled
<1>2. Shaped(r) /\ Answered(r) /\ Removed(r)
  BY CallOf DEF Shaped, Answered, Removed, Pending, Tier
<1>3. ~Holding(tx[p]) /\ ~Holding(r) /\ ~Pending(r)
  BY DEF Holding, Pending
<1>. QED  BY <1>1, <1>2, <1>3, LocalKeeps

(* One more chunk of a stream: the last one makes its answer complete.      *)
LEMMA DeliveredKeeps ==
  ASSUME FileInv, NEW p \in Procs, tx[p].pc \in {"chunks", "object"}, NEW content \in SUBSET Sums,
         tx' = [tx EXCEPT ![p] = Delivered(tx[p], content)], AsyncTyped',
         p \in AsyncProcs => content \subseteq {given[i] : i \in tx[p].ids},
         tx[p].begun => content = tx[p].pinned,
         UNCHANGED <<mode, schema, db, writer, draft, objects, excused, given>>
  PROVE  FileInv'
<1> DEFINE c == tx[p]
           f == Finish(c, "bytes")
           last == [f EXCEPT !.left = 0, !.got = @ \cup content]
           rest == c.left - 1
           more == [c EXCEPT !.left = rest, !.got = @ \cup content]
<1>1. /\ c \in Call /\ c.op = "get_stream" /\ c.left \in Nat /\ c.left > 0
      /\ Streamed(p, c) /\ (c.begun => c.pc = "chunks")
      /\ Shaped(c) /\ Answered(c)
  BY CallOf DEF Shaped, Call
<1>2. /\ f \in Call /\ f.pc = "returned" /\ f.op = "get_stream" /\ f.ids = c.ids /\ f.todo = {}
      /\ f.got = c.got /\ f.begun = c.begun /\ f.applied = c.applied /\ f.result = "bytes"
  BY <1>1, FinishType DEF Results
<1>3. CASE c.left > 1
  <2>0. ~(c.left <= 1) /\ rest \in Nat /\ rest > 0
    BY <1>1, <1>3
  <2>1. tx' = [tx EXCEPT ![p] = more]
    <3>1. Delivered(c, content) = more
      BY <2>0 DEF Delivered
    <3>. QED  BY <3>1
  <2> HIDE DEF rest
  <2>2. /\ more \in Call /\ more.op = "get_stream" /\ more.pc = c.pc /\ more.ids = c.ids
        /\ more.applied = c.applied /\ more.begun = c.begun /\ more.pinned = c.pinned
        /\ more.got = c.got \cup content /\ more.left > 0
    BY <1>1, <2>0 DEF Call
  <2> HIDE DEF more
  <2>3. Streamed(p, more)
    BY <1>1, <2>2 DEF Streamed
  <2>. QED  BY <1>1, <2>1, <2>2, <2>3, StreamGoesOn
<1>4. CASE c.left <= 1
  <2>1. tx' = [tx EXCEPT ![p] = last]
    BY <1>4 DEF Delivered
  <2> HIDE DEF f
  <2>2. /\ last \in Call /\ last.op = "get_stream" /\ last.pc = "returned" /\ last.ids = c.ids
        /\ last.applied = c.applied /\ last.begun = c.begun /\ last.left = 0 /\ last.todo = {}
        /\ last.got = c.got \cup content /\ last.result = "bytes"
    BY <1>1, <1>2 DEF Call
  <2> HIDE DEF last
  <2>3. Streamed(p, last)
    BY <1>1, <2>2 DEF Streamed
  <2>4. Shaped(last)
    BY <1>1, <2>2 DEF Shaped, Pending, Tier
  <2>5. Answered(last)
    BY <1>1, <2>2 DEF Answered, Tier
  <2>6. Removed(last) /\ ~Pending(last) /\ ~Holding(last) /\ ~Holding(c)
    BY <2>2 DEF Removed, Pending, Holding
  <2>7. schema' \in BOOLEAN /\ (schema => schema')
    BY DEF FileInv, Types, TypeOK
  <2>. QED  BY <2>1, <2>2, <2>3, <2>4, <2>5, <2>6, <2>7, LocalKeeps
<1>. QED  BY <1>1, <1>3, <1>4

(* Where an image's bytes are, no other content is: its rowid is its own.   *)
LEMMA OwnBytes ==
  ASSUME FileInv, NEW i \in Ids, db.rows[i].backend = "sqlite"
  PROVE  BytesAt(db, RowIdOf(db, i)) = {given[i]}
<1>1. Stored(db, i) /\ db.rows[i].sum = given[i] /\ given[i] \in Sums
  BY DEF FileInv, RowsGiven, Stored, Settled, Types, TypeOK
<1>2. CASE mode = "dedup"
  <2> DEFINE s == given[i]
  <2>1. Exists(db, s)
    <3>1. i \in RowsOf(db, s)
      BY <1>1 DEF RowsOf
    <3>2. Cardinality(RowsOf(db, s)) # 0 /\ Cardinality(RowsOf(db, s)) \in Nat
      BY <3>1, RowsFinite, FS_EmptySet
    <3>3. db.blobs[s].count = Cardinality(RowsOf(db, s)) /\ (Exists(db, s) <=> db.blobs[s].count > 0)
      BY <1>1, <1>2 DEF FileInv, Counted
    <3>. QED  BY <3>2, <3>3
  <2>2. RowIdOf(db, i) = db.blobs[s].rowid /\ db.blobs[s].rowid # 0
    BY <1>1, <1>2, <2>1 DEF RowIdOf, Exists
  <2>3. \A t \in Sums : db.blobs[t].rowid = db.blobs[s].rowid => t = s
    BY <1>1, <1>2, <2>1 DEF FileInv, Numbered
  <2>. QED  BY <1>1, <1>2, <2>2, <2>3 DEF BytesAt
<1>3. CASE mode # "dedup"
  <2>1. RowIdOf(db, i) = db.rows[i].rowid
    BY <1>3 DEF RowIdOf
  <2>2. \A j \in Ids : db.rows[j].backend = "sqlite" => Stored(db, j)
    BY DEF Stored
  <2>3. \A j \in Ids : db.rows[j].backend = "sqlite" /\ db.rows[j].rowid = db.rows[i].rowid => j = i
    BY <1>1, <1>3, <2>2 DEF FileInv, Numbered
  <2>4. {j \in Ids : db.rows[j].backend = "sqlite" /\ db.rows[j].rowid = db.rows[i].rowid} = {i}
    BY <2>3
  <2>5. BytesAt(db, RowIdOf(db, i)) = {db.rows[j].sum : j \in {i}}
    BY <1>3, <2>1, <2>4 DEF BytesAt
  <2>. QED  BY <1>1, <2>5
<1>. QED  BY <1>2, <1>3

(* What is read at a rowid are contents. *)
LEMMA BytesType ==
  ASSUME FileInv, NEW n
  PROVE  BytesAt(db, n) \in SUBSET Sums
<1>1. \A j \in Ids : db.rows[j].backend = "sqlite" => db.rows[j].sum \in Sums
  BY DEF FileInv, RowsGiven, Stored, Settled, Types, TypeOK
<1>2. CASE mode = "dedup"
  BY <1>2 DEF BytesAt
<1>3. CASE mode # "dedup"
  BY <1>1, <1>3 DEF BytesAt
<1>. QED  BY <1>2, <1>3

(* The eager part of get_stream. *)
LEMMA StreamInfoKeeps ==
  ASSUME FileInv, NEW p \in Procs, StreamInfo(p) \/ AsyncStreamInfo(p), AsyncTyped'
  PROVE  FileInv'
<1> DEFINE c == tx[p]
<1>1. /\ c.pc = "work" /\ c.op = "get_stream"
      /\ UNCHANGED <<mode, schema, db, writer, draft, objects, excused, given>>
  BY DEF StreamInfo, AsyncStreamInfo, At, Reads, fileVars, bucketVars
<1>2. /\ c \in Call /\ c.got = {} /\ ~c.begun /\ Chunks \in Nat /\ Chunks > 0
      /\ schema \in BOOLEAN /\ c.ids \subseteq Ids
  BY <1>1, CallOf, SQLiteAssumption DEF Shaped, FileInv, Types, TypeOK, Call
<1>3. \/ tx' = [tx EXCEPT ![p] = Finish(c, "None")]
      \/ \E pc \in {"object", "chunks"} : tx' = [tx EXCEPT ![p] = [c EXCEPT !.pc = pc, !.left = Chunks]]
      \/ \E i \in c.ids : /\ Stored(db, i)
           /\ tx' = [tx EXCEPT ![p] = [c EXCEPT !.pc = "opened", !.rowid = RowIdOf(db, i), !.left = Chunks]]
  <2>1. \A pc \in {"object", "chunks"} :
          [c EXCEPT !.left = Chunks, !.pc = pc] = [c EXCEPT !.pc = pc, !.left = Chunks]
    BY <1>2 DEF Call
  <2>2. CASE StreamInfo(p)
    BY <2>2 DEF StreamInfo, Reads
  <2>3. CASE AsyncStreamInfo(p)
    BY <2>1, <2>3 DEF AsyncStreamInfo, Reads
  <2>. QED  BY <2>2, <2>3
<1>4. CASE tx' = [tx EXCEPT ![p] = Finish(c, "None")]
  BY <1>1, <1>2, <1>4, EndKeeps
<1>5. ASSUME NEW pc \in {"object", "chunks"}, tx' = [tx EXCEPT ![p] = [c EXCEPT !.pc = pc, !.left = Chunks]]
      PROVE  FileInv'
  <2> DEFINE r == [c EXCEPT !.pc = pc, !.left = Chunks]
  <2>1. /\ r \in Call /\ r.op = "get_stream" /\ r.pc = pc /\ r.left = Chunks /\ r.ids = c.ids
        /\ r.applied = c.applied /\ ~r.begun /\ r.got = {}
    BY <1>1, <1>2 DEF Call
  <2>2. tx' = [tx EXCEPT ![p] = r]
    BY <1>5
  <2> HIDE DEF r
  <2>3. Streamed(p, r)
    BY <2>1 DEF Streamed
  <2>. QED  BY <1>1, <1>2, <2>1, <2>2, <2>3, StreamGoesOn
<1>6. ASSUME NEW i \in c.ids, Stored(db, i),
             tx' = [tx EXCEPT ![p] = [c EXCEPT !.pc = "opened", !.rowid = RowIdOf(db, i), !.left = Chunks]]
      PROVE  FileInv'
  <2> DEFINE n == RowIdOf(db, i)
             r == [c EXCEPT !.pc = "opened", !.rowid = n, !.left = Chunks]
  <2>0. tx' = [tx EXCEPT ![p] = r]
    BY <1>6
  <2>1. n \in Nat
    <3>1. i \in Ids /\ db \in View /\ db.rows[i].sum \in Sums
      BY <1>2, <1>6 DEF FileInv, RowsGiven, Settled, Types, TypeOK
    <3>. QED  BY <3>1 DEF RowIdOf, View, Row, Blob
  <2> HIDE DEF n
  <2>2. /\ r \in Call /\ r.op = "get_stream" /\ r.pc = "opened" /\ r.left = Chunks /\ r.ids = c.ids
        /\ r.applied = c.applied /\ ~r.begun /\ r.got = {}
    BY <1>1, <1>2, <2>1 DEF Call
  <2> HIDE DEF r
  <2>3. Streamed(p, r)
    BY <2>2 DEF Streamed
  <2>. QED  BY <1>1, <1>2, <2>0, <2>2, <2>3, StreamGoesOn
<1>. QED  BY <1>3, <1>4, <1>5, <1>6

(* blobopen, or BEGIN: a stream has its image's bytes, or knows that it may not. *)
LEMMA OpenBlobKeeps ==
  ASSUME FileInv, NEW p \in SyncProcs, OpenBlob(p), AsyncTyped'
  PROVE  FileInv'
<1> DEFINE c == tx[p]
           bytes == BytesAt(db, c.rowid)
           begun == \E i \in c.ids : db.rows[i].backend = "sqlite" /\ RowIdOf(db, i) = c.rowid
           r == [c EXCEPT !.pc = "chunks", !.pinned = bytes, !.begun = begun]
<1>0. p \in Procs /\ p \notin AsyncProcs
  BY SQLiteAssumption DEF Procs
<1>1. /\ c.pc = "opened"
      /\ UNCHANGED <<mode, schema, db, writer, draft, objects, excused, given>>
      /\ tx' = [tx EXCEPT ![p] = Finish(c, "StorageError")] \/ tx' = [tx EXCEPT ![p] = r]
  BY DEF OpenBlob, Reads, fileVars, bucketVars
<1>2. /\ c \in Call /\ c.got = {} /\ ~c.begun /\ c.left > 0 /\ c.op = "get_stream" /\ schema \in BOOLEAN
      /\ \E i \in Ids : c.ids = {i}
  BY <1>0, <1>1, CallOf DEF Shaped, FileInv, Types, TypeOK
<1>3. CASE tx' = [tx EXCEPT ![p] = Finish(c, "StorageError")]
  BY <1>0, <1>1, <1>2, <1>3, EndKeeps
<1>4. CASE tx' = [tx EXCEPT ![p] = r]
  <2>1. bytes \in SUBSET Sums /\ begun \in BOOLEAN
    BY BytesType
  <2>2. begun => bytes = {given[i] : i \in c.ids}
    <3>1. PICK i \in Ids : c.ids = {i}
      BY <1>2
    <3>2. CASE begun
      <4>1. db.rows[i].backend = "sqlite" /\ RowIdOf(db, i) = c.rowid
        BY <3>1, <3>2
      <4>2. bytes = {given[i]}
        BY <4>1, OwnBytes
      <4>. QED  BY <3>1, <4>2
    <3>. QED  BY <3>2
  <2> HIDE DEF bytes, begun
  <2>3. r \in Call /\ r.op = "get_stream" /\ r.pc = "chunks" /\ r.ids = c.ids /\ r.got = {} /\ r.left > 0
        /\ r.pinned = bytes /\ r.applied = c.applied
    BY <1>2, <2>1 DEF Call
  <2>4. r.begun = begun
    BY <1>2, <2>1 DEF Call
  <2> HIDE DEF r
  <2>5. Streamed(p, r)
    BY <1>0, <2>2, <2>3, <2>4 DEF Streamed
  <2>. QED  BY <1>0, <1>1, <1>2, <1>4, <2>3, <2>5, StreamGoesOn
<1>. QED  BY <1>1, <1>3, <1>4

(* blob.read(), or substr() in the held read transaction. *)
LEMMA ReadBlobKeeps ==
  ASSUME FileInv, NEW p \in SyncProcs, ReadBlob(p), AsyncTyped'
  PROVE  FileInv'
<1>1. p \in Procs /\ p \notin AsyncProcs
  BY SQLiteAssumption DEF Procs
<1>2. /\ tx[p].pc = "chunks" /\ tx' = [tx EXCEPT ![p] = Delivered(tx[p], tx[p].pinned)]
      /\ UNCHANGED <<mode, schema, db, writer, draft, objects, excused, given>>
  BY DEF ReadBlob, Reads, fileVars, bucketVars
<1>3. tx[p].pinned \in SUBSET Sums
  BY <1>1, CallOf DEF Call
<1>. QED  BY <1>1, <1>2, <1>3, DeliveredKeeps

(* A chunk of a tiered image comes from its object. *)
LEMMA ReadObjectKeeps ==
  ASSUME FileInv, NEW p \in Procs, ReadObject(p) \/ AsyncReadObject(p), AsyncTyped'
  PROVE  FileInv'
<1> DEFINE c == tx[p]
<1>1. /\ c.pc = "object" /\ (\/ tx' = [tx EXCEPT ![p] = Delivered(c, {})]
                          \/ tx' = [tx EXCEPT ![p] = Finish(c, "StorageError")])
      /\ UNCHANGED <<mode, schema, db, writer, draft, objects, excused, given>>
  BY DEF ReadObject, AsyncReadObject, AsyncDelivered, Delivered, Reads, fileVars, bucketVars
<1>2. ~c.begun /\ schema \in BOOLEAN
  BY <1>1, CallOf DEF Shaped, FileInv, Types, TypeOK
<1>3. CASE tx' = [tx EXCEPT ![p] = Delivered(c, {})]
  <2>1. {} \in SUBSET Sums /\ {} \subseteq {given[i] : i \in c.ids}
    OBVIOUS
  <2>. QED  BY <1>1, <1>2, <1>3, <2>1, DeliveredKeeps
<1>4. CASE tx' = [tx EXCEPT ![p] = Finish(c, "StorageError")]
  BY <1>1, <1>2, <1>4, EndKeeps
<1>. QED  BY <1>1, <1>3, <1>4

(* An asynchronous chunk is read by the image's id. *)
LEMMA AsyncReadChunkKeeps ==
  ASSUME FileInv, NEW p \in AsyncProcs, AsyncReadChunk(p), AsyncTyped'
  PROVE  FileInv'
<1> DEFINE c == tx[p]
<1>0. p \in Procs
  BY DEF Procs
<1>1. /\ c.pc = "chunks"
      /\ UNCHANGED <<mode, schema, db, writer, draft, objects, excused, given>>
      /\ \E i \in c.ids :
           \/ tx' = [tx EXCEPT ![p] = Finish(c, "StorageError")]
           \/ /\ db.rows[i].backend = "sqlite"
              /\ tx' = [tx EXCEPT ![p] = AsyncDelivered(c, {db.rows[i].sum})]
  BY DEF AsyncReadChunk, Reads, fileVars, bucketVars
<1>2. c \in Call /\ ~c.begun /\ schema \in BOOLEAN
  BY <1>0, <1>1, CallOf DEF Shaped, Streamed, FileInv, Types, TypeOK
<1>3. CASE tx' = [tx EXCEPT ![p] = Finish(c, "StorageError")]
  BY <1>0, <1>1, <1>2, <1>3, EndKeeps
<1>4. ASSUME NEW i \in c.ids, db.rows[i].backend = "sqlite",
             tx' = [tx EXCEPT ![p] = AsyncDelivered(c, {db.rows[i].sum})]
      PROVE  FileInv'
  <2>1. i \in Ids /\ Stored(db, i)
    BY <1>2, <1>4 DEF Call, Stored
  <2>2. db.rows[i].sum = given[i] /\ given[i] \in Sums
    BY <2>1 DEF FileInv, RowsGiven, Settled, Types, TypeOK
  <2>3. {db.rows[i].sum} \in SUBSET Sums /\ {db.rows[i].sum} \subseteq {given[j] : j \in c.ids}
    BY <2>2
  <2>4. AsyncDelivered(c, {db.rows[i].sum}) = Delivered(c, {db.rows[i].sum})
    BY DEF AsyncDelivered, Delivered
  <2>. QED  BY <1>0, <1>1, <1>2, <1>4, <2>3, <2>4, DeliveredKeeps
<1>. QED  BY <1>1, <1>3, <1>4

-----------------------------------------------------------------------------
(* Writing: the lock and the draft *)

(* The first write of a transaction. *)
LEMMA AcquireKeeps ==
  ASSUME FileInv, NEW p \in Procs, tx[p].pc = "work", writer = NoProc,
         NEW r \in Call, tx' = [tx EXCEPT ![p] = r],
         r.op = tx[p].op, r.ids = tx[p].ids, r.new = tx[p].new, r.applied = {},
         r.op \in {"put_many", "delete_many", Tier}, Holding(r),
         Shaped(r), writer' = p, draft' \in View,
         r.op = "put_many" => draft' \in PutDrafts(r.new),
         r.op = "delete_many" => draft' = DeleteDraft(r.ids) /\ r.todo = {i \in r.ids : Tiered(db, i)},
         r.op = Tier => r.pc = "upload" /\ draft' = db /\ \A i \in r.ids : db.rows[i].backend = "sqlite",
         AsyncTyped', UNCHANGED <<mode, schema, db, objects, excused, given>>
  PROVE  FileInv'
<1>1. \A q \in Procs : tx'[q] = IF q = p THEN r ELSE tx[q]
  BY DEF FileInv, Types, TypeOK
<1>2. Types'
  <2>1. tx' \in [Procs -> Call]
    BY DEF FileInv, Types, TypeOK
  <2>. QED  BY <2>1 DEF FileInv, Types, TypeOK, AsyncTyped, View
<1>3. DrawnOnce' /\ \A i \in Ids : Settled(i) => Settled(i)'
  <2>1. Pending(r) => Pending(tx[p])
    BY DEF Pending
  <2>. QED  BY <2>1, DrawnStays
<1>4. \A i \in Ids : (Stored(db, i)' <=> Stored(db, i)) /\ (Tiered(db, i)' <=> Tiered(db, i))
  BY DEF Stored, Tiered
<1>5. RowsGiven'
  BY <1>3, <1>4 DEF FileInv, RowsGiven
<1>6. Numbered(db)' /\ Counted(db)'
  BY DEF FileInv, Numbered, Counted, Stored, Exists, RowsOf
<1>7. ASSUME NEW q \in Procs PROVE ~Holding(tx[q])
  BY CallOf
<1>8. Bucketed'
  <2>1. objects \cup excused \subseteq Ids
    BY DEF FileInv, Types, TypeOK
  <2>2. \A i \in objects' \cup excused' : Settled(i)'
    BY <1>3, <2>1 DEF FileInv, Bucketed
  <2>3. NoLostBytes'
    BY <1>4 DEF FileInv, Bucketed, NoLostBytes
  <2>4. ASSUME NEW i \in objects', Stored(db, i)'
        PROVE  Tiered(db, i)' \/ i \in excused'
    BY <1>4, <1>7, <2>1, <2>4 DEF FileInv, Bucketed, Uploaded, Holding
  <2>. QED  BY <2>2, <2>3, <2>4 DEF Bucketed
<1>9. Locked'
  <2>1. ASSUME NEW q \in Procs PROVE writer' = q <=> Holding(tx'[q])
    BY <1>1, <1>7
  <2>. QED  BY <2>1 DEF Locked, Holding
<1>10. ASSUME NEW q \in Procs, q # p PROVE Kept(q)'
  <2>1. tx'[q] = tx[q]
    BY <1>1, <1>10
  <2>2. \A i \in Ids : Gone(i) => Gone(i)'
    BY <1>3, <1>4 DEF Gone
  <2>3. ~Holding(tx[q])
    BY <1>7
  <2>. QED  BY <2>1, <2>2, <2>3, KeptStays
<1>11. Kept(p)'
  <2>1. tx'[p] = r
    BY <1>1
  <2>2. Answered(r) /\ Removed(r) /\ Streamed(p, r)
    BY DEF Answered, Removed, Streamed, Holding, Tier
  <2>3. schema
    BY CallOf DEF Tabled, Tier
  <2>4. Shaped(tx[p])' /\ Answered(tx[p])' /\ Tabled(tx[p])'
    BY <2>1, <2>2, <2>3 DEF Shaped, Answered, Tabled, Pending, Holding
  <2>5. Removed(tx[p])'
    BY <2>1 DEF Removed, Holding
  <2>6. Streamed(p, tx[p])'
    BY <2>1 DEF Streamed, Tier
  <2>7. Drafted(tx[p])'
    <3>0. PutDrafts(r.new)' = PutDrafts(r.new) /\ DeleteDraft(r.ids)' = DeleteDraft(r.ids)
      BY DEF PutDrafts, DeleteDraft, InsertImages, Numberings, RowIds, UpsertBlobs,
             InsertRefs, RemoveRows, DecrementBlobs, Exists, Count
    <3>1. PutDrafts(r.new) = PutDrafts(tx[p].new)' /\ DeleteDraft(r.ids) = DeleteDraft(tx[p].ids)'
      BY <2>1, <3>0
    <3>2. {i \in r.ids : Tiered(db, i)} = {i \in r.ids : Tiered(db, i)'}
      BY DEF Tiered
    <3>3. r.op = Tier => \A i \in r.ids : db'.rows[i].backend = "sqlite" /\ draft' = db'
      OBVIOUS
    <3>. QED  BY <2>1, <3>1, <3>2, <3>3 DEF Drafted, Holding, Tier, Tiered
  <2>. QED  BY <2>4, <2>5, <2>6, <2>7 DEF Kept
<1>12. \A q \in Procs : Kept(q)'
  BY <1>10, <1>11
<1>. QED  BY <1>2, <1>3, <1>5, <1>6, <1>8, <1>9, <1>12 DEF FileInv

(* The rows of a put are new. *)
LEMMA PutRowsAreNew ==
  ASSUME FileInv, NEW p \in Procs, Pending(tx[p])
  PROVE  \A i \in Ids : tx[p].new[i] # NoSum =>
           /\ i \in tx[p].ids /\ db.rows[i] = NoRow /\ given[i] = tx[p].new[i]
           /\ i \notin objects \cup excused /\ ~Settled(i)
<1>1. \A i \in Ids : tx[p].new[i] # NoSum => i \in tx[p].ids
  BY CallOf DEF Shaped
<1>2. \A i \in tx[p].ids : ~Settled(i)
  BY DEF Settled
<1>. QED  BY <1>1, <1>2 DEF FileInv, RowsGiven, DrawnOnce, Bucketed

(* INSERT. *)
LEMMA PutKeeps ==
  ASSUME FileInv, NEW p \in Procs, Put(p), AsyncTyped'
  PROVE  FileInv'
<1> DEFINE r == [tx[p] EXCEPT !.pc = "commit", !.result = "ids"]
<1>1. /\ tx[p].pc = "work" /\ tx[p].op = "put_many" /\ writer = NoProc /\ writer' = p
      /\ draft' \in PutDrafts(tx[p].new) /\ tx' = [tx EXCEPT ![p] = r]
      /\ UNCHANGED <<mode, schema, db, objects, excused, given>>
  BY DEF Put, At, Write, bucketVars
<1>2. /\ tx[p] \in Call /\ tx[p].applied = {} /\ tx[p].todo = {} /\ tx[p].got = {} /\ ~tx[p].begun
      /\ \A i \in Ids : i \in tx[p].ids <=> tx[p].new[i] # NoSum
  BY <1>1, CallOf DEF Shaped, Answered, Pending
<1>3. /\ r \in Call /\ r.op = "put_many" /\ r.pc = "commit" /\ r.ids = tx[p].ids /\ r.new = tx[p].new
      /\ r.applied = {} /\ r.todo = {} /\ r.got = {} /\ ~r.begun /\ r.result = "ids"
  BY <1>1, <1>2 DEF Call
<1>4. draft' \in View
  <2>1. db \in View /\ Numbered(db) /\ Counted(db)
    BY DEF FileInv, Types
  <2>2. tx[p].new \in [Ids -> Sums \cup {NoSum}]
    BY <1>2 DEF Call
  <2>3. Pending(tx[p])
    BY <1>1 DEF Pending
  <2>4. \A i \in Ids : tx[p].new[i] # NoSum => db.rows[i] = NoRow
    BY <2>3, PutRowsAreNew
  <2>. QED  BY <1>1, <2>1, <2>2, <2>4, PutDraftGood
<1> HIDE DEF r
<1>5. Shaped(r) /\ Holding(r)
  BY <1>2, <1>3 DEF Shaped, Holding, Pending, Tier
<1>6. r.op # "delete_many" /\ r.op # Tier /\ r.op \in {"put_many", "delete_many", Tier}
  BY <1>3 DEF Tier
<1>. QED  BY <1>1, <1>3, <1>4, <1>5, <1>6, AcquireKeeps

(* DELETE. *)
LEMMA DeleteKeeps ==
  ASSUME FileInv, NEW p \in Procs, Delete(p), AsyncTyped'
  PROVE  FileInv'
<1> DEFINE todo == {i \in tx[p].ids : Tiered(db, i)}
           r == [tx[p] EXCEPT !.pc = "commit", !.result = "ids", !.todo = todo]
<1>1. /\ tx[p].pc = "work" /\ tx[p].op = "delete_many" /\ writer = NoProc /\ writer' = p
      /\ draft' = DeleteDraft(tx[p].ids) /\ tx' = [tx EXCEPT ![p] = r]
      /\ UNCHANGED <<mode, schema, db, objects, excused, given>>
  BY DEF Delete, At, Write, bucketVars
<1>2. /\ tx[p] \in Call /\ tx[p].applied = {} /\ tx[p].got = {} /\ ~tx[p].begun /\ tx[p].ids \in SUBSET Ids
  BY <1>1, CallOf DEF Shaped, Answered, Call
<1>3. todo \subseteq Ids
  BY <1>2
<1> HIDE DEF todo
<1>4. /\ r \in Call /\ r.op = "delete_many" /\ r.pc = "commit" /\ r.ids = tx[p].ids /\ r.new = tx[p].new
      /\ r.applied = {} /\ r.todo = todo /\ r.got = {} /\ ~r.begun /\ r.result = "ids"
  BY <1>1, <1>2, <1>3 DEF Call
<1>5. draft' \in View
  <2>1. db \in View /\ Numbered(db) /\ Counted(db)
    BY DEF FileInv, Types
  <2>. QED  BY <1>1, <1>2, <2>1, DeleteDraftGood
<1> HIDE DEF r
<1>6. Shaped(r) /\ Holding(r)
  BY <1>4 DEF Shaped, Holding, Pending, Tier
<1>7. r.op # "put_many" /\ r.op # Tier /\ r.op \in {"put_many", "delete_many", Tier}
  BY <1>4 DEF Tier
<1>8. draft' = DeleteDraft(r.ids) /\ r.todo = {i \in r.ids : Tiered(db, i)}
  BY <1>1, <1>4 DEF todo
<1>. QED  BY <1>1, <1>4, <1>5, <1>6, <1>7, <1>8, AcquireKeeps

(* BEGIN IMMEDIATE and the SELECT of a tiering. *)
LEMMA SelectForTieringKeeps ==
  ASSUME FileInv, NEW p \in Procs, SelectForTiering(p), AsyncTyped'
  PROVE  FileInv'
<1> DEFINE r == [tx[p] EXCEPT !.pc = "upload"]
<1>1. /\ tx[p].pc = "work" /\ tx[p].op = Tier /\ writer = NoProc
      /\ UNCHANGED <<mode, schema, db, objects, excused, given>>
      /\ \E i \in tx[p].ids :
           \/ tx' = [tx EXCEPT ![p] = Finish(tx[p], "None")] /\ UNCHANGED <<writer, draft>>
           \/ tx' = [tx EXCEPT ![p] = Finish(tx[p], "False")] /\ UNCHANGED <<writer, draft>>
           \/ /\ Stored(db, i) /\ ~Tiered(db, i)
              /\ tx' = [tx EXCEPT ![p] = r] /\ writer' = p /\ draft' = db
  BY DEF SelectForTiering, At, Write, Reads, fileVars, bucketVars, Tier
<1>2. /\ tx[p] \in Call /\ tx[p].applied = {} /\ tx[p].got = {} /\ tx[p].todo = {} /\ ~tx[p].begun
      /\ \E i \in Ids : tx[p].ids = {i}
  BY <1>1, CallOf DEF Shaped, Answered, Tier
<1>3. schema \in BOOLEAN /\ db \in View
  BY DEF FileInv, Types, TypeOK
<1>4. ASSUME NEW result \in {"None", "False"}, tx' = [tx EXCEPT ![p] = Finish(tx[p], result)],
             UNCHANGED <<writer, draft>>
      PROVE  FileInv'
  BY <1>1, <1>2, <1>3, <1>4, EndKeeps
<1>5. ASSUME NEW i \in tx[p].ids, Stored(db, i), ~Tiered(db, i),
             tx' = [tx EXCEPT ![p] = r], writer' = p, draft' = db
      PROVE  FileInv'
  <2>1. /\ r \in Call /\ r.op = Tier /\ r.pc = "upload" /\ r.ids = tx[p].ids /\ r.new = tx[p].new
        /\ r.applied = {} /\ r.todo = {} /\ r.got = {} /\ ~r.begun
    BY <1>1, <1>2 DEF Call
  <2> HIDE DEF r
  <2>2. Shaped(r) /\ Holding(r)
    BY <1>2, <2>1 DEF Shaped, Holding, Pending, Tier
  <2>3. db.rows[i].backend = "sqlite"
    BY <1>2, <1>3, <1>5 DEF View, Row, Backend, Stored, Tiered
  <2>4. \A j \in r.ids : db.rows[j].backend = "sqlite"
    BY <1>2, <1>5, <2>1, <2>3
  <2>5. r.op # "put_many" /\ r.op # "delete_many" /\ r.op \in {"put_many", "delete_many", Tier}
    BY <2>1 DEF Tier
  <2>. QED  BY <1>1, <1>3, <1>5, <2>1, <2>2, <2>4, <2>5, AcquireKeeps
<1>. QED  BY <1>1, <1>4, <1>5

(* The upload of a tiering, and the UPDATE after it. *)
LEMMA UploadKeeps ==
  ASSUME FileInv, NEW p \in Procs, Upload(p), AsyncTyped'
  PROVE  FileInv'
<1> DEFINE c == tx[p]
           r == [tx[p] EXCEPT !.pc = "commit", !.result = "True"]
<1>1. /\ c.pc = "upload" /\ objects' = objects \cup c.ids
      /\ \E i \in c.ids : draft' = MarkTiered(draft, i)
      /\ tx' = [tx EXCEPT ![p] = r]
      /\ UNCHANGED <<mode, schema, db, writer, excused, given>>
  BY DEF Upload
<1>2. /\ c \in Call /\ c.op = Tier /\ c.applied = {} /\ c.got = {} /\ c.todo = {} /\ ~c.begun
      /\ writer = p /\ schema
      /\ \E i \in Ids : c.ids = {i}
      /\ \A i \in c.ids : db.rows[i].backend = "sqlite" /\ draft = db
  BY <1>1, CallOf DEF Shaped, Answered, Drafted, Holding, Tabled, Tier
<1>3. PICK i \in Ids : c.ids = {i}
  BY <1>2
<1>4. /\ db.rows[i].backend = "sqlite" /\ draft = db /\ draft' = MarkTiered(db, i)
      /\ objects' = objects \cup {i}
  BY <1>1, <1>2, <1>3
<1>5. Stored(db, i) /\ ~Tiered(db, i) /\ Settled(i)
  BY <1>4 DEF Stored, Tiered, FileInv, RowsGiven
<1>6. draft' \in View
  BY <1>4, <1>5, TierDraftGood DEF FileInv, Types
<1>7. /\ r \in Call /\ r.op = Tier /\ r.pc = "commit" /\ r.ids = {i}
      /\ r.applied = {} /\ r.todo = {} /\ r.got = {} /\ ~r.begun /\ r.result = "True"
  BY <1>1, <1>2, <1>3 DEF Call
<1> HIDE DEF r
<1>8. \A q \in Procs : tx'[q] = IF q = p THEN r ELSE tx[q]
  BY <1>1 DEF FileInv, Types, TypeOK
<1>9. Types'
  <2>1. tx' \in [Procs -> Call]
    BY <1>1, <1>7 DEF FileInv, Types, TypeOK
  <2>. QED  BY <1>1, <1>4, <1>6, <2>1 DEF FileInv, Types, TypeOK, AsyncTyped, View
<1>10. DrawnOnce' /\ \A j \in Ids : Settled(j) => Settled(j)'
  <2>1. ~Pending(r)
    BY <1>7 DEF Pending, Tier
  <2>. QED  BY <1>1, <2>1, DrawnStays
<1>11. \A j \in Ids : (Stored(db, j)' <=> Stored(db, j)) /\ (Tiered(db, j)' <=> Tiered(db, j))
  BY <1>1 DEF Stored, Tiered
<1>12. RowsGiven'
  BY <1>1, <1>10, <1>11 DEF FileInv, RowsGiven
<1>13. Numbered(db)' /\ Counted(db)'
  BY <1>1 DEF FileInv, Numbered, Counted, Stored, Exists, RowsOf
<1>14. ASSUME NEW q \in Procs, q # p PROVE tx'[q] = tx[q] /\ ~Holding(tx[q])
  BY <1>2, <1>8, <1>14, CallOf
<1>15. Bucketed'
  <2>1. objects \cup excused \subseteq Ids
    BY DEF FileInv, Types, TypeOK
  <2>2. \A j \in objects' \cup excused' : Settled(j)'
    BY <1>1, <1>4, <1>5, <1>10, <2>1 DEF FileInv, Bucketed
  <2>3. NoLostBytes'
    BY <1>4, <1>11 DEF FileInv, Bucketed, NoLostBytes
  <2>4. ASSUME NEW j \in objects', Stored(db, j)'
        PROVE  Tiered(db, j)' \/ j \in excused' \/ \E q \in Procs : Uploaded(tx'[q], j)
    <3>1. CASE j = i
      BY <1>7, <1>8, <3>1 DEF Uploaded
    <3>2. CASE j # i
      <4>1. \A q \in Procs : ~Uploaded(tx[q], j)
        BY <1>1, <1>14 DEF Uploaded, Holding
      <4>. QED  BY <1>1, <1>4, <1>11, <2>1, <2>4, <3>2, <4>1 DEF FileInv, Bucketed
    <3>. QED  BY <3>1, <3>2
  <2>. QED  BY <2>2, <2>3, <2>4 DEF Bucketed, Uploaded
<1>16. Locked'
  <2>1. ASSUME NEW q \in Procs PROVE writer' = q <=> Holding(tx'[q])
    BY <1>1, <1>2, <1>7, <1>8, <1>14 DEF Holding
  <2>. QED  BY <2>1 DEF Locked, Holding
<1>17. ASSUME NEW q \in Procs, q # p PROVE Kept(q)'
  <2>1. \A j \in Ids : Gone(j) => Gone(j)' /\ (j \in objects' => j \in objects)
    BY <1>4, <1>5, <1>10, <1>11 DEF Gone
  <2>2. tx'[q] = tx[q] /\ ~Holding(tx[q])
    BY <1>14, <1>17
  <2>. QED  BY <1>1, <2>1, <2>2, KeptStays
<1>18. Kept(p)'
  <2>1. tx'[p] = r
    BY <1>8
  <2>2. Shaped(tx[p])' /\ Answered(tx[p])' /\ Tabled(tx[p])'
    BY <1>1, <1>2, <1>7, <2>1 DEF Shaped, Answered, Tabled, Pending, Tier
  <2>3. Drafted(tx[p])'
    <3>1. MarkTiered(db, i)' = MarkTiered(db, i)
      BY <1>1 DEF MarkTiered
    <3>2. \A j \in r.ids : db'.rows[j].backend = "sqlite" /\ draft' = MarkTiered(db', j) /\ j \in objects'
      BY <1>1, <1>4, <1>7, <3>1
    <3>3. r.op # "put_many" /\ r.op # "delete_many" /\ r.pc # "upload"
      BY <1>7 DEF Tier
    <3>. QED  BY <2>1, <3>2, <3>3 DEF Drafted
  <2>4. Removed(tx[p])' /\ Streamed(p, tx[p])'
    BY <1>7, <2>1 DEF Removed, Streamed, Tier
  <2>. QED  BY <2>2, <2>3, <2>4 DEF Kept
<1>19. \A q \in Procs : Kept(q)'
  BY <1>17, <1>18
<1>. QED  BY <1>9, <1>10, <1>12, <1>13, <1>15, <1>16, <1>19 DEF FileInv

-----------------------------------------------------------------------------
(* COMMIT *)

(* What the draft of a put that is about to commit changes. *)
LEMMA PutCommits ==
  ASSUME FileInv, NEW p \in Procs, tx[p].pc = "commit", tx[p].op = "put_many"
  PROVE  /\ Numbered(draft) /\ Counted(draft) /\ Changed = tx[p].ids
         /\ \A i \in Ids :
              IF i \in tx[p].ids
              THEN /\ draft.rows[i].backend = "sqlite" /\ draft.rows[i].sum = given[i]
                   /\ given[i] # NoSum /\ db.rows[i] = NoRow
                   /\ i \notin objects \cup excused /\ ~Settled(i)
              ELSE draft.rows[i] = db.rows[i]
<1>1. Pending(tx[p]) /\ Holding(tx[p]) /\ tx[p] \in Call
  BY CallOf DEF Pending, Holding
<1>2. tx[p].new \in [Ids -> Sums \cup {NoSum}] /\ draft \in PutDrafts(tx[p].new)
      /\ tx[p].ids \subseteq Ids /\ \A i \in Ids : i \in tx[p].ids <=> tx[p].new[i] # NoSum
  BY <1>1, CallOf DEF Drafted, Shaped, Call
<1>3. \A i \in Ids : tx[p].new[i] # NoSum =>
        /\ i \in tx[p].ids /\ db.rows[i] = NoRow /\ given[i] = tx[p].new[i]
        /\ i \notin objects \cup excused /\ ~Settled(i)
  BY <1>1, PutRowsAreNew
<1>4. db \in View /\ Numbered(db) /\ Counted(db)
  BY DEF FileInv, Types
<1>5. \A i \in Ids : tx[p].new[i] # NoSum => db.rows[i] = NoRow
  BY <1>3
<1>6. /\ Numbered(draft) /\ Counted(draft)
      /\ \A i \in Ids : tx[p].new[i] = NoSum => draft.rows[i] = db.rows[i]
      /\ \A i \in Ids : tx[p].new[i] # NoSum =>
           draft.rows[i].sum = tx[p].new[i] /\ draft.rows[i].backend = "sqlite"
  BY <1>2, <1>4, <1>5, PutDraftGood
<1>7. \A i \in Ids :
        IF i \in tx[p].ids
        THEN /\ draft.rows[i].backend = "sqlite" /\ draft.rows[i].sum = given[i]
             /\ given[i] # NoSum /\ db.rows[i] = NoRow
             /\ i \notin objects \cup excused /\ ~Settled(i)
        ELSE draft.rows[i] = db.rows[i]
  BY <1>2, <1>3, <1>6
<1>8. \A i \in Ids : i \in tx[p].ids <=> db.rows[i] # draft.rows[i]
  BY <1>7 DEF NoRow
<1>9. Changed = tx[p].ids
  BY <1>2, <1>8 DEF Changed
<1>. QED  BY <1>6, <1>7, <1>9

(* The same of a delete. *)
LEMMA DeleteCommits ==
  ASSUME FileInv, NEW p \in Procs, tx[p].pc = "commit", tx[p].op = "delete_many"
  PROVE  /\ Numbered(draft) /\ Counted(draft) /\ Changed = {i \in tx[p].ids : Stored(db, i)}
         /\ \A i \in Ids : draft.rows[i] = IF i \in tx[p].ids THEN NoRow ELSE db.rows[i]
         /\ tx[p].todo = {i \in tx[p].ids : Tiered(db, i)}
<1>1. Holding(tx[p]) /\ tx[p] \in Call
  BY CallOf DEF Holding
<1>2. draft = DeleteDraft(tx[p].ids) /\ tx[p].ids \in SUBSET Ids
      /\ tx[p].todo = {i \in tx[p].ids : Tiered(db, i)}
  BY <1>1, CallOf DEF Drafted, Call
<1>3. db \in View /\ Numbered(db) /\ Counted(db)
  BY DEF FileInv, Types
<1>4. /\ Numbered(draft) /\ Counted(draft)
      /\ \A i \in Ids : draft.rows[i] = IF i \in tx[p].ids THEN NoRow ELSE db.rows[i]
  BY <1>2, <1>3, DeleteDraftGood
<1>5. \A i \in Ids : /\ Stored(db, i) => db.rows[i] # NoRow
                     /\ ~Stored(db, i) => db.rows[i] = NoRow
  BY DEF FileInv, RowsGiven, Stored, NoRow
<1>6. \A i \in Ids : db.rows[i] # draft.rows[i] <=> i \in tx[p].ids /\ Stored(db, i)
  BY <1>4, <1>5
<1>7. Changed = {i \in tx[p].ids : Stored(db, i)}
  BY <1>2, <1>6 DEF Changed
<1>. QED  BY <1>2, <1>4, <1>7

(* The same of a tiering. *)
LEMMA TierCommits ==
  ASSUME FileInv, NEW p \in Procs, tx[p].pc = "commit", tx[p].op = Tier
  PROVE  /\ Numbered(draft) /\ Counted(draft) /\ Changed = tx[p].ids
         /\ \E i \in Ids :
              /\ tx[p].ids = {i} /\ i \in objects /\ Stored(db, i) /\ Tiered(draft, i)
              /\ draft.rows[i].sum = db.rows[i].sum
              /\ \A j \in Ids : j # i => draft.rows[j] = db.rows[j]
<1>1. PICK i \in Ids : tx[p].ids = {i}
  BY CallOf DEF Shaped
<1>2. db.rows[i].backend = "sqlite" /\ draft = MarkTiered(db, i) /\ i \in objects
  BY <1>1, CallOf DEF Drafted, Holding
<1>3. db \in View /\ Numbered(db) /\ Counted(db) /\ Stored(db, i)
  BY <1>2 DEF FileInv, Types, Stored
<1>4. /\ Numbered(draft) /\ Counted(draft)
      /\ \A j \in Ids : draft.rows[j].sum = db.rows[j].sum
      /\ \A j \in Ids : j # i => draft.rows[j] = db.rows[j]
      /\ draft.rows[i].backend = "object_storage"
  BY <1>2, <1>3, TierDraftGood
<1>5. \A j \in Ids : db.rows[j] # draft.rows[j] <=> j = i
  BY <1>2, <1>4
<1>6. Changed = {i}
  BY <1>5 DEF Changed
<1>. QED  BY <1>1, <1>2, <1>3, <1>4, <1>6 DEF Tiered

(* Every commit keeps what is settled about rows, numbers and objects.      *)
LEMMA CommitFacts ==
  ASSUME FileInv, NEW p \in Procs, tx[p].pc = "commit"
  PROVE  /\ Numbered(draft) /\ Counted(draft)
         /\ \A i \in Ids : /\ Stored(draft, i) => draft.rows[i].sum = given[i] /\ given[i] # NoSum
                           /\ Stored(draft, i) => Settled(i) \/ (Pending(tx[p]) /\ i \in tx[p].ids)
                           /\ ~Stored(draft, i) => draft.rows[i] = NoRow
         /\ \A i \in Ids : Settled(i) /\ ~Stored(db, i) => ~Stored(draft, i)
         /\ \A i \in Ids : Tiered(draft, i) => i \in objects
         /\ \A i \in objects : Stored(draft, i) => Tiered(draft, i) \/ i \in excused
         /\ tx[p].op = "put_many" \/ tx[p].op = Tier => Changed = tx[p].ids
         /\ tx[p].op = "delete_many" =>
              /\ \A i \in Changed : Settled(i) /\ ~Stored(draft, i)
              /\ tx[p].todo \subseteq Changed
              /\ Changed \cap objects \subseteq excused \cup tx[p].todo
<1>1. ASSUME NEW i \in Ids
      PROVE  /\ Stored(db, i) => db.rows[i].sum = given[i] /\ given[i] # NoSum /\ Settled(i)
             /\ ~Stored(db, i) => db.rows[i] = NoRow
             /\ Tiered(db, i) => i \in objects /\ Stored(db, i)
  BY DEF FileInv, RowsGiven, Bucketed, NoLostBytes, Settled, Stored, Tiered
<1>2. ASSUME NEW i \in objects, Stored(db, i)
      PROVE  Tiered(db, i) \/ i \in excused \/ (tx[p].op = Tier /\ tx[p].ids = {i})
  <2>1. \A q \in Procs : Uploaded(tx[q], i) => q = p
    BY CallOf DEF Uploaded, Holding
  <2>. QED  BY <1>2, <2>1 DEF FileInv, Bucketed, Uploaded
<1>3. objects \subseteq Ids
  BY DEF FileInv, Types, TypeOK
<1>4. tx[p].op \in {"put_many", "delete_many", Tier}
  BY CallOf DEF Shaped
<1>5. CASE tx[p].op = "put_many"
  <2>1. Pending(tx[p]) /\ tx[p].op # Tier /\ tx[p].op # "delete_many"
    BY <1>5 DEF Pending, Tier
  <2>2. /\ Numbered(draft) /\ Counted(draft) /\ Changed = tx[p].ids
        /\ \A i \in Ids :
             IF i \in tx[p].ids
             THEN /\ draft.rows[i].backend = "sqlite" /\ draft.rows[i].sum = given[i]
                  /\ given[i] # NoSum /\ db.rows[i] = NoRow
                  /\ i \notin objects \cup excused /\ ~Settled(i)
             ELSE draft.rows[i] = db.rows[i]
    BY <1>5, PutCommits
  <2>3. ASSUME NEW i \in Ids
        PROVE  /\ Stored(draft, i) => draft.rows[i].sum = given[i] /\ given[i] # NoSum
               /\ Stored(draft, i) => Settled(i) \/ i \in tx[p].ids
               /\ ~Stored(draft, i) => draft.rows[i] = NoRow
               /\ Settled(i) /\ ~Stored(db, i) => ~Stored(draft, i)
               /\ Tiered(draft, i) => i \in objects
               /\ i \in objects /\ Stored(draft, i) => Tiered(draft, i) \/ i \in excused
    <3>1. CASE i \in tx[p].ids
      BY <2>2, <3>1 DEF Stored, Tiered
    <3>2. CASE i \notin tx[p].ids
      <4>1. draft.rows[i] = db.rows[i]
        BY <2>2, <3>2
      <4>. QED  BY <1>1, <1>2, <2>1, <4>1 DEF Stored, Tiered
    <3>. QED  BY <3>1, <3>2
  <2>. QED  BY <1>3, <2>1, <2>2, <2>3
<1>6. CASE tx[p].op = "delete_many"
  <2>1. tx[p].op # Tier /\ tx[p].op # "put_many" /\ tx[p].ids \subseteq Ids
    BY <1>6, CallOf DEF Tier, Call
  <2>2. /\ Numbered(draft) /\ Counted(draft) /\ Changed = {i \in tx[p].ids : Stored(db, i)}
        /\ \A i \in Ids : draft.rows[i] = IF i \in tx[p].ids THEN NoRow ELSE db.rows[i]
        /\ tx[p].todo = {i \in tx[p].ids : Tiered(db, i)}
    BY <1>6, DeleteCommits
  <2>3. ASSUME NEW i \in Ids
        PROVE  /\ Stored(draft, i) => draft.rows[i].sum = given[i] /\ given[i] # NoSum
               /\ Stored(draft, i) => Settled(i)
               /\ ~Stored(draft, i) => draft.rows[i] = NoRow
               /\ Settled(i) /\ ~Stored(db, i) => ~Stored(draft, i)
               /\ Tiered(draft, i) => i \in objects
               /\ i \in objects /\ Stored(draft, i) => Tiered(draft, i) \/ i \in excused
               /\ i \in tx[p].ids => ~Stored(draft, i)
    <3>1. CASE i \in tx[p].ids
      BY <2>2, <3>1 DEF Stored, Tiered, NoRow
    <3>2. CASE i \notin tx[p].ids
      <4>1. draft.rows[i] = db.rows[i]
        BY <2>2, <3>2
      <4>. QED  BY <1>1, <1>2, <2>1, <3>2, <4>1 DEF Stored, Tiered
    <3>. QED  BY <3>1, <3>2
  <2>4. \A i \in Changed : Settled(i) /\ ~Stored(draft, i)
    BY <1>1, <2>1, <2>2, <2>3
  <2>5. tx[p].todo \subseteq Changed
    BY <1>1, <2>1, <2>2
  <2>6. Changed \cap objects \subseteq excused \cup tx[p].todo
    BY <1>2, <2>1, <2>2
  <2>. QED  BY <1>3, <2>1, <2>2, <2>3, <2>4, <2>5, <2>6
<1>7. CASE tx[p].op = Tier
  <2>1. tx[p].op # "delete_many" /\ tx[p].op # "put_many"
    BY <1>7 DEF Tier
  <2>2. PICK i \in Ids :
          /\ tx[p].ids = {i} /\ i \in objects /\ Stored(db, i) /\ Tiered(draft, i)
          /\ draft.rows[i].sum = db.rows[i].sum
          /\ \A j \in Ids : j # i => draft.rows[j] = db.rows[j]
    BY <1>7, TierCommits
  <2>3. Numbered(draft) /\ Counted(draft) /\ Changed = tx[p].ids
    BY <1>7, TierCommits
  <2>4. ASSUME NEW j \in Ids
        PROVE  /\ Stored(draft, j) => draft.rows[j].sum = given[j] /\ given[j] # NoSum
               /\ Stored(draft, j) => Settled(j)
               /\ ~Stored(draft, j) => draft.rows[j] = NoRow
               /\ Settled(j) /\ ~Stored(db, j) => ~Stored(draft, j)
               /\ Tiered(draft, j) => j \in objects
               /\ j \in objects /\ Stored(draft, j) => Tiered(draft, j) \/ j \in excused
    <3>1. CASE j = i
      BY <1>1, <2>2, <3>1 DEF Stored, Tiered
    <3>2. CASE j # i
      <4>1. draft.rows[j] = db.rows[j] /\ tx[p].ids # {j}
        BY <2>2, <3>2
      <4>. QED  BY <1>1, <1>2, <4>1 DEF Stored, Tiered
    <3>. QED  BY <3>1, <3>2
  <2>. QED  BY <1>3, <2>1, <2>3, <2>4
<1>. QED  BY <1>4, <1>5, <1>6, <1>7

(* The draft becomes the state; the call ends, or has objects to remove.    *)
LEMMA InstallKeeps ==
  ASSUME FileInv, NEW p \in Procs, tx[p].pc = "commit", writer = p,
         NEW r \in Call, tx' = [tx EXCEPT ![p] = r],
         r.op = tx[p].op, r.ids = tx[p].ids, r.applied = Changed, r.got = {}, ~r.begun,
         \/ r.pc = "cleanup" /\ r.op = "delete_many" /\ r.todo = tx[p].todo /\ r.result = "ids"
         \/ r.pc = "returned" /\ r.todo = {} /\ r.result = "Cancelled"
         \/ /\ r.pc = "returned" /\ r.todo = {} /\ r.result = tx[p].result
            /\ tx[p].todo = {} \/ ~r.own,
         db' = draft, writer' = NoProc, draft' = Empty,
         AsyncTyped', UNCHANGED <<mode, schema, objects, excused, given>>
  PROVE  FileInv'
<1>1. \A q \in Procs : tx'[q] = IF q = p THEN r ELSE tx[q]
  BY DEF FileInv, Types, TypeOK
<1>2. Empty \in View
  BY DEF Empty, View, NoRow, NoBlob, Row, Blob, Backend
<1>3. Types'
  <2>1. tx' \in [Procs -> Call]
    BY DEF FileInv, Types, TypeOK
  <2>. QED  BY <1>2, <2>1 DEF FileInv, Types, TypeOK, AsyncTyped, View
<1>4. /\ tx[p].op \in {"put_many", "delete_many", Tier}
      /\ tx[p].result = (IF tx[p].op = Tier THEN "True" ELSE "ids") /\ schema
  BY CallOf DEF Shaped, Tabled, Tier
<1>5. ~Pending(r) /\ ~Holding(r)
  BY DEF Pending, Holding
<1>6. DrawnOnce' /\ \A i \in Ids : Settled(i) => Settled(i)'
  BY <1>5, DrawnStays
<1>7. ASSUME NEW i \in Ids, Pending(tx[p]), i \in tx[p].ids, given[i] # NoSum PROVE Settled(i)'
  <2> SUFFICES ASSUME NEW q \in Procs, Pending(tx'[q]), i \in tx'[q].ids
               PROVE  FALSE
    BY <1>7 DEF Settled, Pending
  <2>1. CASE q = p
    BY <1>1, <1>5, <2>1
  <2>2. CASE q # p
    <3>1. tx'[q] = tx[q]
      BY <1>1, <2>2
    <3>. QED  BY <1>7, <2>2, <3>1 DEF FileInv, DrawnOnce
  <2>. QED  BY <2>1, <2>2
<1>8. /\ Numbered(draft) /\ Counted(draft)
      /\ \A i \in Ids : /\ Stored(draft, i) => draft.rows[i].sum = given[i] /\ given[i] # NoSum
                        /\ Stored(draft, i) => Settled(i) \/ (Pending(tx[p]) /\ i \in tx[p].ids)
                        /\ ~Stored(draft, i) => draft.rows[i] = NoRow
      /\ \A i \in Ids : Settled(i) /\ ~Stored(db, i) => ~Stored(draft, i)
      /\ \A i \in Ids : Tiered(draft, i) => i \in objects
      /\ \A i \in objects : Stored(draft, i) => Tiered(draft, i) \/ i \in excused
  BY CommitFacts
<1>9. \A i \in Ids : (Stored(db, i)' <=> Stored(draft, i)) /\ (Tiered(db, i)' <=> Tiered(draft, i))
  BY DEF Stored, Tiered
<1>10. RowsGiven'
  <2>1. ASSUME NEW i \in Ids
        PROVE  /\ Stored(db, i)' => Settled(i)' /\ db'.rows[i].sum = given'[i]
               /\ ~Stored(db, i)' => db'.rows[i] = NoRow
    BY <1>6, <1>7, <1>8, <1>9
  <2>. QED  BY <2>1 DEF RowsGiven
<1>11. Numbered(db)' /\ Counted(db)'
  BY <1>8 DEF Numbered, Counted, Stored, Exists, RowsOf
<1>12. objects \cup excused \subseteq Ids
  BY DEF FileInv, Types, TypeOK
<1>13. Bucketed'
  <2>1. \A i \in objects' \cup excused' : Settled(i)'
    BY <1>6, <1>12 DEF FileInv, Bucketed
  <2>2. NoLostBytes'
    BY <1>8, <1>9 DEF NoLostBytes
  <2>3. \A i \in objects' : Stored(db, i)' => Tiered(db, i)' \/ i \in excused'
    BY <1>8, <1>9, <1>12
  <2>. QED  BY <2>1, <2>2, <2>3 DEF Bucketed
<1>14. ASSUME NEW q \in Procs, q # p PROVE tx'[q] = tx[q] /\ ~Holding(tx[q])
  BY <1>1, <1>14, CallOf
<1>15. Locked'
  <2>1. ASSUME NEW q \in Procs PROVE writer' = q <=> Holding(tx'[q])
    BY <1>1, <1>5, <1>14, CallOf
  <2>. QED  BY <2>1 DEF Locked, Holding
<1>16. \A i \in Ids : Gone(i) => Gone(i)'
  BY <1>6, <1>8, <1>9 DEF Gone
<1>17. ASSUME NEW q \in Procs, q # p PROVE Kept(q)'
  <2>1. tx'[q] = tx[q] /\ ~Holding(tx[q])
    BY <1>14, <1>17
  <2>. QED  BY <1>16, <2>1, KeptStays
<1>18. Kept(p)'
  <2>1. tx'[p] = r
    BY <1>1
  <2>2. Shaped(r)
    <3>1. r.op # "get_stream" /\ r.op # "get_many" /\ (r.op = Tier => \E i \in Ids : r.ids = {i})
      BY <1>4, CallOf DEF Shaped, Tier
    <3>. QED  BY <1>5, <3>1 DEF Shaped
  <2>3. Answered(r)
    <3>1. r.op = "put_many" \/ r.op = Tier => r.applied = r.ids
      BY CommitFacts
    <3>2. r.result \in {"ids", "True", "Cancelled"} /\ r.op # "get_stream" /\ r.op # "get_many"
      BY <1>4 DEF Tier
    <3>. QED  BY <3>1, <3>2 DEF Answered
  <2>4. Removed(tx[p])'
    <3>1. r.op = "delete_many" =>
            /\ \A i \in Changed : Settled(i) /\ ~Stored(draft, i)
            /\ tx[p].todo \subseteq Changed
            /\ Changed \cap objects \subseteq excused \cup tx[p].todo
      BY CommitFacts
    <3>2. r.op = "delete_many" => \A i \in r.applied : Gone(i)'
      <4>1. Changed \subseteq Ids
        BY DEF Changed
      <4>. QED  BY <1>6, <1>9, <3>1, <4>1 DEF Gone
    <3>3. r.op = "delete_many" /\ r.pc = "cleanup" =>
            r.todo \subseteq r.applied /\ r.applied \cap objects' \subseteq excused' \cup r.todo
      BY <3>1
    <3>4. r.op = "delete_many" /\ r.pc = "returned" /\ r.own /\ r.result = "ids"
            => r.applied \cap objects' \subseteq excused'
      BY <3>1
    <3>. QED  BY <2>1, <3>2, <3>3, <3>4 DEF Removed
  <2>5. Shaped(tx[p])' /\ Answered(tx[p])' /\ Tabled(tx[p])' /\ Drafted(tx[p])'
    BY <1>4, <1>5, <2>1, <2>2, <2>3 DEF Shaped, Answered, Tabled, Drafted, Pending, Holding
  <2>6. Streamed(p, tx[p])'
    BY <1>4, <2>1 DEF Streamed, Tier
  <2>. QED  BY <2>4, <2>5, <2>6 DEF Kept
<1>19. \A q \in Procs : Kept(q)'
  BY <1>17, <1>18
<1>. QED  BY <1>3, <1>6, <1>10, <1>11, <1>13, <1>15, <1>19 DEF FileInv

(* The end of a successful attempt, of a client or of a task, also of one   *)
(* that was cancelled while its commit ran.                                 *)
LEMMA CommitKeeps ==
  ASSUME FileInv, NEW p \in Procs,
         \/ Commit(p) \/ AsyncCommit(p)
         \/ tx[p].pc = "commit" /\ Install(p, Finish(tx[p], "Cancelled")) /\ UNCHANGED <<objects, excused, given>>,
         AsyncTyped'
  PROVE  FileInv'
<1> DEFINE c == tx[p]
           cleanup == [c EXCEPT !.pc = "cleanup"]
           returned == [c EXCEPT !.pc = "returned"]
           whole(r) == [r EXCEPT !.applied = @ \cup Changed]
<1>1. /\ c.pc = "commit" /\ writer = p /\ db' = draft /\ writer' = NoProc /\ draft' = Empty
      /\ UNCHANGED <<mode, schema, objects, excused, given>>
  BY DEF Commit, AsyncCommit, Install, bucketVars
<1>2. \/ c.todo # {} /\ tx' = [tx EXCEPT ![p] = whole(cleanup)]
      \/ c.todo = {} /\ tx' = [tx EXCEPT ![p] = whole(returned)]
      \/ (c.todo = {} \/ ~c.own) /\ tx' = [tx EXCEPT ![p] = whole(Finish(c, c.result))]
      \/ tx' = [tx EXCEPT ![p] = whole(Finish(c, "Cancelled"))]
  <2>1. CASE Commit(p)
    BY <2>1 DEF Commit, Install
  <2>2. CASE AsyncCommit(p)
    BY <2>2 DEF AsyncCommit, Install
  <2>3. CASE Install(p, Finish(tx[p], "Cancelled"))
    BY <2>3 DEF Install
  <2>. QED  BY <2>1, <2>2, <2>3
<1>3. /\ c \in Call /\ c.applied = {} /\ c.got = {} /\ ~c.begun /\ c.result \in {"ids", "True"}
      /\ c.op \in {"put_many", "delete_many", Tier} /\ (c.todo # {} => c.op = "delete_many" /\ c.result = "ids")
  BY <1>1, CallOf DEF Shaped, Answered, Tier
<1>4. Changed \in SUBSET Ids
  BY DEF Changed
<1>5. ASSUME NEW r0 \in Call, r0.op = c.op, r0.ids = c.ids, r0.applied = {}, r0.got = {}, ~r0.begun
      PROVE  /\ whole(r0) \in Call /\ whole(r0).op = c.op /\ whole(r0).ids = c.ids
             /\ whole(r0).applied = Changed /\ whole(r0).got = {} /\ ~whole(r0).begun
             /\ whole(r0).pc = r0.pc /\ whole(r0).todo = r0.todo /\ whole(r0).result = r0.result
             /\ whole(r0).own = r0.own
  BY <1>4, <1>5 DEF Call
<1> HIDE DEF whole
<1>6. CASE c.todo # {} /\ tx' = [tx EXCEPT ![p] = whole(cleanup)]
  <2>1. /\ cleanup \in Call /\ cleanup.op = c.op /\ cleanup.ids = c.ids /\ cleanup.applied = {}
        /\ cleanup.got = {} /\ ~cleanup.begun /\ cleanup.pc = "cleanup" /\ cleanup.todo = c.todo
        /\ cleanup.result = c.result
    BY <1>3 DEF Call
  <2> HIDE DEF cleanup
  <2> DEFINE r == whole(cleanup)
  <2>2. /\ r \in Call /\ r.op = c.op /\ r.ids = c.ids /\ r.applied = Changed /\ r.got = {} /\ ~r.begun
        /\ r.pc = "cleanup" /\ r.todo = c.todo /\ r.result = "ids" /\ r.op = "delete_many"
    BY <1>3, <1>5, <1>6, <2>1
  <2>3. tx' = [tx EXCEPT ![p] = r]
    BY <1>6
  <2> HIDE DEF r
  <2>. QED  BY <1>1, <2>2, <2>3, InstallKeeps
<1>7. CASE c.todo = {} /\ tx' = [tx EXCEPT ![p] = whole(returned)]
  <2>1. /\ returned \in Call /\ returned.op = c.op /\ returned.ids = c.ids /\ returned.applied = {}
        /\ returned.got = {} /\ ~returned.begun /\ returned.pc = "returned" /\ returned.todo = {}
        /\ returned.result = c.result
    BY <1>3, <1>7 DEF Call
  <2> HIDE DEF returned
  <2> DEFINE r == whole(returned)
  <2>2. /\ r \in Call /\ r.op = c.op /\ r.ids = c.ids /\ r.applied = Changed /\ r.got = {} /\ ~r.begun
        /\ r.pc = "returned" /\ r.todo = {} /\ r.result = c.result
    BY <1>3, <1>5, <2>1
  <2>3. tx' = [tx EXCEPT ![p] = r]
    BY <1>7
  <2> HIDE DEF r
  <2>. QED  BY <1>1, <1>7, <2>2, <2>3, InstallKeeps
<1>8. ASSUME NEW result \in {"ids", "True", "Cancelled"},
             result = "Cancelled" \/ (result = c.result /\ (c.todo = {} \/ ~c.own)),
             tx' = [tx EXCEPT ![p] = whole(Finish(c, result))]
      PROVE  FileInv'
  <2> DEFINE f == Finish(c, result)
             r == whole(f)
  <2>1. /\ f \in Call /\ f.op = c.op /\ f.ids = c.ids /\ f.applied = {}
        /\ f.got = {} /\ ~f.begun /\ f.pc = "returned" /\ f.todo = {}
        /\ f.result = result /\ f.own = c.own
    BY <1>3, FinishType DEF Results
  <2> HIDE DEF f
  <2>2. /\ r \in Call /\ r.op = c.op /\ r.ids = c.ids /\ r.applied = Changed /\ r.got = {} /\ ~r.begun
        /\ r.pc = "returned" /\ r.todo = {} /\ r.result = result /\ r.own = c.own
    BY <1>3, <1>5, <2>1
  <2>3. tx' = [tx EXCEPT ![p] = r]
    BY <1>8 DEF f
  <2> HIDE DEF r
  <2>. QED  BY <1>1, <1>8, <2>2, <2>3, InstallKeeps
<1>. QED  BY <1>2, <1>3, <1>6, <1>7, <1>8

-----------------------------------------------------------------------------
(* ROLLBACK, and the objects of deleted rows *)

(* A call gives up the lock it may hold, or removes objects of deleted rows. *)
LEMMA ReleaseKeeps ==
  ASSUME FileInv, NEW p \in Procs, NEW r \in Call, tx' = [tx EXCEPT ![p] = r],
         writer' = Unlocked(p), draft' = (IF writer = p THEN Empty ELSE draft),
         UNCHANGED <<mode, schema, db, given>>, AsyncTyped',
         objects' \subseteq objects, \A i \in objects : i \in objects' \/ Gone(i),
         excused \subseteq excused', excused' \subseteq Ids, \A i \in excused' : Settled(i),
         \A i \in Ids : Uploaded(tx[p], i) => i \in excused',
         r.pc \in {"idle", "returned", "cleanup"}, r.pc = "cleanup" => schema,
         Shaped(r), Answered(r), Streamed(p, r),
         r.op = "delete_many" => \A i \in r.applied : Gone(i),
         r.op = "delete_many" /\ r.pc = "cleanup" =>
           r.todo \subseteq r.applied /\ r.applied \cap objects' \subseteq excused' \cup r.todo,
         r.op = "delete_many" /\ r.pc = "returned" /\ r.own /\ r.result = "ids"
           => r.applied \cap objects' \subseteq excused'
  PROVE  FileInv'
<1>1. \A q \in Procs : tx'[q] = IF q = p THEN r ELSE tx[q]
  BY DEF FileInv, Types, TypeOK
<1>2. Types'
  <2>1. tx' \in [Procs -> Call]
    BY DEF FileInv, Types, TypeOK
  <2>2. draft' \in View
    BY DEF FileInv, Types, Empty, View, NoRow, NoBlob, Row, Blob, Backend
  <2>3. writer' \in Procs \cup {NoProc}
    BY DEF Unlocked, FileInv, Types, TypeOK
  <2>. QED  BY <2>1, <2>2, <2>3 DEF FileInv, Types, TypeOK, AsyncTyped, View
<1>3. ~Pending(r) /\ ~Holding(r)
  BY DEF Pending, Holding
<1>4. DrawnOnce' /\ \A i \in Ids : Settled(i) => Settled(i)'
  BY <1>3, DrawnStays
<1>5. \A i \in Ids : (Stored(db, i)' <=> Stored(db, i)) /\ (Tiered(db, i)' <=> Tiered(db, i))
  BY DEF Stored, Tiered
<1>6. \A i \in Ids : Gone(i) => Gone(i)'
  BY <1>4, <1>5 DEF Gone
<1>7. RowsGiven'
  BY <1>4, <1>5 DEF FileInv, RowsGiven
<1>8. Numbered(db)' /\ Counted(db)'
  BY DEF FileInv, Numbered, Counted, Stored, Exists, RowsOf
<1>9. objects \subseteq Ids /\ (\A i \in Ids : Stored(db, i) /\ i \in objects => i \in objects')
  BY DEF FileInv, Types, TypeOK, Gone
<1>10. Bucketed'
  <2>1. \A i \in objects' \cup excused' : Settled(i)'
    BY <1>4, <1>9 DEF FileInv, Bucketed
  <2>2. NoLostBytes'
    BY <1>5, <1>9 DEF FileInv, Bucketed, NoLostBytes, Stored, Tiered
  <2>3. ASSUME NEW i \in objects', Stored(db, i)'
        PROVE  Tiered(db, i)' \/ i \in excused' \/ \E q \in Procs : Uploaded(tx'[q], i)
    <3>1. Tiered(db, i) \/ i \in excused \/ \E q \in Procs : Uploaded(tx[q], i)
      BY <1>5, <1>9, <2>3 DEF FileInv, Bucketed
    <3>2. ASSUME NEW q \in Procs, Uploaded(tx[q], i)
          PROVE  i \in excused' \/ Uploaded(tx'[q], i)
      <4>1. CASE q = p
        BY <1>9, <3>2, <4>1
      <4>2. CASE q # p
        BY <1>1, <3>2, <4>2
      <4>. QED  BY <4>1, <4>2
    <3>. QED  BY <1>5, <3>1, <3>2
  <2>. QED  BY <2>1, <2>2, <2>3 DEF Bucketed, Uploaded
<1>11. Locked'
  <2>1. ASSUME NEW q \in Procs PROVE writer' = q <=> Holding(tx'[q])
    <3>1. CASE q = p
      BY <1>1, <1>3, <3>1, CallOf DEF Unlocked
    <3>2. CASE q # p
      BY <1>1, <3>2, CallOf DEF Unlocked
    <3>. QED  BY <3>1, <3>2
  <2>. QED  BY <2>1 DEF Locked, Holding
<1>12. ASSUME NEW q \in Procs, q # p PROVE Kept(q)'
  <2>1. tx'[q] = tx[q]
    BY <1>1, <1>12
  <2>2. Holding(tx[q]) => draft' = draft
    BY <1>12, CallOf
  <2>. QED  BY <1>6, <1>9, <2>1, <2>2, KeptStays
<1>13. Kept(p)'
  <2>1. tx'[p] = r
    BY <1>1
  <2>2. Shaped(tx[p])' /\ Answered(tx[p])' /\ Tabled(tx[p])' /\ Drafted(tx[p])'
    BY <1>3, <2>1 DEF Shaped, Answered, Tabled, Drafted, Pending, Holding
  <2>3. Removed(tx[p])'
    <3>1. r.applied \subseteq Ids
      BY DEF Call
    <3>2. r.op = "delete_many" => \A i \in r.applied : Gone(i)'
      BY <1>6, <3>1
    <3>. QED  BY <2>1, <3>2 DEF Removed
  <2>4. Streamed(p, tx[p])'
    BY <2>1 DEF Streamed
  <2>. QED  BY <2>2, <2>3, <2>4 DEF Kept
<1>14. \A q \in Procs : Kept(q)'
  BY <1>12, <1>13
<1>. QED  BY <1>2, <1>4, <1>7, <1>8, <1>10, <1>11, <1>14 DEF FileInv

(* The images that an abandoned tiering may still upload. *)
LEMMA ForsakingFacts ==
  ASSUME FileInv, NEW p \in Procs
  PROVE  /\ Forsaking(p) \subseteq Ids
         /\ \A i \in Forsaking(p) : Settled(i)
         /\ \A i \in Ids : Uploaded(tx[p], i) => i \in Forsaking(p)
         /\ tx[p].pc = "upload" => Forsaking(p) = tx[p].ids
         /\ AsyncForsaking(p) = Forsaking(p)
<1>1. Forsaking(p) \subseteq Ids
  BY CallOf DEF Forsaking, Call
<1>2. ASSUME NEW i \in Forsaking(p) PROVE Settled(i)
  <2>1. tx[p].op = Tier /\ Holding(tx[p]) /\ i \in tx[p].ids
    BY <1>2 DEF Forsaking, Holding, Tier
  <2>2. Stored(db, i)
    BY <2>1, CallOf DEF Drafted, Stored
  <2>. QED  BY <1>1, <2>2 DEF FileInv, RowsGiven
<1>3. \A i \in Ids : Uploaded(tx[p], i) => i \in Forsaking(p)
  BY DEF Uploaded, Forsaking, Tier
<1>4. tx[p].pc = "upload" => Forsaking(p) = tx[p].ids
  BY CallOf DEF Shaped, Forsaking, Tier
<1>5. AsyncForsaking(p) = Forsaking(p)
  BY DEF AsyncForsaking, Forsaking
<1>. QED  BY <1>1, <1>2, <1>3, <1>4, <1>5

(* An error, or a cancellation: a ROLLBACK. *)
LEMMA RollbackKeeps ==
  ASSUME FileInv, NEW p \in Procs, tx[p].pc \notin {"idle", "returned"}, Forget(p),
         NEW result \in {"StorageError", "Cancelled"},
         tx' = [tx EXCEPT ![p] = Finish(tx[p], result)],
         result = "StorageError" => tx[p].pc \in {"work", "upload", "commit"} /\ tx[p].op # "get_many",
         excused' = excused \cup Forsaking(p),
         objects' = objects \/ \E i \in tx[p].todo : tx[p].pc = "cleanup" /\ objects' = objects \ {i},
         UNCHANGED given, AsyncTyped', ~tx[p].begun
  PROVE  FileInv'
<1> DEFINE c == tx[p]
           r == Finish(c, result)
<1>1. /\ c \in Call /\ Shaped(c) /\ Answered(c) /\ Removed(c) /\ Streamed(p, c)
  BY CallOf
<1>2. /\ r \in Call /\ r.pc = "returned" /\ r.op = c.op /\ r.ids = c.ids
      /\ r.todo = {} /\ r.got = c.got /\ ~r.begun /\ r.applied = c.applied
      /\ r.result = result
  BY <1>1, FinishType DEF Results
<1> HIDE DEF r
<1>3. tx' = [tx EXCEPT ![p] = r]
  BY DEF r
<1>4. Shaped(r)
  BY <1>1, <1>2 DEF Shaped, Pending
<1>5. Answered(r)
  BY <1>1, <1>2 DEF Answered, Tier
<1>6. Streamed(p, r)
  BY <1>1, <1>2 DEF Streamed
<1>7. r.op = "delete_many" => \A i \in r.applied : Gone(i)
  BY <1>1, <1>2 DEF Removed
<1>8. objects' \subseteq objects /\ \A i \in objects : i \in objects' \/ Gone(i)
  <2>1. c.pc = "cleanup" => \A i \in c.todo : Gone(i)
    BY <1>1 DEF Shaped, Removed
  <2>. QED  BY <2>1
<1>9. /\ writer' = Unlocked(p) /\ draft' = (IF writer = p THEN Empty ELSE draft)
      /\ UNCHANGED <<mode, schema, db, given>>
  BY DEF Forget
<1>10. /\ excused \subseteq excused' /\ excused' \subseteq Ids /\ \A i \in excused' : Settled(i)
       /\ \A i \in Ids : Uploaded(tx[p], i) => i \in excused'
  BY ForsakingFacts DEF FileInv, Types, TypeOK, Bucketed
<1>11. r.pc # "cleanup" /\ r.result # "ids" /\ r.pc \in {"idle", "returned", "cleanup"}
  BY <1>2
<1>. QED  BY <1>2, <1>3, <1>4, <1>5, <1>6, <1>7, <1>8, <1>9, <1>10, <1>11, ReleaseKeeps

(* Any other error of a statement or of the commit, and a failed upload.    *)
LEMMA FailKeeps ==
  ASSUME FileInv, NEW p \in Procs, AsyncTyped',
         Fail(p) \/ AsyncFail(p) \/ UploadFails(p) \/ AsyncUploadFails(p)
  PROVE  FileInv'
<1>1. /\ tx[p].pc \in {"work", "upload", "commit"}
      /\ tx[p].pc = "work" => Writing(p)
      /\ Forget(p) /\ tx' = [tx EXCEPT ![p] = Finish(tx[p], "StorageError")]
      /\ objects' = objects /\ UNCHANGED given
  BY DEF Fail, AsyncFail, UploadFails, AsyncUploadFails, Writing, AsyncWriting
<1>2. ~tx[p].begun /\ tx[p].op # "get_many"
  BY <1>1, CallOf DEF Shaped, Writing, Tier
<1>3. excused' = excused \cup Forsaking(p)
  BY ForsakingFacts DEF Fail, AsyncFail, UploadFails, AsyncUploadFails
<1>4. tx[p].pc \notin {"idle", "returned"}
  BY <1>1
<1>. QED  BY <1>1, <1>2, <1>3, <1>4, RollbackKeeps

(* A task is cancelled. *)
LEMMA CancelKeeps ==
  ASSUME FileInv, NEW p \in AsyncProcs, Cancel(p), AsyncTyped'
  PROVE  FileInv'
<1>0. p \in Procs
  BY DEF Procs
<1>1. CASE tx[p].pc = "commit" /\ Install(p, Finish(tx[p], "Cancelled")) /\ UNCHANGED <<objects, excused>>
  <2>1. UNCHANGED given
    BY DEF Cancel
  <2>. QED  BY <1>0, <1>1, <2>1, CommitKeeps
<1>2. CASE /\ Forget(p) /\ tx' = [tx EXCEPT ![p] = Finish(tx[p], "Cancelled")]
           /\ excused' = excused \cup AsyncForsaking(p)
           /\ objects' \in {objects} \cup
                {objects \ {i} : i \in IF tx[p].pc = "cleanup" THEN tx[p].todo ELSE {}}
  <2>1. tx[p].pc \notin {"idle", "returned"} /\ UNCHANGED given
    BY DEF Cancel
  <2>2. objects' = objects \/ \E i \in tx[p].todo : tx[p].pc = "cleanup" /\ objects' = objects \ {i}
    BY <1>2
  <2>3. ~tx[p].begun
    BY <1>0, CallOf DEF Shaped, Streamed
  <2>4. excused' = excused \cup Forsaking(p)
    BY <1>0, <1>2, ForsakingFacts
  <2>. QED  BY <1>0, <1>2, <2>1, <2>2, <2>3, <2>4, RollbackKeeps
<1>. QED  BY <1>1, <1>2 DEF Cancel

(* The client process dies. *)
LEMMA CrashKeeps ==
  ASSUME FileInv, NEW p \in Procs, Crash(p), AsyncTyped'
  PROVE  FileInv'
<1>1. /\ Idle \in Call /\ Shaped(Idle) /\ Answered(Idle) /\ Streamed(p, Idle)
      /\ Idle.op = "get_many" /\ Idle.pc = "idle"
  BY IdleType DEF Shaped, Answered, Streamed, Pending, Tier
<1>2. /\ writer' = Unlocked(p) /\ draft' = (IF writer = p THEN Empty ELSE draft)
      /\ UNCHANGED <<mode, schema, db, given>> /\ tx' = [tx EXCEPT ![p] = Idle]
      /\ objects' = objects /\ excused' = excused \cup Forsaking(p)
  BY DEF Crash, Forget
<1>3. objects' \subseteq objects /\ \A i \in objects : i \in objects' \/ Gone(i)
  BY <1>2
<1>4. /\ excused \subseteq excused' /\ excused' \subseteq Ids /\ \A i \in excused' : Settled(i)
      /\ \A i \in Ids : Uploaded(tx[p], i) => i \in excused'
  BY <1>2, ForsakingFacts DEF FileInv, Types, TypeOK, Bucketed
<1>5. Idle.op # "delete_many" /\ Idle.pc # "cleanup" /\ Idle.pc \in {"idle", "returned", "cleanup"}
  BY <1>1
<1>. QED  BY <1>1, <1>2, <1>3, <1>4, <1>5, ReleaseKeeps

(* The object of one deleted row goes, or an event says that it did not.    *)
LEMMA RemoveObjectKeeps ==
  ASSUME FileInv, NEW p \in Procs, NEW i \in Ids, AsyncTyped',
         RemoveObject(p, i) \/ RemoveObjectFails(p, i) \/ AsyncRemoveObject(p, i)
  PROVE  FileInv'
<1> DEFINE c == tx[p]
           f == Finish(c, "ids")
           more == [c EXCEPT !.todo = @ \ {i}]
<1>1. /\ c \in Call /\ c.pc = "cleanup" /\ i \in c.todo /\ c.op = "delete_many" /\ c.result = "ids"
      /\ c.got = {} /\ ~c.begun /\ schema
  BY CallOf DEF Shaped, Tabled, RemoveObject, RemoveObjectFails, AsyncRemoveObject
<1>2. /\ \/ objects' = objects \ {i} /\ excused' = excused
         \/ objects' = objects /\ excused' = excused \cup {i}
      /\ tx' = [tx EXCEPT ![p] = IF c.todo = {i} THEN f ELSE more]
      /\ UNCHANGED <<mode, schema, db, writer, draft, given>>
  <2>0. c.result = "ids"
    BY <1>1
  <2>1. CASE RemoveObject(p, i)
    BY <2>0, <2>1 DEF RemoveObject, AfterCleanup, fileVars
  <2>2. CASE RemoveObjectFails(p, i)
    BY <2>0, <2>2 DEF RemoveObjectFails, AfterCleanup, fileVars
  <2>3. CASE AsyncRemoveObject(p, i)
    BY <2>0, <2>3 DEF AsyncRemoveObject, AsyncAfterCleanup, fileVars
  <2>. QED  BY <2>1, <2>2, <2>3
<1>3. /\ \A j \in c.applied : Gone(j)
      /\ c.todo \subseteq c.applied /\ c.applied \cap objects \subseteq excused \cup c.todo
  BY <1>1, CallOf DEF Removed
<1>4. Gone(i) /\ Settled(i)
  BY <1>1, <1>3 DEF Gone
<1>5. /\ writer' = Unlocked(p) /\ draft' = (IF writer = p THEN Empty ELSE draft)
  BY <1>1, <1>2, CallOf DEF Unlocked, Holding
<1>6. /\ objects' \subseteq objects /\ (\A j \in objects : j \in objects' \/ Gone(j))
      /\ excused \subseteq excused' /\ excused' \subseteq Ids /\ (\A j \in excused' : Settled(j))
      /\ \A j \in Ids : ~Uploaded(tx[p], j)
  BY <1>1, <1>2, <1>4 DEF FileInv, Types, TypeOK, Bucketed, Uploaded
<1>7. Answered(c)
  BY CallOf
<1>8. CASE c.todo = {i}
  <2>1. tx' = [tx EXCEPT ![p] = f]
    BY <1>2, <1>8
  <2>2. /\ f \in Call /\ f.pc = "returned" /\ f.op = "delete_many" /\ f.todo = {} /\ f.got = {}
        /\ ~f.begun /\ f.applied = c.applied /\ f.result = "ids"
    BY <1>1, FinishType DEF Results
  <2> HIDE DEF f
  <2>3. Shaped(f) /\ Streamed(p, f)
    BY <2>2 DEF Shaped, Streamed, Pending, Tier
  <2>4. Answered(f)
    BY <2>2 DEF Answered, Tier
  <2>5. f.applied \cap objects' \subseteq excused'
    BY <1>2, <1>3, <1>8, <2>2
  <2>6. f.pc # "cleanup" /\ f.pc \in {"idle", "returned", "cleanup"}
    BY <2>2
  <2>. QED  BY <1>2, <1>3, <1>5, <1>6, <2>1, <2>2, <2>3, <2>4, <2>5, <2>6, ReleaseKeeps
<1>9. CASE c.todo # {i}
  <2>1. tx' = [tx EXCEPT ![p] = more]
    BY <1>2, <1>9
  <2>2. /\ more \in Call /\ more.pc = "cleanup" /\ more.op = "delete_many" /\ more.todo = c.todo \ {i}
        /\ more.got = {} /\ ~more.begun /\ more.applied = c.applied /\ more.result = "ids"
    BY <1>1 DEF Call
  <2> HIDE DEF more
  <2>3. Shaped(more) /\ Streamed(p, more)
    BY <2>2 DEF Shaped, Streamed, Pending, Tier
  <2>4. Answered(more)
    BY <2>2 DEF Answered, Tier
  <2>5. more.todo \subseteq more.applied /\ more.applied \cap objects' \subseteq excused' \cup more.todo
    BY <1>2, <1>3, <2>2
  <2>6. more.pc # "returned" /\ more.pc \in {"idle", "returned", "cleanup"}
    BY <2>2
  <2>. QED  BY <1>1, <1>2, <1>3, <1>5, <1>6, <2>1, <2>2, <2>3, <2>4, <2>5, <2>6, ReleaseKeeps
<1>. QED  BY <1>8, <1>9

(* An upload that nobody waits for any more stores its object. *)
LEMMA LateUploadKeeps ==
  ASSUME FileInv, NEW i \in Ids, LateUpload(i), AsyncTyped'
  PROVE  FileInv'
<1>1. /\ i \in excused /\ objects' = objects \cup {i}
      /\ UNCHANGED <<mode, schema, db, writer, draft, excused, given, tx>>
  BY DEF LateUpload, fileVars
<1>2. Types'
  BY <1>1 DEF FileInv, Types, TypeOK, AsyncTyped
<1>3. DrawnOnce' /\ Locked' /\ Numbered(db)' /\ Counted(db)'
  BY <1>1 DEF FileInv, DrawnOnce, Locked, Numbered, Counted, Stored, Exists, RowsOf, Pending, Holding
<1>4. \A j \in Ids : /\ Settled(j)' <=> Settled(j)
                     /\ Stored(db, j)' <=> Stored(db, j)
                     /\ Tiered(db, j)' <=> Tiered(db, j)
  BY <1>1 DEF Settled, Stored, Tiered, Pending
<1>5. RowsGiven'
  BY <1>1, <1>4 DEF FileInv, RowsGiven
<1>6. Bucketed'
  <2>1. objects \cup excused \subseteq Ids
    BY DEF FileInv, Types, TypeOK
  <2>2. \A j \in objects' \cup excused' : Settled(j)'
    BY <1>1, <1>4, <2>1 DEF FileInv, Bucketed
  <2>3. NoLostBytes'
    BY <1>1, <1>4 DEF FileInv, Bucketed, NoLostBytes
  <2>4. ASSUME NEW j \in objects', Stored(db, j)'
        PROVE  Tiered(db, j)' \/ j \in excused' \/ \E q \in Procs : Uploaded(tx'[q], j)
    BY <1>1, <1>4, <2>1, <2>4 DEF FileInv, Bucketed, Uploaded
  <2>. QED  BY <2>2, <2>3, <2>4 DEF Bucketed, Uploaded
<1>7. ASSUME NEW q \in Procs PROVE Kept(q)'
  <2>1. \A j \in Ids : Gone(j) => Gone(j)' /\ (j \in objects' => j \in objects \/ j \in excused')
    BY <1>1, <1>4 DEF Gone
  <2>. QED  BY <1>1, <2>1, KeptStays
<1>. QED  BY <1>2, <1>3, <1>5, <1>6, <1>7 DEF FileInv

-----------------------------------------------------------------------------
(* The invariant, and what it says *)

(* A statement of a task is one of SQLiteBackend's. *)
LEMMA SameStatements ==
  ASSUME NEW p
  PROVE  /\ AsyncPut(p) => Put(p)
         /\ AsyncDelete(p) => Delete(p)
         /\ AsyncSelectForTiering(p) => SelectForTiering(p)
         /\ AsyncUpload(p) => Upload(p)
         /\ AsyncSelect(p) => Select(p)
         /\ \A i \in Ids : AsyncFetch(p, i) => Fetch(p, i)
         /\ AsyncReturn(p) => Return(p)
<1>1. AsyncPut(p) => Put(p)
  BY DEF AsyncPut, Put
<1>2. AsyncDelete(p) => Delete(p)
  BY DEF AsyncDelete, Delete
<1>3. AsyncSelectForTiering(p) => SelectForTiering(p)
  BY DEF AsyncSelectForTiering, SelectForTiering
<1>4. AsyncUpload(p) => Upload(p)
  BY DEF AsyncUpload, Upload
<1>5. AsyncSelect(p) => Select(p)
  BY DEF AsyncSelect, Select
<1>6. \A i \in Ids : AsyncFetch(p, i) => Fetch(p, i)
  BY DEF AsyncFetch, Fetch
<1>7. AsyncReturn(p) => Return(p)
  BY DEF AsyncReturn, Return
<1>. QED  BY <1>1, <1>2, <1>3, <1>4, <1>5, <1>6, <1>7

(* Every step of a client keeps the invariant of the file. *)
LEMMA SyncKeeps ==
  ASSUME FileInv, NEW p \in SyncProcs, SyncBegin(p) \/ SyncStep(p) \/ Crash(p), AsyncTyped'
  PROVE  FileInv'
<1>0. p \in Procs
  BY DEF Procs
<1>1. CASE SyncBegin(p)
  BY <1>0, <1>1, BeginSyncKeeps
<1>2. CASE Crash(p)
  BY <1>0, <1>2, CrashKeeps
<1>3. CASE Migrate(p)
  BY <1>0, <1>3, MigrateKeeps
<1>4. CASE Put(p)
  BY <1>0, <1>4, PutKeeps
<1>5. CASE Delete(p)
  BY <1>0, <1>5, DeleteKeeps
<1>6. CASE SelectForTiering(p)
  BY <1>0, <1>6, SelectForTieringKeeps
<1>7. CASE Upload(p)
  BY <1>0, <1>7, UploadKeeps
<1>8. CASE UploadFails(p) \/ Fail(p)
  BY <1>0, <1>8, FailKeeps
<1>9. CASE Busy(p)
  BY <1>0, <1>9, BusyKeeps
<1>10. CASE Commit(p)
  BY <1>0, <1>10, CommitKeeps
<1>11. ASSUME NEW i \in Ids, RemoveObject(p, i) \/ RemoveObjectFails(p, i) PROVE FileInv'
  BY <1>0, <1>11, RemoveObjectKeeps
<1>12. CASE Select(p)
  BY <1>0, <1>12, SelectKeeps
<1>13. ASSUME NEW i \in Ids, Fetch(p, i) PROVE FileInv'
  BY <1>0, <1>13, FetchKeeps
<1>14. CASE StreamInfo(p)
  BY <1>0, <1>14, StreamInfoKeeps
<1>15. CASE OpenBlob(p)
  BY <1>15, OpenBlobKeeps
<1>16. CASE ReadBlob(p)
  BY <1>16, ReadBlobKeeps
<1>17. CASE ReadObject(p)
  BY <1>0, <1>17, ReadObjectKeeps
<1>18. CASE Return(p)
  BY <1>0, <1>18, ReturnKeeps
<1>. QED
  BY <1>1, <1>2, <1>3, <1>4, <1>5, <1>6, <1>7, <1>8, <1>9, <1>10, <1>11, <1>12, <1>13,
     <1>14, <1>15, <1>16, <1>17, <1>18 DEF SyncStep, SyncWrite, SyncRead

(* A client does not touch the tasks' lazy initialisation, and nobody ever  *)
(* drops a table.                                                           *)
LEMMA SchemaStays ==
  ASSUME FileInv, schema, NEW p \in Procs,
         SyncBegin(p) \/ SyncStep(p) \/ Crash(p) \/ AsyncBegin(p) \/ AsyncStep(p) \/ Cancel(p)
  PROVE  schema'
<1> USE DEF fileVars, bucketVars, Write, Reads, Install, Forget
<1>1. CASE SyncBegin(p)
  BY <1>1 DEF SyncBegin, BeginMigrate, BeginPut, BeginDelete, BeginTier, BeginGet, BeginStream, Begin
<1>2. CASE Crash(p) \/ Return(p) \/ Fail(p) \/ Busy(p) \/ Commit(p) \/ Migrate(p)
  BY <1>2 DEF Crash, Return, Fail, Busy, Commit, Migrate
<1>3. CASE Put(p) \/ Delete(p) \/ Upload(p) \/ UploadFails(p) \/ Select(p) \/ OpenBlob(p) \/ ReadBlob(p)
  BY <1>3 DEF Put, Delete, Upload, UploadFails, Select, OpenBlob, ReadBlob
<1>4. CASE SelectForTiering(p) \/ StreamInfo(p) \/ ReadObject(p)
  BY <1>4 DEF SelectForTiering, StreamInfo, ReadObject
<1>5. ASSUME NEW i \in Ids, RemoveObject(p, i) \/ RemoveObjectFails(p, i) \/ Fetch(p, i) PROVE schema'
  BY <1>5 DEF RemoveObject, RemoveObjectFails, Fetch
<1>6. CASE AsyncBegin(p)
  BY <1>6 DEF AsyncBegin, BeginAsyncPut, BeginAsyncDelete, BeginAsyncTier, BeginAsyncRead, BeginAsync
<1>7. CASE EnsureReady(p) \/ AsyncMigrate(p) \/ MigrationFails(p) \/ MigrationBusy(p)
  BY <1>7 DEF EnsureReady, AsyncMigrate, MigrationFails, MigrationBusy
<1>8. CASE AsyncPut(p) \/ AsyncDelete(p) \/ AsyncSelectForTiering(p) \/ AsyncUpload(p)
           \/ AsyncSelect(p) \/ AsyncReturn(p)
  BY <1>3, <1>4, <1>2, <1>8, SameStatements
<1>9. CASE AsyncUploadFails(p) \/ AsyncBusy(p) \/ AsyncFail(p) \/ AsyncCommit(p)
  BY <1>9 DEF AsyncUploadFails, AsyncBusy, AsyncFail, AsyncCommit
<1>10. CASE AsyncStreamInfo(p) \/ AsyncReadChunk(p) \/ AsyncReadObject(p)
  BY <1>10 DEF AsyncStreamInfo, AsyncReadChunk, AsyncReadObject
<1>11. ASSUME NEW i \in Ids, AsyncRemoveObject(p, i) \/ AsyncFetch(p, i) PROVE schema'
  BY <1>11 DEF AsyncRemoveObject, AsyncFetch
<1>12. CASE Cancel(p)
  BY <1>12 DEF Cancel
<1>. QED
  BY <1>1, <1>2, <1>3, <1>4, <1>5, <1>6, <1>7, <1>8, <1>9, <1>10, <1>11, <1>12
  DEF SyncStep, SyncWrite, SyncRead, AsyncStep

(* Every step of a task does, and the tasks are ready only with tables.     *)
LEMMA AsyncKeeps ==
  ASSUME FileInv, AsyncTyped, ready => schema, NEW p \in AsyncProcs,
         AsyncBegin(p) \/ AsyncStep(p) \/ Cancel(p)
  PROVE  FileInv' /\ (ready' => schema')
<1>0. p \in Procs
  BY DEF Procs
<1>1. CASE EnsureReady(p) \/ AsyncMigrate(p) \/ MigrationFails(p) \/ MigrationBusy(p)
  BY <1>1, ReadyKeeps
<1>2. CASE AsyncBegin(p)
  <2>1. FileInv'
    BY <1>0, <1>2, BeginAsyncKeeps
  <2>2. ready' = ready
    BY <1>2 DEF AsyncBegin, BeginAsyncPut, BeginAsyncDelete, BeginAsyncTier, BeginAsyncRead,
                BeginAsync, asyncVars
  <2>. QED  BY <1>0, <1>2, <2>1, <2>2, SchemaStays
<1>3. ASSUME ~(EnsureReady(p) \/ AsyncMigrate(p) \/ MigrationFails(p) \/ MigrationBusy(p)),
             AsyncStep(p) \/ Cancel(p)
      PROVE  FileInv' /\ (ready' => schema')
  <2>1. ready' = ready /\ (readyLock' = readyLock \/ readyLock' = NoProc)
    <3>1. CASE AsyncStep(p)
      <4>1. AsyncPut(p) \/ AsyncDelete(p) \/ AsyncSelectForTiering(p) \/ AsyncUpload(p)
              \/ AsyncUploadFails(p) \/ AsyncBusy(p) \/ AsyncFail(p) \/ AsyncCommit(p)
              \/ AsyncSelect(p) \/ AsyncStreamInfo(p) \/ AsyncReadChunk(p) \/ AsyncReadObject(p)
              \/ (\E i \in Ids : AsyncRemoveObject(p, i) \/ AsyncFetch(p, i))
              \/ AsyncReturn(p) => UNCHANGED asyncVars
        BY DEF AsyncPut, AsyncDelete, AsyncSelectForTiering, AsyncUpload, AsyncUploadFails,
               AsyncBusy, AsyncFail, AsyncCommit, AsyncSelect, AsyncStreamInfo, AsyncReadChunk,
               AsyncReadObject, AsyncRemoveObject, AsyncFetch, AsyncReturn
      <4>. QED  BY <1>3, <3>1, <4>1 DEF AsyncStep, asyncVars
    <3>2. CASE Cancel(p)
      BY <3>2 DEF Cancel
    <3>. QED  BY <1>3, <3>1, <3>2
  <2>2. AsyncTyped'
    BY <2>1 DEF AsyncTyped
  <2>3. schema => schema'
    BY <1>0, <1>3, SchemaStays
  <2>4. FileInv'
    <3>1. CASE AsyncPut(p)
      BY <1>0, <2>2, <3>1, SameStatements, PutKeeps
    <3>2. CASE AsyncDelete(p)
      BY <1>0, <2>2, <3>2, SameStatements, DeleteKeeps
    <3>3. CASE AsyncSelectForTiering(p)
      BY <1>0, <2>2, <3>3, SameStatements, SelectForTieringKeeps
    <3>4. CASE AsyncUpload(p)
      BY <1>0, <2>2, <3>4, SameStatements, UploadKeeps
    <3>5. CASE AsyncUploadFails(p) \/ AsyncFail(p)
      BY <1>0, <2>2, <3>5, FailKeeps
    <3>6. CASE AsyncBusy(p)
      BY <1>0, <2>2, <3>6, BusyKeeps
    <3>7. CASE AsyncCommit(p)
      BY <1>0, <2>2, <3>7, CommitKeeps
    <3>8. CASE AsyncSelect(p)
      BY <1>0, <2>2, <3>8, SameStatements, SelectKeeps
    <3>9. CASE AsyncStreamInfo(p)
      BY <1>0, <2>2, <3>9, StreamInfoKeeps
    <3>10. CASE AsyncReadChunk(p)
      BY <2>2, <3>10, AsyncReadChunkKeeps
    <3>11. CASE AsyncReadObject(p)
      BY <1>0, <2>2, <3>11, ReadObjectKeeps
    <3>12. ASSUME NEW i \in Ids, AsyncRemoveObject(p, i) PROVE FileInv'
      BY <1>0, <2>2, <3>12, RemoveObjectKeeps
    <3>13. ASSUME NEW i \in Ids, AsyncFetch(p, i) PROVE FileInv'
      BY <1>0, <2>2, <3>13, SameStatements, FetchKeeps
    <3>14. CASE AsyncReturn(p)
      BY <1>0, <2>2, <3>14, SameStatements, ReturnKeeps
    <3>15. CASE Cancel(p)
      BY <2>2, <3>15, CancelKeeps
    <3>. QED
      BY <1>3, <3>1, <3>2, <3>3, <3>4, <3>5, <3>6, <3>7, <3>8, <3>9, <3>10, <3>11, <3>12, <3>13,
         <3>14, <3>15 DEF AsyncStep
  <2>. QED  BY <2>1, <2>3, <2>4
<1>. QED  BY <1>1, <1>2, <1>3

(* The file before anything has been called. *)
LEMMA InitHolds ==
  ASSUME Init
  PROVE  IInv
<1> USE DEF Init
<1>1. Empty \in View /\ (\A i \in Ids : Empty.rows[i] = NoRow) /\ \A s \in Sums : Empty.blobs[s] = NoBlob
  BY DEF Empty, View, NoRow, NoBlob, Row, Blob, Backend
<1>2. \A p \in Procs : tx[p] = Idle
  OBVIOUS
<1>3. Types
  BY <1>1, IdleType DEF Types, TypeOK, View
<1>4. \A i \in Ids : ~Stored(db, i) /\ ~Tiered(db, i)
  BY <1>1 DEF Stored, Tiered, NoRow
<1>5. RowsGiven /\ Bucketed
  BY <1>1, <1>4 DEF RowsGiven, Bucketed, NoLostBytes
<1>6. Numbered(db)
  BY <1>1, <1>4 DEF Numbered, Exists, NoBlob
<1>7. Counted(db)
  <2>1. ASSUME NEW s \in Sums PROVE Cardinality(RowsOf(db, s)) = 0
    <3>1. RowsOf(db, s) = {}
      BY <1>1, SQLiteAssumption DEF RowsOf, NoRow
    <3>. QED  BY <3>1, FS_EmptySet
  <2>. QED  BY <1>1, <2>1 DEF Counted, Exists, NoBlob
<1>8. DrawnOnce
  BY <1>2, IdleType DEF DrawnOnce, Pending
<1>9. Locked
  BY <1>2, IdleType, SQLiteAssumption DEF Locked, Holding
<1>10. ASSUME NEW p \in Procs PROVE Kept(p)
  <2>1. Shaped(Idle) /\ Answered(Idle) /\ Removed(Idle) /\ Streamed(p, Idle)
    BY IdleType DEF Shaped, Answered, Removed, Streamed, Pending, Tier
  <2>2. Tabled(Idle) /\ Drafted(Idle)
    BY IdleType DEF Tabled, Drafted, Holding
  <2>. QED  BY <1>2, <2>1, <2>2 DEF Kept
<1>. QED  BY <1>3, <1>5, <1>6, <1>7, <1>8, <1>9, <1>10 DEF IInv, FileInv

(* Nothing happens. *)
LEMMA StutterKeeps ==
  ASSUME IInv, UNCHANGED vars
  PROVE  IInv'
<1> USE DEF vars, fileVars, bucketVars, asyncVars
<1>1. UNCHANGED <<mode, schema, db, writer, draft, objects, excused, given, tx, ready, readyLock>>
  OBVIOUS
<1>2. Types'
  BY <1>1 DEF IInv, FileInv, Types, TypeOK
<1>3. DrawnOnce' /\ Locked' /\ Numbered(db)' /\ Counted(db)'
  BY <1>1 DEF IInv, FileInv, DrawnOnce, Locked, Numbered, Counted, Stored, Exists, RowsOf, Pending, Holding
<1>4. \A j \in Ids : /\ Settled(j)' <=> Settled(j)
                     /\ Stored(db, j)' <=> Stored(db, j)
                     /\ Tiered(db, j)' <=> Tiered(db, j)
  BY <1>1 DEF Settled, Stored, Tiered, Pending
<1>5. RowsGiven'
  BY <1>1, <1>4 DEF IInv, FileInv, RowsGiven
<1>6. Bucketed'
  BY <1>1, <1>4 DEF IInv, FileInv, Types, TypeOK, Bucketed, NoLostBytes, Uploaded
<1>7. ASSUME NEW q \in Procs PROVE Kept(q)'
  <2>1. \A j \in Ids : Gone(j) => Gone(j)' /\ (j \in objects' => j \in objects \/ j \in excused')
    BY <1>1, <1>4 DEF Gone
  <2>. QED  BY <1>1, <2>1, KeptStays DEF IInv
<1>. QED  BY <1>1, <1>2, <1>3, <1>5, <1>6, <1>7 DEF IInv, FileInv

(* Every step of a client, a task or a forgotten upload keeps the invariant. *)
LEMMA NextKeeps ==
  ASSUME IInv, Next
  PROVE  IInv'
<1>1. FileInv /\ (ready => schema) /\ AsyncTyped
  BY DEF IInv, FileInv, Types, TypeOK, AsyncTyped
<1>2. ASSUME NEW p \in SyncProcs, SyncBegin(p) \/ SyncStep(p) \/ Crash(p), UNCHANGED asyncVars
      PROVE  IInv'
  <2>1. AsyncTyped' /\ ready' = ready
    BY <1>1, <1>2 DEF AsyncTyped, asyncVars
  <2>2. schema => schema'
    BY <1>1, <1>2, SchemaStays DEF Procs
  <2>. QED  BY <1>1, <1>2, <2>1, <2>2, SyncKeeps DEF IInv
<1>3. ASSUME NEW p \in AsyncProcs, AsyncBegin(p) \/ AsyncStep(p) \/ Cancel(p)
      PROVE  IInv'
  BY <1>1, <1>3, AsyncKeeps DEF IInv
<1>4. ASSUME NEW i \in Ids, LateUpload(i) PROVE IInv'
  <2>1. AsyncTyped' /\ ready' = ready /\ schema' = schema
    BY <1>1, <1>4 DEF LateUpload, AsyncTyped, asyncVars, fileVars
  <2>. QED  BY <1>1, <1>4, <2>1, LateUploadKeeps DEF IInv
<1>. QED  BY <1>2, <1>3, <1>4 DEF Next

-----------------------------------------------------------------------------
(* Which objects are forgotten *)

(* A call whose removals are not under way leaves the rows, the events and  *)
(* the other calls as they are, and stores objects of stored rows only.     *)
Quiet(p) ==
  /\ tx[p].pc # "cleanup" /\ db' = db /\ excused \subseteq excused'
  /\ \A q \in Procs : q # p => tx'[q] = tx[q]
  /\ \A i \in objects' : i \in objects \/ Stored(db, i)

(* All steps of a client are like that but for commits and removals.        *)
LEMMA SyncQuiet ==
  ASSUME FileInv, NEW p \in Procs, SyncBegin(p) \/ SyncStep(p)
  PROVE  \/ Quiet(p) \/ Commit(p)
         \/ \E i \in Ids : RemoveObject(p, i) \/ RemoveObjectFails(p, i)
<1> USE DEF Quiet, fileVars, bucketVars
<1>0. tx \in [Procs -> Call]
  BY DEF FileInv, Types, TypeOK
<1>1. CASE SyncBegin(p)
  BY <1>0, <1>1
  DEF SyncBegin, BeginMigrate, BeginPut, BeginDelete, BeginTier, BeginGet, BeginStream, Begin
<1>2. CASE Return(p) \/ Busy(p) \/ Migrate(p)
  BY <1>0, <1>2 DEF Return, Busy, Migrate, At
<1>3. CASE Fail(p) \/ UploadFails(p)
  BY <1>0, <1>3 DEF Fail, UploadFails, Forget
<1>4. CASE Put(p) \/ Delete(p)
  BY <1>0, <1>4 DEF Put, Delete, Write, At
<1>5. CASE SelectForTiering(p)
  BY <1>0, <1>5 DEF SelectForTiering, Write, Reads, At
<1>6. CASE Upload(p)
  <2>1. \A i \in tx[p].ids : Stored(db, i)
    <3>1. tx[p].op = Tier /\ Holding(tx[p]) /\ tx[p].pc = "upload"
      BY <1>6, CallOf DEF Upload, Shaped, Holding
    <3>. QED  BY <3>1, CallOf DEF Drafted, Stored
  <2>. QED  BY <1>0, <1>6, <2>1 DEF Upload
<1>7. CASE Select(p) \/ StreamInfo(p)
  BY <1>0, <1>7 DEF Select, StreamInfo, Reads, At
<1>8. CASE OpenBlob(p) \/ ReadBlob(p) \/ ReadObject(p)
  BY <1>0, <1>8 DEF OpenBlob, ReadBlob, ReadObject, Reads
<1>9. ASSUME NEW i \in Ids, Fetch(p, i) PROVE Quiet(p)
  BY <1>0, <1>9 DEF Fetch, Reads
<1>. QED
  BY <1>1, <1>2, <1>3, <1>4, <1>5, <1>6, <1>7, <1>8, <1>9 DEF SyncStep, SyncWrite, SyncRead

(* And of a task. *)
LEMMA AsyncQuiet ==
  ASSUME FileInv, NEW p \in Procs, AsyncBegin(p) \/ AsyncStep(p)
  PROVE  Quiet(p) \/ AsyncCommit(p) \/ \E i \in Ids : AsyncRemoveObject(p, i)
<1> USE DEF fileVars, bucketVars
<1>0. tx \in [Procs -> Call]
  BY DEF FileInv, Types, TypeOK
<1>1. CASE AsyncBegin(p)
  BY <1>0, <1>1
  DEF Quiet, AsyncBegin, BeginAsyncPut, BeginAsyncDelete, BeginAsyncTier, BeginAsyncRead, BeginAsync
<1>2. CASE EnsureReady(p) \/ AsyncMigrate(p) \/ MigrationFails(p) \/ MigrationBusy(p) \/ AsyncBusy(p)
  BY <1>0, <1>2 DEF Quiet, EnsureReady, AsyncMigrate, MigrationFails, MigrationBusy, AsyncBusy
<1>3. CASE AsyncFail(p) \/ AsyncUploadFails(p)
  BY <1>0, <1>3 DEF Quiet, AsyncFail, AsyncUploadFails, Forget
<1>4. CASE AsyncPut(p) \/ AsyncDelete(p) \/ AsyncSelectForTiering(p) \/ AsyncUpload(p)
           \/ AsyncSelect(p) \/ AsyncReturn(p)
  <2>1. SyncStep(p) /\ tx[p].pc # "cleanup" /\ ~Commit(p)
    <3>1. Put(p) \/ Delete(p) \/ SelectForTiering(p) \/ Upload(p) \/ Select(p) \/ Return(p)
      BY <1>4, SameStatements
    <3>2. tx[p].pc \notin {"commit", "cleanup"}
      BY <3>1 DEF Put, Delete, SelectForTiering, Upload, Select, Return, At
    <3>. QED  BY <3>1, <3>2 DEF SyncStep, SyncWrite, SyncRead, Commit
  <2>. QED  BY <2>1, SyncQuiet DEF RemoveObject, RemoveObjectFails
<1>5. CASE AsyncStreamInfo(p) \/ AsyncReadChunk(p) \/ AsyncReadObject(p)
  BY <1>0, <1>5 DEF Quiet, AsyncStreamInfo, AsyncReadChunk, AsyncReadObject, Reads, At
<1>6. ASSUME NEW i \in Ids, AsyncFetch(p, i) PROVE Quiet(p)
  BY <1>0, <1>6 DEF Quiet, AsyncFetch, Reads
<1>. QED  BY <1>1, <1>2, <1>3, <1>4, <1>5, <1>6 DEF AsyncStep

(* What a step must account for: the new objects, the rows that go, and the *)
(* removals that are under way.  It can forget only what is left of them.   *)
LEMMA ForgetsOnly ==
  ASSUME NEW left, objects' \subseteq Ids, excused \subseteq excused',
         \A i \in objects' : i \in objects \/ i \in excused' \/ Stored(db, i)',
         \A i \in objects' : Stored(db, i) =>
           \/ Stored(db, i)' \/ i \in excused' \/ i \in left
           \/ \E q \in Procs : tx'[q].pc = "cleanup" /\ i \in tx'[q].todo,
         \A q \in Procs : tx[q].pc = "cleanup" =>
           \A i \in tx[q].todo \cap objects' :
             i \in excused' \/ i \in left \/ (tx'[q].pc = "cleanup" /\ i \in tx'[q].todo)
  PROVE  Forgotten' \subseteq Forgotten \cup left
<1> SUFFICES ASSUME NEW i \in objects', i \notin excused', ~Stored(db, i)', i \notin left,
                    \A q \in Procs : tx'[q].pc = "cleanup" => i \notin tx'[q].todo
             PROVE  i \in Forgotten
  BY DEF Forgotten
<1>1. i \in objects \ excused /\ ~Stored(db, i)
  OBVIOUS
<1>2. \A q \in Procs : tx[q].pc = "cleanup" => i \notin tx[q].todo
  OBVIOUS
<1>. QED  BY <1>1, <1>2 DEF Forgotten

(* A quiet step forgets nothing. *)
LEMMA QuietForgets ==
  ASSUME FileInv, FileInv', NEW p \in Procs, Quiet(p)
  PROVE  Forgotten' \subseteq Forgotten
<1>1. objects' \subseteq Ids /\ (\A i \in Ids : Stored(db, i)' <=> Stored(db, i))
  BY DEF Quiet, FileInv, Types, TypeOK, Stored
<1>2. \A q \in Procs : tx[q].pc = "cleanup" => tx'[q] = tx[q]
  BY DEF Quiet
<1>3. \A i \in objects' : i \in objects \/ Stored(db, i)'
  BY <1>1 DEF Quiet
<1>. QED  BY <1>1, <1>2, <1>3, ForgetsOnly DEF Quiet

(* The removal of an object, or the event that says that it failed.         *)
LEMMA RemovalForgets ==
  ASSUME FileInv, FileInv', NEW p \in Procs, NEW i \in Ids,
         RemoveObject(p, i) \/ RemoveObjectFails(p, i) \/ AsyncRemoveObject(p, i)
  PROVE  Forgotten' \subseteq Forgotten
<1>1. /\ db' = db /\ i \in tx[p].todo
      /\ \/ objects' = objects \ {i} /\ excused' = excused
         \/ objects' = objects /\ excused' = excused \cup {i}
      /\ \A q \in Procs : q # p => tx'[q] = tx[q]
      /\ tx[p].todo # {i} => tx'[p] = [tx[p] EXCEPT !.todo = @ \ {i}]
  BY DEF RemoveObject, RemoveObjectFails, AsyncRemoveObject, AfterCleanup, AsyncAfterCleanup,
         FileInv, Types, TypeOK, fileVars
<1>2. objects' \subseteq Ids /\ (\A j \in Ids : Stored(db, j)' <=> Stored(db, j))
  BY <1>1 DEF FileInv, Types, TypeOK, Stored
<1>3. ASSUME NEW q \in Procs, tx[q].pc = "cleanup", NEW j \in tx[q].todo \cap objects'
      PROVE  j \in excused' \/ (tx'[q].pc = "cleanup" /\ j \in tx'[q].todo)
  <2>1. CASE q # p
    BY <1>1, <1>3, <2>1
  <2>2. CASE q = p /\ j = i
    BY <1>1, <1>3, <2>2
  <2>3. CASE q = p /\ j # i
    <3>1. tx'[p] = [tx[p] EXCEPT !.todo = @ \ {i}] /\ tx[p] \in Call
      BY <1>1, <1>3, <2>3, CallOf
    <3>. QED  BY <1>3, <2>3, <3>1 DEF Call
  <2>. QED  BY <2>1, <2>2, <2>3
<1>. QED  BY <1>1, <1>2, <1>3, ForgetsOnly

(* A commit forgets objects only of deletes that will not remove them: the  *)
(* caller's, and those of a cancelled task.                                 *)
LEMMA CommitForgets ==
  ASSUME FileInv, FileInv', NEW p \in Procs,
         \/ Commit(p) \/ AsyncCommit(p)
         \/ tx[p].pc = "commit" /\ Install(p, Finish(tx[p], "Cancelled")) /\ UNCHANGED <<objects, excused>>
  PROVE  \A i \in Forgotten' \ Forgotten :
           /\ tx[p].op = "delete_many" /\ i \in tx[p].todo
           /\ tx'[p].pc = "returned" /\ (~tx[p].own \/ tx'[p].result = "Cancelled")
<1> DEFINE c == tx[p]
           resting == tx'[p].pc = "returned" /\ (~c.own \/ tx'[p].result = "Cancelled")
           left == IF resting THEN c.todo ELSE {}
<1>1. /\ c.pc = "commit" /\ c \in Call /\ db' = draft /\ objects' = objects /\ excused' = excused
      /\ c.op \in {"put_many", "delete_many", Tier} /\ (c.op # "delete_many" => c.todo = {})
  BY CallOf DEF Commit, AsyncCommit, Install, bucketVars, Shaped
<1>2. \A q \in Procs : q # p => tx'[q] = tx[q]
  BY DEF Commit, AsyncCommit, Install, FileInv, Types, TypeOK
<1>3. c.todo = {} \/ resting \/ (tx'[p].pc = "cleanup" /\ tx'[p].todo = c.todo)
  <2>1. tx \in [Procs -> Call]
    BY DEF FileInv, Types, TypeOK
  <2>2. CASE Commit(p) /\ c.own
    BY <1>1, <2>1, <2>2 DEF Commit, Install, Call
  <2>3. CASE Commit(p) /\ ~c.own
    BY <1>1, <2>1, <2>3 DEF Commit, Install, Finish, Idle
  <2>4. CASE AsyncCommit(p)
    BY <1>1, <2>1, <2>4 DEF AsyncCommit, Install, Call
  <2>5. CASE Install(p, Finish(tx[p], "Cancelled"))
    BY <1>1, <2>1, <2>5 DEF Install, Finish, Idle
  <2>. QED  BY <2>2, <2>3, <2>4, <2>5
<1>4. /\ Changed = {i \in Ids : db.rows[i] # draft.rows[i]}
      /\ c.op = "delete_many" => Changed \cap objects \subseteq excused \cup c.todo
  BY <1>1, CommitFacts DEF Changed
<1>5. ASSUME NEW i \in objects', Stored(db, i), ~Stored(db, i)', i \notin excused'
      PROVE  c.op = "delete_many" /\ i \in c.todo
  <2>1. i \in Ids /\ db.rows[i] # draft.rows[i] /\ i \in objects
    BY <1>1, <1>5 DEF FileInv, Types, TypeOK, Stored
  <2>2. CASE c.op = "put_many"
    BY <1>1, <1>5, <2>1, <2>2, PutCommits DEF Stored
  <2>3. CASE c.op = Tier
    BY <1>1, <1>5, <2>1, <2>3, TierCommits DEF Stored, Tiered
  <2>4. CASE c.op = "delete_many"
    BY <1>1, <1>4, <1>5, <2>1, <2>4
  <2>. QED  BY <1>1, <2>2, <2>3, <2>4
<1>6. Forgotten' \subseteq Forgotten \cup left
  <2>1. objects' \subseteq Ids
    BY DEF FileInv, Types, TypeOK
  <2>2. \A i \in objects' : Stored(db, i) =>
          \/ Stored(db, i)' \/ i \in excused' \/ i \in left
          \/ \E q \in Procs : tx'[q].pc = "cleanup" /\ i \in tx'[q].todo
    BY <1>3, <1>5
  <2>3. \A q \in Procs : tx[q].pc = "cleanup" => tx'[q] = tx[q]
    BY <1>1, <1>2
  <2> HIDE DEF left
  <2>. QED  BY <1>1, <2>1, <2>2, <2>3, ForgetsOnly
<1>. QED  BY <1>1, <1>6

(* A call that is given up forgets at most what it was about to remove.     *)
LEMMA EndForgets ==
  ASSUME FileInv, FileInv', NEW p \in Procs, db' = db, objects' \subseteq objects, excused \subseteq excused',
         \A q \in Procs : q # p => tx'[q] = tx[q]
  PROVE  \A i \in Forgotten' \ Forgotten : tx[p].op = "delete_many" /\ i \in tx[p].todo
<1> DEFINE left == IF tx[p].pc = "cleanup" THEN tx[p].todo ELSE {}
<1>1. objects' \subseteq Ids /\ (\A i \in Ids : Stored(db, i)' <=> Stored(db, i))
  BY DEF FileInv, Types, TypeOK, Stored
<1>2. \A q \in Procs : tx[q].pc = "cleanup" =>
        \A i \in tx[q].todo \cap objects' : i \in left \/ (tx'[q].pc = "cleanup" /\ i \in tx'[q].todo)
  OBVIOUS
<1>3. Forgotten' \subseteq Forgotten \cup left
  <2> HIDE DEF left
  <2>. QED  BY <1>1, <1>2, ForgetsOnly
<1>4. tx[p].pc = "cleanup" => tx[p].op = "delete_many"
  BY CallOf DEF Shaped
<1>. QED  BY <1>3, <1>4

(* A client dies, or a task is cancelled. *)
LEMMA AbandonForgets ==
  ASSUME FileInv, FileInv', NEW p \in Procs, Crash(p) \/ (p \in AsyncProcs /\ Cancel(p))
  PROVE  \A i \in Forgotten' \ Forgotten :
           /\ tx[p].op = "delete_many" /\ i \in tx[p].todo
           /\ \/ tx'[p].pc = "returned" /\ tx'[p].result = "Cancelled"
              \/ tx'[p].pc = "idle"
              \/ tx'[p].pc = "returned" /\ ~tx[p].own
<1>0. tx \in [Procs -> Call]
  BY DEF FileInv, Types, TypeOK
<1>1. CASE Crash(p)
  <2>1. /\ db' = db /\ objects' = objects /\ excused \subseteq excused' /\ tx' = [tx EXCEPT ![p] = Idle]
    BY <1>1 DEF Crash, Forget
  <2>2. tx'[p].pc = "idle" /\ \A q \in Procs : q # p => tx'[q] = tx[q]
    BY <1>0, <2>1, IdleType
  <2>. QED  BY <2>1, <2>2, EndForgets
<1>2. CASE tx[p].pc = "commit" /\ Install(p, Finish(tx[p], "Cancelled")) /\ UNCHANGED <<objects, excused>>
  BY <1>2, CommitForgets
<1>3. CASE /\ Forget(p) /\ tx' = [tx EXCEPT ![p] = Finish(tx[p], "Cancelled")]
           /\ excused' = excused \cup AsyncForsaking(p)
           /\ objects' \in {objects} \cup
                {objects \ {i} : i \in IF tx[p].pc = "cleanup" THEN tx[p].todo ELSE {}}
  <2>1. db' = db /\ objects' \subseteq objects /\ excused \subseteq excused'
    BY <1>3 DEF Forget
  <2>2. /\ tx'[p].pc = "returned" /\ tx'[p].result = "Cancelled"
        /\ \A q \in Procs : q # p => tx'[q] = tx[q]
    BY <1>0, <1>3 DEF Finish, Idle
  <2>. QED  BY <2>1, <2>2, EndForgets
<1>. QED  BY <1>1, <1>2, <1>3 DEF Cancel

(* An upload that nobody waits for any more, and a step of nobody.          *)
LEMMA LateForgets ==
  ASSUME FileInv, FileInv', (\E i \in Ids : LateUpload(i)) \/ UNCHANGED vars
  PROVE  Forgotten' \subseteq Forgotten
<1>1. /\ db' = db /\ tx' = tx /\ excused' = excused
      /\ \A i \in objects' : i \in objects \/ i \in excused'
  BY DEF LateUpload, vars, fileVars, bucketVars
<1>2. objects' \subseteq Ids /\ (\A i \in Ids : Stored(db, i)' <=> Stored(db, i))
  BY <1>1 DEF FileInv, Types, TypeOK, Stored
<1>. QED  BY <1>1, <1>2, ForgetsOnly

-----------------------------------------------------------------------------
(* What holds for ever *)

(* The invariant holds for ever. *)
THEOREM Invariance == Spec => []IInv
<1>1. IInv /\ [Next]_vars => IInv'
  BY NextKeeps, StutterKeeps
<1>. QED  BY <1>1, InitHolds, PTL DEF Spec

(* Every variable has the type that the engine and the backends give it.    *)
THEOREM TypeCorrect == Spec => []TypeOK
<1>1. IInv => TypeOK
  BY DEF IInv, FileInv, Types
<1>. QED  BY <1>1, Invariance, PTL

(* put_many and delete_many in dedup mode: a blob has as many references as *)
(* refs, and is there as long as it has one, whatever batches were retried, *)
(* rolled back, killed or cancelled.                                        *)
THEOREM RefCountsExact == Spec => []RefCountExact
<1>1. IInv => RefCountExact
  BY DEF IInv, FileInv, Counted, RowsOf, RefCountExact
<1>. QED  BY <1>1, Invariance, PTL

(* tier_to_object_storage: a row that points at an object never outlives    *)
(* it, whatever uploads fail, linger or are abandoned.                      *)
THEOREM TieredBytesSafe == Spec => []NoLostBytes
<1>1. IInv => NoLostBytes
  BY DEF IInv, FileInv, Bucketed
<1>. QED  BY <1>1, Invariance, PTL

(* _run: a call that raised has changed nothing, one that returned has      *)
(* changed all that it says.                                                *)
THEOREM AnswersAreEffects == Spec => []AnswerIsEffect
<1>1. IInv => AnswerIsEffect
  <2> SUFFICES ASSUME IInv, NEW p \in Procs, tx[p].pc \in {"cleanup", "returned"}
               PROVE  /\ tx[p].op = "put_many" /\ tx[p].result = "ids" => tx[p].applied = tx[p].ids
                      /\ tx[p].op = "tier_to_object_storage" =>
                           (tx[p].result = "True" => tx[p].applied = tx[p].ids)
                      /\ tx[p].op # "get_many" /\ tx[p].result \in {"StorageError", "None", "False"}
                           => tx[p].applied = {}
    BY DEF AnswerIsEffect
  <2>1. Answered(tx[p])
    BY CallOf DEF IInv
  <2>. QED  BY <2>1 DEF Answered, Tier
<1>. QED  BY <1>1, Invariance, PTL

(* delete_many on a connection of its own that has returned ids has removed *)
(* the objects of the rows it deleted, or said which ones it could not      *)
(* remove.                                                                  *)
DeleteRemovesObjects ==
  \A p \in Procs :
    Returned(p, "delete_many") /\ tx[p].own /\ tx[p].result = "ids"
      => tx[p].applied \cap objects \subseteq excused

(* delete_many removes the objects of the rows it deleted, or says which    *)
(* ones it could not remove.                                                *)
THEOREM DeletesRemoveObjects == Spec => []DeleteRemovesObjects
<1>1. IInv => DeleteRemovesObjects
  <2> SUFFICES ASSUME IInv, NEW p \in Procs, Returned(p, "delete_many"), tx[p].own, tx[p].result = "ids"
               PROVE  tx[p].applied \cap objects \subseteq excused
    BY DEF DeleteRemovesObjects
  <2>1. Removed(tx[p])
    BY CallOf DEF IInv
  <2>. QED  BY <2>1 DEF Removed, Returned, At
<1>. QED  BY <1>1, Invariance, PTL

(* delete_many, tier_to_object_storage: an object is forgotten only by a    *)
(* delete that ends before it has come to it: the transaction is the        *)
(* caller's, the task is cancelled, or the process dies.                    *)
THEOREM OrphansAreExplained == Spec => OrphansExplained
<1> DEFINE Explained ==
             \A i \in Forgotten' \ Forgotten :
               \E p \in Procs :
                 /\ tx[p].op = "delete_many" /\ i \in tx[p].todo
                 /\ \/ tx'[p].pc = "returned" /\ (~tx[p].own \/ tx'[p].result = "Cancelled")
                    \/ tx'[p].pc = "idle"
<1>1. ASSUME IInv, IInv', [Next]_vars PROVE Explained
  <2>1. FileInv /\ FileInv'
    BY <1>1 DEF IInv
  <2>2. CASE UNCHANGED vars \/ \E i \in Ids : LateUpload(i)
    BY <2>1, <2>2, LateForgets
  <2>3. ASSUME NEW p \in Procs, SyncBegin(p) \/ SyncStep(p) \/ AsyncBegin(p) \/ AsyncStep(p)
        PROVE  Explained
    <3>1. CASE Quiet(p) \/ \E i \in Ids : RemoveObject(p, i) \/ RemoveObjectFails(p, i) \/ AsyncRemoveObject(p, i)
      BY <2>1, <3>1, QuietForgets, RemovalForgets
    <3>2. CASE Commit(p) \/ AsyncCommit(p)
      BY <2>1, <3>2, CommitForgets
    <3>. QED  BY <2>1, <2>3, <3>1, <3>2, SyncQuiet, AsyncQuiet
  <2>4. ASSUME NEW p \in Procs, Crash(p) \/ (p \in AsyncProcs /\ Cancel(p)) PROVE Explained
    BY <2>1, <2>4, AbandonForgets
  <2>. QED  BY <1>1, <2>2, <2>3, <2>4 DEF Next, Procs
<1>2. IInv /\ IInv' /\ [Next]_vars => [Explained]_vars
  BY <1>1
<1>. QED  BY <1>2, Invariance, PTL DEF Spec, OrphansExplained

(* get_stream: a stream that ends without an error is complete, and one of  *)
(* a task never has another image's bytes.                                  *)
THEOREM StreamsDeliverWhole == Spec => []StreamsWhole
<1>1. IInv => StreamsWhole
  <2> SUFFICES ASSUME IInv, NEW p \in Procs, Returned(p, "get_stream"), tx[p].result = "bytes"
               PROVE  /\ tx[p].left = 0
                      /\ p \in AsyncProcs => tx[p].got \subseteq {given[i] : i \in tx[p].ids}
    BY DEF StreamsWhole
  <2>1. Answered(tx[p]) /\ Streamed(p, tx[p])
    BY CallOf DEF IInv
  <2>. QED  BY <2>1 DEF Answered, Streamed, Returned, At
<1>. QED  BY <1>1, Invariance, PTL

(* get_stream of SQLiteBackend: once its snapshot has the image's bytes, it *)
(* delivers them to the end, whatever is deleted meanwhile.                 *)
THEOREM BegunStreamsComplete == Spec => []BegunStreamCompletes
<1>1. IInv => BegunStreamCompletes
  <2> SUFFICES ASSUME IInv, NEW p \in SyncProcs, Returned(p, "get_stream"), tx[p].begun
               PROVE  tx[p].result = "bytes" /\ tx[p].got = {given[i] : i \in tx[p].ids}
    BY DEF BegunStreamCompletes
  <2>1. Answered(tx[p]) /\ Streamed(p, tx[p])
    BY CallOf DEF IInv, Procs
  <2>. QED  BY <2>1 DEF Answered, Streamed, Returned, At
<1>. QED  BY <1>1, Invariance, PTL

(* __init__ and _ensure_ready: no statement meets a file without tables,    *)
(* whoever creates them, however often that failed before.                  *)
THEOREM TablesAreThere == Spec => []TablesFirst
<1>1. IInv => TablesFirst
  <2> SUFFICES ASSUME IInv, NEW p \in Procs, tx[p].pc \in {"work", "chunks"}, tx[p].op # "migrate"
               PROVE  schema
    BY DEF TablesFirst
  <2>1. Tabled(tx[p])
    BY CallOf DEF IInv
  <2>. QED  BY <2>1 DEF Tabled
<1>. QED  BY <1>1, Invariance, PTL
=============================================================================
