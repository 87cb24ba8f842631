-------------------------- MODULE CommandLineProofs --------------------------
(***************************************************************************)
(* What holds of Client and CommandLine for all values of their constants: *)
(* for any number of clients and commands, batches of any size and any     *)
(* hooks, results line up with their items, a denied position shows no     *)
(* image, and exit status 0 means what the command says.  IInv is the      *)
(* inductive invariant: what a call has found out about each position, and *)
(* what a command knows of the images it has been through.                 *)
(***************************************************************************)
EXTENDS CommandLine, WellFoundedInduction, TLAPS

Images == Contents \cup {Invalid}

CallType == [
  pc : {"idle", "begun", "prepare", "query", "returned"},
  op : {"none", "put_many", "get", "get_many", "delete_many"},
  items : BoundedSeq(Images \cup Names, MaxBatch),
  rest : SUBSET Nat, allowed : SUBSET Nat, seen : SUBSET Ids,
  results : BoundedSeq(Answers, MaxBatch) ]

CommandType == [
  pc : {"idle", "loop", "exited"}, name : {"none", "verify", "tier"}, bucket : BOOLEAN,
  listed : SUBSET Ids, left : SUBSET Ids, tieredThen : SUBSET Ids, mismatches : SUBSET Ids,
  exit : {0, 1} ]

Positions(c) == DOMAIN c.items

(* Which operation is where, and which positions are still to be decided.   *)
Shape(c) ==
  /\ DOMAIN c.results = Positions(c)
  /\ c.rest \subseteq Positions(c) /\ c.allowed \subseteq Positions(c)
  /\ c.pc \in {"begun", "prepare"} => c.rest # {}
  /\ c.pc = "query" => c.rest = {} /\ c.allowed # {}
  /\ c.pc = "prepare" => c.op = "put_many"
  /\ c.op \in {"none", "delete_many"} => c.pc \in {"idle", "returned"}
  /\ c.op \in Gets \cup {"put_many"} => c.pc # "idle"

(* A put: what is neither waiting nor prepared has its error; in the end,   *)
(* what has an id has one of its own, that was drawn for its image.         *)
Putting(c, drawn) ==
  /\ \A k \in Positions(c) : c.items[k] \in Images
  /\ \A k \in c.allowed : c.items[k] \in Contents
  /\ c.pc # "returned" =>
       \A k \in Positions(c) \ (c.rest \cup c.allowed) : c.results[k] = "error"
  /\ c.pc = "returned" =>
       \A k \in Positions(c) :
         /\ c.results[k] \in Ids => drawn[c.results[k]] = c.items[k] /\ k \in c.allowed
         /\ c.results[k] \in Ids \cup {"error", "denied"}
         /\ \A j \in Positions(c) : c.results[j] \in Ids /\ c.results[j] = c.results[k] => j = k

(* A get: no image before the query, and then that of an allowed name.      *)
Getting(p, c, drawn) ==
  /\ \A k \in Positions(c) : c.items[k] \in Names
  /\ c.op = "get" => Positions(c) = {1}
  /\ p \in SyncClients => \A k \in c.allowed : c.items[k].id # Malformed
  /\ \A k \in Positions(c) : c.results[k] \in Contents =>
       /\ k \in c.allowed /\ c.pc = "returned"
       /\ c.op = "get_many" => c.items[k].id \in Ids /\ c.results[k] = drawn[c.items[k].id]
  /\ c.pc = "returned" /\ c.op = "get_many" =>
       \A k \in c.allowed : c.results[k] = "not found" /\ c.items[k].spelled = "as put"
                              => c.items[k].id \notin c.seen

CallOf(p, c, drawn) ==
  /\ c \in CallType /\ Shape(c)
  /\ c.op = "put_many" => Putting(c, drawn)
  /\ c.op \in Gets => Getting(p, c, drawn)

(* A command: what it has listed, and what it has verified so far.          *)
Listing(r) ==
  /\ r.left \subseteq r.listed /\ r.mismatches \subseteq r.listed
  /\ \A i \in r.listed : given[i] # Invalid
  /\ r.pc = "idle" => r.listed = {}
  /\ r.pc = "exited" => r.left = {}
  /\ r.mismatches \subseteq damaged
  /\ r.name = "verify" /\ r.exit = 0 =>
       \A i \in (r.listed \ r.left) \cap stored :
         (i \in r.tieredThen => r.bucket) => i \notin damaged

(* ... and what it has tiered so far. *)
Running(r) ==
  /\ Listing(r)
  /\ r.name = "tier" /\ r.exit = 0 => (r.listed \ r.left) \cap stored \subseteq tiered

(* What is stored was drawn for an image that had passed the validation.    *)
StoreInv ==
  /\ hooks \in Hooks /\ folds \in BOOLEAN
  /\ stored \subseteq Ids /\ tiered \subseteq stored /\ damaged \subseteq Ids
  /\ given \in [Ids -> Images]
  /\ \A i \in stored : given[i] \in Contents

IInv ==
  /\ StoreInv
  /\ call \in [Clients -> CallType] /\ \A p \in Clients : CallOf(p, call[p], given)
  /\ command \in [Commands -> CommandType] /\ \A c \in Commands : Running(command[c])

-----------------------------------------------------------------------------
(* Lemmas about the operators *)

(* The first position of a set is one of them. *)
LEMMA FirstIn ==
  ASSUME NEW S \in SUBSET Nat, S # {}
  PROVE  First(S) \in S
<1>. DEFINE R == OpToRel(<, Nat)
<1>1. IsWellFoundedOn(R, Nat)
  BY NatLessThanWellFounded
<1>2. \A x, y \in Nat : x < y => <<x, y>> \in R
  BY DEF OpToRel
<1>. HIDE DEF R
<1>3. PICK x \in S : \A y \in S : ~ (<<y, x>> \in R)
  BY <1>1, WFMin
<1>4. ASSUME NEW y \in S PROVE x <= y
  <2>1. x \in Nat /\ y \in Nat
    OBVIOUS
  <2>2. ~(y < x)
    BY <1>2, <1>3, <2>1
  <2>. QED  BY <2>1, <2>2
<1>. QED  BY <1>4 DEF First

(* Sequences up to a length, as functions. *)
LEMMA Bounded ==
  ASSUME NEW S, NEW s
  PROVE  s \in BoundedSeq(S, MaxBatch) <=> \E n \in 0..MaxBatch : s \in [1..n -> S]
BY DEF BoundedSeq, SeqOf

(* The positions of a call are numbers. *)
LEMMA PositionsInNat ==
  ASSUME NEW c \in CallType
  PROVE  Positions(c) \in SUBSET Nat
<1>1. PICK n \in 0..MaxBatch : c.items \in [1..n -> Images \cup Names]
  BY Bounded DEF CallType
<1>. QED  BY <1>1 DEF Positions

(* A list of answers for the positions of a call. *)
LEMMA AnswersFor ==
  ASSUME NEW c \in CallType, NEW f \in [Positions(c) -> Answers]
  PROVE  f \in BoundedSeq(Answers, MaxBatch)
<1>1. PICK n \in 0..MaxBatch : c.items \in [1..n -> Images \cup Names]
  BY Bounded DEF CallType
<1>2. f \in [1..n -> Answers]
  BY <1>1 DEF Positions
<1>. QED  BY <1>2, Bounded

(* A call that has got results for its positions is a call. *)
LEMMA CallMade ==
  ASSUME NEW c \in CallType, NEW f \in [Positions(c) -> Answers],
         NEW pc \in {"idle", "begun", "prepare", "query", "returned"},
         NEW rest \in SUBSET Positions(c), NEW allowed \in SUBSET Positions(c),
         NEW seen \in SUBSET Ids
  PROVE  [pc |-> pc, op |-> c.op, items |-> c.items, rest |-> rest, allowed |-> allowed,
          seen |-> seen, results |-> f] \in CallType
<1>1. f \in BoundedSeq(Answers, MaxBatch)
  BY AnswersFor
<1>2. rest \in SUBSET Nat /\ allowed \in SUBSET Nat
  BY PositionsInNat
<1>3. c.op \in {"none", "put_many", "get", "get_many", "delete_many"}
      /\ c.items \in BoundedSeq(Images \cup Names, MaxBatch)
  BY DEF CallType
<1>. QED  BY <1>1, <1>2, <1>3 DEF CallType

(* The answers a call has are a function of its positions. *)
LEMMA ResultsOf ==
  ASSUME NEW c \in CallType, DOMAIN c.results = Positions(c)
  PROVE  c.results \in [Positions(c) -> Answers]
<1>1. PICK n \in 0..MaxBatch : c.results \in [1..n -> Answers]
  BY Bounded DEF CallType
<1>. QED  BY <1>1

(* One field of a call is set. *)
LEMMA FieldsSet ==
  ASSUME NEW c \in CallType
  PROVE  /\ \A pc \in {"idle", "begun", "prepare", "query", "returned"} :
              [c EXCEPT !.pc = pc] \in CallType
         /\ \A op \in {"none", "put_many", "get", "get_many", "delete_many"} :
              [c EXCEPT !.op = op] \in CallType
         /\ \A items \in BoundedSeq(Images \cup Names, MaxBatch) :
              [c EXCEPT !.items = items] \in CallType
         /\ \A rest \in SUBSET Nat : [c EXCEPT !.rest = rest] \in CallType
         /\ \A allowed \in SUBSET Nat : [c EXCEPT !.allowed = allowed] \in CallType
         /\ \A seen \in SUBSET Ids : [c EXCEPT !.seen = seen] \in CallType
         /\ \A f \in BoundedSeq(Answers, MaxBatch) : [c EXCEPT !.results = f] \in CallType
BY DEF CallType

(* A call that has its answers. *)
LEMMA Answered ==
  ASSUME NEW c \in CallType, NEW f
  PROVE  Returned([c EXCEPT !.results = f])
         = [pc |-> "returned", op |-> c.op, items |-> c.items, rest |-> c.rest,
            allowed |-> c.allowed, seen |-> c.seen, results |-> f]
<1>. DEFINE d == [pc |-> c.pc, op |-> c.op, items |-> c.items, rest |-> c.rest,
                  allowed |-> c.allowed, seen |-> c.seen, results |-> f]
<1>1. [c EXCEPT !.results = f] = d
  BY DEF CallType
<1>2. [d EXCEPT !.pc = "returned"]
      = [pc |-> "returned", op |-> c.op, items |-> c.items, rest |-> c.rest,
         allowed |-> c.allowed, seen |-> c.seen, results |-> f]
  OBVIOUS
<1>. QED  BY <1>1, <1>2 DEF Returned

(* An idle call. *)
LEMMA IdleIs ==
  ASSUME NEW p, NEW drawn
  PROVE  CallOf(p, Idle, drawn)
<1>1. Idle = [pc |-> "idle", op |-> "none", items |-> <<>>, rest |-> {}, allowed |-> {},
              seen |-> {}, results |-> <<>>]
  BY DEF Idle
<1>2. ASSUME NEW S PROVE <<>> \in BoundedSeq(S, MaxBatch)
  <2>1. <<>> \in [1..0 -> S]
    OBVIOUS
  <2>2. 0 \in 0..MaxBatch
    BY ClientAssumption
  <2>. QED  BY <2>1, <2>2, Bounded
<1>3. Idle \in CallType
  BY <1>1, <1>2 DEF CallType
<1>4. Shape(Idle)
  BY <1>1 DEF Shape, Positions, Gets
<1>. QED  BY <1>1, <1>3, <1>4 DEF CallOf, Gets

-----------------------------------------------------------------------------
(* Steps of a client *)

(* What a call has been told stays true while ids are drawn: an id that was *)
(* drawn keeps its image.                                                   *)
LEMMA CallStays ==
  ASSUME NEW p, NEW c, CallOf(p, c, given),
         \A i \in Ids : given[i] # Invalid => given'[i] = given[i]
  PROVE  CallOf(p, c, given')
<1>1. Invalid \notin Contents /\ Malformed \notin Ids
  BY ClientAssumption
<1>2. c.op = "put_many" => Putting(c, given')
  <2>. SUFFICES ASSUME Putting(c, given), Shape(c) PROVE Putting(c, given')
    BY DEF CallOf
  <2>1. ASSUME NEW k \in Positions(c), c.pc = "returned", c.results[k] \in Ids
        PROVE  given'[c.results[k]] = c.items[k]
    <3>1. given[c.results[k]] = c.items[k] /\ k \in c.allowed
      BY <2>1 DEF Putting
    <3>2. c.items[k] \in Contents
      BY <3>1 DEF Putting
    <3>. QED  BY <1>1, <2>1, <3>1, <3>2
  <2>. QED  BY <2>1 DEF Putting
<1>3. c.op \in Gets => Getting(p, c, given')
  <2>. SUFFICES ASSUME Getting(p, c, given) PROVE Getting(p, c, given')
    BY DEF CallOf
  <2>1. ASSUME NEW k \in Positions(c), c.results[k] \in Contents, c.op = "get_many"
        PROVE  c.items[k].id \in Ids /\ c.results[k] = given'[c.items[k].id]
    <3>1. c.items[k].id \in Ids /\ c.results[k] = given[c.items[k].id]
      BY <2>1 DEF Getting
    <3>. QED  BY <1>1, <2>1, <3>1
  <2>. QED  BY <2>1 DEF Getting
<1>. QED  BY <1>2, <1>3 DEF CallOf

(* A command knows of images that were drawn before, and none of them comes *)
(* back, loses its mark as tiered or is damaged.                            *)
LEMMA RunningStays ==
  ASSUME NEW r \in CommandType, Running(r), tiered \subseteq stored,
         \A i \in Ids : given[i] # Invalid => given'[i] = given[i],
         \A i \in stored' : given[i] # Invalid => i \in stored,
         tiered \cap stored' \subseteq tiered', damaged' = damaged
  PROVE  Running(r)'
<1>. DEFINE L == r.listed
<1>1. L \subseteq Ids /\ \A i \in L : given[i] # Invalid /\ given'[i] # Invalid
  BY DEF Running, Listing, CommandType
<1>2. L \cap stored' \subseteq stored
  BY <1>1
<1>3. r.mismatches \subseteq damaged'
  BY <1>2 DEF Running, Listing
<1>4. r.name = "verify" /\ r.exit = 0 =>
        \A i \in (L \ r.left) \cap stored' : (i \in r.tieredThen => r.bucket) => i \notin damaged'
  BY <1>2 DEF Running, Listing
<1>5. r.name = "tier" /\ r.exit = 0 => (L \ r.left) \cap stored' \subseteq tiered'
  BY <1>2 DEF Running, Listing
<1>. QED  BY <1>1, <1>3, <1>4, <1>5 DEF Running, Listing

(* What a client's step must do to keep the invariant.                      *)
LEMMA ClientKept ==
  ASSUME IInv, NEW p \in Clients, NEW c,
         call' = [call EXCEPT ![p] = c], CallOf(p, c, given'),
         UNCHANGED <<hooks, folds, command>>, damaged' = damaged,
         given' \in [Ids -> Images],
         \A i \in Ids : given[i] # Invalid => given'[i] = given[i],
         stored' \subseteq Ids, tiered' \subseteq stored',
         \A i \in stored' : given'[i] \in Contents,
         \A i \in stored' : given[i] # Invalid => i \in stored,
         tiered \cap stored' \subseteq tiered'
  PROVE  IInv'
<1>1. StoreInv'
  BY DEF IInv, StoreInv
<1>2. call' \in [Clients -> CallType]
  BY DEF IInv, CallOf
<1>3. ASSUME NEW q \in Clients PROVE CallOf(q, call'[q], given')
  <2>1. CASE q = p
    BY <2>1 DEF IInv
  <2>2. CASE q # p
    <3>1. call'[q] = call[q] /\ CallOf(q, call[q], given)
      BY <2>2 DEF IInv
    <3>2. CallOf(q, call[q], given')
      BY <3>1, CallStays
    <3>. QED  BY <3>1, <3>2
  <2>. QED  BY <2>1, <2>2
<1>4. ASSUME NEW k \in Commands PROVE command'[k] \in CommandType /\ Running(command[k])'
  <2>1. command[k] \in CommandType /\ Running(command[k]) /\ tiered \subseteq stored
    BY DEF IInv, StoreInv
  <2>2. PICK r \in CommandType : r = command[k]
    BY <2>1
  <2>3. Running(r)'
    BY <2>1, <2>2, RunningStays
  <2>4. command'[k] = r
    BY <2>2
  <2>. QED  BY <2>3, <2>4 DEF Running, Listing
<1>. QED  BY <1>1, <1>2, <1>3, <1>4 DEF IInv

(* Steps that change nothing but the client's call. *)
LEMMA ClientAlone ==
  ASSUME IInv, NEW p \in Clients, NEW c,
         call' = [call EXCEPT ![p] = c], CallOf(p, c, given),
         UNCHANGED <<hooks, folds, stored, given, tiered, command>>,
         damaged' = damaged
  PROVE  IInv'
<1>1. CallOf(p, c, given')
  OBVIOUS
<1>. QED  BY <1>1, ClientKept DEF IInv, StoreInv

(* What a client's step leaves alone: the commands, and it damages nothing. *)
Aside == command' = command /\ damaged' = damaged

(* A new call for some items. *)
LEMMA BeginKept ==
  ASSUME IInv, NEW p \in Clients, Aside, NEW op, NEW items, Begin(p, op, items),
         items \in BoundedSeq(Images \cup Names, MaxBatch), items # <<>>,
         \/ op = "put_many" /\ \A k \in DOMAIN items : items[k] \in Images
         \/ op = "get_many" /\ \A k \in DOMAIN items : items[k] \in Names
         \/ op = "get" /\ DOMAIN items = {1} /\ \A k \in DOMAIN items : items[k] \in Names
  PROVE  IInv'
<1>. DEFINE none == [k \in DOMAIN items |-> "none"]
            c == [Idle EXCEPT !.pc = "begun", !.op = op, !.items = items, !.rest = DOMAIN items,
                              !.results = none]
<1>1. /\ c.pc = "begun" /\ c.op = op /\ c.items = items /\ c.rest = DOMAIN items
      /\ c.allowed = {} /\ c.seen = {} /\ c.results = none
  BY DEF Idle
<1>2. PICK n \in 0..MaxBatch : items \in [1..n -> Images \cup Names]
  BY Bounded
<1>3. DOMAIN items = 1..n /\ DOMAIN items # {} /\ DOMAIN items \in SUBSET Nat
  <2>1. n # 0
    BY <1>2
  <2>. QED  BY <1>2, <2>1
<1>4. none \in BoundedSeq(Answers, MaxBatch) /\ DOMAIN none = DOMAIN items
  <2>1. none \in [1..n -> Answers]
    BY <1>3 DEF Answers, Plain
  <2>. QED  BY <2>1, <1>3, Bounded
<1>. HIDE DEF none
<1>5. c \in CallType
  <2>1. Idle \in CallType
    BY IdleIs DEF CallOf
  <2>2. [Idle EXCEPT !.pc = "begun"] \in CallType
    BY <2>1, FieldsSet
  <2>3. [[Idle EXCEPT !.pc = "begun"] EXCEPT !.op = op] \in CallType
    BY <2>2, FieldsSet
  <2>4. [[[Idle EXCEPT !.pc = "begun"] EXCEPT !.op = op] EXCEPT !.items = items] \in CallType
    BY <2>3, FieldsSet
  <2>5. [[[[Idle EXCEPT !.pc = "begun"] EXCEPT !.op = op] EXCEPT !.items = items]
           EXCEPT !.rest = DOMAIN items] \in CallType
    BY <1>3, <2>4, FieldsSet
  <2>. QED  BY <1>4, <2>5, FieldsSet
<1>. HIDE DEF c
<1>6. Shape(c)
  BY <1>1, <1>3, <1>4 DEF Shape, Positions, Gets
<1>7. op = "put_many" => Putting(c, given)
  BY <1>1 DEF Putting, Positions
<1>8. \A k \in DOMAIN items : none[k] \notin Contents
  BY ClientAssumption DEF none, Plain
<1>9. op \in Gets => Getting(p, c, given)
  BY <1>1, <1>8 DEF Getting, Positions, Gets
<1>10. CallOf(p, c, given)
  BY <1>1, <1>5, <1>6, <1>7, <1>9 DEF CallOf
<1>11. call' = [call EXCEPT ![p] = c] /\ UNCHANGED <<hooks, folds, stored, given, tiered>>
  BY DEF Begin, storeVars, none, c
<1>. QED  BY <1>10, <1>11, ClientAlone DEF Aside

(* Calls for a batch of images, for one name, for a batch of names. *)
LEMMA BeginsKept ==
  ASSUME IInv, NEW p \in Clients, Aside, BeginPut(p) \/ BeginGet(p)
  PROVE  IInv'
<1>1. ASSUME NEW S, NEW items \in Batches(S)
      PROVE  items \in BoundedSeq(S, MaxBatch) /\ items # <<>> /\ \A k \in DOMAIN items : items[k] \in S
  BY <1>1, Bounded DEF Batches
<1>2. ASSUME NEW S, NEW T, S \subseteq T, NEW items \in BoundedSeq(S, MaxBatch)
      PROVE  items \in BoundedSeq(T, MaxBatch)
  <2>1. PICK n \in 0..MaxBatch : items \in [1..n -> S]
    BY Bounded
  <2>2. items \in [1..n -> T]
    BY <1>2, <2>1
  <2>. QED  BY <2>2, Bounded
<1>3. CASE BeginPut(p)
  <2>1. PICK images \in Batches(Images) : Begin(p, "put_many", images)
    BY <1>3 DEF BeginPut, Images
  <2>2. images \in BoundedSeq(Images \cup Names, MaxBatch)
    BY <1>1, <1>2
  <2>. QED  BY <1>1, <2>1, <2>2, BeginKept
<1>4. ASSUME NEW name \in Names, Begin(p, "get", <<name>>)
      PROVE  IInv'
  <2>1. <<name>> \in [1..1 -> Images \cup Names] /\ DOMAIN <<name>> = {1} /\ <<name>> # <<>>
        /\ \A k \in DOMAIN <<name>> : <<name>>[k] \in Names
    OBVIOUS
  <2>2. 1 \in 0..MaxBatch
    BY ClientAssumption
  <2>3. <<name>> \in BoundedSeq(Images \cup Names, MaxBatch)
    BY <2>1, <2>2, Bounded
  <2>. QED  BY <1>4, <2>1, <2>3, BeginKept
<1>5. ASSUME NEW names \in Batches(Names), Begin(p, "get_many", names)
      PROVE  IInv'
  <2>1. names \in BoundedSeq(Images \cup Names, MaxBatch)
    BY <1>1, <1>2
  <2>. QED  BY <1>1, <1>5, <2>1, BeginKept
<1>. QED  BY <1>3, <1>4, <1>5 DEF BeginGet

(* The call of a client, with the fields that its steps do not change.      *)
LEMMA Holds ==
  ASSUME IInv, NEW p \in Clients
  PROVE  /\ CallOf(p, call[p], given) /\ call[p] \in CallType /\ Shape(call[p])
         /\ call[p].results \in [Positions(call[p]) -> Answers]
         /\ call[p].seen \in SUBSET Ids
         /\ call[p].op = "put_many" => Putting(call[p], given)
         /\ call[p].op \in Gets => Getting(p, call[p], given)
         /\ Positions(call[p]) \in SUBSET Nat
<1>1. CallOf(p, call[p], given) /\ call[p] \in CallType /\ Shape(call[p])
  BY DEF IInv, CallOf
<1>2. call[p].results \in [Positions(call[p]) -> Answers]
  BY <1>1, ResultsOf DEF Shape
<1>3. call[p].seen \in SUBSET Ids
  BY <1>1 DEF CallType
<1>4. (call[p].op = "put_many" => Putting(call[p], given))
      /\ (call[p].op \in Gets => Getting(p, call[p], given))
  BY <1>1 DEF CallOf
<1>5. Positions(call[p]) \in SUBSET Nat
  BY <1>1, PositionsInNat
<1>. QED  BY <1>1, <1>2, <1>3, <1>4, <1>5

(* A call that ends with the same answer for every item. *)
LEMMA EveryKept ==
  ASSUME IInv, NEW p \in Clients, call[p].op \in Gets \cup {"put_many"},
         NEW answer \in {"denied", "error"}
  PROVE  CallOf(p, Every(call[p], answer), given)
<1>. DEFINE c == call[p]
            f == [k \in Positions(c) |-> answer]
            d == [pc |-> "returned", op |-> c.op, items |-> c.items, rest |-> c.rest,
                  allowed |-> c.allowed, seen |-> c.seen, results |-> f]
<1>1. c \in CallType /\ Shape(c) /\ c.seen \in SUBSET Ids
      /\ (c.op = "put_many" => Putting(c, given)) /\ (c.op \in Gets => Getting(p, c, given))
  BY Holds
<1>2. Every(c, answer) = d
  <2>1. Every(c, answer) = Returned([c EXCEPT !.results = f])
    BY DEF Every, Positions
  <2>. QED  BY <1>1, <2>1, Answered
<1>3. f \in [Positions(c) -> Answers] /\ DOMAIN f = Positions(c)
      /\ \A k \in Positions(c) : f[k] = answer
  BY DEF Answers, Plain
<1>4. answer \notin Ids /\ answer \notin Contents
  BY ClientAssumption DEF Plain
<1>. HIDE DEF f, c
<1>5. c.rest \in SUBSET Positions(c) /\ c.allowed \in SUBSET Positions(c)
  BY <1>1 DEF Shape
<1>6. d \in CallType
  BY <1>1, <1>3, <1>5, CallMade
<1>7. Positions(d) = Positions(c)
  BY DEF Positions
<1>8. Shape(d)
  BY <1>1, <1>3, <1>5, <1>7 DEF Shape, Gets, c
<1>9. c.op = "put_many" => Putting(d, given)
  BY <1>1, <1>3, <1>4, <1>7 DEF Putting
<1>10. c.op \in Gets => Getting(p, d, given)
  BY <1>1, <1>3, <1>4, <1>5, <1>7 DEF Getting
<1>11. CallOf(p, d, given)
  BY <1>6, <1>8, <1>9, <1>10 DEF CallOf
<1>. QED  BY <1>2, <1>11 DEF c

(* A call in which one more position has been answered or let through, and  *)
(* that is yet to be looked at for what is left.                            *)
Weighed(p, m) ==
  /\ DOMAIN m.results = Positions(m)
  /\ m.rest \subseteq Positions(m) /\ m.allowed \subseteq Positions(m)
  /\ m.pc \in {"begun", "prepare"} /\ m.op \in Gets \cup {"put_many"}
  /\ m.pc = "prepare" => m.op = "put_many"
  /\ m.op = "put_many" =>
       /\ \A k \in Positions(m) : m.items[k] \in Images
       /\ \A k \in m.allowed : m.items[k] \in Contents
       /\ \A k \in Positions(m) \ (m.rest \cup m.allowed) : m.results[k] = "error"
  /\ m.op \in Gets =>
       /\ \A k \in Positions(m) : m.items[k] \in Names
       /\ m.op = "get" => Positions(m) = {1}
       /\ p \in SyncClients => \A k \in m.allowed : m.items[k].id # Malformed
       /\ \A k \in Positions(m) : m.results[k] \notin Contents

(* It goes on, to the backend, or it has its answers. *)
LEMMA DecidedKept ==
  ASSUME NEW p, NEW m \in CallType, Weighed(p, m)
  PROVE  CallOf(p, Decided(m), given)
<1>0. "put_many" \notin Gets /\ "none" \notin Gets /\ "delete_many" \notin Gets
  BY DEF Gets
<1>1. CASE m.rest # {}
  <2>1. Decided(m) = m
    BY <1>1 DEF Decided
  <2>2. Shape(m)
    BY <1>0, <1>1 DEF Weighed, Shape
  <2>3. m.op = "put_many" => Putting(m, given)
    BY DEF Weighed, Putting
  <2>4. m.op \in Gets => Getting(p, m, given)
    BY DEF Weighed, Getting
  <2>. QED  BY <2>1, <2>2, <2>3, <2>4 DEF CallOf
<1>2. CASE m.rest = {} /\ m.allowed = {}
  <2>. DEFINE d == [m EXCEPT !.pc = "returned"]
  <2>1. Decided(m) = d
    BY <1>2 DEF Decided, Returned
  <2>2. d \in CallType
    BY FieldsSet
  <2>3. d.pc = "returned" /\ d.op = m.op /\ d.items = m.items /\ d.rest = m.rest
        /\ d.allowed = m.allowed /\ d.seen = m.seen /\ d.results = m.results
    BY DEF CallType
  <2>. HIDE DEF d
  <2>4. Shape(d)
    BY <1>0, <1>2, <2>3 DEF Weighed, Shape, Positions
  <2>5. "error" \notin Ids
    BY ClientAssumption DEF Plain
  <2>6. m.op = "put_many" => Putting(d, given)
    BY <1>2, <2>3, <2>5 DEF Weighed, Putting, Positions
  <2>7. m.op \in Gets => Getting(p, d, given)
    BY <1>2, <2>3 DEF Weighed, Getting, Positions
  <2>8. CallOf(p, d, given)
    BY <2>2, <2>3, <2>4, <2>6, <2>7 DEF CallOf
  <2>. QED  BY <2>1, <2>8
<1>3. CASE m.rest = {} /\ m.allowed # {}
  <2>. DEFINE d == [m EXCEPT !.pc = "query"]
  <2>1. Decided(m) = d
    BY <1>3 DEF Decided
  <2>2. d \in CallType
    BY FieldsSet
  <2>3. d.pc = "query" /\ d.op = m.op /\ d.items = m.items /\ d.rest = m.rest
        /\ d.allowed = m.allowed /\ d.seen = m.seen /\ d.results = m.results
    BY DEF CallType
  <2>. HIDE DEF d
  <2>4. Shape(d)
    BY <1>0, <1>3, <2>3 DEF Weighed, Shape, Positions
  <2>6. m.op = "put_many" => Putting(d, given)
    BY <1>3, <2>3 DEF Weighed, Putting, Positions
  <2>7. m.op \in Gets => Getting(p, d, given)
    BY <1>3, <2>3 DEF Weighed, Getting, Positions
  <2>8. CallOf(p, d, given)
    BY <2>2, <2>3, <2>4, <2>6, <2>7 DEF CallOf
  <2>. QED  BY <2>1, <2>8
<1>. QED  BY <1>1, <1>2, <1>3

(* A position is answered. *)
LEMMA AnswerKept ==
  ASSUME IInv, NEW p \in Clients, call[p].pc \in {"begun", "prepare"},
         NEW k \in call[p].rest, NEW why \in {"error", "not found", "denied"},
         call[p].op = "put_many" => why = "error"
  PROVE  CallOf(p, Decided([call[p] EXCEPT !.rest = @ \ {k}, !.results[k] = why]), given)
<1>. DEFINE c == call[p]
            f == [c.results EXCEPT ![k] = why]
            m == [c EXCEPT !.rest = @ \ {k}, !.results[k] = why]
<1>1. /\ CallOf(p, c, given) /\ c \in CallType /\ Shape(c)
      /\ c.results \in [Positions(c) -> Answers]
      /\ c.op = "put_many" => Putting(c, given)
      /\ c.op \in Gets => Getting(p, c, given)
      /\ Positions(c) \in SUBSET Nat
  BY Holds
<1>2. m.pc = c.pc /\ m.op = c.op /\ m.items = c.items /\ m.rest = c.rest \ {k}
      /\ m.allowed = c.allowed /\ m.seen = c.seen /\ m.results = f
  BY <1>1 DEF CallType
<1>3. k \in Positions(c)
  BY <1>1 DEF Shape
<1>4. f \in [Positions(c) -> Answers] /\ f[k] = why /\ \A j \in Positions(c) \ {k} : f[j] = c.results[j]
  BY <1>1, <1>3 DEF Answers, Plain
<1>5. m \in CallType
  <2>1. f \in BoundedSeq(Answers, MaxBatch)
    BY <1>1, <1>4, AnswersFor
  <2>2. c.rest \ {k} \in SUBSET Nat
    BY <1>1 DEF CallType
  <2>3. [c EXCEPT !.rest = @ \ {k}] \in CallType
    BY <1>1, <2>2, FieldsSet
  <2>4. [[c EXCEPT !.rest = @ \ {k}] EXCEPT !.results = f] \in CallType
    BY <2>1, <2>3, FieldsSet
  <2>5. [c EXCEPT !.rest = @ \ {k}].results = c.results
    BY <1>1 DEF CallType
  <2>6. m = [[c EXCEPT !.rest = @ \ {k}] EXCEPT !.results = f]
    BY <1>1, <2>5 DEF CallType
  <2>. QED  BY <2>4, <2>6
<1>6. why \notin Contents
  BY ClientAssumption DEF Plain
<1>. HIDE DEF m, f
<1>7. DOMAIN m.results = Positions(m) /\ m.rest \subseteq Positions(m) /\ m.allowed \subseteq Positions(m)
      /\ Positions(m) = Positions(c)
  BY <1>1, <1>2, <1>4 DEF Shape, Positions
<1>8. m.op \in Gets \cup {"put_many"} /\ m.pc \in {"begun", "prepare"}
      /\ (m.pc = "prepare" => m.op = "put_many")
  BY <1>1, <1>2 DEF Shape, Gets, CallType
<1>9. m.op = "put_many" =>
       /\ \A j \in Positions(m) : m.items[j] \in Images
       /\ \A j \in m.allowed : m.items[j] \in Contents
       /\ \A j \in Positions(m) \ (m.rest \cup m.allowed) : m.results[j] = "error"
  <2>. SUFFICES ASSUME m.op = "put_many"
                PROVE  /\ \A j \in Positions(m) : m.items[j] \in Images
                       /\ \A j \in m.allowed : m.items[j] \in Contents
                       /\ \A j \in Positions(m) \ (m.rest \cup m.allowed) : m.results[j] = "error"
    OBVIOUS
  <2>1. Putting(c, given) /\ why = "error" /\ c.pc # "returned"
    BY <1>1, <1>2
  <2>. QED  BY <1>2, <1>4, <1>7, <2>1 DEF Putting
<1>10. m.op \in Gets =>
       /\ \A j \in Positions(m) : m.items[j] \in Names
       /\ m.op = "get" => Positions(m) = {1}
       /\ p \in SyncClients => \A j \in m.allowed : m.items[j].id # Malformed
       /\ \A j \in Positions(m) : m.results[j] \notin Contents
  <2>1. c.op \in Gets => Getting(p, c, given) /\ c.pc # "returned"
    BY <1>1
  <2>. QED  BY <1>2, <1>4, <1>6, <1>7, <2>1 DEF Getting
<1>11. Weighed(p, m)
  BY <1>7, <1>8, <1>9, <1>10 DEF Weighed
<1>12. CallOf(p, Decided(m), given)
  BY <1>5, <1>11, DecidedKept
<1>. QED  BY <1>12 DEF m

(* A position is let through. *)
LEMMA AllowKept ==
  ASSUME IInv, NEW p \in Clients, call[p].pc \in {"begun", "prepare"}, NEW k \in call[p].rest,
         call[p].op = "put_many" => call[p].items[k] # Invalid,
         p \in SyncClients /\ call[p].op \in Gets => call[p].items[k].id # Malformed
  PROVE  CallOf(p, Decided([call[p] EXCEPT !.rest = @ \ {k}, !.allowed = @ \cup {k}]), given)
<1>. DEFINE c == call[p]
            m == [c EXCEPT !.rest = @ \ {k}, !.allowed = @ \cup {k}]
<1>1. /\ CallOf(p, c, given) /\ c \in CallType /\ Shape(c)
      /\ c.op = "put_many" => Putting(c, given)
      /\ c.op \in Gets => Getting(p, c, given)
      /\ Positions(c) \in SUBSET Nat
  BY Holds
<1>2. m.pc = c.pc /\ m.op = c.op /\ m.items = c.items /\ m.rest = c.rest \ {k}
      /\ m.allowed = c.allowed \cup {k} /\ m.seen = c.seen /\ m.results = c.results
  BY <1>1 DEF CallType
<1>3. k \in Positions(c)
  BY <1>1 DEF Shape
<1>5. m \in CallType
  <2>2. c.rest \ {k} \in SUBSET Nat /\ c.allowed \cup {k} \in SUBSET Nat
    BY <1>1, <1>3 DEF CallType
  <2>3. [c EXCEPT !.rest = @ \ {k}] \in CallType
    BY <1>1, <2>2, FieldsSet
  <2>4. [[c EXCEPT !.rest = @ \ {k}] EXCEPT !.allowed = c.allowed \cup {k}] \in CallType
    BY <2>2, <2>3, FieldsSet
  <2>5. m = [[c EXCEPT !.rest = @ \ {k}] EXCEPT !.allowed = c.allowed \cup {k}]
    BY <1>1 DEF CallType
  <2>. QED  BY <2>4, <2>5
<1>. HIDE DEF m
<1>7. DOMAIN m.results = Positions(m) /\ m.rest \subseteq Positions(m) /\ m.allowed \subseteq Positions(m)
      /\ Positions(m) = Positions(c)
  BY <1>1, <1>2, <1>3 DEF Shape, Positions
<1>8. m.op \in Gets \cup {"put_many"} /\ m.pc \in {"begun", "prepare"}
      /\ (m.pc = "prepare" => m.op = "put_many")
  BY <1>1, <1>2 DEF Shape, Gets, CallType
<1>9. m.op = "put_many" =>
       /\ \A j \in Positions(m) : m.items[j] \in Images
       /\ \A j \in m.allowed : m.items[j] \in Contents
       /\ \A j \in Positions(m) \ (m.rest \cup m.allowed) : m.results[j] = "error"
  <2>1. c.op = "put_many" => Putting(c, given) /\ c.pc # "returned" /\ c.items[k] # Invalid
    BY <1>1
  <2>. QED  BY <1>2, <1>3, <1>7, <2>1 DEF Putting, Images
<1>10. m.op \in Gets =>
       /\ \A j \in Positions(m) : m.items[j] \in Names
       /\ m.op = "get" => Positions(m) = {1}
       /\ p \in SyncClients => \A j \in m.allowed : m.items[j].id # Malformed
       /\ \A j \in Positions(m) : m.results[j] \notin Contents
  <2>1. c.op \in Gets => Getting(p, c, given) /\ c.pc # "returned"
    BY <1>1
  <2>. QED  BY <1>2, <1>7, <2>1 DEF Getting
<1>11. Weighed(p, m)
  BY <1>7, <1>8, <1>9, <1>10 DEF Weighed
<1>12. CallOf(p, Decided(m), given)
  BY <1>5, <1>11, DecidedKept
<1>. QED  BY <1>12 DEF m

(* The steps before the query. *)
LEMMA ChecksKept ==
  ASSUME IInv, NEW p \in Clients, Aside,
         \/ CheckBeforePut(p) \/ PrepareRow(p) \/ \E k \in 1..MaxBatch : AsyncPrepareRow(p, k)
         \/ CheckBeforeGet(p) \/ AsyncGet(p) \/ SelectFails(p)
  PROVE  IInv'
<1>. DEFINE c == call[p]
<1>1. /\ CallOf(p, c, given) /\ c \in CallType /\ Shape(c)
      /\ c.op = "put_many" => Putting(c, given)
      /\ c.op \in Gets => Getting(p, c, given)
      /\ Positions(c) \in SUBSET Nat
  BY Holds
<1>2. "put_many" \notin Gets
  BY DEF Gets
<1>3. ASSUME NEW d, Goes(p, d), UNCHANGED <<hooks, folds, storeVars>>, CallOf(p, d, given)
      PROVE  IInv'
  BY <1>3, ClientAlone DEF Goes, Aside, storeVars
<1>4. ASSUME c.op = "put_many", c.pc \in {"begun", "prepare"}, NEW k \in c.rest
      PROVE  CallOf(p, Prepared(c, k), given)
  <2>1. CASE c.items[k] = Invalid
    BY <1>4, <2>1, AnswerKept DEF Prepared
  <2>2. CASE c.items[k] # Invalid
    BY <1>2, <1>4, <2>2, AllowKept DEF Prepared
  <2>. QED  BY <2>1, <2>2
<1>5. CASE CheckBeforePut(p)
  <2>1. c.pc = "begun" /\ c.op = "put_many"
    BY <1>5 DEF CheckBeforePut, At
  <2>2. CASE Goes(p, [c EXCEPT !.pc = "prepare"])
    <3>. DEFINE d == [c EXCEPT !.pc = "prepare"]
    <3>1. d \in CallType
      BY <1>1, FieldsSet
    <3>2. d.pc = "prepare" /\ d.op = c.op /\ d.items = c.items /\ d.rest = c.rest
          /\ d.allowed = c.allowed /\ d.seen = c.seen /\ d.results = c.results
      BY <1>1 DEF CallType
    <3>. HIDE DEF d
    <3>3. Shape(d)
      BY <1>1, <2>1, <3>2 DEF Shape, Positions
    <3>4. Putting(d, given)
      BY <1>1, <2>1, <3>2 DEF Putting, Positions
    <3>5. CallOf(p, d, given)
      BY <1>2, <2>1, <3>1, <3>2, <3>3, <3>4 DEF CallOf
    <3>6. Goes(p, d)
      BY <2>2 DEF d
    <3>. QED  BY <1>3, <1>5, <3>5, <3>6 DEF CheckBeforePut
  <2>3. CASE Goes(p, Every(c, "denied"))
    BY <1>3, <1>5, <2>1, <2>3, EveryKept DEF CheckBeforePut
  <2>. QED  BY <1>5, <2>2, <2>3 DEF CheckBeforePut
<1>6. CASE PrepareRow(p)
  <2>1. c.pc = "prepare" /\ c.op = "put_many" /\ c.rest # {}
    BY <1>1, <1>6 DEF PrepareRow, At, Shape
  <2>2. First(c.rest) \in c.rest
    BY <1>1, <2>1, FirstIn DEF Shape
  <2>3. CallOf(p, Prepared(c, First(c.rest)), given)
    BY <1>4, <2>1, <2>2
  <2>. QED  BY <1>3, <1>6, <2>3 DEF PrepareRow
<1>7. ASSUME NEW k \in 1..MaxBatch, AsyncPrepareRow(p, k)
      PROVE  IInv'
  <2>1. c.pc = "begun" /\ c.op = "put_many" /\ k \in c.rest
    BY <1>7 DEF AsyncPrepareRow, At
  <2>2. CallOf(p, Prepared(c, k), given)
    BY <1>4, <2>1
  <2>. QED  BY <1>3, <1>7, <2>2 DEF AsyncPrepareRow
<1>8. CASE CheckBeforeGet(p)
  <2>. DEFINE k == First(c.rest)
              answered(why) == Decided([c EXCEPT !.rest = @ \ {k}, !.results[k] = why])
              through == Decided([c EXCEPT !.rest = @ \ {k}, !.allowed = @ \cup {k}])
  <2>1. c.pc = "begun" /\ c.op \in Gets /\ c.op # "put_many" /\ c.rest # {}
    BY <1>1, <1>2, <1>8 DEF CheckBeforeGet, At, Shape
  <2>2. k \in c.rest
    BY <1>1, <2>1, FirstIn DEF Shape
  <2>3. \/ Goes(p, answered("not found"))
        \/ c.items[k].id # Malformed /\ Goes(p, through)
        \/ Goes(p, answered("denied"))
    BY <1>8 DEF CheckBeforeGet
  <2>4. CallOf(p, answered("not found"), given) /\ CallOf(p, answered("denied"), given)
    BY <2>1, <2>2, AnswerKept
  <2>5. c.items[k].id # Malformed => CallOf(p, through, given)
    BY <2>1, <2>2, AllowKept
  <2>. QED  BY <1>3, <1>8, <2>3, <2>4, <2>5 DEF CheckBeforeGet
<1>9. CASE AsyncGet(p)
  <2>. DEFINE d == [c EXCEPT !.pc = "query", !.rest = {}, !.allowed = DOMAIN c.items]
  <2>1. c.pc = "begun" /\ c.op \in Gets /\ c.op # "put_many" /\ p \in AsyncClients
    BY <1>2, <1>9 DEF AsyncGet, At
  <2>2. d \in CallType
    <3>1. [c EXCEPT !.pc = "query"] \in CallType
      BY <1>1, FieldsSet
    <3>2. [[c EXCEPT !.pc = "query"] EXCEPT !.rest = {}] \in CallType
      BY <3>1, FieldsSet
    <3>. QED  BY <1>1, <3>2, FieldsSet DEF Positions
  <2>3. d.pc = "query" /\ d.op = c.op /\ d.items = c.items /\ d.rest = {}
        /\ d.allowed = Positions(c) /\ d.seen = c.seen /\ d.results = c.results
    BY <1>1 DEF CallType, Positions
  <2>. HIDE DEF d
  <2>4. Shape(d)
    BY <1>1, <2>1, <2>3 DEF Shape, Positions
  <2>5. p \notin SyncClients
    BY <2>1, ClientAssumption
  <2>6. Getting(p, d, given)
    BY <1>1, <2>1, <2>3, <2>5 DEF Getting, Positions
  <2>7. CallOf(p, d, given)
    BY <2>1, <2>2, <2>3, <2>4, <2>6 DEF CallOf
  <2>8. Goes(p, d)
    BY <1>9 DEF AsyncGet, d
  <2>. QED  BY <1>3, <1>9, <2>7, <2>8 DEF AsyncGet
<1>10. CASE SelectFails(p)
  <2>1. c.op \in Gets
    BY <1>10 DEF SelectFails, At
  <2>2. CallOf(p, Every(c, "error"), given)
    BY <2>1, EveryKept
  <2>. QED  BY <1>3, <1>10, <2>2 DEF SelectFails
<1>. QED  BY <1>5, <1>6, <1>7, <1>8, <1>9, <1>10

(* The answers of a get: the call with what it saw and its results.         *)
LEMMA Seen ==
  ASSUME NEW c \in CallType, NEW seen \in SUBSET Ids, NEW f \in [Positions(c) -> Answers]
  PROVE  LET d == Returned([c EXCEPT !.seen = seen, !.results = f])
         IN /\ d \in CallType
            /\ d.pc = "returned" /\ d.op = c.op /\ d.items = c.items /\ d.rest = c.rest
            /\ d.allowed = c.allowed /\ d.seen = seen /\ d.results = f
<1>. DEFINE m == [c EXCEPT !.seen = seen, !.results = f]
            d == [m EXCEPT !.pc = "returned"]
<1>1. m \in CallType
  <2>1. [c EXCEPT !.seen = seen] \in CallType
    BY FieldsSet
  <2>. QED  BY <2>1, AnswersFor, FieldsSet
<1>2. m.op = c.op /\ m.items = c.items /\ m.rest = c.rest
      /\ m.allowed = c.allowed /\ m.seen = seen /\ m.results = f
  BY DEF CallType
<1>. HIDE DEF m
<1>3. d \in CallType
  BY <1>1, FieldsSet
<1>4. d.pc = "returned" /\ d.op = m.op /\ d.items = m.items /\ d.rest = m.rest
      /\ d.allowed = m.allowed /\ d.seen = m.seen /\ d.results = m.results
  BY <1>1 DEF CallType
<1>5. Returned(m) = d
  BY DEF Returned
<1>. HIDE DEF d
<1>. QED  BY <1>2, <1>3, <1>4, <1>5 DEF m

(* What the database finds is stored, and was drawn for an image.           *)
LEMMA FoundStored ==
  ASSUME IInv, NEW c, NEW S
  PROVE  /\ Found(c, S) \in SUBSET Ids
         /\ \A i \in Found(c, S) : i \in stored /\ given[i] \in Contents /\ given[i] # "not found"
<1>1. "not found" \notin Contents
  BY ClientAssumption DEF Plain
<1>. QED  BY <1>1 DEF Found, IInv, StoreInv

(* The queries of get and get_many. *)
LEMMA SelectsKept ==
  ASSUME IInv, NEW p \in Clients, Aside, SelectOne(p) \/ SelectMany(p)
  PROVE  IInv'
<1>. DEFINE c == call[p]
<1>1. /\ c \in CallType /\ Shape(c)
      /\ c.results \in [Positions(c) -> Answers]
      /\ c.op \in Gets => Getting(p, c, given)
      /\ Positions(c) \in SUBSET Nat
  BY Holds
<1>2. "put_many" \notin Gets /\ "get" \in Gets /\ "get_many" \in Gets
  BY DEF Gets
<1>3. ASSUME NEW d, Goes(p, d), UNCHANGED <<hooks, folds, storeVars>>, CallOf(p, d, given)
      PROVE  IInv'
  BY <1>3, ClientAlone DEF Goes, Aside, storeVars
<1>4. ASSUME NEW d, d \in CallType, d.pc = "returned", d.op = c.op, d.items = c.items,
             d.rest = c.rest, d.allowed = c.allowed, DOMAIN d.results = Positions(c),
             c.op \in Gets, Getting(p, d, given)
      PROVE  CallOf(p, d, given)
  <2>1. Shape(d)
    BY <1>1, <1>4 DEF Shape, Positions, Gets
  <2>. QED  BY <1>2, <1>4, <2>1 DEF CallOf
<1>5. CASE SelectOne(p)
  <2>. DEFINE found == Found(c, {1})
              x == IF found = {} THEN "not found" ELSE given[CHOOSE i \in found : TRUE]
              d == Returned([c EXCEPT !.seen = found, !.results = <<x>>])
  <2>1. c.pc = "query" /\ c.op = "get"
    BY <1>5 DEF SelectOne, At
  <2>2. Getting(p, c, given) /\ Positions(c) = {1} /\ c.allowed = {1}
    <3>1. Getting(p, c, given)
      BY <1>1, <1>2, <2>1
    <3>2. Positions(c) = {1}
      BY <2>1, <3>1 DEF Getting
    <3>. QED  BY <1>1, <2>1, <3>1, <3>2 DEF Shape
  <2>3. found \in SUBSET Ids /\ \A i \in found : given[i] \in Contents
    BY FoundStored
  <2>4. x \in Answers
    <3>. HIDE DEF found
    <3>1. CASE found = {}
      BY <3>1 DEF Answers, Plain
    <3>2. CASE found # {}
      BY <2>3, <3>2 DEF Answers
    <3>. QED  BY <3>1, <3>2
  <2>. HIDE DEF found, x
  <2>5. <<x>> \in [Positions(c) -> Answers] /\ DOMAIN <<x>> = Positions(c)
    BY <2>2, <2>4
  <2>6. /\ d \in CallType
        /\ d.pc = "returned" /\ d.op = c.op /\ d.items = c.items /\ d.rest = c.rest
        /\ d.allowed = c.allowed /\ d.seen = found /\ d.results = <<x>>
    BY <1>1, <2>3, <2>5, Seen
  <2>. HIDE DEF d
  <2>7. Getting(p, d, given)
    BY <2>1, <2>2, <2>6 DEF Getting, Positions
  <2>8. CallOf(p, d, given)
    BY <1>2, <1>4, <2>1, <2>5, <2>6, <2>7
  <2>9. Goes(p, d)
    BY <1>5 DEF SelectOne, d, x, found
  <2>. QED  BY <1>3, <1>5, <2>8, <2>9 DEF SelectOne
<1>6. CASE SelectMany(p)
  <2>. DEFINE found == Found(c, c.allowed)
              f == [k \in DOMAIN c.results |->
                      IF k \in c.allowed THEN ByName(c, k, found) ELSE c.results[k]]
              d == Returned([c EXCEPT !.seen = found, !.results = f])
  <2>1. c.pc = "query" /\ c.op = "get_many"
    BY <1>6 DEF SelectMany, At
  <2>2. Getting(p, c, given)
    BY <1>1, <1>2, <2>1
  <2>3. found \in SUBSET Ids
        /\ \A i \in found : i \in Ids /\ given[i] \in Contents /\ given[i] # "not found"
    BY FoundStored
  <2>. HIDE DEF found
  <2>4. ASSUME NEW k
        PROVE  /\ ByName(c, k, found) \in Answers
               /\ ByName(c, k, found) \in Contents =>
                    c.items[k].id \in Ids /\ ByName(c, k, found) = given[c.items[k].id]
               /\ ByName(c, k, found) = "not found" /\ c.items[k].spelled = "as put"
                    => c.items[k].id \notin found
    <3>1. CASE c.items[k].spelled = "as put" /\ c.items[k].id \in found
      BY <2>3, <3>1 DEF ByName, Answers
    <3>2. CASE ~(c.items[k].spelled = "as put" /\ c.items[k].id \in found)
      <4>1. ByName(c, k, found) = "not found"
        BY <3>2 DEF ByName
      <4>2. "not found" \in Answers /\ "not found" \notin Contents
        BY ClientAssumption DEF Answers, Plain
      <4>. QED  BY <3>2, <4>1, <4>2
    <3>. QED  BY <3>1, <3>2
  <2>5. f \in [Positions(c) -> Answers] /\ DOMAIN f = Positions(c)
        /\ \A k \in Positions(c) :
             f[k] = IF k \in c.allowed THEN ByName(c, k, found) ELSE c.results[k]
    BY <1>1, <2>4
  <2>. HIDE DEF f
  <2>6. /\ d \in CallType
        /\ d.pc = "returned" /\ d.op = c.op /\ d.items = c.items /\ d.rest = c.rest
        /\ d.allowed = c.allowed /\ d.seen = found /\ d.results = f
    <3>1. c \in CallType
      BY <1>1
    <3>2. found \in SUBSET Ids
      BY <2>3
    <3>3. f \in [Positions(c) -> Answers]
      BY <2>5
    <3>. HIDE DEF c
    <3>. QED  BY <3>1, <3>2, <3>3, Seen
  <2>. HIDE DEF d
  <2>7. c.allowed \subseteq Positions(c) /\ Positions(d) = Positions(c)
    BY <1>1, <2>6 DEF Shape, Positions
  <2>8. \A k \in Positions(d) : d.results[k] \in Contents =>
          k \in d.allowed /\ d.items[k].id \in Ids /\ d.results[k] = given[d.items[k].id]
    BY <2>1, <2>2, <2>4, <2>5, <2>6, <2>7 DEF Getting
  <2>9. \A k \in d.allowed : d.results[k] = "not found" /\ d.items[k].spelled = "as put"
          => d.items[k].id \notin d.seen
    BY <2>4, <2>5, <2>6, <2>7
  <2>10. /\ \A k \in Positions(d) : d.items[k] \in Names
         /\ d.op = "get" => Positions(d) = {1}
         /\ p \in SyncClients => \A k \in d.allowed : d.items[k].id # Malformed
    BY <2>2, <2>6, <2>7 DEF Getting
  <2>11. Getting(p, d, given)
    BY <2>6, <2>8, <2>9, <2>10 DEF Getting
  <2>12. CallOf(p, d, given)
    BY <1>2, <1>4, <2>1, <2>5, <2>6, <2>11
  <2>13. Goes(p, d)
    BY <1>6 DEF SelectMany, d, f, found
  <2>. QED  BY <1>3, <1>6, <2>12, <2>13 DEF SelectMany
<1>. QED  BY <1>5, <1>6

(* A step that deletes or tiers images, and what it makes of the client's   *)
(* call.                                                                    *)
LEMMA StoredKept ==
  ASSUME IInv, NEW p \in Clients, Aside, NEW d, call' = [call EXCEPT ![p] = d],
         CallOf(p, d, given), UNCHANGED <<hooks, folds, given>>,
         stored' \subseteq stored, tiered' \subseteq stored', tiered \cap stored' \subseteq tiered'
  PROVE  IInv'
<1>1. CallOf(p, d, given')
  OBVIOUS
<1>. QED  BY <1>1, ClientKept DEF IInv, StoreInv, Aside

(* delete, delete_many, tiering, and the end of a call.                     *)
LEMMA DeletesKept ==
  ASSUME IInv, NEW p \in Clients, Aside,
         DeleteOne(p) \/ DeleteMany(p) \/ TierOne(p) \/ Return(p)
  PROVE  IInv'
<1>1. CallOf(p, call[p], given) /\ call = [call EXCEPT ![p] = call[p]]
      /\ tiered \subseteq stored /\ stored \subseteq Ids
  BY DEF IInv, StoreInv
<1>2. CASE DeleteOne(p)
  BY <1>1, <1>2, StoredKept DEF DeleteOne, Deletes
<1>3. CASE TierOne(p)
  BY <1>1, <1>3, StoredKept DEF TierOne
<1>4. CASE Return(p)
  BY <1>1, <1>4, IdleIs, StoredKept DEF Return, Goes, storeVars
<1>5. CASE DeleteMany(p)
  <2>1. PICK names \in Batches(Names) :
          LET c == [Idle EXCEPT !.op = "delete_many", !.items = names]
              found == Found(c, DOMAIN names)
          IN /\ Deletes(found)
             /\ Goes(p, Returned([c EXCEPT !.seen = found, !.results =
                  [k \in DOMAIN names |->
                     IF ByName(c, k, found) # "not found" THEN "deleted" ELSE "absent"]]))
    BY <1>5 DEF DeleteMany
  <2>. DEFINE c == [Idle EXCEPT !.op = "delete_many", !.items = names]
              found == Found(c, DOMAIN names)
              f == [k \in DOMAIN names |->
                      IF ByName(c, k, found) # "not found" THEN "deleted" ELSE "absent"]
              d == Returned([c EXCEPT !.seen = found, !.results = f])
  <2>2. names \in BoundedSeq(Images \cup Names, MaxBatch)
    <3>1. PICK n \in 0..MaxBatch : names \in [1..n -> Names]
      BY Bounded DEF Batches
    <3>2. names \in [1..n -> Images \cup Names]
      BY <3>1
    <3>. QED  BY <3>2, Bounded
  <2>3. c \in CallType
    <3>1. Idle \in CallType
      BY IdleIs DEF CallOf
    <3>2. [Idle EXCEPT !.op = "delete_many"] \in CallType
      BY <3>1, FieldsSet
    <3>. QED  BY <2>2, <3>2, FieldsSet
  <2>4. c.op = "delete_many" /\ c.items = names /\ c.rest = {} /\ c.allowed = {}
    BY DEF Idle
  <2>5. found \in SUBSET Ids
    BY FoundStored
  <2>6. Deletes(found) /\ Goes(p, d)
    BY <2>1
  <2>. HIDE DEF c, found
  <2>7. f \in [Positions(c) -> Answers] /\ DOMAIN f = Positions(c)
    BY <2>4 DEF Positions, Answers, Plain
  <2>. HIDE DEF f
  <2>8. /\ d \in CallType
        /\ d.pc = "returned" /\ d.op = c.op /\ d.items = c.items /\ d.rest = c.rest
        /\ d.allowed = c.allowed /\ d.seen = found /\ d.results = f
    BY <2>3, <2>5, <2>7, Seen
  <2>. HIDE DEF d
  <2>9. Shape(d)
    BY <2>4, <2>7, <2>8 DEF Shape, Positions, Gets
  <2>10. CallOf(p, d, given)
    BY <2>4, <2>8, <2>9 DEF CallOf, Gets
  <2>. QED  BY <1>1, <2>6, <2>10, StoredKept DEF Deletes, Goes
<1>. QED  BY <1>2, <1>3, <1>4, <1>5

(* The rows of a call are stored: each new id is that of its image, and     *)
(* nothing else changes.                                                    *)
LEMMA StoresGives ==
  ASSUME IInv, NEW p \in Clients, At(p, "query", {"put_many"}),
         NEW id \in Drawn(call[p].allowed), Stores(call[p], id)
  PROVE  /\ \A k \in call[p].allowed : id[k] \in Ids /\ given'[id[k]] = call[p].items[k]
         /\ \A j, k \in call[p].allowed : id[j] = id[k] => j = k
         /\ given' \in [Ids -> Images]
         /\ \A i \in Ids : given[i] # Invalid => given'[i] = given[i]
         /\ stored' \subseteq Ids
         /\ \A i \in stored' : given'[i] \in Contents
         /\ \A i \in stored' : given[i] # Invalid => i \in stored
         /\ stored \subseteq stored' /\ UNCHANGED <<hooks, folds, tiered>>
<1>. DEFINE c == call[p]
            A == c.allowed
            newly(i) == \E k \in A : id[k] = i
<1>1. Putting(c, given) /\ Shape(c)
  BY Holds DEF At
<1>2. /\ id \in [A -> Fresh] /\ \A j, k \in A : id[j] = id[k] => j = k
      /\ \A k \in A : id[k] \in Ids /\ given[id[k]] = Invalid
  BY DEF Drawn, Fresh
<1>3. \A k \in A : c.items[k] \in Contents
  BY <1>1 DEF Putting
<1>4. /\ given' = [i \in Ids |-> IF newly(i) THEN c.items[CHOOSE k \in A : id[k] = i] ELSE given[i]]
      /\ stored' = stored \cup {id[k] : k \in A}
      /\ UNCHANGED <<hooks, folds, tiered>>
  BY DEF Stores
<1>5. StoreInv
  BY DEF IInv
<1>6. ASSUME NEW k \in A PROVE given'[id[k]] = c.items[k]
  <2>1. (CHOOSE j \in A : id[j] = id[k]) = k
    BY <1>2
  <2>2. given'[id[k]] = c.items[CHOOSE j \in A : id[j] = id[k]]
    BY <1>2, <1>4
  <2>. QED  BY <2>1, <2>2
<1>7. ASSUME NEW i \in Ids, ~newly(i) PROVE given'[i] = given[i]
  BY <1>4, <1>7
<1>. HIDE DEF A, c
<1>8. ASSUME NEW i \in Ids
      PROVE  \/ newly(i) /\ given[i] = Invalid /\ given'[i] \in Contents
             \/ ~newly(i) /\ given'[i] = given[i]
  BY <1>2, <1>3, <1>6, <1>7
<1>9. given' \in [Ids -> Images]
  <2>1. \A i \in Ids : given'[i] \in Images
    BY <1>5, <1>8 DEF StoreInv, Images
  <2>. QED  BY <1>4, <2>1
<1>10. \A i \in Ids : given[i] # Invalid => given'[i] = given[i]
  BY <1>8
<1>11. stored' \subseteq Ids /\ stored \subseteq stored'
  BY <1>2, <1>4, <1>5 DEF StoreInv
<1>12. \A i \in stored' : given'[i] \in Contents
  BY <1>3, <1>4, <1>5, <1>6, <1>7 DEF StoreInv
<1>13. \A i \in stored' : given[i] # Invalid => i \in stored
  BY <1>2, <1>4
<1>. QED  BY <1>2, <1>4, <1>6, <1>9, <1>10, <1>11, <1>12, <1>13 DEF A, c

(* What a put answers when its rows are stored, or not.                     *)
LEMMA StoresKept ==
  ASSUME IInv, NEW p \in Clients, Aside, StoreRows(p) \/ StoreFails(p)
  PROVE  IInv'
<1>. DEFINE c == call[p]
<1>1. /\ c \in CallType /\ Shape(c)
      /\ c.results \in [Positions(c) -> Answers]
      /\ Positions(c) \in SUBSET Nat
  BY Holds
<1>2. At(p, "query", {"put_many"}) /\ c.pc = "query" /\ c.op = "put_many"
  BY DEF StoreRows, StoreFails, At
<1>3. Putting(c, given) /\ c.allowed \subseteq Positions(c)
      /\ \A k \in Positions(c) \ c.allowed : c.results[k] = "error"
  <2>1. Putting(c, given) /\ c.rest = {}
    BY <1>2, Holds DEF Shape
  <2>. QED  BY <1>1, <1>2, <2>1 DEF Putting, Shape
<1>4. "error" \in Answers /\ "error" \notin Ids
  BY ClientAssumption DEF Answers, Plain
<1>5. tiered \subseteq stored
  BY DEF IInv, StoreInv
<1>6. ASSUME NEW f \in [Positions(c) -> Answers], NEW drawn,
             \A k \in Positions(c) \ c.allowed : f[k] = "error",
             \/ \A k \in c.allowed : f[k] = "error"
             \/ /\ \A k \in c.allowed : f[k] \in Ids /\ drawn[f[k]] = c.items[k]
                /\ \A j, k \in c.allowed : f[j] = f[k] => j = k
      PROVE  CallOf(p, Returned([c EXCEPT !.results = f]), drawn)
  <2>. DEFINE d == [pc |-> "returned", op |-> c.op, items |-> c.items, rest |-> c.rest,
                    allowed |-> c.allowed, seen |-> c.seen, results |-> f]
  <2>1. Returned([c EXCEPT !.results = f]) = d
    BY <1>1, Answered
  <2>2. d \in CallType
    <3>1. c.rest \in SUBSET Positions(c) /\ c.allowed \in SUBSET Positions(c) /\ c.seen \in SUBSET Ids
      BY <1>1 DEF Shape, CallType
    <3>. HIDE DEF c
    <3>. QED  BY <1>1, <3>1, CallMade
  <2>3. DOMAIN f = Positions(c) /\ Positions(d) = Positions(c)
    BY DEF Positions
  <2>4. Shape(d)
    BY <1>1, <1>2, <2>3 DEF Shape
  <2>5. \A k \in Positions(c) : c.items[k] \in Images
    BY <1>3 DEF Putting
  <2>6. \A k \in c.allowed : c.items[k] \in Contents
    BY <1>3 DEF Putting
  <2>7. \A k \in Positions(c) : f[k] \in Ids \cup {"error"} /\ (f[k] \in Ids => k \in c.allowed)
    BY <1>4, <1>6
  <2>8. \A k \in c.allowed : f[k] \in Ids => drawn[f[k]] = c.items[k]
    BY <1>4, <1>6
  <2>9. \A j, k \in Positions(c) : f[j] \in Ids /\ f[j] = f[k] => j = k
    BY <1>4, <1>6, <2>7
  <2>10. Putting(d, drawn)
    BY <2>3, <2>5, <2>6, <2>7, <2>8, <2>9 DEF Putting
  <2>11. CallOf(p, d, drawn)
    BY <1>2, <2>2, <2>4, <2>10 DEF CallOf, Gets
  <2>. QED  BY <2>1, <2>11
<1>7. CASE StoreRows(p)
  <2>1. PICK id \in Drawn(c.allowed) :
          /\ Stores(c, id)
          /\ Goes(p, Returned([c EXCEPT !.results =
               [k \in DOMAIN @ |-> IF k \in c.allowed THEN id[k] ELSE @[k]]]))
    BY <1>7 DEF StoreRows
  <2>. DEFINE f == [k \in DOMAIN c.results |-> IF k \in c.allowed THEN id[k] ELSE c.results[k]]
              d == Returned([c EXCEPT !.results = f])
  <2>2. /\ \A k \in c.allowed : id[k] \in Ids /\ given'[id[k]] = c.items[k]
        /\ \A j, k \in c.allowed : id[j] = id[k] => j = k
        /\ given' \in [Ids -> Images]
        /\ \A i \in Ids : given[i] # Invalid => given'[i] = given[i]
        /\ stored' \subseteq Ids
        /\ \A i \in stored' : given'[i] \in Contents
        /\ \A i \in stored' : given[i] # Invalid => i \in stored
        /\ stored \subseteq stored' /\ UNCHANGED <<hooks, folds, tiered>>
    BY <1>2, <2>1, StoresGives
  <2>3. f \in [Positions(c) -> Answers]
    BY <1>1, <1>3, <2>2 DEF Answers
  <2>4. \A k \in Positions(c) : f[k] = IF k \in c.allowed THEN id[k] ELSE "error"
    BY <1>1, <1>3
  <2>5. call' = [call EXCEPT ![p] = d]
    BY <2>1 DEF Goes
  <2>. HIDE DEF f
  <2>6. CallOf(p, d, given')
    BY <1>3, <1>6, <2>2, <2>3, <2>4
  <2>. HIDE DEF d
  <2>. QED  BY <1>5, <2>2, <2>5, <2>6, ClientKept DEF Aside
<1>8. CASE StoreFails(p)
  <2>. DEFINE f == [k \in DOMAIN c.results |-> IF k \in c.allowed THEN "error" ELSE c.results[k]]
              d == Returned([c EXCEPT !.results = f])
  <2>1. call' = [call EXCEPT ![p] = d]
        /\ (UNCHANGED <<hooks, folds, storeVars>> \/ \E id \in Drawn(c.allowed) : Stores(c, id))
    BY <1>8 DEF StoreFails, Goes
  <2>2. f \in [Positions(c) -> Answers] /\ \A k \in Positions(c) : f[k] = "error"
    BY <1>1, <1>3, <1>4
  <2>. HIDE DEF f
  <2>3. CallOf(p, d, given) /\ CallOf(p, d, given')
    BY <1>3, <1>6, <2>2
  <2>. HIDE DEF d
  <2>4. CASE UNCHANGED <<hooks, folds, storeVars>>
    BY <2>1, <2>3, <2>4, ClientAlone DEF Aside, storeVars
  <2>5. ASSUME NEW id \in Drawn(c.allowed), Stores(c, id)
        PROVE  IInv'
    <3>1. /\ given' \in [Ids -> Images]
          /\ \A i \in Ids : given[i] # Invalid => given'[i] = given[i]
          /\ stored' \subseteq Ids
          /\ \A i \in stored' : given'[i] \in Contents
          /\ \A i \in stored' : given[i] # Invalid => i \in stored
          /\ stored \subseteq stored' /\ UNCHANGED <<hooks, folds, tiered>>
      BY <1>2, <2>5, StoresGives
    <3>. QED  BY <1>5, <2>1, <2>3, <3>1, ClientKept DEF Aside
  <2>. QED  BY <2>1, <2>4, <2>5
<1>. QED  BY <1>7, <1>8

-----------------------------------------------------------------------------
(* Steps of a command *)

(* One field of a command's state is set. *)
LEMMA PartsSet ==
  ASSUME NEW r \in CommandType
  PROVE  /\ \A pc \in {"idle", "loop", "exited"} : [r EXCEPT !.pc = pc] \in CommandType
         /\ \A name \in {"none", "verify", "tier"} : [r EXCEPT !.name = name] \in CommandType
         /\ \A bucket \in BOOLEAN : [r EXCEPT !.bucket = bucket] \in CommandType
         /\ \A S \in SUBSET Ids : [r EXCEPT !.listed = S] \in CommandType
         /\ \A S \in SUBSET Ids : [r EXCEPT !.left = S] \in CommandType
         /\ \A S \in SUBSET Ids : [r EXCEPT !.tieredThen = S] \in CommandType
         /\ \A S \in SUBSET Ids : [r EXCEPT !.mismatches = S] \in CommandType
         /\ \A n \in {0, 1} : [r EXCEPT !.exit = n] \in CommandType
BY DEF CommandType

(* A process without a command. *)
LEMMA NoCommandIs ==
  NoCommand \in CommandType /\ Listing(NoCommand) /\ NoCommand.name = "none"
<1>1. NoCommand \in CommandType
  BY DEF NoCommand, CommandType
<1>2. /\ NoCommand.pc = "idle" /\ NoCommand.name = "none" /\ NoCommand.listed = {}
      /\ NoCommand.left = {} /\ NoCommand.mismatches = {}
  BY DEF NoCommand
<1>. QED  BY <1>1, <1>2 DEF Listing

(* What a command's step must do to keep the invariant.                     *)
LEMMA CommandKept ==
  ASSUME IInv, NEW c \in Commands, NEW r \in CommandType,
         command' = [command EXCEPT ![c] = r], Listing(r),
         r.name = "tier" /\ r.exit = 0 => (r.listed \ r.left) \cap stored \subseteq tiered',
         UNCHANGED <<hooks, folds, stored, given, call, damaged>>,
         tiered \subseteq tiered', tiered' \subseteq stored
  PROVE  IInv'
<1>1. StoreInv' /\ call' \in [Clients -> CallType] /\ command' \in [Commands -> CommandType]
  BY DEF IInv, StoreInv
<1>2. ASSUME NEW q \in Clients PROVE CallOf(q, call'[q], given')
  BY DEF IInv
<1>3. ASSUME NEW k \in Commands PROVE Running(command[k])'
  <2>1. CASE k = c
    <3>1. command'[k] = r
      BY <2>1 DEF IInv
    <3>. QED  BY <3>1 DEF Running, Listing
  <2>2. CASE k # c
    <3>1. command'[k] = command[k] /\ Running(command[k])
      BY <2>2 DEF IInv
    <3>. QED  BY <3>1 DEF Running, Listing
  <2>. QED  BY <2>1, <2>2
<1>. QED  BY <1>1, <1>2, <1>3 DEF IInv

(* The loop goes on, or it is over. *)
LEMMA LoopKept ==
  ASSUME IInv, NEW c \in Commands, NEW r \in CommandType, r.pc = "loop",
         Runs(c, Looped(r)), Listing(r),
         r.name = "tier" /\ r.exit = 0 => (r.listed \ r.left) \cap stored \subseteq tiered',
         UNCHANGED <<hooks, folds, stored, given, call, damaged>>,
         tiered \subseteq tiered', tiered' \subseteq stored
  PROVE  IInv'
<1>1. CASE r.left # {}
  <2>1. command' = [command EXCEPT ![c] = r]
    BY <1>1 DEF Runs, Looped
  <2>. QED  BY <2>1, CommandKept
<1>2. CASE r.left = {}
  <2>. DEFINE l == [r EXCEPT !.pc = "exited"]
  <2>1. command' = [command EXCEPT ![c] = l]
    BY <1>2 DEF Runs, Looped
  <2>2. l \in CommandType
    BY PartsSet
  <2>3. l.pc = "exited" /\ l.name = r.name /\ l.bucket = r.bucket /\ l.listed = r.listed
    BY DEF CommandType
  <2>4. l.left = r.left /\ l.tieredThen = r.tieredThen /\ l.mismatches = r.mismatches
        /\ l.exit = r.exit
    BY DEF CommandType
  <2>. HIDE DEF l
  <2>5. Listing(l)
    <3>1. /\ l.left \subseteq l.listed /\ l.mismatches \subseteq l.listed
          /\ \A i \in l.listed : given[i] # Invalid
          /\ l.mismatches \subseteq damaged
      BY <2>3, <2>4 DEF Listing
    <3>2. l.name = "verify" /\ l.exit = 0 =>
            \A i \in (l.listed \ l.left) \cap stored :
              (i \in l.tieredThen => l.bucket) => i \notin damaged
      <4>1. r.name = "verify" /\ r.exit = 0 =>
              \A i \in (r.listed \ r.left) \cap stored :
                (i \in r.tieredThen => r.bucket) => i \notin damaged
        BY DEF Listing
      <4>. QED  BY <2>3, <2>4, <4>1
    <3>. QED  BY <1>2, <2>3, <2>4, <3>1, <3>2 DEF Listing
  <2>6. l.name = "tier" /\ l.exit = 0 => (l.listed \ l.left) \cap stored \subseteq tiered'
    BY <2>3, <2>4
  <2>. QED  BY <2>1, <2>2, <2>5, <2>6, CommandKept
<1>. QED  BY <1>1, <1>2

(* The start of verify and of tier --all: nothing has been looked at yet.   *)
LEMMA CommandBegins ==
  ASSUME IInv, NEW c \in Commands, BeginVerify(c) \/ BeginTierAll(c)
  PROVE  IInv'
<1>1. /\ stored \subseteq Ids /\ tiered \subseteq stored
      /\ \A i \in stored : given[i] # Invalid
  BY ClientAssumption DEF IInv, StoreInv
<1>2. UNCHANGED <<hooks, folds, stored, given, tiered, call, damaged>>
  BY DEF BeginVerify, BeginTierAll, clientVars, storeVars
<1>3. ASSUME NEW r \in CommandType, r.pc = "loop", r.listed \subseteq stored,
             r.left = r.listed, r.mismatches = {}, Runs(c, Looped(r))
      PROVE  IInv'
  <2>1. Listing(r)
    BY <1>1, <1>3 DEF Listing
  <2>2. (r.listed \ r.left) \cap stored \subseteq tiered'
    BY <1>3
  <2>. QED  BY <1>1, <1>2, <1>3, <2>1, <2>2, LoopKept
<1>4. [NoCommand EXCEPT !.pc = "loop"] \in CommandType
  BY NoCommandIs, PartsSet
<1>5. CASE BeginVerify(c)
  <2>1. PICK bucket \in BOOLEAN : \E sample \in SUBSET stored :
          Runs(c, Looped([NoCommand EXCEPT !.pc = "loop", !.name = "verify", !.bucket = bucket,
                                           !.listed = sample, !.left = sample,
                                           !.tieredThen = sample \cap tiered]))
    BY <1>5 DEF BeginVerify
  <2>2. PICK sample \in SUBSET stored :
          Runs(c, Looped([NoCommand EXCEPT !.pc = "loop", !.name = "verify", !.bucket = bucket,
                                           !.listed = sample, !.left = sample,
                                           !.tieredThen = sample \cap tiered]))
    BY <2>1
  <2>. DEFINE r == [NoCommand EXCEPT !.pc = "loop", !.name = "verify", !.bucket = bucket,
                                     !.listed = sample, !.left = sample,
                                     !.tieredThen = sample \cap tiered]
  <2>3. sample \in SUBSET Ids /\ sample \cap tiered \in SUBSET Ids
    BY <1>1
  <2>4. [[NoCommand EXCEPT !.pc = "loop"] EXCEPT !.name = "verify"] \in CommandType
    BY <1>4, PartsSet
  <2>5. [[[NoCommand EXCEPT !.pc = "loop"] EXCEPT !.name = "verify"]
           EXCEPT !.bucket = bucket] \in CommandType
    BY <2>4, PartsSet
  <2>6. [[[[NoCommand EXCEPT !.pc = "loop"] EXCEPT !.name = "verify"]
            EXCEPT !.bucket = bucket] EXCEPT !.listed = sample] \in CommandType
    BY <2>3, <2>5, PartsSet
  <2>7. [[[[[NoCommand EXCEPT !.pc = "loop"] EXCEPT !.name = "verify"]
             EXCEPT !.bucket = bucket] EXCEPT !.listed = sample]
           EXCEPT !.left = sample] \in CommandType
    BY <2>3, <2>6, PartsSet
  <2>8. r \in CommandType
    BY <2>3, <2>7, PartsSet
  <2>9. r.pc = "loop" /\ r.listed = sample /\ r.left = sample /\ r.mismatches = {}
    BY DEF NoCommand
  <2>10. Runs(c, Looped(r))
    BY <2>2
  <2>. HIDE DEF r
  <2>. QED  BY <1>3, <2>8, <2>9, <2>10
<1>6. CASE BeginTierAll(c)
  <2>1. PICK chosen \in SUBSET (stored \ tiered) :
          Runs(c, Looped([NoCommand EXCEPT !.pc = "loop", !.name = "tier", !.listed = chosen,
                                           !.left = chosen]))
    BY <1>6 DEF BeginTierAll
  <2>. DEFINE r == [NoCommand EXCEPT !.pc = "loop", !.name = "tier", !.listed = chosen,
                                     !.left = chosen]
  <2>2. chosen \in SUBSET Ids
    BY <1>1
  <2>3. [[NoCommand EXCEPT !.pc = "loop"] EXCEPT !.name = "tier"] \in CommandType
    BY <1>4, PartsSet
  <2>4. [[[NoCommand EXCEPT !.pc = "loop"] EXCEPT !.name = "tier"]
           EXCEPT !.listed = chosen] \in CommandType
    BY <2>2, <2>3, PartsSet
  <2>5. r \in CommandType
    BY <2>2, <2>4, PartsSet
  <2>6. r.pc = "loop" /\ r.listed = chosen /\ r.left = chosen /\ r.mismatches = {}
    BY DEF NoCommand
  <2>7. Runs(c, Looped(r))
    BY <2>1
  <2>. HIDE DEF r
  <2>. QED  BY <1>3, <2>5, <2>6, <2>7
<1>. QED  BY <1>5, <1>6

(* The image that a command is at leaves its list. *)
LEMMA ImageTaken ==
  ASSUME IInv, NEW c \in Commands, NEW i \in command[c].left
  PROVE  LET b == command[c]
             r == [b EXCEPT !.left = @ \ {i}]
         IN /\ b \in CommandType /\ Running(b) /\ r \in CommandType /\ i \in Ids /\ i \in b.listed
            /\ r.pc = "loop" /\ r.name = b.name /\ r.bucket = b.bucket /\ r.listed = b.listed
            /\ r.left = b.left \ {i} /\ r.tieredThen = b.tieredThen
            /\ r.mismatches = b.mismatches /\ r.exit = b.exit
<1>. DEFINE b == command[c]
            r == [b EXCEPT !.left = @ \ {i}]
<1>1. b \in CommandType /\ Running(b)
  BY DEF IInv
<1>2. b.pc = "loop"
  BY <1>1 DEF Running, Listing, CommandType
<1>3. b.left \in SUBSET Ids /\ b.left \ {i} \in SUBSET Ids /\ i \in b.listed
  BY <1>1 DEF CommandType, Running, Listing
<1>. HIDE DEF b
<1>4. r \in CommandType
  BY <1>1, <1>3, PartsSet
<1>5. r.pc = "loop" /\ r.name = b.name /\ r.bucket = b.bucket /\ r.listed = b.listed
  BY <1>1, <1>2 DEF CommandType
<1>6. r.left = b.left \ {i} /\ r.tieredThen = b.tieredThen
      /\ r.mismatches = b.mismatches /\ r.exit = b.exit
  BY <1>1 DEF CommandType
<1>. HIDE DEF r
<1>7. i \in Ids
  BY <1>3 DEF b
<1>. QED  BY <1>1, <1>3, <1>4, <1>5, <1>6, <1>7 DEF b, r

(* A failure changes the exit status and nothing else. *)
LEMMA FailedIs ==
  ASSUME NEW r \in CommandType
  PROVE  /\ Failed(r) \in CommandType /\ Failed(r).exit = 1
         /\ Failed(r).pc = r.pc /\ Failed(r).name = r.name
         /\ Failed(r).listed = r.listed /\ Failed(r).left = r.left
         /\ Failed(r).mismatches = r.mismatches
<1>. DEFINE f == [r EXCEPT !.exit = 1]
<1>1. f \in CommandType
  BY PartsSet
<1>2. f.exit = 1 /\ f.pc = r.pc /\ f.name = r.name /\ f.listed = r.listed
  BY DEF CommandType
<1>3. f.left = r.left /\ f.mismatches = r.mismatches
  BY DEF CommandType
<1>4. Failed(r) = f
  BY DEF Failed
<1>. HIDE DEF f
<1>. QED  BY <1>1, <1>2, <1>3, <1>4

(* verify reads the next image. *)
LEMMA VerifyKept ==
  ASSUME IInv, NEW c \in Commands, NEW i \in Ids, VerifyImage(c, i)
  PROVE  IInv'
<1>. DEFINE b == command[c]
            r == [b EXCEPT !.left = @ \ {i}]
            x == [r EXCEPT !.mismatches = @ \cup {i}]
<1>1. b.name = "verify" /\ i \in b.left
      /\ UNCHANGED <<hooks, folds, stored, given, tiered, call, damaged>>
  BY DEF VerifyImage, clientVars, storeVars
<1>2. /\ b \in CommandType /\ Running(b) /\ r \in CommandType /\ i \in b.listed
      /\ r.pc = "loop" /\ r.name = b.name /\ r.bucket = b.bucket /\ r.listed = b.listed
      /\ r.left = b.left \ {i} /\ r.tieredThen = b.tieredThen
      /\ r.mismatches = b.mismatches /\ r.exit = b.exit
  BY <1>1, ImageTaken
<1>3. \/ i \in r.tieredThen /\ ~r.bucket /\ Runs(c, Looped(r))
      \/ i \notin stored /\ Runs(c, Looped(r))
      \/ i \notin damaged /\ Runs(c, Looped(r))
      \/ i \in damaged /\ Runs(c, Looped(Failed(x)))
      \/ Runs(c, Looped(Failed(r)))
  BY DEF VerifyImage
<1>4. tiered \subseteq stored
  BY DEF IInv, StoreInv
<1>. HIDE DEF r, b
<1>5. x \in CommandType
  <2>1. r.mismatches \cup {i} \in SUBSET Ids
    BY <1>2 DEF CommandType
  <2>. QED  BY <1>2, <2>1, PartsSet
<1>6. x.pc = r.pc /\ x.name = r.name /\ x.listed = r.listed /\ x.left = r.left
      /\ x.mismatches = r.mismatches \cup {i}
  BY <1>2 DEF CommandType
<1>. HIDE DEF x
<1>7. /\ b.left \subseteq b.listed /\ b.mismatches \subseteq b.listed
      /\ \A j \in b.listed : given[j] # Invalid
      /\ b.mismatches \subseteq damaged
      /\ b.name = "verify" /\ b.exit = 0 =>
           \A j \in (b.listed \ b.left) \cap stored :
             (j \in b.tieredThen => b.bucket) => j \notin damaged
  BY <1>2 DEF Running, Listing
<1>8. ASSUME NEW d \in CommandType, d.exit = 1, d.pc = "loop", d.name = "verify",
             d.listed = b.listed, d.left = b.left \ {i},
             d.mismatches = b.mismatches \/ (d.mismatches = b.mismatches \cup {i} /\ i \in damaged),
             Runs(c, Looped(d))
      PROVE  IInv'
  <2>1. Listing(d)
    BY <1>2, <1>7, <1>8 DEF Listing
  <2>. QED  BY <1>1, <1>4, <1>8, <2>1, LoopKept
<1>9. ASSUME \/ i \in r.tieredThen /\ ~r.bucket
             \/ i \notin stored
             \/ i \notin damaged,
             Runs(c, Looped(r))
      PROVE  IInv'
  <2>1. r.name = "verify" /\ r.exit = 0 =>
           \A j \in (r.listed \ r.left) \cap stored :
             (j \in r.tieredThen => r.bucket) => j \notin damaged
    BY <1>2, <1>7, <1>9
  <2>2. Listing(r)
    BY <1>2, <1>7, <2>1 DEF Listing
  <2>. QED  BY <1>1, <1>2, <1>4, <1>9, <2>2, LoopKept
<1>10. CASE i \in damaged /\ Runs(c, Looped(Failed(x)))
  BY <1>1, <1>2, <1>5, <1>6, <1>8, <1>10, FailedIs
<1>11. CASE Runs(c, Looped(Failed(r)))
  BY <1>1, <1>2, <1>8, <1>11, FailedIs
<1>. QED  BY <1>3, <1>9, <1>10, <1>11

(* tier --all moves the next image, or fails to.                            *)
LEMMA TierKept ==
  ASSUME IInv, NEW c \in Commands, NEW i \in Ids, TierImage(c, i) \/ TierImageFails(c, i)
  PROVE  IInv'
<1>. DEFINE b == command[c]
            r == [b EXCEPT !.left = @ \ {i}]
<1>1. b.name = "tier" /\ i \in b.left /\ UNCHANGED <<hooks, folds, stored, given, call, damaged>>
  BY DEF TierImage, TierImageFails
<1>2. /\ b \in CommandType /\ Running(b) /\ r \in CommandType /\ i \in b.listed
      /\ r.pc = "loop" /\ r.name = b.name /\ r.bucket = b.bucket /\ r.listed = b.listed
      /\ r.left = b.left \ {i} /\ r.tieredThen = b.tieredThen
      /\ r.mismatches = b.mismatches /\ r.exit = b.exit
  BY <1>1, ImageTaken
<1>3. /\ tiered \subseteq tiered' /\ tiered' \subseteq stored
      /\ \/ i \in stored /\ i \in tiered' /\ Runs(c, Looped(r))
         \/ Runs(c, Looped(Failed(r)))
  BY DEF TierImage, TierImageFails, IInv, StoreInv
<1>. HIDE DEF r, b
<1>4. /\ b.left \subseteq b.listed /\ b.mismatches \subseteq b.listed
      /\ \A j \in b.listed : given[j] # Invalid
      /\ b.mismatches \subseteq damaged
      /\ b.exit = 0 => (b.listed \ b.left) \cap stored \subseteq tiered
  BY <1>1, <1>2 DEF Running, Listing
<1>5. ASSUME NEW d \in CommandType, d.pc = "loop", d.name = "tier", d.listed = b.listed,
             d.left = b.left \ {i}, d.mismatches = b.mismatches,
             d.exit = 0 => (d.listed \ d.left) \cap stored \subseteq tiered',
             Runs(c, Looped(d))
      PROVE  IInv'
  <2>1. Listing(d)
    BY <1>2, <1>4, <1>5 DEF Listing
  <2>. QED  BY <1>1, <1>3, <1>5, <2>1, LoopKept
<1>6. CASE i \in stored /\ i \in tiered' /\ Runs(c, Looped(r))
  <2>1. r.exit = 0 => (r.listed \ r.left) \cap stored \subseteq tiered'
    BY <1>2, <1>3, <1>4, <1>6
  <2>. QED  BY <1>1, <1>2, <1>5, <1>6, <2>1
<1>7. CASE Runs(c, Looped(Failed(r)))
  BY <1>1, <1>2, <1>5, <1>7, FailedIs
<1>. QED  BY <1>3, <1>6, <1>7

(* A listing that fails, and the end of a command.                          *)
LEMMA CommandEnds ==
  ASSUME IInv, NEW c \in Commands, ListFails(c) \/ Exit(c)
  PROVE  IInv'
<1>1. UNCHANGED <<hooks, folds, stored, given, tiered, call, damaged>> /\ tiered \subseteq stored
  BY DEF ListFails, Exit, clientVars, storeVars, IInv, StoreInv
<1>2. CASE ListFails(c)
  <2>. DEFINE r == [NoCommand EXCEPT !.pc = "exited", !.exit = 1]
  <2>1. r \in CommandType
    <3>1. [NoCommand EXCEPT !.pc = "exited"] \in CommandType
      BY NoCommandIs, PartsSet
    <3>. QED  BY <3>1, PartsSet
  <2>2. r.name = "none" /\ r.listed = {} /\ r.left = {} /\ r.mismatches = {}
    BY DEF NoCommand
  <2>3. command' = [command EXCEPT ![c] = r]
    BY <1>2 DEF ListFails, Runs
  <2>. HIDE DEF r
  <2>4. Listing(r)
    BY <2>2 DEF Listing
  <2>. QED  BY <1>1, <2>1, <2>2, <2>3, <2>4, CommandKept
<1>3. CASE Exit(c)
  BY <1>1, <1>3, NoCommandIs, CommandKept DEF Exit, Runs
<1>. QED  BY <1>2, <1>3

(* Storage decays: no command is under way.                                 *)
LEMMA DamageKept ==
  ASSUME IInv, NEW i \in Ids, Damage(i)
  PROVE  IInv'
<1>1. UNCHANGED <<hooks, folds, stored, given, tiered, call, command>>
      /\ i \in stored /\ damaged' = damaged \cup {i}
      /\ \A c \in Commands : command[c].pc = "idle"
  BY DEF Damage, clientVars, storeVars
<1>2. StoreInv' /\ call' \in [Clients -> CallType] /\ command' \in [Commands -> CommandType]
  BY <1>1 DEF IInv, StoreInv
<1>3. ASSUME NEW q \in Clients PROVE CallOf(q, call'[q], given')
  BY <1>1 DEF IInv
<1>4. ASSUME NEW k \in Commands PROVE Running(command[k])'
  <2>1. Running(command[k]) /\ command[k].listed = {} /\ command'[k] = command[k]
    BY <1>1 DEF IInv, Running, Listing
  <2>. QED  BY <1>1, <2>1 DEF Running, Listing
<1>. QED  BY <1>2, <1>3, <1>4 DEF IInv

-----------------------------------------------------------------------------
(* The theorems *)

(* At first nothing is stored and nobody does anything. *)
LEMMA InitIInv == Init => IInv
<1>. SUFFICES ASSUME Init PROVE IInv
  OBVIOUS
<1>1. StoreInv
  BY DEF Init, StoreInv, Images
<1>2. ASSUME NEW p PROVE CallOf(p, Idle, given)
  BY IdleIs
<1>3. Idle \in CallType
  BY <1>2 DEF CallOf
<1>4. call \in [Clients -> CallType] /\ \A p \in Clients : CallOf(p, call[p], given)
  BY <1>2, <1>3 DEF Init
<1>5. Running(NoCommand)
  BY NoCommandIs DEF Running
<1>6. command \in [Commands -> CommandType] /\ \A c \in Commands : Running(command[c])
  BY <1>5, NoCommandIs DEF Init
<1>. QED  BY <1>1, <1>4, <1>6 DEF IInv

(* Every step keeps the invariant. *)
LEMMA NextIInv == IInv /\ [Next]_vars => IInv'
<1>. SUFFICES ASSUME IInv, [Next]_vars PROVE IInv'
  OBVIOUS
<1>1. ASSUME NEW p \in Clients, ClientStep(p), UNCHANGED <<damaged, command>>
      PROVE  IInv'
  <2>1. Aside
    BY <1>1 DEF Aside
  <2>2. CASE BeginPut(p) \/ BeginGet(p)
    BY <2>1, <2>2, BeginsKept
  <2>3. CASE \/ CheckBeforePut(p) \/ PrepareRow(p) \/ \E k \in 1..MaxBatch : AsyncPrepareRow(p, k)
             \/ CheckBeforeGet(p) \/ AsyncGet(p) \/ SelectFails(p)
    BY <2>1, <2>3, ChecksKept
  <2>4. CASE StoreRows(p) \/ StoreFails(p)
    BY <2>1, <2>4, StoresKept
  <2>5. CASE SelectOne(p) \/ SelectMany(p)
    BY <2>1, <2>5, SelectsKept
  <2>6. CASE DeleteOne(p) \/ DeleteMany(p) \/ TierOne(p) \/ Return(p)
    BY <2>1, <2>6, DeletesKept
  <2>. QED  BY <1>1, <2>2, <2>3, <2>4, <2>5, <2>6 DEF ClientStep
<1>2. ASSUME NEW c \in Commands, Command(c)
      PROVE  IInv'
  <2>1. CASE BeginVerify(c) \/ BeginTierAll(c)
    BY <2>1, CommandBegins
  <2>2. CASE ListFails(c) \/ Exit(c)
    BY <2>2, CommandEnds
  <2>3. ASSUME NEW i \in Ids, VerifyImage(c, i) PROVE IInv'
    BY <2>3, VerifyKept
  <2>4. ASSUME NEW i \in Ids, TierImage(c, i) \/ TierImageFails(c, i) PROVE IInv'
    BY <2>4, TierKept
  <2>. QED  BY <1>2, <2>1, <2>2, <2>3, <2>4 DEF Command
<1>3. ASSUME NEW i \in Ids, Damage(i)
      PROVE  IInv'
  BY <1>3, DamageKept
<1>4. CASE UNCHANGED vars
  <2>1. UNCHANGED <<hooks, folds, stored, given, tiered, call, damaged, command>>
    BY <1>4 DEF vars, clientVars, storeVars
  <2>2. StoreInv' /\ call' \in [Clients -> CallType] /\ command' \in [Commands -> CommandType]
    BY <2>1 DEF IInv, StoreInv
  <2>3. ASSUME NEW q \in Clients PROVE CallOf(q, call'[q], given')
    BY <2>1 DEF IInv
  <2>4. ASSUME NEW k \in Commands PROVE Running(command[k])'
    <3>1. Running(command[k])
      BY DEF IInv
    <3>. QED  BY <2>1, <3>1 DEF Running, Listing
  <2>. QED  BY <2>2, <2>3, <2>4 DEF IInv
<1>. QED  BY <1>1, <1>2, <1>3, <1>4 DEF Next

(* The invariant holds in every state: whatever the clients of either kind, *)
(* the commands, the hooks and the size of a batch are.                     *)
THEOREM Invariance == Spec => []IInv
BY InitIInv, NextIInv, PTL DEF Spec

(* Results are ids, images or what a result may say, and what is tiered is  *)
(* stored.                                                                  *)
THEOREM TypeCorrect == Spec => []TypeOK
<1>1. IInv => TypeOK
  <2>. SUFFICES ASSUME IInv PROVE TypeOK
    OBVIOUS
  <2>1. ASSUME NEW p \in Clients, NEW k \in DOMAIN call[p].results
        PROVE  call[p].results[k] \in Answers
    <3>1. call[p].results \in [Positions(call[p]) -> Answers]
      BY Holds
    <3>. QED  BY <3>1
  <2>. QED  BY <2>1 DEF IInv, StoreInv, TypeOK, Images
<1>. QED  BY <1>1, Invariance, PTL

(* put_many: the result of an image is its own, whichever others were       *)
(* rejected and in whatever order the threads prepared them; an id in a     *)
(* result names a new image with exactly these bytes, and none twice.       *)
THEOREM ResultsLineUp == Spec => []PutResultsLineUp
<1>1. IInv => PutResultsLineUp
  <2>. SUFFICES ASSUME IInv, NEW p \in Clients, At(p, "returned", {"put_many"})
                PROVE  LET c == call[p]
                       IN \A k \in DOMAIN c.items :
                            /\ c.results[k] \in Ids => given[c.results[k]] = c.items[k] /\ k \in c.allowed
                            /\ c.results[k] \in Ids \cup {"error", "denied"}
                            /\ \A j \in DOMAIN c.items :
                                 c.results[j] \in Ids /\ c.results[j] = c.results[k] => j = k
    BY DEF PutResultsLineUp
  <2>1. Putting(call[p], given) /\ call[p].pc = "returned"
    BY Holds DEF At
  <2>. QED  BY <2>1 DEF Putting, Positions
<1>. QED  BY <1>1, Invariance, PTL

(* A position that the before_get hook denied shows no image, and no        *)
(* malformed name gets past the check in front of the hook.                 *)
THEOREM HookIsObeyed == Spec => []HookDecides
<1>1. IInv => HookDecides
  <2>. SUFFICES ASSUME IInv, NEW p \in SyncClients, At(p, "returned", Gets),
                       NEW k \in DOMAIN call[p].items
                PROVE  /\ call[p].results[k] \in Contents => k \in call[p].allowed
                       /\ k \in call[p].allowed => call[p].items[k].id # Malformed
    BY DEF HookDecides
  <2>1. p \in Clients
    BY DEF Clients
  <2>2. Getting(p, call[p], given)
    BY <2>1, Holds DEF At
  <2>. QED  BY <2>2 DEF Getting, Positions
<1>. QED  BY <1>1, Invariance, PTL

(* get_many: the image at a position is the one its name names, and a name  *)
(* as put returned it is "not found" only if the image was not there.       *)
THEOREM GetManyIsExact == Spec => []GetManyExact
<1>1. IInv => GetManyExact
  <2>. SUFFICES ASSUME IInv, NEW p \in Clients, At(p, "returned", {"get_many"}),
                       NEW k \in call[p].allowed
                PROVE  LET name == call[p].items[k]
                       IN /\ call[p].results[k] \in Contents => call[p].results[k] = given[name.id]
                          /\ call[p].results[k] = "not found" /\ name.spelled = "as put"
                               => name.id \notin call[p].seen
    BY DEF GetManyExact
  <2>1. Getting(p, call[p], given) /\ call[p].pc = "returned" /\ call[p].op = "get_many"
        /\ k \in Positions(call[p])
    BY Holds DEF At, Gets, Shape
  <2>. QED  BY <2>1 DEF Getting
<1>. QED  BY <1>1, Invariance, PTL

(* Exit status 0 of verify and of tier --all means what the command says,   *)
(* whatever clients delete and tier while the loop goes on, and a reported  *)
(* mismatch is real.                                                        *)
THEOREM ExitStatusIsTrue == Spec => []ExitCodes
<1>1. IInv => ExitCodes
  <2>. SUFFICES ASSUME IInv, NEW c \in Commands, command[c].pc = "exited"
                PROVE  LET r == command[c]
                       IN /\ r.mismatches \subseteq damaged
                          /\ r.name = "verify" /\ r.exit = 0 =>
                               \A i \in r.listed \cap stored :
                                 (i \in r.tieredThen => r.bucket) => i \notin damaged
                          /\ r.name = "tier" /\ r.exit = 0 => r.listed \cap stored \subseteq tiered
    BY DEF ExitCodes
  <2>1. Running(command[c]) /\ command[c].left = {}
    BY DEF IInv, Running, Listing
  <2>. QED  BY <2>1 DEF Running, Listing
<1>. QED  BY <1>1, Invariance, PTL
=============================================================================
