------------------------------- MODULE Client -------------------------------
(***************************************************************************)
(* ZeroBucket (client.py) and AsyncZeroBucket (async_client.py) in front   *)
(* of a backend: the hooks, the validation of each image, the batches, and *)
(* the correlation of a backend's answer with the positions of a batch.    *)
(*                                                                         *)
(* The backend is the image store that the adapters implement: each of its *)
(* calls is one step, or it raises, with or without its effect (an         *)
(* acknowledgement may be lost).  A name is what a caller passes for an    *)
(* image id: the id as put returned it, the id spelled differently (in     *)
(* upper case), or something that is no UUID.  PostgreSQL's uuid type and  *)
(* MySQL's collation fold the spellings, SQLite's TEXT does not.           *)
(*                                                                         *)
(* put is a put_many of one image and get_stream, stream_to and metadata   *)
(* are a get, whose error is raised.                                       *)
(* An operator whose comment begins with "Faulty:" is a plausible mistake  *)
(* in the definition after it; Next never uses it.                         *)
(***************************************************************************)
EXTENDS Naturals, FiniteSets, Sequences, SequencesExt

CONSTANTS
  SyncClients,  (* callers of a ZeroBucket                                   *)
  AsyncClients, (* tasks that call an AsyncZeroBucket                        *)
  Ids,          (* image ids                                                 *)
  Contents,     (* images that pass the validation                           *)
  MaxBatch,     (* most images or names of a call                            *)
  Hooks,        (* the sets of hooks a ZeroBucket may have: subsets of
                   {"before_put", "before_get"}                              *)
  Invalid,      (* an image that does not pass                               *)
  Malformed     (* a name that is no UUID                                    *)

Clients == SyncClients \cup AsyncClients

(* What a result may say besides an id or an image; "denied" is also the    *)
(* answer of a hook that raises.                                            *)
Plain == {"none", "error", "denied", "not found", "deleted", "absent"}

ASSUME ClientAssumption ==
  /\ SyncClients \cap AsyncClients = {}
  /\ MaxBatch \in Nat \ {0}
  /\ Hooks \subseteq SUBSET {"before_put", "before_get"} /\ Hooks # {}
  /\ Invalid \notin Contents /\ Malformed \notin Ids
  /\ Ids \cap Contents = {} /\ Plain \cap (Ids \cup Contents) = {}

VARIABLES
  hooks,    (* the hooks of the ZeroBucket                                   *)
  folds,    (* the database folds the spellings of an id                     *)
  stored,   (* images that are there                                         *)
  given,    (* the content that each drawn id was drawn for, or Invalid      *)
  tiered,   (* stored images whose bytes are in object storage               *)
  call      (* each client's call                                            *)

storeVars == <<stored, given, tiered>>
clientVars == <<hooks, folds, storeVars, call>>

Names == [id : Ids, spelled : {"as put", "differently"}]
         \cup {[id |-> Malformed, spelled |-> "as put"]}

Answers == Ids \cup Contents \cup Plain

Gets == {"get", "get_many"}

Idle == [pc |-> "idle", op |-> "none", items |-> <<>>, rest |-> {}, allowed |-> {},
         seen |-> {}, results |-> <<>>]

(* items are the images or names of the call, rest the positions that are   *)
(* still to be prepared or authorized, allowed those that go on to the      *)
(* backend, and seen the images that the call found when it got there.      *)
Begin(p, op, items) ==
  /\ call[p].pc = "idle"
  /\ call' = [call EXCEPT ![p] =
       [Idle EXCEPT !.pc = "begun", !.op = op, !.items = items, !.rest = DOMAIN items,
                    !.results = [k \in DOMAIN items |-> "none"]]]
  /\ UNCHANGED <<hooks, folds, storeVars>>

-----------------------------------------------------------------------------
(* Helpers *)

At(p, pc, ops) == call[p].pc = pc /\ call[p].op \in ops

Batches(S) == BoundedSeq(S, MaxBatch) \ {<<>>}

Returned(c) == [c EXCEPT !.pc = "returned"]

(* The rest of the batch, all of it, ends like this. *)
Every(c, answer) == Returned([c EXCEPT !.results = [k \in DOMAIN c.items |-> answer]])

(* The images that the database finds by the names at the positions S. *)
Matches(name, i) == name.id = i /\ (name.spelled = "as put" \/ folds)
Found(c, S) == {i \in stored : \E k \in S : Matches(c.items[k], i)}

(* Every position has its answer or goes on to the backend. *)
Decided(c) == IF c.rest # {} THEN c ELSE IF c.allowed = {} THEN Returned(c) ELSE [c EXCEPT !.pc = "query"]

Goes(p, c) == call' = [call EXCEPT ![p] = c]

Return(p) ==
  /\ call[p].pc = "returned"
  /\ Goes(p, Idle)
  /\ UNCHANGED <<hooks, folds, storeVars>>

-----------------------------------------------------------------------------
(* put, put_many *)

BeginPut(p) ==
  \E images \in Batches(Contents \cup {Invalid}) : Begin(p, "put_many", images)

(* One question for the whole batch.  A denial, and an exception of the     *)
(* hook, end it.                                                            *)
CheckBeforePut(p) ==
  /\ p \in SyncClients /\ At(p, "begun", {"put_many"})
  /\ \/ Goes(p, [call[p] EXCEPT !.pc = "prepare"])
     \/ "before_put" \in hooks /\ Goes(p, Every(call[p], "denied"))
  /\ UNCHANGED <<hooks, folds, storeVars>>

(* _prepare_row for the image at position k: a row, or this item's error. *)
Prepared(c, k) ==
  Decided(IF c.items[k] = Invalid
          THEN [c EXCEPT !.rest = @ \ {k}, !.results[k] = "error"]
          ELSE [c EXCEPT !.rest = @ \ {k}, !.allowed = @ \cup {k}])

First(S) == CHOOSE k \in S : \A j \in S : k <= j

(* One image after the other. *)
PrepareRow(p) ==
  /\ At(p, "prepare", {"put_many"})
  /\ Goes(p, Prepared(call[p], First(call[p].rest)))
  /\ UNCHANGED <<hooks, folds, storeVars>>

(* asyncio.gather: threads that end in any order. *)
AsyncPrepareRow(p, k) ==
  /\ p \in AsyncClients /\ At(p, "begun", {"put_many"}) /\ k \in call[p].rest
  /\ Goes(p, Prepared(call[p], k))
  /\ UNCHANGED <<hooks, folds, storeVars>>

Fresh == {i \in Ids : given[i] = Invalid}
Drawn(S) == {f \in [S -> Fresh] : \A j, k \in S : f[j] = f[k] => j = k}

(* The backend stores the rows of a call, under the id of each row. *)
Stores(c, id) ==
  /\ given' = [i \in Ids |-> IF \E k \in c.allowed : id[k] = i
                             THEN c.items[CHOOSE k \in c.allowed : id[k] = i] ELSE given[i]]
  /\ stored' = stored \cup {id[k] : k \in c.allowed}
  /\ UNCHANGED <<hooks, folds, tiered>>

(* Faulty: the ids are taken for the first images of the batch. *)
StoreRowsFromFirst(p) ==
  /\ At(p, "query", {"put_many"})
  /\ \E id \in Drawn(call[p].allowed) :
       /\ Stores(call[p], id)
       /\ Goes(p, Returned([call[p] EXCEPT !.results =
            [n \in DOMAIN @ |->
               IF n > Cardinality(call[p].allowed) THEN @[n]
               ELSE id[CHOOSE k \in call[p].allowed :
                         Cardinality({j \in call[p].allowed : j <= k}) = n]]]))

(* zip(prepared_indices, ids): the id of a row belongs to its image. *)
StoreRows(p) ==
  /\ At(p, "query", {"put_many"})
  /\ \E id \in Drawn(call[p].allowed) :
       /\ Stores(call[p], id)
       /\ Goes(p, Returned([call[p] EXCEPT !.results =
            [k \in DOMAIN @ |-> IF k \in call[p].allowed THEN id[k] ELSE @[k]]]))

(* The backend raises: every image that was prepared failed; the others     *)
(* keep the error they have.                                                *)
StoreFails(p) ==
  /\ At(p, "query", {"put_many"})
  /\ Goes(p, Returned([call[p] EXCEPT !.results =
       [k \in DOMAIN @ |-> IF k \in call[p].allowed THEN "error" ELSE @[k]]]))
  /\ \/ UNCHANGED <<hooks, folds, storeVars>>
     \/ \E id \in Drawn(call[p].allowed) : Stores(call[p], id)

-----------------------------------------------------------------------------
(* get (get_stream, stream_to, metadata) and get_many *)

BeginGet(p) ==
  \/ \E name \in Names : Begin(p, "get", <<name>>)
  \/ \E names \in Batches(Names) : Begin(p, "get_many", names)

(* _check_before_get, for each name: a malformed one is not found and the   *)
(* hook does not hear of it.  Without a hook get_many leaves all to the     *)
(* backend, which does not find a malformed name either.                    *)
CheckBeforeGet(p) ==
  /\ p \in SyncClients /\ At(p, "begun", Gets)
  /\ LET c == call[p]
         k == First(c.rest)
         answered(why) == Decided([c EXCEPT !.rest = @ \ {k}, !.results[k] = why])
     IN \/ /\ c.items[k].id = Malformed
           /\ Goes(p, answered("not found"))
        \/ /\ c.items[k].id # Malformed
           /\ Goes(p, Decided([c EXCEPT !.rest = @ \ {k}, !.allowed = @ \cup {k}]))
        \/ /\ c.items[k].id # Malformed /\ "before_get" \in hooks
           /\ Goes(p, answered("denied"))
  /\ UNCHANGED <<hooks, folds, storeVars>>

(* An AsyncZeroBucket has no hooks and no check of its own. *)
AsyncGet(p) ==
  /\ p \in AsyncClients /\ At(p, "begun", Gets)
  /\ Goes(p, [call[p] EXCEPT !.pc = "query", !.rest = {}, !.allowed = DOMAIN call[p].items])
  /\ UNCHANGED <<hooks, folds, storeVars>>

SelectOne(p) ==
  /\ At(p, "query", {"get"})
  /\ LET found == Found(call[p], {1})
     IN Goes(p, Returned([call[p] EXCEPT !.seen = found,
          !.results = <<IF found = {} THEN "not found" ELSE given[CHOOSE i \in found : TRUE]>>]))
  /\ UNCHANGED <<hooks, folds, storeVars>>

(* records_by_id.get(image_id): the keys are the ids as the database spells *)
(* them.                                                                    *)
ByName(c, k, found) ==
  IF c.items[k].spelled = "as put" /\ c.items[k].id \in found
  THEN given[c.items[k].id] ELSE "not found"

(* Faulty: the records are taken to come in the order of the names. *)
SelectManyInOrder(p) ==
  /\ At(p, "query", {"get_many"})
  /\ LET c == call[p]
         records == SetToSeq(Found(c, c.allowed))
         rank(k) == Cardinality({j \in c.allowed : j <= k})
     IN Goes(p, Returned([c EXCEPT !.seen = Found(c, c.allowed), !.results =
          [k \in DOMAIN @ |-> IF k \notin c.allowed THEN @[k]
                              ELSE IF rank(k) <= Len(records) THEN given[records[rank(k)]]
                              ELSE "not found"]]))
  /\ UNCHANGED <<hooks, folds, storeVars>>

(* Faulty: the answers are written for every name of the call. *)
SelectManyForAll(p) ==
  /\ At(p, "query", {"get_many"})
  /\ LET c == call[p]
         found == Found(c, c.allowed)
     IN Goes(p, Returned([c EXCEPT !.seen = found, !.results =
          [k \in DOMAIN @ |-> ByName(c, k, found)]]))
  /\ UNCHANGED <<hooks, folds, storeVars>>

SelectMany(p) ==
  /\ At(p, "query", {"get_many"})
  /\ LET c == call[p]
         found == Found(c, c.allowed)
     IN Goes(p, Returned([c EXCEPT !.seen = found, !.results =
          [k \in DOMAIN @ |-> IF k \in c.allowed THEN ByName(c, k, found) ELSE @[k]]]))
  /\ UNCHANGED <<hooks, folds, storeVars>>

(* The backend raises, and the call does. *)
SelectFails(p) ==
  /\ At(p, "query", Gets)
  /\ Goes(p, Every(call[p], "error"))
  /\ UNCHANGED <<hooks, folds, storeVars>>

-----------------------------------------------------------------------------
(* delete, delete_many, tier_to_object_storage: no hook, no check,          *)
(* and one call of the backend.  The answer of delete_many alone is used    *)
(* after that.                                                              *)

(* Faulty: the image keeps its mark as tiered. *)
DeletesRowsOnly(found) ==
  /\ stored' = stored \ found
  /\ UNCHANGED <<hooks, folds, given, tiered>>

Deletes(found) ==
  /\ stored' = stored \ found /\ tiered' = tiered \ found
  /\ UNCHANGED <<hooks, folds, given>>

(* Also a delete that raises after its commit. *)
DeleteOne(p) ==
  /\ call[p].pc = "idle"
  /\ \E i \in stored : Deletes({i})
  /\ UNCHANGED call

(* image_id in deleted_ids: the ids as the database spells them. *)
DeleteMany(p) ==
  \E names \in Batches(Names) :
    LET c == [Idle EXCEPT !.op = "delete_many", !.items = names]
        found == Found(c, DOMAIN names)
    IN /\ call[p].pc = "idle"
       /\ Deletes(found)
       /\ Goes(p, Returned([c EXCEPT !.seen = found, !.results =
            [k \in DOMAIN names |->
               IF ByName(c, k, found) # "not found" THEN "deleted" ELSE "absent"]]))

TierOne(p) ==
  /\ call[p].pc = "idle"
  /\ \E i \in stored : tiered' = tiered \cup {i}
  /\ UNCHANGED <<hooks, folds, stored, given, call>>

-----------------------------------------------------------------------------
ClientStep(p) ==
  \/ BeginPut(p) \/ CheckBeforePut(p) \/ PrepareRow(p) \/ StoreRows(p) \/ StoreFails(p)
  \/ \E k \in 1..MaxBatch : AsyncPrepareRow(p, k)
  \/ BeginGet(p) \/ CheckBeforeGet(p) \/ AsyncGet(p)
  \/ SelectOne(p) \/ SelectMany(p) \/ SelectFails(p)
  \/ DeleteOne(p) \/ DeleteMany(p) \/ TierOne(p) \/ Return(p)
=============================================================================
