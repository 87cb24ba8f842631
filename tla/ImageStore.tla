----------------------------- MODULE ImageStore -----------------------------
(***************************************************************************)
(* What the storage interface (adapters/base.py) promises, whatever tables *)
(* are behind it: a map from image id to content, on which a put_many      *)
(* stores all of its rows in one step and a delete_many removes all of the *)
(* named images in one step, and an image never changes its content.       *)
(*                                                                         *)
(* A call that is still open may take effect again: with automatic retry   *)
(* the store promises every effect to be whole, not to be unique (see      *)
(* PutStoredOnce in DedupStore).                                           *)
(***************************************************************************)
EXTENDS Integers, FiniteSets

CONSTANTS Procs, Ids, Contents, NoImage

VARIABLES
  images,   (* id -> content, or NoImage *)
  calls     (* the open call of each client *)

vars == <<images, calls>>

OpenCall == [kind : {"none", "put", "delete"},
             want : [Contents -> Nat],  (* put: how many images of each content *)
             ids  : SUBSET Ids]         (* delete: the images to remove         *)

Closed == [kind |-> "none", want |-> [c \in Contents |-> 0], ids |-> {}]

Init ==
  /\ images = [i \in Ids |-> NoImage]
  /\ calls = [p \in Procs |-> Closed]

(* An effect may be the last thing a call does, or be followed by another. *)
OpenOrClosed(p) == calls' = calls \/ calls' = [calls EXCEPT ![p] = Closed]

Open(p) ==
  /\ calls[p].kind = "none"
  /\ calls' = [calls EXCEPT ![p] = calls'[p]]
  /\ calls'[p] \in OpenCall /\ calls'[p].kind # "none"
  /\ UNCHANGED images

Put(p) ==
  /\ calls[p].kind = "put"
  /\ \E new \in [Ids -> Contents \cup {NoImage}] :
       /\ \A i \in Ids : new[i] # NoImage => images[i] = NoImage
       /\ \A c \in Contents : Cardinality({i \in Ids : new[i] = c}) = calls[p].want[c]
       /\ images' = [i \in Ids |-> IF new[i] # NoImage THEN new[i] ELSE images[i]]
  /\ OpenOrClosed(p)

Delete(p) ==
  /\ calls[p].kind = "delete"
  /\ images' = [i \in Ids |-> IF i \in calls[p].ids THEN NoImage ELSE images[i]]
  /\ OpenOrClosed(p)

(* A call that raised and changed nothing. *)
GiveUp(p) ==
  /\ calls' = [calls EXCEPT ![p] = Closed]
  /\ UNCHANGED images

Next == \E p \in Procs : Open(p) \/ Put(p) \/ Delete(p) \/ GiveUp(p)

Spec == Init /\ [][Next]_vars

(* An id answers with the bytes it was given for as long as it exists.     *)
ContentImmutable ==
  [][\A i \in Ids : images[i] # NoImage => images'[i] \in {images[i], NoImage}]_images
=============================================================================
