---------------------------- MODULE MCDedupStore ----------------------------
(* Instances of DedupStore for TLC: the clients and the ids are             *)
(* interchangeable, the checksums are not (they are compared).              *)
EXTENDS DedupStore, TLC

Symmetry == Permutations(Procs) \cup Permutations(Ids)
=============================================================================
