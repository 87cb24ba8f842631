---------------------------- MODULE MCTieredStore ----------------------------
(* Instances of TieredStore for TLC: clients of a kind, and ids, are        *)
(* interchangeable.                                                         *)
EXTENDS TieredStore, TLC

Symmetry == Permutations(Writers) \cup Permutations(Readers) \cup Permutations(Ids)
=============================================================================
