---------------------------- MODULE MCAsyncMySQL ----------------------------
(* Instances of AsyncMySQL for TLC: callers, closers and pools are each     *)
(* interchangeable.                                                         *)
EXTENDS AsyncMySQL, TLC

Symmetry == Permutations(Callers) \cup Permutations(Closers) \cup Permutations(Pools)
=============================================================================
