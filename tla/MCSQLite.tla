------------------------------ MODULE MCSQLite ------------------------------
(* Instances of SQLiteSystem for TLC. *)
EXTENDS SQLiteSystem, TLC

Symmetry == Permutations(SyncProcs) \cup Permutations(AsyncProcs)
            \cup Permutations(Ids) \cup Permutations(Sums)
=============================================================================
