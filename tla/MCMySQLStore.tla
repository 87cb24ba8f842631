---------------------------- MODULE MCMySQLStore ----------------------------
(* Instances of MySQLStore for TLC. *)
EXTENDS MySQLStore, TLC

Symmetry == Permutations(Procs) \cup Permutations(Ids)
=============================================================================
