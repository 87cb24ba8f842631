------------------------------ MODULE MCClient ------------------------------
(* Instances of CommandLine (with Client) for TLC.  *)
EXTENDS CommandLine, TLC

Symmetry == Permutations(Ids) \cup Permutations(Contents)
=============================================================================
