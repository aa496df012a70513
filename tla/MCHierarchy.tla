---------------------------- MODULE MCHierarchy ----------------------------
(* Hierarchy for TLC: interchangeable rows and transactions.                *)
EXTENDS Hierarchy, TLC

Perms == Permutations(Nodes) \cup Permutations(Txns)
=============================================================================
