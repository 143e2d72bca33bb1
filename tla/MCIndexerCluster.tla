-------------------------- MODULE MCIndexerCluster --------------------------
(* IndexerCluster with the symmetry of its unordered constants, for TLC. *)
EXTENDS IndexerCluster, TLC

Symmetry == Permutations(Images) \union Permutations(Claims)
=============================================================================
