---------------------------- MODULE MCIdxcSecret ----------------------------
(* IdxcSecret with the symmetry of its unordered constants, for TLC. *)
EXTENDS IdxcSecret, TLC

Symmetry == Permutations(Images) \union Permutations(Claims)
=============================================================================
