------------------------- MODULE MCStatefulSetPods -------------------------
(* StatefulSetPods with the symmetry of its unordered constants, for TLC. *)
EXTENDS StatefulSetPods, TLC

Symmetry == Permutations(Images) \union Permutations(Claims)
=============================================================================
