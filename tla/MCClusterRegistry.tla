-------------------------- MODULE MCClusterRegistry --------------------------
(***************************************************************************)
(* Instances of ClusterRegistry for TLC.                                   *)
(***************************************************************************)
EXTENDS ClusterRegistry, TLC

CONSTANTS n1, n2, s1, s2

Threads == Permutations(Sessions)

=============================================================================
