--------------------------- MODULE MCRemediation ---------------------------
(***************************************************************************)
(* Instances of Remediation for TLC.                                       *)
(***************************************************************************)
EXTENDS Remediation, TLC

CONSTANTS a1, a2, n1, n2, t1, t2, r1, r2, r3

\* One agent per node.
OneEach == a1 :> n1 @@ a2 :> n2
OneAgent == a1 :> n1

\* Two agents registered for the same node.
Shared == a1 :> n1 @@ a2 :> n1

Threads == Permutations(Requests)

=============================================================================
