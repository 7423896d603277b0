------------------------- MODULE MCAgentEnrollment -------------------------
(* Instances of AgentEnrollment for TLC. *)
EXTENDS AgentEnrollment

CONSTANTS a1, a2, n1, r1, r2

\* The default node_uid, left as it is on two hosts.
DefaultUid == [a \in {a1, a2} |-> n1]

=============================================================================
