--------------------------- MODULE MCLiveSummary ---------------------------
(***************************************************************************)
(* Instances of LiveSummary for TLC.                                       *)
(***************************************************************************)
EXTENDS LiveSummary

CONSTANTS n1, n2, r1, r2, sampler

=============================================================================
