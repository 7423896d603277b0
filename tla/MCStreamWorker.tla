--------------------------- MODULE MCStreamWorker ---------------------------
(***************************************************************************)
(* Instances of StreamWorker for TLC.                                      *)
(***************************************************************************)
EXTENDS StreamWorker

CONSTANTS w1, w2

\* The SQLite bus with the one worker the code names, the Redis bus with two.
OneOrTwo == {[bus |-> "sqlite", workers |-> {w1}], [bus |-> "redis", workers |-> {w1, w2}]}

=============================================================================
