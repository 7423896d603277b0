--------------------------- MODULE MCLoginLockout ---------------------------
(* Instances of LoginLockout for TLC. *)
EXTENDS LoginLockout, TLC

CONSTANTS t1, t2, t3

ThreadSymmetry == Permutations({t1, t2, t3})

=============================================================================
