------------------------ MODULE MCTelemetryDelivery ------------------------
(***************************************************************************)
(* Instances of TelemetryDelivery for TLC.                                 *)
(***************************************************************************)
EXTENDS TelemetryDelivery

CONSTANTS r1, r2

=============================================================================
