--------------------------- MODULE MCMonitorLoop ---------------------------
(* Instances of MonitorLoop for TLC. *)
EXTENDS MonitorLoop

CONSTANT k1

\* No policy file.
NoKinds == <<>>

\* The policies as shipped, without the webhook action no file names.
KillThenClear == <<"kill_process", "clear_temp">>

=============================================================================
