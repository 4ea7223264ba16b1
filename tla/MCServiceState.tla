--------------------------- MODULE MCServiceState ---------------------------
(* Instances of ServiceState for TLC. *)
EXTENDS ServiceState
=============================================================================
