---------------------------- MODULE MCTaskAgent -----------------------------
(* Instances of TaskAgent for TLC. *)
EXTENDS TaskAgent
=============================================================================
