-------------------------- MODULE MCTaskProcessor --------------------------
(* Instances of TaskProcessor for TLC. *)
EXTENDS TaskProcessor
=============================================================================
