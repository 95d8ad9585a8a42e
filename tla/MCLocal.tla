------------------------------- MODULE MCLocal -------------------------------
(***************************************************************************)
(* The instance of Local that TLC checks.                                  *)
(***************************************************************************)
EXTENDS Local
=============================================================================
