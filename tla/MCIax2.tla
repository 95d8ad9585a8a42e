------------------------------- MODULE MCIax2 -------------------------------
(* Instances of Iax2 for TLC. *)
EXTENDS Iax2

OneEach == <<1, 1>>
TwoAndOne == <<2, 1>>
=============================================================================
