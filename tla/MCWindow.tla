------------------------------- MODULE MCWindow -------------------------------
(* An instance of Window for TLC. *)
EXTENDS Window
=============================================================================
