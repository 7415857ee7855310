------------------------------- MODULE MCDm9000 -------------------------------
(* Instances of Dm9000. *)
EXTENDS Dm9000
===============================================================================
