----------------------------- MODULE MCOperator -----------------------------
(* Instances of Operator for TLC; all constants are given in the .cfg files. *)
EXTENDS Operator
=============================================================================
