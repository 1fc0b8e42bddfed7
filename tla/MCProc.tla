------------------------------- MODULE MCProc -------------------------------
(* The process table with few slots. *)
EXTENDS Proc
=============================================================================
