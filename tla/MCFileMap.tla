------------------------------ MODULE MCFileMap -----------------------------
(* Two processes, with a file each. *)
EXTENDS FileMap

OwnFile == <<1, 2>>
=============================================================================
