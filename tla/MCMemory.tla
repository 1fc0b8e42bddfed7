------------------------------ MODULE MCMemory ------------------------------
(* Pages of two bytes; sizes that are and that are not multiples of it. *)
EXTENDS Memory

SomeSegments == {1, 4}
SomeSbrks == {3, -3}
=============================================================================
