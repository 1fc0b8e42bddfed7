------------------------------- MODULE MCLog --------------------------------
(* The log with small constants; every run of the log uses this module. *)
EXTENDS Log, TLC

Symmetry == Permutations(Proc) \cup Permutations(Home)

\* sys_force_disk_fail(-1): no disk is made to fail.
NoDisk == {-1}

\* No buffer in use has been recycled.
Intact == ~taken
=============================================================================
