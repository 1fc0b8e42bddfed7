----------------------------- MODULE MCBufCache -----------------------------
(* The buffer cache with small constants. *)
EXTENDS BufCache, TLC

Symmetry == Permutations(Proc \ Readers) \cup Permutations(Block) \cup Permutations(Data)
=============================================================================
