------------------------------ MODULE MCRecycle ------------------------------
(* Two threads and three blocks; one of the sizes is beyond the bound.     *)
EXTENDS Recycle, TLC

MCSymmetry == Permutations(Threads) \cup Permutations(Blocks)
=============================================================================
