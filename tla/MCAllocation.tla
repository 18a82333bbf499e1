----------------------------- MODULE MCAllocation -----------------------------
(* An instance of Allocation for TLC. *)
EXTENDS Allocation, TLC

Symmetry == Permutations(Addresses)
=============================================================================
