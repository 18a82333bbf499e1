------------------------------ MODULE MCSession ------------------------------
(* Instances of Session for TLC. *)
EXTENDS Session, TLC

\* No action tells two facts of the dictionary apart.
FactSymmetry == Permutations(Vocabulary)
=============================================================================
