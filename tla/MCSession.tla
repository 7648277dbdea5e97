------------------------------ MODULE MCSession ------------------------------
(* Instances of Session for TLC: values for its constants. *)
EXTENDS Session, TLC

CONSTANTS s1, s2, k1, k2

SymmetryKeys == Permutations({k1, k2})
Symmetry == Permutations({s1, s2}) \cup SymmetryKeys
=============================================================================
