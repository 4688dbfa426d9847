------------------------------ MODULE MCCArray ------------------------------
(* Instances of CArray for TLC. *)
EXTENDS CArray, TLC

CONSTANTS w1, w2, w3, s1, s2

MCThreeWriters == {w1, w2, w3}
MCTwoSamples == {s1, s2}

Symmetry == Permutations(Writers) \cup Permutations(Samples)
=============================================================================
