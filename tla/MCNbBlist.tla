------------------------------ MODULE MCNbBlist ------------------------------
(* Instances of NbBlist for TLC. *)
EXTENDS NbBlist, TLC

CONSTANTS w1, w2, w3, r1

MCWriters == {w1, w2, w3}
MCReaders == {r1}
\* Full lists can be met in the second only: 3 does not divide 4.
MCSizes == {[len |-> 4, stride |-> 3], [len |-> 6, stride |-> 2]}
Symmetry == Permutations(MCWriters)
=============================================================================
