--------------------------- MODULE MCHashTracker ---------------------------
(* Instances of HashTracker for TLC. *)
EXTENDS HashTracker, TLC

CONSTANTS cpu1, cpu2, pid1, pid2, n1, n2, d1

MCCPUs == {cpu1, cpu2}
MCIds == {pid1, pid2}
MCOneId == {pid1}
MCTwoNodes == {n1, n2}
MCOneDatum == {d1}

Symmetry == Permutations(CPUs) \cup Permutations(Ids) \cup
            Permutations(Nodes) \cup Permutations(Data)
=============================================================================
