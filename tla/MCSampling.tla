----------------------------- MODULE MCSampling -----------------------------
(* Instances of Sampling for TLC. *)
EXTENDS Sampling, TLC

CONSTANTS t1, t2, t3, p1, p2, d1, d2

MCTasks == {t1, t2, t3}
MCPids == {p1, p2}
MCData == {d1, d2}
Symmetry ==
  Permutations(MCTasks) \cup Permutations(MCPids) \cup Permutations(MCData)
=============================================================================
