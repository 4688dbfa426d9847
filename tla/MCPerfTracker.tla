---------------------------- MODULE MCPerfTracker ----------------------------
(* Instances of PerfTracker for TLC. *)
EXTENDS PerfTracker, TLC

CONSTANTS t1, t2, c1, c2, a1, a2, e1, e2, e3, d1

MCTasks == {t1, t2}
MCCPUs == {c1, c2}
MCAdders == {a1, a2}
MCEvents == {e1, e2, e3}
MCData == {d1}
Symmetry ==
  Permutations(MCTasks) \cup Permutations(MCCPUs) \cup Permutations(MCAdders)
    \cup Permutations(MCEvents)
=============================================================================
