--------------------------- MODULE MCStackTracker ---------------------------
(* Instances of StackTracker for TLC. *)
EXTENDS StackTracker, TLC

CONSTANTS t1, t2, s1, a1, a2

MCTasks == {t1, t2}
MCStacks == {s1}
MCAdders == {a1, a2}
\* 0xffff888012344020, and an address whose low 14 bits are 0.
MCAddresses == {{5, 14, 18, 20, 21, 25, 28, 43} \cup (47 .. 63),
                {16, 43} \cup (47 .. 63)}
Symmetry == Permutations(MCTasks) \cup Permutations(MCAdders)
=============================================================================
