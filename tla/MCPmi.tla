------------------------------- MODULE MCPmi -------------------------------
(* Instances of Pmi for TLC. *)
EXTENDS Pmi

CONSTANTS t1, t2, t3

MCTasks == {t1, t2, t3}
=============================================================================
