---------------------------- MODULE MCSystemHook ----------------------------
(* Instances of SystemHook for TLC. *)
EXTENDS SystemHook, TLC

CONSTANTS c1, c2, c3

MCTwo == {c1, c2}
MCThree == {c1, c2, c3}
ContextSymmetry == Permutations(Contexts)
=============================================================================
