--------------------------- MODULE MCClientModule ---------------------------
(* Instances of ClientModule for TLC. *)
EXTENDS ClientModule

CONSTANTS cpu1, cpu2

MCCPUs == {cpu1, cpu2}
=============================================================================
