----------------------------- MODULE SampleRing -----------------------------
(***************************************************************************)
(* What a circular list of samples promises to its writers: samples go to  *)
(* the slots in turn and each one replaces the oldest, so that the list    *)
(* always holds the most recent Slots samples, whole.                      *)
(***************************************************************************)
EXTENDS Naturals

CONSTANTS
  Slots,     \* how many samples the list keeps
  Samples,   \* what the writers write
  Empty      \* the content of a slot nobody has written

VARIABLES slots, next

Init ==
  /\ slots = [k \in 0 .. Slots - 1 |-> Empty]
  /\ next = 0

Write(s) ==
  /\ slots' = [slots EXCEPT ![next] = s]
  /\ next' = (next + 1) % Slots

Next == \E s \in Samples : Write(s)

Spec == Init /\ [][Next]_<<slots, next>>
=============================================================================
