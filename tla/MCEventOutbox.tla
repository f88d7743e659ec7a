--------------------------- MODULE MCEventOutbox ---------------------------
(* Small instances of EventOutbox: two overlapping flushes, two events, two   *)
(* subscriptions.                                                           *)
EXTENDS EventOutbox, TLC

CONSTANTS w1, w2, t1, t2

Broadcast == [e \in Events |-> Targets]
FirstToBoth == [e \in Events |-> IF e = 1 THEN Targets ELSE {}]

Symmetry == Permutations(Workers) \cup Permutations(Targets)
=============================================================================
