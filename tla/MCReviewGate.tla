---------------------------- MODULE MCReviewGate ----------------------------
(* Small instances of ReviewGate: two items, a bug whose PROJECT has the      *)
(* switch on and an incident under the policy, and two overlapping sweeps.    *)
EXTENDS ReviewGate

CONSTANTS i1, i2, g1, g2

Reworked == [i \in Item |-> IF i = i1 THEN 2 ELSE 1]
=============================================================================
