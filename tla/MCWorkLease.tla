---------------------------- MODULE MCWorkLease ----------------------------
(* Small instances of WorkLease: one agent account with two sessions, a      *)
(* second agent, and a person.                                              *)
EXTENDS WorkLease, TLC

CONSTANTS s1, s2, s3, a, b, h, k1, k2, k3, r1, r2, r3

SameAgent == [s \in {s1, s2} |-> a]
OneSession == [s \in {s1} |-> a]
TwoAgents == [s \in {s1, s3} |-> IF s = s3 THEN b ELSE a]

Symmetry == Permutations(Claims) \cup Permutations(Runs)
SymmetryOfSessions == Symmetry \cup Permutations(Sessions)   \* sound where they share an agent
=============================================================================
