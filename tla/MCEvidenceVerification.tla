----------------------- MODULE MCEvidenceVerification -----------------------
(* A small instance of EvidenceVerification: a contract of one field, which   *)
(* is in the digest, and one piece of evidence checked by two workers.        *)
EXTENDS EvidenceVerification, TLC

CONSTANTS e1, w1, w2, v1, v2

CoversAll == [e \in Evidence |-> Criterion]
Symmetry == Permutations(Worker) \cup Permutations(Value)
=============================================================================
