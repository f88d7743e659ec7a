--------------------------- MODULE MCAgentRequest ---------------------------
(* Small instances of AgentRequest: three agents that name each other as      *)
(* successor in a circle, so that the hop limit is reached while an agent is   *)
(* left to ask, a team with two owners, and two executions of one agent.       *)
EXTENDS AgentRequest, TLC

CONSTANTS a1, a2, a3, p1, p2, s1, s2, w1, w2

Cycle == [a \in Actors |-> IF a = a1 THEN a2 ELSE IF a = a2 THEN a3 ELSE IF a = a3 THEN a1 ELSE None]
Ownerless == [a \in Actors |-> None]
Owned == [a \in Actors |-> IF a = a2 THEN p2 ELSE None]
TwoOwners == <<p1, p2>>
OneOwner == <<p1>>
BothOfA1 == [s \in Sessions |-> a1]

Symmetry == Permutations(Sessions) \cup Permutations(Sweepers)
=============================================================================
