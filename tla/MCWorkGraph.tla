----------------------------- MODULE MCWorkGraph -----------------------------
(* The work graph on a small instance, and the breadth-first search of      *)
(* canReach as the code writes it, as the reference for its definition by   *)
(* closed sets.                                                             *)
EXTENDS WorkGraph, TLC

Symmetric == Permutations(Node) \cup Permutations(Request)

\* canReach's loop: the queue as a set of ids still to visit (the order in which
\* they are taken does not matter for the answer).
RECURSIVE Search(_, _, _, _)
Search(E, queue, visited, target) ==
    IF queue = {} THEN FALSE
    ELSE LET c == CHOOSE x \in queue : TRUE
         IN  IF c = target THEN TRUE
             ELSE Search(E, (queue \cup {y \in Node : <<c, y>> \in E}) \ (visited \cup {c}),
                         visited \cup {c}, target)

\* The definition by closed sets and the search give the same answer on every
\* graph over the instance's items.
ASSUME ReachIsSearch ==
    \A E \in SUBSET (Node \X Node) : \A x, y \in Node :
        canReach(E, x, y) <=> Search(E, {x}, {}, y)
=============================================================================
