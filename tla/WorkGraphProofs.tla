--------------------------- MODULE WorkGraphProofs ---------------------------
(***************************************************************************)
(* Proofs about WorkGraph, for every set of items, any number of restores    *)
(* in flight and of deletions.  GraphSound below is the inductive invariant. *)
(***************************************************************************)
EXTENDS WorkGraph, TLAPS

-----------------------------------------------------------------------------
(* The inductive invariant *)

(* ProjectionAgrees, edge by edge: a link is there when the parent column     *)
(* says so, and only then.                                                  *)
LinkIsParent == \A f, t \in Node : <<f, t>> \in contains <=> parentId[t] = f
EndsLive(E) == \A f, t \in Node : <<f, t>> \in E => f \in live /\ t \in live

(* No item is its own parent.                                               *)
NoSelfParent == \A n \in Node : parentId[n] # n

(* A snapshot holds the link to every child it would take back.               *)
SnapSound(n, s) == \A c \in s.kids : <<n, c>> \in s.contains
TombsSound == \A n \in Node : tomb[n] # NoSnap => n \in used /\ SnapSound(n, tomb[n])
PendingSound ==
    \A r \in Request : pending[r] # NoSnap => SnapSound(pending[r].id, pending[r].snap)

HierarchySound == LinkIsParent /\ EndsLive(contains) /\ EndsLive(blocks) /\ NoSelfParent

GraphSound ==
    /\ TypeOK /\ HierarchySound /\ TombsSound /\ PendingSound
    /\ LegalKindsButRestored /\ NoCycleButThroughRestored

-----------------------------------------------------------------------------
(* The projection *)

LEMMA PairParts ==
  ASSUME NEW E \in SUBSET Pairs, NEW e \in E
  PROVE  e = <<e[1], e[2]>> /\ e[1] \in Node /\ e[2] \in Node
  BY DEF Pairs

LEMMA SoundImpliesAgrees ==
  ASSUME TypeOK, HierarchySound
  PROVE  ProjectionAgrees
  <1>1. \A n \in Node : IncomingContains(n) = {parentId[n]} \ {NoNode}
    BY NodeAssumption DEF TypeOK, HierarchySound, LinkIsParent, IncomingContains
  <1>2. \A e \in contains \cup blocks : e[1] \in live /\ e[2] \in live
    <2> SUFFICES ASSUME NEW e \in contains \cup blocks PROVE e[1] \in live /\ e[2] \in live
      OBVIOUS
    <2>1. e = <<e[1], e[2]>> /\ e[1] \in Node /\ e[2] \in Node
      BY PairParts DEF TypeOK
    <2> QED BY <2>1 DEF HierarchySound, EndsLive
  <1> QED BY <1>1, <1>2 DEF ProjectionAgrees

(* An item that is gone has no parent, no children and no links.              *)
LEMMA GoneIsIsolated ==
  ASSUME TypeOK, HierarchySound, NEW n \in Node, n \notin live
  PROVE  /\ parentId[n] = NoNode
         /\ \A c \in Node : parentId[c] # n
         /\ \A x \in Node : <<x, n>> \notin contains /\ <<n, x>> \notin contains
         /\ \A x \in Node : <<x, n>> \notin blocks /\ <<n, x>> \notin blocks
  <1>1. \A x \in Node : /\ <<x, n>> \notin contains /\ <<n, x>> \notin contains
                        /\ <<x, n>> \notin blocks /\ <<n, x>> \notin blocks
    BY DEF HierarchySound, EndsLive
  <1>2. parentId[n] = NoNode
    BY <1>1 DEF TypeOK, HierarchySound, LinkIsParent
  <1>3. \A c \in Node : parentId[c] # n
    BY <1>1 DEF TypeOK, HierarchySound, LinkIsParent
  <1> QED BY <1>1, <1>2, <1>3

(* syncContainsFromParentId with the parent column it follows.               *)
LEMMA SyncAgrees ==
  ASSUME TypeOK, HierarchySound, NEW n \in Node, NEW p \in Node \cup {NoNode}, p # n,
         p # NoNode => p \in live', n \in live', live \subseteq live',
         parentId' = [parentId EXCEPT ![n] = p], contains' = SyncContains(n, p),
         blocks' = blocks
  PROVE  /\ HierarchySound'
         /\ contains' \subseteq Pairs /\ parentId' \in [Node -> Node \cup {NoNode}]
         /\ \A f, t \in Node : <<f, t>> \in contains' =>
               (<<f, t>> \in contains /\ t # n) \/ (f = p /\ t = n)
  <1>1. \A f, t \in Node : <<f, t>> \in contains' <=>
               (<<f, t>> \in contains /\ t # n) \/ (f = p /\ t = n)
    BY NodeAssumption DEF SyncContains
  <1>2. contains' \subseteq Pairs
    BY DEF SyncContains, TypeOK, Pairs
  <1>3. /\ parentId' \in [Node -> Node \cup {NoNode}]
        /\ parentId'[n] = p /\ \A c \in Node \ {n} : parentId'[c] = parentId[c]
    BY DEF TypeOK
  <1>4. LinkIsParent'
    BY <1>1, <1>3 DEF HierarchySound, LinkIsParent
  <1>5. EndsLive(contains)' /\ EndsLive(blocks)'
    BY <1>1, NodeAssumption DEF HierarchySound, EndsLive
  <1>6. NoSelfParent'
    BY <1>3 DEF HierarchySound, NoSelfParent
  <1> QED BY <1>1, <1>2, <1>3, <1>4, <1>5, <1>6 DEF HierarchySound

-----------------------------------------------------------------------------
(* Cycles *)

(* Fewer edges among fewer items: no new cycle.                              *)
LEMMA FewerEdges ==
  ASSUME NEW E, NEW F, NEW S, NEW R, Acyclic(E, S), R \subseteq S,
         \A x, y \in R : <<x, y>> \in F => <<x, y>> \in E
  PROVE  Acyclic(F, R)
  <1> SUFFICES ASSUME NEW T \in SUBSET R, T # {}
               PROVE  \E x \in T : \A y \in T : <<x, y>> \notin F
    BY DEF Acyclic
  <1>1. T \in SUBSET S
    OBVIOUS
  <1>2. PICK x \in T : \A y \in T : <<x, y>> \notin E
    BY <1>1 DEF Acyclic
  <1> QED BY <1>2

(* What the search of assertNoWorkLinkCycle is for: an edge from f to t       *)
(* closes no cycle if f cannot be reached from t.  The set reached from t is  *)
(* closed; a set of items that meets it has an end inside it, where the new   *)
(* edge does not start, and one that does not meet it does not hold t.        *)
LEMMA NewEdgeIsSafe ==
  ASSUME NEW E, NEW S \in SUBSET Node, Acyclic(E, S), NEW f \in Node, NEW t \in Node,
         NEW D, E \subseteq D, D \subseteq Pairs, assertNoWorkLinkCycle(D, f, t)
  PROVE  Acyclic(E \cup {<<f, t>>}, S)
  <1>1. PICK R \in SUBSET Node : t \in R /\ Closed(D, R) /\ f \notin R
    BY DEF assertNoWorkLinkCycle, canReach
  <1>2. \A x, y \in Node : <<x, y>> \in E /\ x \in R => y \in R
    BY <1>1 DEF Closed
  <1> SUFFICES ASSUME NEW T \in SUBSET S, T # {}
               PROVE  \E x \in T : \A y \in T : <<x, y>> \notin E \cup {<<f, t>>}
    BY DEF Acyclic
  <1>3. CASE T \cap R = {}
    <2>1. PICK x \in T : \A y \in T : <<x, y>> \notin E
      BY DEF Acyclic
    <2>2. \A y \in T : <<x, y>> # <<f, t>>
      BY <1>1, <1>3
    <2> QED BY <2>1, <2>2
  <1>4. CASE T \cap R # {}
    <2>1. T \cap R \in SUBSET S
      OBVIOUS
    <2>2. PICK x \in T \cap R : \A y \in T \cap R : <<x, y>> \notin E
      BY <1>4, <2>1 DEF Acyclic
    <2>3. \A y \in T : <<x, y>> \notin E
      BY <1>2, <2>2
    <2>4. \A y \in T : <<x, y>> # <<f, t>>
      BY <1>1, <2>2
    <2> QED BY <2>2, <2>3, <2>4
  <1> QED BY <1>3, <1>4

(* An item without links takes part in no cycle.                              *)
LEMMA NewNodeIsSafe ==
  ASSUME NEW E, NEW S, NEW n, Acyclic(E, S),
         \A x \in S \cup {n} : <<x, n>> \notin E /\ <<n, x>> \notin E
  PROVE  Acyclic(E, S \cup {n})
  <1> SUFFICES ASSUME NEW T \in SUBSET (S \cup {n}), T # {}
               PROVE  \E x \in T : \A y \in T : <<x, y>> \notin E
    BY DEF Acyclic
  <1>1. CASE T \ {n} = {}
    BY <1>1
  <1>2. CASE T \ {n} # {}
    <2>1. T \ {n} \in SUBSET S
      OBVIOUS
    <2>2. PICK x \in T \ {n} : \A y \in T \ {n} : <<x, y>> \notin E
      BY <1>2, <2>1 DEF Acyclic
    <2> QED BY <2>2
  <1> QED BY <1>1, <1>2

(* Nothing but links of the graph are edges of the search.                    *)
LEMMA EdgesArePairs ==
  ASSUME TypeOK
  PROVE  ContainsEdges \subseteq Pairs /\ contains \subseteq ContainsEdges
  <1>1. \A c \in Node : parentId[c] # NoNode => parentId[c] \in Node
    BY DEF TypeOK
  <1> QED BY <1>1 DEF ContainsEdges, ParentEdges, TypeOK, Pairs

-----------------------------------------------------------------------------
(* Writers of the graph *)

LEMMA CreateKeeps ==
  ASSUME GraphSound, NEW n \in Node, NEW p \in Node \cup {NoNode}, NEW k \in Kind,
         CreateIssue(n, p, k)
  PROVE  GraphSound'
  <1>0. TypeOK /\ HierarchySound /\ n \notin live /\ p # n
    BY NodeAssumption DEF GraphSound, CreateIssue, TypeOK
  <1>1. /\ p # NoNode => p \in live /\ isLegalContains(kind[p], k)
        /\ used' = used \cup {n} /\ live' = live \cup {n}
        /\ kind' = [kind EXCEPT ![n] = k]
        /\ parentId' = [parentId EXCEPT ![n] = p] /\ contains' = SyncContains(n, p)
        /\ UNCHANGED <<blocks, tomb, pending, restored, deletes>>
    BY DEF CreateIssue
  <1>2. /\ parentId[n] = NoNode
        /\ \A x \in Node : <<x, n>> \notin contains /\ <<n, x>> \notin contains
        /\ \A x \in Node : <<x, n>> \notin blocks /\ <<n, x>> \notin blocks
    BY <1>0, GoneIsIsolated
  <1>3. /\ HierarchySound'
        /\ contains' \subseteq Pairs /\ parentId' \in [Node -> Node \cup {NoNode}]
        /\ \A f, t \in Node : <<f, t>> \in contains' =>
              (<<f, t>> \in contains /\ t # n) \/ (f = p /\ t = n)
    BY <1>0, <1>1, SyncAgrees
  <1>4. TypeOK'
    BY <1>0, <1>1, <1>3 DEF TypeOK
  <1>5. TombsSound' /\ PendingSound'
    BY <1>1 DEF GraphSound, TombsSound, PendingSound
  <1>6. LegalKindsButRestored'
    <2> SUFFICES ASSUME NEW e \in contains', e[1] \notin restored, e[2] \notin restored
                 PROVE  isLegalContains(kind'[e[1]], kind'[e[2]])
      BY <1>1 DEF LegalKindsButRestored
    <2>1. e = <<e[1], e[2]>> /\ e[1] \in Node /\ e[2] \in Node
      BY <1>3, PairParts
    <2>2. CASE e[1] = p /\ e[2] = n
      BY <1>0, <1>1, <2>1, <2>2, NodeAssumption DEF TypeOK
    <2>3. CASE e \in contains
      <3>1. e[1] # n /\ e[2] # n
        BY <1>2, <2>1, <2>3
      <3> QED BY <1>0, <1>1, <2>1, <2>3, <3>1 DEF TypeOK, GraphSound, LegalKindsButRestored
    <2> QED BY <1>3, <2>1, <2>2, <2>3
  <1>7. NoCycleButThroughRestored'
    <2> DEFINE S == (live \ restored) \cup {n}
    <2>1. S \in SUBSET Node /\ (live' \ restored') \subseteq S
      BY <1>0, <1>1 DEF TypeOK
    <2>2. Acyclic(contains, S) /\ Acyclic(blocks, S)
      <3>1. \A x \in S : x \in Node
        BY <2>1
      <3> QED BY <1>2, <3>1, NewNodeIsSafe DEF GraphSound, NoCycleButThroughRestored
    <2>3. Acyclic(blocks, live \ restored)'
      BY <1>1, <2>1, <2>2, FewerEdges
    <2>4. CASE p = NoNode
      <3>1. \A x, y \in live' \ restored' : <<x, y>> \in contains' => <<x, y>> \in contains
        BY <1>3, <2>1, <2>4, NodeAssumption
      <3>2. Acyclic(contains', live' \ restored')
        BY <2>1, <2>2, <3>1, FewerEdges
      <3> QED BY <2>3, <3>2 DEF NoCycleButThroughRestored, Acyclic
    <2>5. CASE p # NoNode
      <3>1. p \in Node /\ contains \subseteq Pairs
        BY <1>0, <2>5 DEF TypeOK
      <3>2. Closed(contains, {n})
        <4> SUFFICES ASSUME NEW e \in contains, e[1] = n PROVE FALSE
          BY DEF Closed
        <4> QED BY <1>2, <3>1, PairParts
      <3>3. assertNoWorkLinkCycle(contains, p, n)
        BY <1>0, <3>2 DEF assertNoWorkLinkCycle, canReach
      <3>4. Acyclic(contains \cup {<<p, n>>}, S)
        BY <2>1, <2>2, <3>1, <3>3, NewEdgeIsSafe
      <3>5. \A x, y \in live' \ restored' : <<x, y>> \in contains' => <<x, y>> \in contains \cup {<<p, n>>}
        BY <1>3, <2>1
      <3>6. Acyclic(contains', live' \ restored')
        BY <2>1, <3>4, <3>5, FewerEdges
      <3> QED BY <2>3, <3>6 DEF NoCycleButThroughRestored, Acyclic
    <2> QED BY <2>4, <2>5
  <1> QED BY <1>3, <1>4, <1>5, <1>6, <1>7 DEF GraphSound

(* Linking t below f, by a CONTAINS link or a new parent, with the search     *)
(* made: no cycle among the items no restore has put back.                    *)
LEMMA LinkKeepsAcyclic ==
  ASSUME GraphSound, NEW f \in Node, NEW t \in Node,
         assertNoWorkLinkCycle(ContainsEdges, f, t), UNCHANGED <<live, blocks, restored>>,
         \A x, y \in Node : <<x, y>> \in contains' => <<x, y>> \in contains \/ (x = f /\ y = t)
  PROVE  NoCycleButThroughRestored'
  <1> DEFINE S == live \ restored
  <1>1. S \in SUBSET Node /\ Acyclic(contains, S) /\ Acyclic(blocks, S)
    BY DEF GraphSound, TypeOK, NoCycleButThroughRestored
  <1>2. ContainsEdges \subseteq Pairs /\ contains \subseteq ContainsEdges
    BY EdgesArePairs DEF GraphSound
  <1>3. Acyclic(contains \cup {<<f, t>>}, S)
    BY <1>1, <1>2, NewEdgeIsSafe
  <1>4. \A x, y \in S : <<x, y>> \in contains' => <<x, y>> \in contains \cup {<<f, t>>}
    BY <1>1
  <1>5. Acyclic(contains', S)
    BY <1>3, <1>4, FewerEdges
  <1> QED BY <1>1, <1>5 DEF NoCycleButThroughRestored, Acyclic

(* Removing links, or items, or both.                                        *)
LEMMA FewerKeepsAcyclic ==
  ASSUME NoCycleButThroughRestored, live' \subseteq live, restored \subseteq restored',
         contains' \subseteq contains, blocks' \subseteq blocks
  PROVE  NoCycleButThroughRestored'
  <1> DEFINE R == live' \ restored'
  <1>1. R \subseteq live \ restored
    OBVIOUS
  <1>2. Acyclic(contains', R) /\ Acyclic(blocks', R)
    BY <1>1, FewerEdges DEF NoCycleButThroughRestored
  <1> QED BY <1>2 DEF NoCycleButThroughRestored, Acyclic

LEMMA CreateContainsKeeps ==
  ASSUME GraphSound, NEW f \in Node, NEW t \in Node, CreateContains(f, t)
  PROVE  GraphSound'
  <1>0. TypeOK /\ HierarchySound /\ f # t /\ f \in live /\ t \in live
    BY DEF GraphSound, CreateContains
  <1>1. /\ assertNoWorkLinkCycle(ContainsEdges, f, t) /\ isLegalContains(kind[f], kind[t])
        /\ parentId[t] \in {NoNode, f}
        /\ contains' = contains \cup {<<f, t>>}
        /\ parentId' = [parentId EXCEPT ![t] = f]
        /\ UNCHANGED <<used, live, kind, blocks, tomb, pending, restored, deletes>>
    BY DEF CreateContains
  <1>2. TypeOK'
    BY <1>0, <1>1 DEF TypeOK, Pairs
  <1>3. parentId'[t] = f /\ \A c \in Node \ {t} : parentId'[c] = parentId[c]
    BY <1>0, <1>1 DEF TypeOK
  <1>4. HierarchySound'
    <2>1. LinkIsParent'
      <3> SUFFICES ASSUME NEW x \in Node, NEW y \in Node
                   PROVE  <<x, y>> \in contains' <=> parentId'[y] = x
        BY DEF LinkIsParent
      <3>1. <<x, y>> \in contains' <=> <<x, y>> \in contains \/ (x = f /\ y = t)
        BY <1>1
      <3>2. <<x, y>> \in contains <=> parentId[y] = x
        BY <1>0 DEF HierarchySound, LinkIsParent
      <3> QED BY <1>1, <1>3, <3>1, <3>2, NodeAssumption
    <2>2. EndsLive(contains)' /\ EndsLive(blocks)'
      BY <1>0, <1>1 DEF HierarchySound, EndsLive
    <2>3. NoSelfParent'
      BY <1>0, <1>3 DEF HierarchySound, NoSelfParent
    <2> QED BY <2>1, <2>2, <2>3 DEF HierarchySound
  <1>5. TombsSound' /\ PendingSound'
    BY <1>1 DEF GraphSound, TombsSound, PendingSound
  <1>6. LegalKindsButRestored'
    BY <1>1 DEF GraphSound, LegalKindsButRestored
  <1>7. NoCycleButThroughRestored'
    BY <1>1, LinkKeepsAcyclic
  <1> QED BY <1>2, <1>4, <1>5, <1>6, <1>7 DEF GraphSound

LEMMA CreateBlocksKeeps ==
  ASSUME GraphSound, NEW f \in Node, NEW t \in Node, CreateBlocks(f, t)
  PROVE  GraphSound'
  <1>0. TypeOK /\ HierarchySound /\ f \in live /\ t \in live
    BY DEF GraphSound, CreateBlocks
  <1>1. /\ assertNoWorkLinkCycle(blocks, f, t) /\ blocks' = blocks \cup {<<f, t>>}
        /\ UNCHANGED <<used, live, kind, parentId, contains, tomb, pending, restored, deletes>>
    BY DEF CreateBlocks
  <1>2. TypeOK'
    BY <1>0, <1>1 DEF TypeOK, Pairs
  <1>3. HierarchySound'
    BY <1>0, <1>1 DEF HierarchySound, LinkIsParent, EndsLive, NoSelfParent
  <1>4. TombsSound' /\ PendingSound' /\ LegalKindsButRestored'
    BY <1>1 DEF GraphSound, TombsSound, PendingSound, LegalKindsButRestored
  <1>5. Acyclic(blocks', live \ restored)
    <2>1. live \ restored \in SUBSET Node /\ blocks \subseteq Pairs
      BY <1>0 DEF TypeOK
    <2>2. Acyclic(blocks \cup {<<f, t>>}, live \ restored)
      BY <1>1, <2>1, NewEdgeIsSafe DEF GraphSound, NoCycleButThroughRestored
    <2> QED BY <1>1, <2>2
  <1>6. NoCycleButThroughRestored'
    BY <1>1, <1>5 DEF GraphSound, NoCycleButThroughRestored, Acyclic
  <1> QED BY <1>2, <1>3, <1>4, <1>6 DEF GraphSound

LEMMA DeleteLinkKeeps ==
  ASSUME GraphSound, NEW f \in Node, NEW t \in Node, DeleteContains(f, t) \/ DeleteBlocks(f, t)
  PROVE  GraphSound'
  <1>0. TypeOK /\ HierarchySound
    BY DEF GraphSound
  <1>1. CASE DeleteContains(f, t)
    <2>1. /\ contains' = contains \ {<<f, t>>} /\ <<f, t>> \in contains
          /\ parentId' = [parentId EXCEPT ![t] = IF @ = f THEN NoNode ELSE @]
          /\ UNCHANGED <<used, live, kind, blocks, tomb, pending, restored, deletes>>
      BY <1>1 DEF DeleteContains
    <2>2. TypeOK'
      BY <1>0, <2>1 DEF TypeOK
    <2>3. parentId'[t] = NoNode /\ \A c \in Node \ {t} : parentId'[c] = parentId[c]
      BY <1>0, <2>1 DEF TypeOK, HierarchySound, LinkIsParent
    <2>4. LinkIsParent'
      <3> SUFFICES ASSUME NEW x \in Node, NEW y \in Node
                   PROVE  <<x, y>> \in contains' <=> parentId'[y] = x
        BY DEF LinkIsParent
      <3>1. <<x, y>> \in contains' <=> <<x, y>> \in contains /\ ~(x = f /\ y = t)
        BY <2>1
      <3>2. /\ <<x, y>> \in contains <=> parentId[y] = x
            /\ parentId[t] = f
        BY <1>0, <2>1 DEF HierarchySound, LinkIsParent
      <3> QED BY <2>3, <3>1, <3>2, NodeAssumption
    <2>5. EndsLive(contains)' /\ EndsLive(blocks)' /\ NoSelfParent'
      BY <1>0, <2>1, <2>3, NodeAssumption DEF HierarchySound, EndsLive, NoSelfParent
    <2>6. TombsSound' /\ PendingSound' /\ LegalKindsButRestored'
      BY <2>1 DEF GraphSound, TombsSound, PendingSound, LegalKindsButRestored
    <2>7. NoCycleButThroughRestored'
      BY <2>1, FewerKeepsAcyclic DEF GraphSound
    <2> QED BY <2>2, <2>4, <2>5, <2>6, <2>7 DEF GraphSound, HierarchySound
  <1>2. CASE DeleteBlocks(f, t)
    <2>1. /\ blocks' = blocks \ {<<f, t>>}
          /\ UNCHANGED <<used, live, kind, parentId, contains, tomb, pending, restored, deletes>>
      BY <1>2 DEF DeleteBlocks
    <2>2. TypeOK'
      BY <1>0, <2>1 DEF TypeOK
    <2>3. HierarchySound'
      BY <1>0, <2>1 DEF HierarchySound, LinkIsParent, EndsLive, NoSelfParent
    <2>4. TombsSound' /\ PendingSound' /\ LegalKindsButRestored'
      BY <2>1 DEF GraphSound, TombsSound, PendingSound, LegalKindsButRestored
    <2>5. NoCycleButThroughRestored'
      BY <2>1, FewerKeepsAcyclic DEF GraphSound
    <2> QED BY <2>2, <2>3, <2>4, <2>5 DEF GraphSound
  <1> QED BY <1>1, <1>2

(* assertNodeHierarchy looks at both sides of the item whose kind changes.    *)
LEMMA HierarchyLegal ==
  ASSUME TypeOK, HierarchySound, NEW n \in Node, NEW p \in Node \cup {NoNode}, NEW k \in Kind,
         NEW incoming, assertNodeHierarchy(n, p, k, incoming)
  PROVE  /\ p # NoNode => p \in live /\ isLegalContains(kind[p], k)
         /\ \A c \in Node : <<n, c>> \in contains => isLegalContains(k, kind[c])
  <1>1. p # NoNode => p \in live /\ isLegalContains(kind[p], k)
    BY DEF assertNodeHierarchy
  <1>2. \A c \in live : <<n, c>> \in contains => isLegalContains(k, kind[c])
    BY DEF assertNodeHierarchy
  <1> QED BY <1>1, <1>2 DEF HierarchySound, EndsLive

LEMMA UpdateParentKeeps ==
  ASSUME GraphSound, NEW n \in Node, NEW p \in Node \cup {NoNode}, NEW k \in Kind,
         UpdateParent(n, p, k)
  PROVE  GraphSound'
  <1>0. TypeOK /\ HierarchySound /\ n \in live /\ p # n
    BY NodeAssumption DEF GraphSound, UpdateParent
  <1>1. /\ p # NoNode => p \in live /\ assertNoWorkLinkCycle(ContainsEdges, p, n)
        /\ assertNodeHierarchy(n, p, k, {})
        /\ kind' = [kind EXCEPT ![n] = k]
        /\ parentId' = [parentId EXCEPT ![n] = p] /\ contains' = SyncContains(n, p)
        /\ UNCHANGED <<used, live, blocks, tomb, pending, restored, deletes>>
    BY DEF UpdateParent
  <1>2. /\ HierarchySound'
        /\ contains' \subseteq Pairs /\ parentId' \in [Node -> Node \cup {NoNode}]
        /\ \A f, t \in Node : <<f, t>> \in contains' =>
              (<<f, t>> \in contains /\ t # n) \/ (f = p /\ t = n)
    BY <1>0, <1>1, SyncAgrees
  <1>3. TypeOK'
    BY <1>0, <1>1, <1>2 DEF TypeOK
  <1>4. TombsSound' /\ PendingSound'
    BY <1>1 DEF GraphSound, TombsSound, PendingSound
  <1>5. LegalKindsButRestored'
    <2> SUFFICES ASSUME NEW e \in contains', e[1] \notin restored, e[2] \notin restored
                 PROVE  isLegalContains(kind'[e[1]], kind'[e[2]])
      BY <1>1 DEF LegalKindsButRestored
    <2>1. e = <<e[1], e[2]>> /\ e[1] \in Node /\ e[2] \in Node
      BY <1>2, PairParts
    <2>2. /\ p # NoNode => p \in live /\ isLegalContains(kind[p], k)
          /\ \A c \in Node : <<n, c>> \in contains => isLegalContains(k, kind[c])
      BY <1>0, <1>1, HierarchyLegal
    <2>3. kind'[n] = k /\ \A c \in Node \ {n} : kind'[c] = kind[c]
      BY <1>0, <1>1 DEF TypeOK
    <2>4. CASE e[1] = p /\ e[2] = n
      BY <1>0, <2>1, <2>2, <2>3, <2>4, NodeAssumption
    <2>5. CASE e \in contains /\ e[2] # n
      <3>1. CASE e[1] = n
        BY <2>1, <2>2, <2>3, <2>5, <3>1
      <3>2. CASE e[1] # n
        BY <2>1, <2>3, <2>5, <3>2 DEF GraphSound, LegalKindsButRestored
      <3> QED BY <3>1, <3>2
    <2> QED BY <1>2, <2>1, <2>4, <2>5
  <1>6. NoCycleButThroughRestored'
    <2>1. CASE p = NoNode
      <3>1. contains' \subseteq contains
        BY <1>1, <2>1 DEF SyncContains
      <3> QED BY <1>1, <3>1, FewerKeepsAcyclic DEF GraphSound
    <2>2. CASE p # NoNode
      <3>1. p \in Node
        BY <2>2
      <3> QED BY <1>1, <1>2, <2>2, <3>1, LinkKeepsAcyclic
    <2> QED BY <2>1, <2>2
  <1> QED BY <1>2, <1>3, <1>4, <1>5, <1>6 DEF GraphSound

LEMMA UpdateKindKeeps ==
  ASSUME GraphSound, NEW n \in Node, NEW k \in Kind, UpdateKind(n, k)
  PROVE  GraphSound'
  <1>0. TypeOK /\ HierarchySound /\ n \in live
    BY DEF GraphSound, UpdateKind
  <1>1. /\ assertNodeHierarchy(n, parentId[n], k, IncomingContains(n))
        /\ kind' = [kind EXCEPT ![n] = k]
        /\ UNCHANGED <<used, live, parentId, contains, blocks, tomb, pending, restored, deletes>>
    BY DEF UpdateKind
  <1>2. TypeOK' /\ HierarchySound'
    BY <1>0, <1>1 DEF TypeOK, HierarchySound, LinkIsParent, EndsLive, NoSelfParent
  <1>3. TombsSound' /\ PendingSound' /\ NoCycleButThroughRestored'
    BY <1>1 DEF GraphSound, TombsSound, PendingSound, NoCycleButThroughRestored, Acyclic
  <1>4. LegalKindsButRestored'
    <2> SUFFICES ASSUME NEW e \in contains, e[1] \notin restored, e[2] \notin restored
                 PROVE  isLegalContains(kind'[e[1]], kind'[e[2]])
      BY <1>1 DEF LegalKindsButRestored
    <2>1. e = <<e[1], e[2]>> /\ e[1] \in Node /\ e[2] \in Node
      BY <1>0, PairParts DEF TypeOK
    <2>2. parentId[n] \in Node \cup {NoNode}
      BY <1>0 DEF TypeOK
    <2>3. /\ parentId[n] # NoNode => isLegalContains(kind[parentId[n]], k)
          /\ \A c \in Node : <<n, c>> \in contains => isLegalContains(k, kind[c])
      BY <1>0, <1>1, <2>2, HierarchyLegal
    <2>4. kind'[n] = k /\ \A c \in Node \ {n} : kind'[c] = kind[c]
      BY <1>0, <1>1 DEF TypeOK
    <2>5. parentId[e[2]] = e[1] /\ e[1] # e[2]
      BY <1>0, <2>1 DEF HierarchySound, LinkIsParent, NoSelfParent
    <2>6. CASE e[2] = n
      BY <2>1, <2>3, <2>4, <2>5, <2>6, NodeAssumption
    <2>7. CASE e[1] = n
      BY <2>1, <2>3, <2>4, <2>5, <2>7
    <2>8. CASE e[1] # n /\ e[2] # n
      BY <2>1, <2>4, <2>8 DEF GraphSound, LegalKindsButRestored
    <2> QED BY <2>6, <2>7, <2>8
  <1> QED BY <1>2, <1>3, <1>4 DEF GraphSound

-----------------------------------------------------------------------------
(* Deletion and its undo *)

LEMMA IncidentParts ==
  ASSUME NEW E, NEW x, NEW y, NEW n
  PROVE  <<x, y>> \in Incident(E, n) <=> <<x, y>> \in E /\ (x = n \/ y = n)
  BY DEF Incident

LEMMA SnapshotSound ==
  ASSUME TypeOK, HierarchySound, NEW n \in Node
  PROVE  /\ SnapshotOf(n) \in Snapshot /\ SnapSound(n, SnapshotOf(n))
         /\ SnapshotOf(n).kids = {c \in live : parentId[c] = n}
         /\ SnapshotOf(n).parent = parentId[n]
         /\ SnapshotOf(n).contains = Incident(contains, n)
         /\ SnapshotOf(n).blocks = Incident(blocks, n)
  <1>1. /\ SnapshotOf(n).kids = {c \in live : parentId[c] = n}
        /\ SnapshotOf(n).parent = parentId[n]
        /\ SnapshotOf(n).contains = Incident(contains, n)
        /\ SnapshotOf(n).blocks = Incident(blocks, n)
    BY DEF SnapshotOf
  <1>2. Incident(contains, n) \in SUBSET Pairs /\ Incident(blocks, n) \in SUBSET Pairs
    BY DEF Incident, TypeOK
  <1>3. SnapshotOf(n) \in Snapshot
    BY <1>2 DEF SnapshotOf, Snapshot, TypeOK
  <1>4. SnapSound(n, SnapshotOf(n))
    <2> SUFFICES ASSUME NEW c \in live, parentId[c] = n PROVE <<n, c>> \in Incident(contains, n)
      BY <1>1 DEF SnapSound
    <2> QED BY IncidentParts DEF TypeOK, HierarchySound, LinkIsParent
  <1> QED BY <1>1, <1>3, <1>4

LEMMA DeleteIssueKeeps ==
  ASSUME GraphSound, NEW n \in Node, DeleteIssue(n)
  PROVE  GraphSound'
  <1>0. TypeOK /\ HierarchySound /\ n \in live
    BY DEF GraphSound, DeleteIssue
  <1>1. /\ tomb' = [tomb EXCEPT ![n] = SnapshotOf(n)]
        /\ parentId' = [c \in Node |-> IF c = n \/ parentId[c] = n THEN NoNode ELSE parentId[c]]
        /\ live' = live \ {n}
        /\ contains' = contains \ Incident(contains, n)
        /\ blocks' = blocks \ Incident(blocks, n)
        /\ deletes' = deletes + 1
        /\ UNCHANGED <<used, kind, pending, restored>>
    BY DEF DeleteIssue, Detached
  <1>2. SnapshotOf(n) \in Snapshot /\ SnapSound(n, SnapshotOf(n))
    BY <1>0, SnapshotSound
  <1>3. TypeOK'
    BY <1>0, <1>1, <1>2 DEF TypeOK
  <1>4. \A x, y \in Node : /\ <<x, y>> \in contains' <=> <<x, y>> \in contains /\ x # n /\ y # n
                           /\ <<x, y>> \in blocks' <=> <<x, y>> \in blocks /\ x # n /\ y # n
    BY <1>1, IncidentParts
  <1>5. LinkIsParent'
    <2> SUFFICES ASSUME NEW x \in Node, NEW y \in Node
                 PROVE  <<x, y>> \in contains' <=> parentId'[y] = x
      BY DEF LinkIsParent
    <2>1. <<x, y>> \in contains <=> parentId[y] = x
      BY <1>0 DEF HierarchySound, LinkIsParent
    <2>2. parentId'[y] = IF y = n \/ parentId[y] = n THEN NoNode ELSE parentId[y]
      BY <1>1
    <2> QED BY <1>4, <2>1, <2>2, NodeAssumption
  <1>6. EndsLive(contains)' /\ EndsLive(blocks)'
    BY <1>0, <1>1, <1>4 DEF HierarchySound, EndsLive
  <1>7. NoSelfParent'
    BY <1>0, <1>1, NodeAssumption DEF HierarchySound, NoSelfParent
  <1>8. TombsSound'
    BY <1>0, <1>1, <1>2 DEF GraphSound, TombsSound, TypeOK
  <1>9. PendingSound'
    BY <1>1 DEF GraphSound, PendingSound
  <1>10. LegalKindsButRestored'
    BY <1>1 DEF GraphSound, LegalKindsButRestored
  <1>11. NoCycleButThroughRestored'
    BY <1>1, FewerKeepsAcyclic DEF GraphSound
  <1> QED BY <1>3, <1>5, <1>6, <1>7, <1>8, <1>9, <1>10, <1>11 DEF GraphSound, HierarchySound

LEMMA ReadAndSweepKeeps ==
  ASSUME GraphSound
  PROVE  /\ \A n \in Node : SweepTombstone(n) => GraphSound'
         /\ \A n \in Node, r \in Request : RestoreRead(r, n) => GraphSound'
         /\ \A r \in Request : RestoreRefused(r) => GraphSound'
         /\ UNCHANGED vars => GraphSound'
  <1>0. ASSUME UNCHANGED <<used, live, kind, parentId, contains, blocks, restored, deletes>>,
               TypeOK', TombsSound', PendingSound'
        PROVE  GraphSound'
    <2>1. HierarchySound' /\ LegalKindsButRestored'
      BY <1>0 DEF GraphSound, HierarchySound, LinkIsParent, EndsLive, NoSelfParent,
                  LegalKindsButRestored
    <2>2. NoCycleButThroughRestored'
      BY <1>0, FewerKeepsAcyclic DEF GraphSound
    <2> QED BY <1>0, <2>1, <2>2 DEF GraphSound
  <1>1. ASSUME NEW n \in Node, SweepTombstone(n) PROVE GraphSound'
    <2>1. TypeOK' /\ TombsSound' /\ PendingSound'
      BY <1>1 DEF SweepTombstone, GraphSound, TypeOK, TombsSound, PendingSound
    <2> QED BY <1>0, <1>1, <2>1 DEF SweepTombstone
  <1>2. ASSUME NEW n \in Node, NEW r \in Request, RestoreRead(r, n) PROVE GraphSound'
    <2>1. PICK x \in [id : Node, snap : Snapshot] :
              x.id = n /\ x.snap = tomb[n] /\ pending' = [pending EXCEPT ![r] = x]
      BY <1>2 DEF RestoreRead, GraphSound, TypeOK
    <2>2. SnapSound(x.id, x.snap)
      BY <1>2, <2>1 DEF RestoreRead, GraphSound, TombsSound
    <2>3. TypeOK' /\ TombsSound'
      BY <1>2, <2>1 DEF RestoreRead, GraphSound, TypeOK, TombsSound
    <2>4. PendingSound'
      BY <2>1, <2>2 DEF GraphSound, TypeOK, PendingSound
    <2> QED BY <1>0, <1>2, <2>3, <2>4 DEF RestoreRead
  <1>3. ASSUME NEW r \in Request, RestoreRefused(r) PROVE GraphSound'
    <2>1. TypeOK' /\ TombsSound' /\ PendingSound'
      BY <1>3 DEF RestoreRefused, GraphSound, TypeOK, TombsSound, PendingSound
    <2> QED BY <1>0, <1>3, <2>1 DEF RestoreRefused
  <1>4. ASSUME UNCHANGED vars PROVE GraphSound'
    <2>1. TypeOK' /\ TombsSound' /\ PendingSound'
      BY <1>4 DEF vars, GraphSound, TypeOK, TombsSound, PendingSound
    <2> QED BY <1>0, <1>4, <2>1 DEF vars
  <1> QED BY <1>1, <1>2, <1>3, <1>4

(* What a restore of n from snapshot s writes, edge by edge, under the parent  *)
(* q with the children K: it adds only links of the item it puts back, and    *)
(* takes back only children that have no parent.                             *)
PutsBack(n, s, q, K) ==
    /\ n \in used /\ n \notin live
    /\ q # NoNode => q \in live
    /\ K \subseteq live /\ \A c \in K : parentId[c] = NoNode
    /\ live' = live \cup {n} /\ kind' = [kind EXCEPT ![n] = s.kind]
    /\ parentId' = [c \in Node |-> IF c = n THEN q ELSE IF c \in K THEN n ELSE parentId[c]]
    /\ contains' \subseteq Pairs /\ blocks' \subseteq Pairs
    /\ \A x, y \in Node : <<x, y>> \in contains' <=>
          <<x, y>> \in contains \/ (x = q /\ y = n) \/ (x = n /\ y \in K)
    /\ blocks \subseteq blocks'
    /\ \A x, y \in Node : <<x, y>> \in blocks' =>
          <<x, y>> \in blocks \/ ((x = n \/ y = n) /\ x \in live' /\ y \in live')
    /\ restored' = restored \cup {n}
    /\ tomb' = [tomb EXCEPT ![n] = NoSnap]

LEMMA RestoreEffect ==
  ASSUME GraphSound, NEW r \in Request, RestoreDeletedIssue(r)
  PROVE  \E n \in Node, s \in Snapshot, q \in Node \cup {NoNode}, K \in SUBSET Node :
            PutsBack(n, s, q, K)
  <1>0. TypeOK /\ pending[r] \in [id : Node, snap : Snapshot]
    BY DEF GraphSound, TypeOK, RestoreDeletedIssue
  <1>1. PICK n \in Node, s \in Snapshot : n = pending[r].id /\ s = pending[r].snap
    BY <1>0
  <1>2. /\ n \notin live /\ tomb[n] # NoSnap
        /\ live' = live \cup {n} /\ kind' = [kind EXCEPT ![n] = s.kind]
        /\ parentId' = RestoredParents(n, s, live, parentId)
        /\ contains' = contains \cup RestoredContains(n, s, live, parentId)
        /\ blocks' = blocks \cup RestoredBlocks(n, s, live)
        /\ restored' = restored \cup {n}
        /\ tomb' = [tomb EXCEPT ![n] = NoSnap]
    BY <1>1 DEF RestoreDeletedIssue
  <1>3. n \in used /\ SnapSound(n, s)
    BY <1>1, <1>2 DEF GraphSound, TombsSound, PendingSound, RestoreDeletedIssue
  <1>4. /\ s.parent \in Node \cup {NoNode} /\ s.kids \in SUBSET Node
        /\ s.contains \in SUBSET Pairs /\ s.blocks \in SUBSET Pairs
    BY DEF Snapshot
  <1> DEFINE q == RestoredParent(s, live)
             K == Reattached(s, live, parentId)
  <1>5. q \in Node \cup {NoNode} /\ (q # NoNode => q \in live)
    BY <1>4 DEF RestoredParent
  <1>6. K \in SUBSET Node /\ K \subseteq live /\ K \subseteq s.kids /\ \A c \in K : parentId[c] = NoNode
    BY <1>4 DEF Reattached
  <1>7. parentId' = [c \in Node |-> IF c = n THEN q ELSE IF c \in K THEN n ELSE parentId[c]]
    BY <1>2 DEF RestoredParents
  <1>8. contains' = contains \cup {<<p, n>> : p \in {q} \ {NoNode}}
                             \cup {e \in s.contains : e[1] = n /\ e[2] \in K}
    BY <1>2 DEF RestoredContains
  <1> HIDE DEF q, K
  <1>9. \A x, y \in Node : <<x, y>> \in contains' <=>
            <<x, y>> \in contains \/ (x = q /\ y = n) \/ (x = n /\ y \in K)
    <2>1. \A c \in K : <<n, c>> \in s.contains
      BY <1>3, <1>6 DEF SnapSound
    <2> QED BY <1>8, <2>1, NodeAssumption
  <1>10. contains' \subseteq Pairs
    BY <1>0, <1>4, <1>5, <1>8 DEF TypeOK, Pairs
  <1>11. blocks' \subseteq Pairs /\ blocks \subseteq blocks'
    BY <1>0, <1>2, <1>4 DEF TypeOK, RestoredBlocks
  <1>12. \A x, y \in Node : <<x, y>> \in blocks' =>
            <<x, y>> \in blocks \/ ((x = n \/ y = n) /\ x \in live' /\ y \in live')
    BY <1>2 DEF RestoredBlocks
  <1>13. PutsBack(n, s, q, K)
    BY <1>2, <1>3, <1>5, <1>6, <1>7, <1>9, <1>10, <1>11, <1>12 DEF PutsBack
  <1> QED BY <1>5, <1>6, <1>13

LEMMA RestoreKeeps ==
  ASSUME GraphSound, NEW r \in Request, RestoreDeletedIssue(r)
  PROVE  GraphSound'
  <1>0. PICK n \in Node, s \in Snapshot, q \in Node \cup {NoNode}, K \in SUBSET Node :
            PutsBack(n, s, q, K)
    BY RestoreEffect
  <1>1. /\ n \in used /\ n \notin live
        /\ q # NoNode => q \in live
        /\ K \subseteq live /\ \A c \in K : parentId[c] = NoNode
        /\ live' = live \cup {n} /\ kind' = [kind EXCEPT ![n] = s.kind]
        /\ parentId' = [c \in Node |-> IF c = n THEN q ELSE IF c \in K THEN n ELSE parentId[c]]
        /\ contains' \subseteq Pairs /\ blocks' \subseteq Pairs
        /\ \A x, y \in Node : <<x, y>> \in contains' <=>
              <<x, y>> \in contains \/ (x = q /\ y = n) \/ (x = n /\ y \in K)
        /\ \A x, y \in Node : <<x, y>> \in blocks' =>
              <<x, y>> \in blocks \/ ((x = n \/ y = n) /\ x \in live' /\ y \in live')
        /\ restored' = restored \cup {n}
    BY <1>0 DEF PutsBack
  <1>2. /\ TypeOK /\ HierarchySound
        /\ tomb' = [tomb EXCEPT ![n] = NoSnap] /\ pending' = [pending EXCEPT ![r] = NoSnap]
        /\ UNCHANGED <<used, deletes>>
    BY <1>0 DEF GraphSound, RestoreDeletedIssue, PutsBack
  <1>3. s.kind \in Kind
    BY DEF Snapshot
  <1>4. TypeOK'
    <2>1. parentId' \in [Node -> Node \cup {NoNode}]
      BY <1>1, <1>2 DEF TypeOK
    <2> QED BY <1>1, <1>2, <1>3, <2>1 DEF TypeOK
  <1>5. /\ parentId[n] = NoNode
        /\ \A x \in Node : <<x, n>> \notin contains /\ <<n, x>> \notin contains
    BY <1>1, <1>2, GoneIsIsolated
  <1>6. LinkIsParent'
    <2> SUFFICES ASSUME NEW x \in Node, NEW y \in Node
                 PROVE  <<x, y>> \in contains' <=> parentId'[y] = x
      BY DEF LinkIsParent
    <2>1. /\ <<x, y>> \in contains <=> parentId[y] = x
          /\ <<x, y>> \in contains' <=>
                <<x, y>> \in contains \/ (x = q /\ y = n) \/ (x = n /\ y \in K)
          /\ parentId'[y] = IF y = n THEN q ELSE IF y \in K THEN n ELSE parentId[y]
      BY <1>1, <1>2 DEF HierarchySound, LinkIsParent
    <2>2. y \in K => parentId[y] = NoNode /\ y # n
      BY <1>1
    <2> QED BY <1>5, <2>1, <2>2, NodeAssumption
  <1>7. EndsLive(contains)' /\ EndsLive(blocks)'
    BY <1>1, <1>2, NodeAssumption DEF HierarchySound, EndsLive
  <1>8. NoSelfParent'
    BY <1>1, <1>2, NodeAssumption DEF HierarchySound, NoSelfParent
  <1>9. TombsSound' /\ PendingSound'
    BY <1>2 DEF GraphSound, TypeOK, TombsSound, PendingSound
  <1>10. LegalKindsButRestored'
    <2> SUFFICES ASSUME NEW e \in contains', e[1] \notin restored', e[2] \notin restored'
                 PROVE  isLegalContains(kind'[e[1]], kind'[e[2]])
      BY DEF LegalKindsButRestored
    <2>1. e = <<e[1], e[2]>> /\ e[1] \in Node /\ e[2] \in Node
      BY <1>1, PairParts
    <2>2. e[1] # n /\ e[2] # n /\ e \in contains
      BY <1>1, <2>1
    <2>3. kind'[e[1]] = kind[e[1]] /\ kind'[e[2]] = kind[e[2]]
      BY <1>1, <1>2, <2>1, <2>2 DEF TypeOK
    <2> QED BY <1>1, <2>2, <2>3 DEF GraphSound, LegalKindsButRestored
  <1>11. NoCycleButThroughRestored'
    <2> DEFINE R == live' \ restored'
    <2>1. R \subseteq live \ restored /\ R \subseteq Node /\ n \notin R
      BY <1>1, <1>2 DEF TypeOK
    <2> HIDE DEF R
    <2>2. \A x, y \in R : /\ <<x, y>> \in contains' => <<x, y>> \in contains
                          /\ <<x, y>> \in blocks' => <<x, y>> \in blocks
      BY <1>1, <2>1
    <2>3. Acyclic(contains', R) /\ Acyclic(blocks', R)
      BY <2>1, <2>2, FewerEdges DEF GraphSound, NoCycleButThroughRestored
    <2> QED BY <2>3 DEF R, NoCycleButThroughRestored, Acyclic
  <1> QED BY <1>4, <1>6, <1>7, <1>8, <1>9, <1>10, <1>11 DEF GraphSound, HierarchySound

-----------------------------------------------------------------------------
(* The invariant *)

LEMMA InitSound == Init => GraphSound
  <1> SUFFICES ASSUME Init PROVE GraphSound
    OBVIOUS
  <1>1. TypeOK
    BY KindAssumption DEF Init, TypeOK
  <1>2. HierarchySound
    BY NodeAssumption DEF Init, HierarchySound, LinkIsParent, EndsLive, NoSelfParent
  <1>3. TombsSound /\ PendingSound /\ LegalKindsButRestored
    BY DEF Init, TombsSound, PendingSound, LegalKindsButRestored
  <1>4. NoCycleButThroughRestored
    BY DEF Init, NoCycleButThroughRestored, Acyclic
  <1> QED BY <1>1, <1>2, <1>3, <1>4 DEF GraphSound

LEMMA StepKeeps == GraphSound /\ [Next]_vars => GraphSound'
  <1> SUFFICES ASSUME GraphSound, [Next]_vars PROVE GraphSound'
    OBVIOUS
  <1>1. ASSUME NEW n \in Node, NEW p \in Node \cup {NoNode}, NEW k \in Kind,
               CreateIssue(n, p, k) \/ UpdateParent(n, p, k)
        PROVE  GraphSound'
    BY <1>1, CreateKeeps, UpdateParentKeeps
  <1>2. ASSUME NEW f \in Node, NEW t \in Node,
               \/ CreateContains(f, t) \/ CreateBlocks(f, t)
               \/ DeleteContains(f, t) \/ DeleteBlocks(f, t)
        PROVE  GraphSound'
    BY <1>2, CreateContainsKeeps, CreateBlocksKeeps, DeleteLinkKeeps
  <1>3. ASSUME NEW n \in Node, NEW k \in Kind, UpdateKind(n, k) PROVE GraphSound'
    BY <1>3, UpdateKindKeeps
  <1>4. ASSUME NEW n \in Node, DeleteIssue(n) PROVE GraphSound'
    BY <1>4, DeleteIssueKeeps
  <1>5. ASSUME NEW r \in Request, RestoreDeletedIssue(r) PROVE GraphSound'
    BY <1>5, RestoreKeeps
  <1> QED BY <1>1, <1>2, <1>3, <1>4, <1>5, ReadAndSweepKeeps DEF Next

LEMMA GraphInvariant == Spec => []GraphSound
  <1>1. Init => GraphSound
    BY InitSound
  <1>2. GraphSound /\ [Next]_vars => GraphSound'
    BY StepKeeps
  <1> QED BY <1>1, <1>2, PTL DEF Spec

-----------------------------------------------------------------------------
(* What the graph guarantees *)

(* Whatever order items are created, moved, linked, deleted and restored in,   *)
(* the parent column and the CONTAINS links say the same, and only a restore  *)
(* brings back a pair of kinds that has become illegal.                       *)
THEOREM TheProjectionAgrees == Spec => []GraphInv
  <1>1. GraphSound => GraphInv
    BY SoundImpliesAgrees DEF GraphSound, GraphInv
  <1> QED BY <1>1, GraphInvariant, PTL

(* The search refuses every cycle: among items no restore has put back there   *)
(* is none, in the hierarchy or in what blocks what, for any number of items. *)
THEOREM NoCycleIsBuilt == Spec => []NoCycleButThroughRestored
  <1>1. GraphSound => NoCycleButThroughRestored
    BY DEF GraphSound
  <1> QED BY <1>1, GraphInvariant, PTL

(* The snapshot of an item and its restore are inverse on a sound graph.       *)
LEMMA UndoIsExact ==
  ASSUME TypeOK, HierarchySound, NEW n \in live
  PROVE  LET s  == SnapshotOf(n)
             lv == live \ {n}
             p  == Detached(n)
         IN  /\ RestoredParents(n, s, lv, p) = parentId
             /\ (contains \ Incident(contains, n)) \cup RestoredContains(n, s, lv, p) = contains
             /\ (blocks \ Incident(blocks, n)) \cup RestoredBlocks(n, s, lv) = blocks
  <1> DEFINE s  == SnapshotOf(n)
             lv == live \ {n}
             p  == Detached(n)
             K  == Reattached(s, lv, p)
             q  == RestoredParent(s, lv)
  <1>0. n \in Node /\ live \subseteq Node /\ NoNode \notin live /\ contains \subseteq Pairs
        /\ blocks \subseteq Pairs
    BY NodeAssumption DEF TypeOK
  <1>1. /\ s.kids = {c \in live : parentId[c] = n} /\ s.parent = parentId[n]
        /\ s.contains = Incident(contains, n) /\ s.blocks = Incident(blocks, n)
    BY <1>0, SnapshotSound
  <1>2. p = [c \in Node |-> IF c = n \/ parentId[c] = n THEN NoNode ELSE parentId[c]]
    BY DEF Detached
  <1>3. \A f, t \in Node : /\ <<f, t>> \in contains <=> parentId[t] = f
                           /\ <<f, t>> \in contains => f \in live /\ t \in live /\ f # t
                           /\ <<f, t>> \in blocks => f \in live /\ t \in live
    BY DEF HierarchySound, LinkIsParent, EndsLive, NoSelfParent
  <1> HIDE DEF s, p
  <1>4. q = parentId[n]
    <2>1. parentId[n] \in Node \cup {NoNode} /\ (parentId[n] # NoNode => parentId[n] \in lv)
      BY <1>0, <1>3 DEF TypeOK
    <2> QED BY <1>0, <1>1, <2>1 DEF RestoredParent
  <1>5. \A c \in Node : c \in K <=> parentId[c] = n
    BY <1>0, <1>1, <1>2, <1>3 DEF Reattached
  <1>6. RestoredParents(n, s, lv, p) = [c \in Node |-> IF c = n THEN q ELSE IF c \in K THEN n ELSE p[c]]
    BY DEF RestoredParents
  <1>7. RestoredContains(n, s, lv, p) =
          {<<x, n>> : x \in {q} \ {NoNode}} \cup {e \in s.contains : e[1] = n /\ e[2] \in K}
    BY DEF RestoredContains
  <1> HIDE DEF q, K
  <1>8. RestoredParents(n, s, lv, p) = parentId
    BY <1>2, <1>4, <1>5, <1>6 DEF TypeOK
  <1>9. (contains \ Incident(contains, n)) \cup RestoredContains(n, s, lv, p) = contains
    <2>1. \A f, t \in Node : <<f, t>> \in RestoredContains(n, s, lv, p) <=>
              <<f, t>> \in contains /\ (f = n \/ t = n)
      <3> SUFFICES ASSUME NEW f \in Node, NEW t \in Node
                   PROVE  <<f, t>> \in RestoredContains(n, s, lv, p) <=>
                            <<f, t>> \in contains /\ (f = n \/ t = n)
        OBVIOUS
      <3>1. <<f, t>> \in RestoredContains(n, s, lv, p) <=>
              \/ t = n /\ f = q
              \/ <<f, t>> \in Incident(contains, n) /\ f = n /\ t \in K
        BY <1>1, <1>7, NodeAssumption
      <3>2. <<f, t>> \in Incident(contains, n) <=> <<f, t>> \in contains /\ (f = n \/ t = n)
        BY IncidentParts
      <3> QED BY <1>0, <1>3, <1>4, <1>5, <3>1, <3>2
    <2>2. RestoredContains(n, s, lv, p) \subseteq Pairs
      <3>1. s.contains \subseteq Pairs
        BY <1>0, <1>1 DEF Incident
      <3>2. q # NoNode => q \in Node
        BY <1>0, <1>4 DEF TypeOK
      <3>3. {<<x, n>> : x \in {q} \ {NoNode}} \subseteq Pairs
        BY <1>0, <3>2 DEF Pairs
      <3>4. {e \in s.contains : e[1] = n /\ e[2] \in K} \subseteq s.contains
        OBVIOUS
      <3> QED BY <1>7, <3>1, <3>3, <3>4, Zenon
    <2> DEFINE L == RestoredContains(n, s, lv, p)
               I == Incident(contains, n)
    <2>3. \A f, t \in Node : <<f, t>> \in I <=> <<f, t>> \in L
      <3> SUFFICES ASSUME NEW f \in Node, NEW t \in Node
                   PROVE  <<f, t>> \in I <=> <<f, t>> \in L
        OBVIOUS
      <3>1. <<f, t>> \in Incident(contains, n) <=> <<f, t>> \in contains /\ (f = n \/ t = n)
        BY IncidentParts
      <3>2. <<f, t>> \in RestoredContains(n, s, lv, p) <=>
              <<f, t>> \in contains /\ (f = n \/ t = n)
        BY <2>1
      <3> HIDE DEF lv
      <3> QED BY <3>1, <3>2, Zenon
    <2>4. I \subseteq contains /\ I \subseteq Pairs
      BY <1>0 DEF Incident
    <2>5. I = L
      <3> HIDE DEF I, L
      <3>1. \A e \in Pairs : e = <<e[1], e[2]>> /\ e[1] \in Node /\ e[2] \in Node
        BY DEF Pairs
      <3>2. \A e \in Pairs : e \in I <=> e \in L
        BY <2>3, <3>1
      <3>3. L \subseteq Pairs
        BY <2>2 DEF L
      <3> QED BY <2>4, <3>2, <3>3
    <2> QED BY <2>4, <2>5
  <1>10. (blocks \ Incident(blocks, n)) \cup RestoredBlocks(n, s, lv) = blocks
    <2>1. RestoredBlocks(n, s, lv) \subseteq Incident(blocks, n)
      BY <1>1 DEF RestoredBlocks
    <2>2. ASSUME NEW e \in Incident(blocks, n) PROVE e \in RestoredBlocks(n, s, lv)
      <3>1. e \in blocks /\ (e[1] = n \/ e[2] = n)
        BY DEF Incident
      <3>2. e = <<e[1], e[2]>> /\ e[1] \in Node /\ e[2] \in Node
        BY <1>0, <3>1, PairParts
      <3>3. e[1] \in lv \cup {n} /\ e[2] \in lv \cup {n}
        BY <1>3, <3>1, <3>2
      <3> QED BY <1>1, <3>1, <3>3 DEF RestoredBlocks
    <2>3. Incident(blocks, n) \subseteq blocks
      BY DEF Incident
    <2> QED BY <2>1, <2>2, <2>3
  <1> USE DEF s, p
  <1> QED BY <1>8, <1>9, <1>10

(* In every state, deleting an item and restoring it at once gives back the    *)
(* same parents and links: the snapshot is taken while the children still      *)
(* point at the item, and misses nothing.                                    *)
THEOREM UndoIsExactEverywhere == Spec => []UndoRestores
  <1>1. GraphSound => UndoRestores
    <2> SUFFICES ASSUME GraphSound PROVE UndoRestores
      OBVIOUS
    <2> QED BY UndoIsExact DEF GraphSound, UndoRestores
  <1> QED BY <1>1, GraphInvariant, PTL

(* An item that comes back was put back by a restore, of an isolated id.       *)
LEMMA RestStep ==
  ASSUME GraphSound, [Next]_vars, NEW n \in Node, n \in live', n \notin live, n \in used
  PROVE  /\ \A c \in live : parentId[c] # NoNode => parentId'[c] = parentId[c]
         /\ contains' \ Incident(contains', n) = contains
         /\ blocks' \ Incident(blocks', n) = blocks
  <1>1. \E r \in Request : RestoreDeletedIssue(r)
    <2>1. \A x \in Node, p \in Node \cup {NoNode}, k \in Kind : ~CreateIssue(x, p, k)
          /\ ~UpdateParent(x, p, k)
      BY DEF CreateIssue, UpdateParent
    <2>2. \A f, t \in Node : /\ ~CreateContains(f, t) /\ ~CreateBlocks(f, t)
                             /\ ~DeleteContains(f, t) /\ ~DeleteBlocks(f, t)
      BY DEF CreateContains, CreateBlocks, DeleteContains, DeleteBlocks
    <2>3. /\ \A x \in Node, k \in Kind : ~UpdateKind(x, k)
          /\ \A x \in Node : /\ ~DeleteIssue(x) /\ ~SweepTombstone(x)
                              /\ \A r \in Request : ~RestoreRead(r, x)
          /\ \A r \in Request : ~RestoreRefused(r)
      BY DEF UpdateKind, DeleteIssue, SweepTombstone, RestoreRead, RestoreRefused
    <2>4. ~UNCHANGED vars
      BY DEF vars
    <2> QED BY <2>1, <2>2, <2>3, <2>4 DEF Next
  <1>2. PICK r \in Request : RestoreDeletedIssue(r)
    BY <1>1
  <1>3. PICK m \in Node, s \in Snapshot, q \in Node \cup {NoNode}, K \in SUBSET Node :
            PutsBack(m, s, q, K)
    BY <1>2, RestoreEffect
  <1>4. m = n /\ TypeOK /\ HierarchySound
    BY <1>3 DEF GraphSound, PutsBack
  <1>5. /\ \A x \in Node : <<x, n>> \notin contains /\ <<n, x>> \notin contains
        /\ \A x \in Node : <<x, n>> \notin blocks /\ <<n, x>> \notin blocks
    BY <1>4, GoneIsIsolated
  <1>6. \A c \in live : parentId[c] # NoNode => parentId'[c] = parentId[c]
    BY <1>3, <1>4 DEF PutsBack, TypeOK
  <1>7. contains \subseteq Pairs /\ blocks \subseteq Pairs /\ contains' \subseteq Pairs
        /\ blocks' \subseteq Pairs
    BY <1>3, <1>4 DEF PutsBack, TypeOK
  <1>8. \A x, y \in Node : /\ <<x, y>> \in contains <=> <<x, y>> \in contains' /\ x # n /\ y # n
                           /\ <<x, y>> \in blocks <=> <<x, y>> \in blocks' /\ x # n /\ y # n
    BY <1>3, <1>4, <1>5 DEF PutsBack
  <1>9. ASSUME NEW E \in SUBSET Pairs, NEW F \in SUBSET Pairs,
               \A x, y \in Node : <<x, y>> \in E <=> <<x, y>> \in F /\ x # n /\ y # n
        PROVE  F \ Incident(F, n) = E
    <2>1. \A e \in Pairs : e = <<e[1], e[2]>> /\ e[1] \in Node /\ e[2] \in Node
      BY DEF Pairs
    <2>2. \A e \in Pairs : e \in E <=> e \in F /\ e[1] # n /\ e[2] # n
      BY <1>9, <2>1
    <2> QED BY <2>2 DEF Incident
  <1>10. contains' \ Incident(contains', n) = contains /\ blocks' \ Incident(blocks', n) = blocks
    BY <1>7, <1>8, <1>9
  <1> QED BY <1>6, <1>10

(* A restore takes nothing from the others, however old its snapshot is: no    *)
(* item loses the parent it has, and no link between two others changes.      *)
THEOREM ARestoreKeepsTheRest == Spec => RestoreKeepsTheRest
  <1>1. GraphSound /\ [Next]_vars =>
          [\A n \in Node : n \in live' /\ n \notin live /\ n \in used =>
              /\ \A c \in live : parentId[c] # NoNode => parentId'[c] = parentId[c]
              /\ contains' \ Incident(contains', n) = contains
              /\ blocks' \ Incident(blocks', n) = blocks]_vars
    BY RestStep
  <1> QED BY <1>1, GraphInvariant, PTL DEF Spec, RestoreKeepsTheRest
==============================================================================
