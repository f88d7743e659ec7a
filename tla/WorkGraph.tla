------------------------------ MODULE WorkGraph ------------------------------
(***************************************************************************)
(* The work graph of one team: the parent column of the items, the        *)
(* CONTAINS and BLOCKS links between them, and the tombstones from which   *)
(* a deleted item can be put back (link-service.ts, graph-integrity.ts,    *)
(* the hierarchy part of issue-service.ts, work-tombstone.ts).             *)
(*                                                                         *)
(* The hierarchy is kept twice, as parentId and as CONTAINS links; every   *)
(* writer keeps both.  All writers first take the team's advisory lock     *)
(* (lockWorkGraph), so each operation is one step.  The exception is       *)
(* restoreDeletedIssue, which reads its snapshot before it takes the lock: *)
(* it is two steps, RestoreRead and RestoreDeletedIssue.                   *)
(*                                                                         *)
(* Left out: repositories (one is assumed), supersededById, and the link   *)
(* types that are not checked for cycles.                                  *)
(***************************************************************************)
EXTENDS Naturals, FiniteSets

CONSTANTS Node,       \* ids of items, each used for at most one item
          Kind,       \* the kinds in use
          NoNode,     \* the null parent
          NoSnap,     \* no tombstone, no snapshot read
          Request,    \* restore requests that may be in flight at once
          MaxDeletes, \* bound: deletions in a behaviour
          MaxBlocks   \* bound: BLOCKS links a user adds to

AllKinds == {"PROJECT", "MILESTONE", "EPIC", "ISSUE", "DECISION"}

ASSUME NodeAssumption == /\ NoNode \notin Node
                         /\ IsFiniteSet(Node)
ASSUME KindAssumption == "ISSUE" \in Kind /\ Kind \subseteq AllKinds

\* Which kinds may contain which.
LEGAL_CONTAINS ==
    [k \in AllKinds |->
        CASE k = "PROJECT"   -> {"MILESTONE", "DECISION", "EPIC", "ISSUE"}
          [] k = "MILESTONE" -> {"EPIC", "ISSUE"}
          [] k = "EPIC"      -> {"ISSUE"}
          [] k = "ISSUE"     -> {"ISSUE"}
          [] k = "DECISION"  -> {}]

isLegalContains(parentKind, childKind) == childKind \in LEGAL_CONTAINS[parentKind]

VARIABLES used,      \* ids given to an item so far
          live,      \* items that exist
          kind,      \* kind[n]: the kind of item n
          parentId,  \* parentId[n]: its parent, or NoNode
          contains,  \* CONTAINS links, as pairs <<from, to>>
          blocks,    \* BLOCKS links
          tomb,      \* tomb[n]: the snapshot a deletion of n left, or NoSnap
          pending,   \* pending[r]: the item and snapshot request r read before the lock
          restored,  \* history: items some restore put back
          deletes    \* deletions so far

vars == <<used, live, kind, parentId, contains, blocks, tomb, pending, restored, deletes>>

Pairs == Node \X Node

\* The part of a tombstone's snapshot that concerns the graph.
Snapshot == [kind : Kind, parent : Node \cup {NoNode}, kids : SUBSET Node,
             contains : SUBSET Pairs, blocks : SUBSET Pairs]

TypeOK ==
    /\ used \subseteq Node
    /\ live \subseteq used
    /\ kind \in [Node -> Kind]
    /\ parentId \in [Node -> Node \cup {NoNode}]
    /\ contains \subseteq Pairs
    /\ blocks \subseteq Pairs
    /\ tomb \in [Node -> Snapshot \cup {NoSnap}]
    /\ pending \in [Request -> [id : Node, snap : Snapshot] \cup {NoSnap}]
    /\ restored \subseteq Node
    /\ deletes \in Nat

-----------------------------------------------------------------------------
(* Reachability *)

ParentEdges(p) == {<<p[c], c>> : c \in {x \in Node : p[x] # NoNode}}

\* outgoingNeighborIds: links of the type and, for CONTAINS, the children by
\* parentId too.
ContainsEdges == contains \cup ParentEdges(parentId)

Closed(E, S) == \A e \in E : e[1] \in S => e[2] \in S

\* canReach(start, target): every set that holds start and is closed under the
\* edges holds target.
canReach(E, start, target) ==
    \A S \in SUBSET Node : start \in S /\ Closed(E, S) => target \in S

\* Mutant of assertNoWorkLinkCycle: the search runs in the wrong direction.
NoCycleReversed(E, from, to) == ~canReach(E, from, to)

\* assertNoWorkLinkCycle: the new edge would not close a cycle.
assertNoWorkLinkCycle(E, from, to) == ~canReach(E, to, from)

\* The i-th id the walk of assertNoParentCycle visits, NoNode once it has ended.
Walk(p, start) ==
    LET w[i \in Nat] == IF i = 0 THEN start
                        ELSE IF w[i - 1] = NoNode THEN NoNode ELSE p[w[i - 1]]
    IN w

\* assertNoParentCycle: the walk up from the new parent ends, and never at n.
assertNoParentCycle(p, n, start) ==
    /\ Walk(p, start)[Cardinality(Node)] = NoNode
    /\ \A i \in 0 .. Cardinality(Node) : Walk(p, start)[i] # n

\* assertNodeHierarchy for node n with parent p and kind k; incoming are the
\* parents its CONTAINS links name (none when the parent is being replaced).
assertNodeHierarchy(n, p, k, incoming) ==
    LET parents  == incoming \cup ({p} \ {NoNode})
        children == {c \in live : parentId[c] = n \/ <<n, c>> \in contains}
    IN  /\ \A a, b \in parents : a = b
        /\ \A a \in parents : a \in live /\ isLegalContains(kind[a], k)
        /\ \A c \in children : isLegalContains(k, kind[c])

IncomingContains(n) == {f \in Node : <<f, n>> \in contains}

\* syncContainsFromParentId: the links into n become exactly the one from p.
SyncContains(n, p) ==
    {e \in contains : e[2] # n} \cup {<<q, n>> : q \in {p} \ {NoNode}}

Init ==
    /\ used = {} /\ live = {} /\ restored = {}
    /\ kind = [n \in Node |-> "ISSUE"]
    /\ parentId = [n \in Node |-> NoNode]
    /\ contains = {} /\ blocks = {}
    /\ tomb = [n \in Node |-> NoSnap]
    /\ pending = [r \in Request |-> NoSnap]
    /\ deletes = 0

-----------------------------------------------------------------------------
(* Writers of the graph *)

\* createIssueWithAudit: a new id, its parent checked and linked by the sync.
CreateIssue(n, p, k) ==
    /\ n \notin used
    /\ p # NoNode => p \in live /\ isLegalContains(kind[p], k)
    /\ used' = used \cup {n}
    /\ live' = live \cup {n}
    /\ kind' = [kind EXCEPT ![n] = k]
    /\ parentId' = [parentId EXCEPT ![n] = p]
    /\ contains' = SyncContains(n, p)
    /\ UNCHANGED <<blocks, tomb, pending, restored, deletes>>

\* createWorkLink of type CONTAINS: refused when t has another parent; an
\* existing link only has the parent column brought in line.
CreateContains(f, t) ==
    /\ f # t /\ f \in live /\ t \in live
    /\ assertNoWorkLinkCycle(ContainsEdges, f, t)
    /\ isLegalContains(kind[f], kind[t])
    /\ IncomingContains(t) \subseteq {f}
    /\ parentId[t] \in {NoNode, f}
    /\ contains' = contains \cup {<<f, t>>}
    /\ parentId' = [parentId EXCEPT ![t] = f]
    /\ UNCHANGED <<used, live, kind, blocks, tomb, pending, restored, deletes>>

\* createWorkLink of type BLOCKS.
CreateBlocks(f, t) ==
    /\ f # t /\ f \in live /\ t \in live
    /\ assertNoWorkLinkCycle(blocks, f, t)
    /\ Cardinality(blocks) < MaxBlocks
    /\ blocks' = blocks \cup {<<f, t>>}
    /\ UNCHANGED <<used, live, kind, parentId, contains, tomb, pending, restored, deletes>>

\* deleteWorkLink of a CONTAINS link: the child loses its parent with it.
DeleteContains(f, t) ==
    /\ <<f, t>> \in contains
    /\ contains' = contains \ {<<f, t>>}
    /\ parentId' = [parentId EXCEPT ![t] = IF @ = f THEN NoNode ELSE @]
    /\ UNCHANGED <<used, live, kind, blocks, tomb, pending, restored, deletes>>

DeleteBlocks(f, t) ==
    /\ <<f, t>> \in blocks
    /\ blocks' = blocks \ {<<f, t>>}
    /\ UNCHANGED <<used, live, kind, parentId, contains, tomb, pending, restored, deletes>>

\* updateIssue with a new parent (or null) and possibly a new kind.
UpdateParent(n, p, k) ==
    /\ n \in live
    /\ p # NoNode => /\ p # n /\ p \in live
                     /\ assertNoParentCycle(parentId, n, p)
                     /\ assertNoWorkLinkCycle(ContainsEdges, p, n)
    /\ assertNodeHierarchy(n, p, k, {})
    /\ kind' = [kind EXCEPT ![n] = k]
    /\ parentId' = [parentId EXCEPT ![n] = p]
    /\ contains' = SyncContains(n, p)
    /\ UNCHANGED <<used, live, blocks, tomb, pending, restored, deletes>>

\* updateIssue with a new kind and the parent left alone.
UpdateKind(n, k) ==
    /\ n \in live /\ kind[n] # k
    /\ assertNodeHierarchy(n, parentId[n], k, IncomingContains(n))
    /\ kind' = [kind EXCEPT ![n] = k]
    /\ UNCHANGED <<used, live, parentId, contains, blocks, tomb, pending, restored, deletes>>

-----------------------------------------------------------------------------
(* Deletion and its undo *)

Incident(E, n) == {e \in E : e[1] = n \/ e[2] = n}

\* Mutant of SnapshotOf: taken when the children are detached already.
SnapshotTooLate(n) ==
    [kind |-> kind[n], parent |-> parentId[n], kids |-> {},
     contains |-> Incident(contains, n), blocks |-> Incident(blocks, n)]

\* writeWorkTombstone
SnapshotOf(n) ==
    [kind |-> kind[n], parent |-> parentId[n],
     kids |-> {c \in live : parentId[c] = n},
     contains |-> Incident(contains, n), blocks |-> Incident(blocks, n)]

\* deleteIssue detaches the children before the row goes.
Detached(n) == [c \in Node |-> IF c = n \/ parentId[c] = n THEN NoNode ELSE parentId[c]]

\* Snapshot, detach the children, delete the row; its links go with it.
DeleteIssue(n) ==
    /\ n \in live /\ deletes < MaxDeletes
    /\ tomb' = [tomb EXCEPT ![n] = SnapshotOf(n)]
    /\ parentId' = Detached(n)
    /\ live' = live \ {n}
    /\ contains' = contains \ Incident(contains, n)
    /\ blocks' = blocks \ Incident(blocks, n)
    /\ deletes' = deletes + 1
    /\ UNCHANGED <<used, kind, pending, restored>>

\* sweepExpiredTombstones
SweepTombstone(n) ==
    /\ tomb[n] # NoSnap
    /\ tomb' = [tomb EXCEPT ![n] = NoSnap]
    /\ UNCHANGED <<used, live, kind, parentId, contains, blocks, pending, restored, deletes>>

\* restoreDeletedIssue up to the lock: the tombstone is read.
RestoreRead(r, n) ==
    /\ tomb[n] # NoSnap /\ pending[r] = NoSnap
    /\ pending' = [pending EXCEPT ![r] = [id |-> n, snap |-> tomb[n]]]
    /\ UNCHANGED <<used, live, kind, parentId, contains, blocks, tomb, restored, deletes>>

\* What the restore of n from snapshot s makes of a parent map p, with the items
\* lv alive: a parent that is gone is dropped, children still detached come back.
RestoredParent(s, lv) == IF s.parent \in lv THEN s.parent ELSE NoNode
Reattached(s, lv, p) == {c \in s.kids \cap lv : p[c] = NoNode}

RestoredParents(n, s, lv, p) ==
    [c \in Node |-> IF c = n THEN RestoredParent(s, lv)
                    ELSE IF c \in Reattached(s, lv, p) THEN n ELSE p[c]]

\* Mutant of RestoredContains: links to children that moved on are replayed.
ContainsReplayed(n, s, lv, p) ==
    {<<q, n>> : q \in {RestoredParent(s, lv)} \ {NoNode}}
      \cup {e \in s.contains : e[1] = n /\ e[2] \in lv}

\* The links it writes: the one from the parent, then those of the snapshot whose
\* other end is alive, less the CONTAINS links into n and to children that moved on.
RestoredContains(n, s, lv, p) ==
    {<<q, n>> : q \in {RestoredParent(s, lv)} \ {NoNode}}
      \cup {e \in s.contains : e[1] = n /\ e[2] \in Reattached(s, lv, p)}
RestoredBlocks(n, s, lv) ==
    {e \in s.blocks : \/ e[1] = n /\ e[2] \in lv \cup {n}
                      \/ e[2] = n /\ e[1] \in lv \cup {n}}

\* Mutant of RestoreDeletedIssue: children are taken back from new parents.
RestoreStealing(r) ==
    LET n == pending[r].id
        s == pending[r].snap
        kids == s.kids \cap live
    IN
    /\ pending[r] # NoSnap
    /\ n \notin live /\ tomb[n] # NoSnap
    /\ live' = live \cup {n}
    /\ kind' = [kind EXCEPT ![n] = s.kind]
    /\ parentId' = [c \in Node |-> IF c \in kids THEN n
                                   ELSE RestoredParents(n, s, live, parentId)[c]]
    /\ contains' = {e \in contains : e[2] \notin kids}
                      \cup {<<q, n>> : q \in {RestoredParent(s, live)} \ {NoNode}}
                      \cup {<<n, c>> : c \in kids}
    /\ blocks' = blocks \cup RestoredBlocks(n, s, live)
    /\ tomb' = [tomb EXCEPT ![n] = NoSnap]
    /\ pending' = [pending EXCEPT ![r] = NoSnap]
    /\ restored' = restored \cup {n}
    /\ UNCHANGED <<used, deletes>>

\* restoreDeletedIssue under the lock: refused when the id is in use again; the
\* tombstone must still be there to be deleted.  No cycle or kind check.
RestoreDeletedIssue(r) ==
    LET n == pending[r].id
        s == pending[r].snap IN
    /\ pending[r] # NoSnap
    /\ n \notin live /\ tomb[n] # NoSnap
    /\ live' = live \cup {n}
    /\ kind' = [kind EXCEPT ![n] = s.kind]
    /\ parentId' = RestoredParents(n, s, live, parentId)
    /\ contains' = contains \cup RestoredContains(n, s, live, parentId)
    /\ blocks' = blocks \cup RestoredBlocks(n, s, live)
    /\ tomb' = [tomb EXCEPT ![n] = NoSnap]
    /\ pending' = [pending EXCEPT ![r] = NoSnap]
    /\ restored' = restored \cup {n}
    /\ UNCHANGED <<used, deletes>>

\* The restore found the id in use or the tombstone gone: rolled back.
RestoreRefused(r) ==
    /\ pending[r] # NoSnap
    /\ pending[r].id \in live \/ tomb[pending[r].id] = NoSnap
    /\ pending' = [pending EXCEPT ![r] = NoSnap]
    /\ UNCHANGED <<used, live, kind, parentId, contains, blocks, tomb, restored, deletes>>

Next ==
    \/ \E n \in Node, p \in Node \cup {NoNode}, k \in Kind :
          CreateIssue(n, p, k) \/ UpdateParent(n, p, k)
    \/ \E f, t \in Node : \/ CreateContains(f, t) \/ CreateBlocks(f, t)
                          \/ DeleteContains(f, t) \/ DeleteBlocks(f, t)
    \/ \E n \in Node, k \in Kind : UpdateKind(n, k)
    \/ \E n \in Node : \/ DeleteIssue(n) \/ SweepTombstone(n)
                       \/ \E r \in Request : RestoreRead(r, n)
    \/ \E r \in Request : RestoreDeletedIssue(r) \/ RestoreRefused(r)

Spec == Init /\ [][Next]_vars

-----------------------------------------------------------------------------
(* Properties *)

\* The two representations of the hierarchy agree: the links into an item are the
\* one from its parent, so no item has two parents, and links join items that
\* exist (createWorkLink, syncContainsFromParentId, deleteIssue and
\* restoreDeletedIssue each write both).
ProjectionAgrees ==
    /\ \A n \in Node : IncomingContains(n) = {parentId[n]} \ {NoNode}
    /\ \A e \in contains \cup blocks : e[1] \in live /\ e[2] \in live

\* The edges of E among the items of S form no cycle: every nonempty set of
\* items has one with no successor in the set.
Acyclic(E, S) ==
    \A T \in SUBSET S : T # {} => \E x \in T : \A y \in T : <<x, y>> \notin E

\* canReach refuses every cycle: among items that no restore has put back, neither
\* the hierarchy nor BLOCKS has one, whatever was deleted, moved and restored
\* around them.
NoCycleButThroughRestored ==
    /\ Acyclic(contains, live \ restored)
    /\ Acyclic(blocks, live \ restored)

\* The kinds of parent and child are legal, whatever order kinds and parents were
\* changed in (assertNodeHierarchy checks both sides of the item it changes);
\* only a restore may bring back a pair that has become illegal.
LegalKindsButRestored ==
    \A e \in contains : e[1] \in restored \/ e[2] \in restored
                           \/ isLegalContains(kind[e[1]], kind[e[2]])

\* The state invariant of the graph: its two representations agree and join legal
\* kinds.
GraphInv == TypeOK /\ ProjectionAgrees /\ LegalKindsButRestored

\* Undo is exact: deleting any item and restoring it at once gives back the same
\* parents and links (the comment in deleteIssue: "Snapshot first, while the
\* children still point here").
UndoRestores ==
    \A n \in live :
        LET s  == SnapshotOf(n)
            lv == live \ {n}
            p  == Detached(n)
        IN  /\ RestoredParents(n, s, lv, p) = parentId
            /\ (contains \ Incident(contains, n)) \cup RestoredContains(n, s, lv, p) = contains
            /\ (blocks \ Incident(blocks, n)) \cup RestoredBlocks(n, s, lv) = blocks

\* A restore takes nothing back from others: no item that has a parent gets
\* another one by someone else's restore, and between two other items no link
\* appears or disappears (the restored snapshot may be days, or one lock wait, old).
RestoreKeepsTheRest ==
    [][\A n \in Node : n \in live' /\ n \notin live /\ n \in used =>
          /\ \A c \in live : parentId[c] # NoNode => parentId'[c] = parentId[c]
          /\ contains' \ Incident(contains', n) = contains
          /\ blocks' \ Incident(blocks', n) = blocks]_vars
=============================================================================
