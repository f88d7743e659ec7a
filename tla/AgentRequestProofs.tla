------------------------- MODULE AgentRequestProofs -------------------------
(***************************************************************************)
(* Proofs about AgentRequest, for every set of actors, whatever successors    *)
(* they declare, and any number of chains, executions and sweeps.            *)
(* RequestSound below is the inductive invariant.                            *)
(***************************************************************************)
EXTENDS AgentRequest, FiniteSetTheorems, SequenceTheorems, NaturalsInduction,
        WellFoundedInduction, TLAPS

-----------------------------------------------------------------------------
(* The inductive invariant *)

(* A chain has moved past its earlier requests: each was settled before the   *)
(* next one was opened.                                                     *)
OnlyTheLastIsOpen ==
    \A a, b \in Ids :
        a[1] = b[1] /\ a[2] < b[2] /\ state[b] # "absent" => state[a] \in TERMINAL_REQUEST_STATES

(* A chain never comes back to an actor it has asked.                         *)
NobodyTwice ==
    \A a, b \in Ids :
        (/\ a[1] = b[1] /\ state[a] # "absent" /\ state[b] # "absent"
         /\ target[a] = target[b]) => a = b

(* A request that exists was put to someone.                                 *)
AskedSomeone == \A id \in Ids : state[id] # "absent" => target[id] \in Actors

(* An expiry notice is posted with the request settled.                       *)
NoticedIsSettled == \A id \in Ids : notices[id] > 0 => state[id] \in TERMINAL_REQUEST_STATES

ChainSound ==
    /\ OnlyTheLastIsOpen /\ NobodyTwice /\ AskedSomeone /\ NoticedIsSettled
    /\ DeadEndAskedAPerson /\ AtTheLimitAPerson /\ NeedInfoStaysWithItsTarget

RequestSound == TypeOK /\ ChainSound

-----------------------------------------------------------------------------
(* Helpers *)

(* A request is its chain and its hop.                                       *)
LEMMA IdParts ==
  /\ \A id \in Ids : id = <<id[1], id[2]>> /\ id[1] \in Roots /\ id[2] \in 0 .. MaxHop
  /\ \A r \in Roots : <<r, 0>> \in Ids
  /\ Roots \subseteq Nat /\ 0 .. MaxHop \subseteq Nat
  BY RequestAssumption DEF Ids, Roots

Below == {p \in Nat \X Nat : p[1] < p[2]}

LEMMA BelowIsWellFounded == IsWellFoundedOn(Below, Nat)
  <1>1. Below = OpToRel(<, Nat)
    BY Zenon DEF Below, OpToRel
  <1> QED BY <1>1, NatLessThanWellFounded, Zenon

(* A nonempty set of numbers has a least element: the first candidate exists. *)
LEMMA LeastExists ==
  ASSUME NEW T \in SUBSET Nat, T # {}
  PROVE  \E x \in T : \A y \in T : x <= y
  <1>1. PICK x \in T : \A y \in T : ~(<<y, x>> \in Below)
    BY BelowIsWellFounded, WFMin, Zenon
  <1>2. \A a, b \in Nat : a < b => <<a, b>> \in Below
    BY DEF Below
  <1>3. \A y \in T : ~(y < x)
    BY <1>1, <1>2
  <1>4. x \in Nat /\ T \subseteq Nat
    OBVIOUS
  <1> QED BY <1>3, <1>4

(* The candidates are the successor, the owner and the team's owners.         *)
LEMMA CandidateList ==
  ASSUME NEW id \in Ids, target[id] \in Actors
  PROVE  /\ DOMAIN Candidates(id) = 1 .. Len(TeamOwners) + 2
         /\ Len(TeamOwners) \in Nat
         /\ \A i \in DOMAIN Candidates(id) : Candidates(id)[i] \in Actors \cup {None}
         /\ \A i \in DOMAIN TeamOwners :
               i + 2 \in DOMAIN Candidates(id) /\ Candidates(id)[i + 2] = TeamOwners[i]
  <1> DEFINE s == Successor[target[id]]
             o == OwnerOf[target[id]]
  <1>1. s \in Actors \cup {None} /\ o \in Actors \cup {None}
    BY RequestAssumption DEF Actors
  <1>2. TeamOwners \in Seq(Actors \cup {None})
    BY RequestAssumption DEF Actors
  <1>3. Candidates(id) = <<s, o>> \o TeamOwners
    BY DEF Candidates
  <1> HIDE DEF s, o
  <1>4. <<s, o>> \in Seq(Actors \cup {None}) /\ Len(<<s, o>>) = 2
    BY <1>1
  <1>5. Len(TeamOwners) \in Nat /\ DOMAIN TeamOwners = 1 .. Len(TeamOwners)
    BY <1>2
  <1>6. Candidates(id) \in Seq(Actors \cup {None})
    BY <1>2, <1>3, <1>4
  <1>7. Len(Candidates(id)) = Len(TeamOwners) + 2
    BY <1>2, <1>3, <1>4, <1>5
  <1>8. \A i \in DOMAIN TeamOwners : Candidates(id)[i + 2] = TeamOwners[i]
    BY <1>2, <1>3, <1>4, <1>5
  <1> QED BY <1>5, <1>6, <1>7, <1>8

(* pickSuccessor returns nobody only when no candidate can be asked, and      *)
(* otherwise one who can.                                                   *)
LEMMA PickIsAnswerable ==
  ASSUME NEW id \in Ids, target[id] \in Actors, NEW f \in BOOLEAN
  PROVE  \/ /\ PickSuccessor(id, f) = None
            /\ \A i \in DOMAIN Candidates(id) : ~Answerable(Candidates(id)[i], id, f)
         \/ /\ PickSuccessor(id, f) \in Actors
            /\ PickSuccessor(id, f) # None
            /\ Answerable(PickSuccessor(id, f), id, f)
  <1> DEFINE list == Candidates(id)
             fit == {i \in DOMAIN list : Answerable(list[i], id, f)}
             first == CHOOSE i \in fit : \A j \in fit : i <= j
  <1>1. PickSuccessor(id, f) = IF fit = {} THEN None ELSE list[first]
    BY DEF PickSuccessor
  <1>2. CASE fit = {}
    BY <1>1, <1>2
  <1>3. CASE fit # {}
    <2>1. fit \in SUBSET Nat
      BY CandidateList
    <2>2. first \in fit
      <3>1. \E i \in fit : \A j \in fit : i <= j
        BY <1>3, <2>1, LeastExists
      <3> QED BY <3>1
    <2>3. list[first] \in Actors \cup {None} /\ Answerable(list[first], id, f)
      BY <2>2, CandidateList
    <2>4. list[first] # None
      BY <2>3 DEF Answerable
    <2> QED BY <1>1, <1>3, <2>3, <2>4
  <1> QED BY <1>2, <1>3

-----------------------------------------------------------------------------
(* The chain under a step *)

(* Requests move among the states of a request that exists, and only while    *)
(* they are open: the chains stay as they are.                               *)
OpenOnesMove ==
    \A id \in Ids : \/ state'[id] = state[id]
                    \/ IsOpen(id) /\ state'[id] \in States

LEMMA ChainStands ==
  ASSUME OpenOnesMove
  PROVE  /\ \A id \in Ids : state'[id] = "absent" <=> state[id] = "absent"
         /\ \A id \in Ids : state[id] \in TERMINAL_REQUEST_STATES => state'[id] = state[id]
         /\ \A r : Chain(r)' = Chain(r)
  BY DEF OpenOnesMove, IsOpen, Chain, States, CLAIMABLE_REQUEST_STATES, OPEN_STATES,
         TERMINAL_REQUEST_STATES

LEMMA MoveKeepsChain ==
  ASSUME ChainSound, OpenOnesMove, UNCHANGED <<target, needInfo, notices>>
  PROVE  ChainSound'
  <1>1. OnlyTheLastIsOpen'
    BY ChainStands DEF ChainSound, OnlyTheLastIsOpen
  <1>2. NobodyTwice'
    BY ChainStands DEF ChainSound, NobodyTwice
  <1>3. AskedSomeone'
    BY ChainStands DEF ChainSound, AskedSomeone
  <1>4. NoticedIsSettled'
    BY ChainStands DEF ChainSound, NoticedIsSettled
  <1>5. DeadEndAskedAPerson'
    BY ChainStands DEF ChainSound, DeadEndAskedAPerson, IsNeedInfo
  <1>6. NeedInfoStaysWithItsTarget'
    BY ChainStands DEF ChainSound, NeedInfoStaysWithItsTarget
  <1>7. AtTheLimitAPerson'
    BY ChainStands DEF ChainSound, AtTheLimitAPerson
  <1> QED BY <1>1, <1>2, <1>3, <1>4, <1>5, <1>6, <1>7 DEF ChainSound

(* A new chain has one request, and nobody was asked in it before.            *)
LEMMA OpenKeepsChain ==
  ASSUME TypeOK, ChainSound, NEW r \in Roots, NEW t \in Actors, NEW need \in BOOLEAN,
         Open(r, t, need)
  PROVE  ChainSound'
  <1> DEFINE new == <<r, 0>>
  <1>1. new \in Ids /\ state[new] = "absent" /\ new[1] = r /\ new[2] = 0
    BY IdParts DEF Open
  <1>2. \A id \in Ids : id[1] = r => state[id] = "absent"
    <2> SUFFICES ASSUME NEW id \in Ids, id[1] = r, state[id] # "absent" PROVE FALSE
      OBVIOUS
    <2>1. id # new /\ id = <<r, id[2]>>
      BY <1>1, IdParts
    <2>2. id[2] > 0
      BY <2>1, IdParts
    <2>3. state[new] \in TERMINAL_REQUEST_STATES
      BY <1>1, <2>2, IdParts DEF ChainSound, OnlyTheLastIsOpen
    <2> QED BY <1>1, <2>3 DEF TERMINAL_REQUEST_STATES
  <1>3. /\ \A id \in Ids : id # new => state'[id] = state[id] /\ target'[id] = target[id]
        /\ state'[new] = "SUBMITTED" /\ target'[new] = t
        /\ \A q \in Roots : q # r => needInfo'[q] = needInfo[q]
        /\ notices' = notices
    BY <1>1 DEF Open, TypeOK
  <1>4. \A id \in Ids : id[1] # r => state'[id] = state[id] /\ target'[id] = target[id] /\ id # new
    BY <1>1, <1>3
  <1>5. \A id \in Ids : id[1] = r /\ state'[id] # "absent" => id = new
    BY <1>2, <1>3
  <1>6. /\ Chain(r)' = {new}
        /\ \A q \in Roots : q # r => Chain(q)' = Chain(q)
    BY <1>1, <1>3, <1>4, <1>5 DEF Chain
  <1> HIDE DEF new
  <1>7. OnlyTheLastIsOpen'
    <2> SUFFICES ASSUME NEW a \in Ids, NEW b \in Ids,
                        a[1] = b[1], a[2] < b[2], state'[b] # "absent"
                 PROVE  state'[a] \in TERMINAL_REQUEST_STATES
      BY DEF OnlyTheLastIsOpen
    <2>1. b[1] # r
      <3> SUFFICES ASSUME b[1] = r PROVE FALSE
        OBVIOUS
      <3> QED BY <1>1, <1>5, IdParts
    <2> QED BY <1>4, <2>1 DEF ChainSound, OnlyTheLastIsOpen
  <1>8. NobodyTwice'
    BY <1>4, <1>5 DEF ChainSound, NobodyTwice
  <1>9. AskedSomeone'
    BY <1>3 DEF ChainSound, AskedSomeone
  <1>10. NoticedIsSettled'
    BY <1>1, <1>3 DEF ChainSound, NoticedIsSettled, TERMINAL_REQUEST_STATES
  <1>11. DeadEndAskedAPerson'
    <2> SUFFICES ASSUME \E i \in DOMAIN TeamOwners : TeamOwners[i] \notin CannotAnswer,
                        NEW id \in Ids, notices'[id] > 0, ~IsNeedInfo(id)',
                        \A other \in Chain(id[1])' : other[2] <= id[2]
                 PROVE  \E other \in Chain(id[1])' : target'[other] \in People
      BY DEF DeadEndAskedAPerson
    <2>1. id[1] # r /\ id[1] \in Roots
      BY <1>2, <1>3, IdParts DEF ChainSound, NoticedIsSettled, TERMINAL_REQUEST_STATES
    <2>2. Chain(id[1])' = Chain(id[1]) /\ ~IsNeedInfo(id)
      BY <1>3, <1>6, <2>1 DEF IsNeedInfo
    <2>3. PICK other \in Chain(id[1]) : target[other] \in People
      BY <1>3, <2>2 DEF ChainSound, DeadEndAskedAPerson
    <2>4. target'[other] = target[other]
      BY <1>4, <2>1, <2>3 DEF Chain
    <2> QED BY <2>2, <2>3, <2>4
  <1>12. NeedInfoStaysWithItsTarget'
    BY <1>3, <1>6 DEF ChainSound, NeedInfoStaysWithItsTarget, new
  <1>13. AtTheLimitAPerson'
    <2>1. ~(new[2] >= MAX_HANDOFF_HOPS)
      BY <1>1, RequestAssumption
    <2> QED BY <1>3, <2>1 DEF ChainSound, AtTheLimitAPerson
  <1> QED BY <1>7, <1>8, <1>9, <1>10, <1>11, <1>12, <1>13 DEF ChainSound

(* The request an overdue one is handed on to is a new one.                   *)
LEMMA NextIsNew ==
  ASSUME ChainSound, NEW id \in Ids, IsOpen(id)
  PROVE  /\ \A b \in Ids : b[1] = id[1] /\ b[2] > id[2] => state[b] = "absent"
         /\ \A a \in Ids : a[1] = id[1] /\ state[a] # "absent" => a[2] <= id[2]
         /\ state[id] # "absent" /\ state[id] \notin TERMINAL_REQUEST_STATES
         /\ target[id] \in Actors
  <1>1. state[id] # "absent" /\ state[id] \notin TERMINAL_REQUEST_STATES
    BY DEF IsOpen, CLAIMABLE_REQUEST_STATES, OPEN_STATES, TERMINAL_REQUEST_STATES
  <1>2. \A b \in Ids : b[1] = id[1] /\ b[2] > id[2] => state[b] = "absent"
    BY <1>1, IdParts DEF ChainSound, OnlyTheLastIsOpen
  <1>3. target[id] \in Actors
    BY <1>1 DEF ChainSound, AskedSomeone
  <1> QED BY <1>1, <1>2, <1>3, IdParts

(* An overdue request that ends its chain: nobody is left to ask, so a        *)
(* person was asked already.                                                *)
LEMMA ExpireLastKeepsChain ==
  ASSUME TypeOK, ChainSound, NEW w \in Sweepers, NEW id \in Ids, ExpireOne(w, id),
         ~GoesOn(id) \/ PickSuccessor(id, ForceHuman(id)) = None
  PROVE  ChainSound'
  <1>1. /\ IsOpen(id)
        /\ state' = [state EXCEPT ![id] = "FAILED"]
        /\ UNCHANGED <<target, needInfo, chainOver>>
        /\ notices' = [notices EXCEPT ![id] = IF @ < 2 THEN @ + 1 ELSE @]
    BY DEF ExpireOne, HandOff, StillOverdue
  <1>2. OpenOnesMove /\ state'[id] = "FAILED"
    BY <1>1 DEF OpenOnesMove, States, TERMINAL_REQUEST_STATES, TypeOK
  <1>3. \A x \in Ids : x # id => notices'[x] = notices[x]
    BY <1>1 DEF TypeOK
  <1>4. OnlyTheLastIsOpen'
    BY <1>2, ChainStands DEF ChainSound, OnlyTheLastIsOpen
  <1>5. NobodyTwice' /\ AskedSomeone'
    BY <1>1, <1>2, ChainStands DEF ChainSound, NobodyTwice, AskedSomeone
  <1>6. NoticedIsSettled'
    BY <1>2, <1>3, ChainStands DEF ChainSound, NoticedIsSettled, TERMINAL_REQUEST_STATES
  <1>7. DeadEndAskedAPerson'
    <2> SUFFICES ASSUME NEW i \in DOMAIN TeamOwners, TeamOwners[i] \notin CannotAnswer,
                        NEW x \in Ids, notices'[x] > 0, ~IsNeedInfo(x)',
                        \A other \in Chain(x[1])' : other[2] <= x[2]
                 PROVE  \E other \in Chain(x[1])' : target'[other] \in People
      BY DEF DeadEndAskedAPerson
    <2>1. Chain(x[1])' = Chain(x[1]) /\ ~IsNeedInfo(x)
      BY <1>1, <1>2, ChainStands DEF IsNeedInfo
    <2>2. CASE x # id
      BY <1>1, <1>3, <2>1, <2>2 DEF ChainSound, DeadEndAskedAPerson
    <2>3. CASE x = id
      <3>1. PickSuccessor(id, ForceHuman(id)) = None
        BY <2>1, <2>3 DEF GoesOn
      <3>2. target[id] \in Actors
        BY <1>1, NextIsNew
      <3>3. ForceHuman(id) \in BOOLEAN
        BY DEF ForceHuman
      <3>4. /\ i + 2 \in DOMAIN Candidates(id)
            /\ Candidates(id)[i + 2] = TeamOwners[i]
        BY <3>2, CandidateList
      <3>5. ~Answerable(TeamOwners[i], id, ForceHuman(id))
        BY <3>1, <3>2, <3>3, <3>4, PickIsAnswerable
      <3>6. TeamOwners[i] \in People /\ TeamOwners[i] # None
        BY RequestAssumption DEF Actors
      <3>7. TeamOwners[i] \in {target[other] : other \in Chain(id[1])}
        BY <3>5, <3>6 DEF Answerable
      <3> QED BY <1>1, <2>1, <2>3, <3>6, <3>7
    <2> QED BY <2>2, <2>3
  <1>8. NeedInfoStaysWithItsTarget'
    BY <1>1, <1>2, ChainStands DEF ChainSound, NeedInfoStaysWithItsTarget
  <1>9. AtTheLimitAPerson'
    BY <1>1, <1>2, ChainStands DEF ChainSound, AtTheLimitAPerson
  <1> QED BY <1>4, <1>5, <1>6, <1>7, <1>8, <1>9 DEF ChainSound

(* What a hand-off does: it settles the request and opens the next one, put   *)
(* to an actor the chain has not asked.                                      *)
LEMMA HandOffEffect ==
  ASSUME TypeOK, ChainSound, NEW w \in Sweepers, NEW id \in Ids, ExpireOne(w, id),
         GoesOn(id), PickSuccessor(id, ForceHuman(id)) # None
  PROVE  LET next == <<id[1], id[2] + 1>>
             pick == PickSuccessor(id, ForceHuman(id))
         IN  /\ next \in Ids /\ next # id /\ state[next] = "absent"
             /\ pick \in Actors /\ (id[2] + 1 >= MAX_HANDOFF_HOPS => pick \in People)
             /\ \A other \in Chain(id[1]) : target[other] # pick
             /\ state'[id] = "FAILED" /\ state'[next] = "SUBMITTED"
             /\ target'[next] = pick
             /\ \A x \in Ids \ {id, next} : state'[x] = state[x]
             /\ \A x \in Ids \ {next} : target'[x] = target[x]
             /\ \A x \in Ids \ {id} : notices'[x] = notices[x]
             /\ needInfo' = needInfo
  <1> DEFINE next == <<id[1], id[2] + 1>>
             pick == PickSuccessor(id, ForceHuman(id))
  <1>1. /\ IsOpen(id) /\ next \in Ids
        /\ state' = [state EXCEPT ![id] = "FAILED", ![next] = "SUBMITTED"]
        /\ target' = [target EXCEPT ![next] = pick]
        /\ needInfo' = needInfo
        /\ notices' = [notices EXCEPT ![id] = IF @ < 2 THEN @ + 1 ELSE @]
    BY DEF ExpireOne, HandOff, StillOverdue
  <1>2. next # id /\ next[1] = id[1] /\ next[2] > id[2]
    BY IdParts
  <1>3. state[next] = "absent" /\ target[id] \in Actors
    BY <1>1, <1>2, NextIsNew
  <1>4. ForceHuman(id) \in BOOLEAN
    BY DEF ForceHuman
  <1>5. pick \in Actors /\ Answerable(pick, id, ForceHuman(id))
    BY <1>3, <1>4, PickIsAnswerable
  <1>6. \A other \in Chain(id[1]) : target[other] # pick
    BY <1>5 DEF Answerable
  <1>9. id[2] + 1 >= MAX_HANDOFF_HOPS => pick \in People
    BY <1>5 DEF Answerable, ForceHuman
  <1> HIDE DEF next, pick
  <1>7. /\ state'[id] = "FAILED" /\ state'[next] = "SUBMITTED" /\ target'[next] = pick
        /\ \A x \in Ids \ {id, next} : state'[x] = state[x]
        /\ \A x \in Ids \ {next} : target'[x] = target[x]
        /\ \A x \in Ids \ {id} : notices'[x] = notices[x]
    BY <1>1, <1>2 DEF TypeOK
  <1>8. next \in Ids /\ needInfo' = needInfo
    BY <1>1
  <1> USE DEF next, pick
  <1> QED BY <1>2, <1>3, <1>5, <1>6, <1>7, <1>8, <1>9

LEMMA HandOffKeepsChain ==
  ASSUME TypeOK, ChainSound, NEW w \in Sweepers, NEW id \in Ids, ExpireOne(w, id),
         GoesOn(id), PickSuccessor(id, ForceHuman(id)) # None
  PROVE  ChainSound'
  <1> DEFINE r == id[1]
  <1>1. PICK next \in Ids, pick \in Actors :
            /\ next = <<id[1], id[2] + 1>>
            /\ next # id /\ state[next] = "absent"
            /\ id[2] + 1 >= MAX_HANDOFF_HOPS => pick \in People
            /\ \A other \in Chain(id[1]) : target[other] # pick
            /\ state'[id] = "FAILED" /\ state'[next] = "SUBMITTED"
            /\ target'[next] = pick
            /\ \A x \in Ids \ {id, next} : state'[x] = state[x]
            /\ \A x \in Ids \ {next} : target'[x] = target[x]
            /\ \A x \in Ids \ {id} : notices'[x] = notices[x]
            /\ needInfo' = needInfo
    BY HandOffEffect
  <1>2. IsOpen(id)
    BY DEF ExpireOne, StillOverdue
  <1>3. /\ \A b \in Ids : b[1] = r /\ b[2] > id[2] => state[b] = "absent"
        /\ state[id] # "absent" /\ state[id] \notin TERMINAL_REQUEST_STATES
    BY <1>2, NextIsNew
  <1>4. next[1] = r /\ next[2] = id[2] + 1
    BY <1>1
  <1>5. /\ Chain(r)' = Chain(r) \cup {next} /\ id \in Chain(r)
        /\ \A q : q # r => Chain(q)' = Chain(q)
    BY <1>1, <1>3, <1>4 DEF Chain
  <1>6. \A x \in Ids : state[x] \in TERMINAL_REQUEST_STATES => state'[x] = state[x]
    BY <1>1, <1>3 DEF TERMINAL_REQUEST_STATES
  <1>7. OnlyTheLastIsOpen'
    <2> SUFFICES ASSUME NEW a \in Ids, NEW b \in Ids,
                        a[1] = b[1], a[2] < b[2], state'[b] # "absent"
                 PROVE  state'[a] \in TERMINAL_REQUEST_STATES
      BY DEF OnlyTheLastIsOpen
    <2>1. CASE b = next
      <3>1. a[1] = id[1] /\ a[2] <= id[2]
        BY <1>4, <2>1, IdParts
      <3>2. CASE a = id
        BY <1>1, <3>2 DEF TERMINAL_REQUEST_STATES
      <3>3. CASE a # id
        <4>1. a[2] < id[2]
          BY <3>1, <3>3, IdParts
        <4>2. state[a] \in TERMINAL_REQUEST_STATES
          BY <1>3, <3>1, <4>1 DEF ChainSound, OnlyTheLastIsOpen
        <4> QED BY <1>6, <4>2
      <3> QED BY <3>2, <3>3
    <2>2. CASE b # next
      <3>1. state[b] # "absent"
        BY <1>1, <1>3, <2>2
      <3>2. state[a] \in TERMINAL_REQUEST_STATES
        BY <3>1 DEF ChainSound, OnlyTheLastIsOpen
      <3> QED BY <1>6, <3>2
    <2> QED BY <2>1, <2>2
  <1>8. NobodyTwice'
    <2> SUFFICES ASSUME NEW a \in Ids, NEW b \in Ids,
                        a[1] = b[1], state'[a] # "absent", state'[b] # "absent",
                        target'[a] = target'[b], a # b
                 PROVE  FALSE
      BY DEF NobodyTwice
    <2>1. \A x \in Ids : x # next /\ state'[x] # "absent" =>
              state[x] # "absent" /\ target'[x] = target[x]
      BY <1>1, <1>3
    <2>2. \A x \in Ids : x # next /\ state'[x] # "absent" /\ x[1] = r => target'[x] # pick
      BY <1>1, <2>1 DEF Chain
    <2>3. a # next /\ b # next
      BY <1>1, <1>4, <2>2
    <2> QED BY <2>1, <2>3 DEF ChainSound, NobodyTwice
  <1>9. AskedSomeone'
    BY <1>1, <1>3 DEF ChainSound, AskedSomeone
  <1>10. NoticedIsSettled'
    <2> SUFFICES ASSUME NEW x \in Ids, notices'[x] > 0
                 PROVE  state'[x] \in TERMINAL_REQUEST_STATES
      BY DEF NoticedIsSettled
    <2>1. CASE x = id
      BY <1>1, <2>1 DEF TERMINAL_REQUEST_STATES
    <2>2. CASE x # id
      BY <1>1, <1>6, <2>2 DEF ChainSound, NoticedIsSettled
    <2> QED BY <2>1, <2>2
  <1>11. DeadEndAskedAPerson'
    <2> SUFFICES ASSUME \E i \in DOMAIN TeamOwners : TeamOwners[i] \notin CannotAnswer,
                        NEW x \in Ids, notices'[x] > 0, ~IsNeedInfo(x)',
                        \A other \in Chain(x[1])' : other[2] <= x[2]
                 PROVE  \E other \in Chain(x[1])' : target'[other] \in People
      BY DEF DeadEndAskedAPerson
    <2>1. x[1] # r
      <3> SUFFICES ASSUME x[1] = r PROVE FALSE
        OBVIOUS
      <3>1. next[2] <= x[2]
        BY <1>5
      <3>2. x[2] > id[2] /\ x # id
        BY <1>4, <3>1, IdParts
      <3>3. notices[x] > 0 /\ state[x] = "absent"
        BY <1>1, <1>3, <3>2
      <3> QED BY <3>3 DEF ChainSound, NoticedIsSettled, TERMINAL_REQUEST_STATES
    <2>2. Chain(x[1])' = Chain(x[1]) /\ ~IsNeedInfo(x) /\ notices[x] > 0
      BY <1>1, <1>5, <2>1 DEF IsNeedInfo
    <2>3. PICK other \in Chain(x[1]) : target[other] \in People
      BY <2>2 DEF ChainSound, DeadEndAskedAPerson
    <2>4. target'[other] = target[other]
      BY <1>1, <1>4, <2>1, <2>3 DEF Chain
    <2> QED BY <2>2, <2>3, <2>4
  <1>12. NeedInfoStaysWithItsTarget'
    <2> SUFFICES ASSUME NEW q \in Roots, needInfo[q] PROVE Chain(q)' = {<<q, 0>>}
      BY <1>1 DEF NeedInfoStaysWithItsTarget
    <2>1. Chain(q) = {<<q, 0>>}
      BY DEF ChainSound, NeedInfoStaysWithItsTarget
    <2>2. q # r
      <3> SUFFICES ASSUME q = r PROVE FALSE
        OBVIOUS
      <3>1. id = <<q, 0>>
        BY <1>5, <2>1
      <3> QED BY <3>1 DEF GoesOn, IsNeedInfo
    <2> QED BY <1>5, <2>1, <2>2
  <1>13. AtTheLimitAPerson'
    <2> SUFFICES ASSUME NEW x \in Ids, state'[x] # "absent", x[2] >= MAX_HANDOFF_HOPS
                 PROVE  target'[x] \in People
      BY DEF AtTheLimitAPerson
    <2>1. CASE x = next
      BY <1>1, <1>4, <2>1
    <2>2. CASE x # next
      BY <1>1, <1>3, <2>2 DEF ChainSound, AtTheLimitAPerson
    <2> QED BY <2>1, <2>2
  <1> QED BY <1>7, <1>8, <1>9, <1>10, <1>11, <1>12, <1>13 DEF ChainSound

-----------------------------------------------------------------------------
(* The types under a step *)

USE DEF OPEN_STATES, CLAIMABLE_REQUEST_STATES, TERMINAL_REQUEST_STATES

LEMMA GenerationsNat == Generations \subseteq Nat /\ 0 \in Generations
  BY RequestAssumption DEF Generations

LEMMA AskingTypes ==
  ASSUME TypeOK, NEW r \in Roots, NEW t \in Actors, NEW need \in BOOLEAN, Open(r, t, need)
  PROVE  TypeOK'
  BY IdParts DEF TypeOK, Open, States

LEMMA TakeTypes ==
  ASSUME TypeOK, NEW s \in Sessions, NEW id \in Ids, Take(s, id)
  PROVE  TypeOK'
  <1>1. generation[id] + 1 \in Generations
    BY RequestAssumption DEF TypeOK, Take, Generations
  <1>2. \A x \in Ids : claim'[x] \in {0, generation'[x]}
    BY <1>1 DEF TypeOK, Take, MintClaimToken
  <1>3. token' \in [Sessions -> [Ids -> Generations]]
    BY <1>1 DEF TypeOK, Take, MintClaimToken
  <1>4. generation' \in [Ids -> Generations] /\ claim' \in [Ids -> Generations]
    BY <1>1 DEF TypeOK, Take, MintClaimToken
  <1> QED BY <1>2, <1>3, <1>4 DEF TypeOK, Take, States

LEMMA AnswerTypes ==
  ASSUME TypeOK, NEW s \in Sessions
  PROVE  /\ (\E id \in Ids : AnswerRead(s, id)) => TypeOK'
         /\ AnswerMoves(s) => TypeOK'
         /\ AnswerRefused(s) => TypeOK'
  <1>1. ASSUME NEW id \in Ids, AnswerRead(s, id) PROVE TypeOK'
    BY <1>1 DEF AnswerRead, TypeOK, Answer
  <1>2. ASSUME AnswerMoves(s) PROVE TypeOK'
    <2>1. answering[s] \in Answer
      BY <1>2 DEF AnswerMoves, TypeOK
    <2>2. PICK id \in Ids, next \in {"COMPLETED", "FAILED", "INPUT_REQUIRED"} :
              id = answering[s].id /\ next = answering[s].next
      BY <2>1 DEF Answer
    <2>3. /\ state' = [state EXCEPT ![id] = next]
          /\ answered' = [answered EXCEPT ![id] = TRUE]
          /\ claim' = [claim EXCEPT ![id] = IF next = "INPUT_REQUIRED" THEN 0 ELSE @]
          /\ live' = [live EXCEPT ![id] = @ /\ next # "INPUT_REQUIRED"]
          /\ answering' = [answering EXCEPT ![s] = None]
          /\ UNCHANGED <<target, needInfo, generation, overdue, chainOver, token, sweep, notices>>
      BY <1>2, <2>2 DEF AnswerMoves
    <2>4. live' \in [Ids -> BOOLEAN]
      BY <2>3 DEF TypeOK
    <2> QED BY <2>3, <2>4, GenerationsNat DEF TypeOK, States
  <1>3. ASSUME AnswerRefused(s) PROVE TypeOK'
    BY <1>3 DEF AnswerRefused, TypeOK
  <1> QED BY <1>1, <1>2, <1>3

LEMMA ClearTypes ==
  ASSUME TypeOK, NEW S \in SUBSET Ids, ClearClaim(S)
  PROVE  /\ claim' \in [Ids -> Generations] /\ live' \in [Ids -> BOOLEAN]
         /\ \A id \in Ids : claim'[id] \in {0, generation[id]}
  BY GenerationsNat DEF TypeOK, ClearClaim

LEMMA MoveTypes ==
  ASSUME TypeOK, NEW id \in Ids, NEW from \in SUBSET States, NEW to \in States,
         NEW comment \in BOOLEAN, Move(id, from, to, comment),
         claim' \in [Ids -> Generations], live' \in [Ids -> BOOLEAN],
         \A x \in Ids : claim'[x] \in {0, generation[x]}
  PROVE  TypeOK'
  BY DEF TypeOK, Move

LEMMA HumanTypes ==
  ASSUME TypeOK, NEW id \in Ids
  PROVE  /\ AnswerAsHuman(id) => TypeOK'
         /\ ReplyToAgentRequest(id) => TypeOK'
         /\ CancelAgentRequest(id) => TypeOK'
         /\ WithdrawNeedInfo(id) => TypeOK'
  <1>0. /\ {"SUBMITTED", "WORKING"} \in SUBSET States /\ {"INPUT_REQUIRED"} \in SUBSET States
        /\ CLAIMABLE_REQUEST_STATES \in SUBSET States
        /\ {"COMPLETED", "FAILED", "INPUT_REQUIRED", "SUBMITTED", "CANCELED"} \subseteq States
        /\ answered[id] \in BOOLEAN /\ {id} \in SUBSET Ids
    BY DEF States, TypeOK
  <1>1. ASSUME AnswerAsHuman(id) PROVE TypeOK'
    <2>1. PICK next \in {"COMPLETED", "FAILED", "INPUT_REQUIRED"} : Move(id, OPEN_STATES, next, TRUE)
      BY <1>1 DEF AnswerAsHuman
    <2> QED BY <1>0, <1>1, <2>1, ClearTypes, MoveTypes DEF AnswerAsHuman
  <1>2. ASSUME ReplyToAgentRequest(id) PROVE TypeOK'
    <2>1. UNCHANGED <<claim, live>> /\ Move(id, {"INPUT_REQUIRED"}, "SUBMITTED", FALSE)
      BY <1>2 DEF ReplyToAgentRequest
    <2>2. claim' \in [Ids -> Generations] /\ live' \in [Ids -> BOOLEAN]
          /\ \A x \in Ids : claim'[x] \in {0, generation[x]}
      BY <2>1 DEF TypeOK
    <2> QED BY <1>0, <2>1, <2>2, MoveTypes
  <1>3. ASSUME CancelAgentRequest(id) PROVE TypeOK'
    <2>1. UNCHANGED <<claim, live>> /\ Move(id, CLAIMABLE_REQUEST_STATES, "CANCELED", answered[id])
      BY <1>3 DEF CancelAgentRequest
    <2>2. claim' \in [Ids -> Generations] /\ live' \in [Ids -> BOOLEAN]
          /\ \A x \in Ids : claim'[x] \in {0, generation[x]}
      BY <2>1 DEF TypeOK
    <2> QED BY <1>0, <2>1, <2>2, MoveTypes
  <1>4. ASSUME WithdrawNeedInfo(id) PROVE TypeOK'
    BY <1>0, <1>4, ClearTypes, MoveTypes DEF WithdrawNeedInfo
  <1> QED BY <1>1, <1>2, <1>3, <1>4

LEMMA CommentTypes ==
  ASSUME TypeOK, NEW t \in Actors, AnswerNeedInfoByComment(t)
  PROVE  TypeOK'
  <1> DEFINE hit == {id \in Ids : IsNeedInfo(id) /\ state[id] \in OPEN_STATES /\ target[id] = t}
             oldest == {id \in hit : \A other \in hit : id[1] <= other[1]}
  <1>1. /\ state' = [id \in Ids |-> IF id \in hit THEN "COMPLETED" ELSE state[id]]
        /\ answered' = [id \in Ids |-> IF id \in hit THEN id \in oldest ELSE answered[id]]
        /\ ClearClaim(hit)
        /\ UNCHANGED <<target, needInfo, generation, overdue, chainOver, token, answering, sweep, notices>>
    BY DEF AnswerNeedInfoByComment
  <1> HIDE DEF oldest
  <1>2. hit \in SUBSET Ids
    OBVIOUS
  <1> HIDE DEF hit
  <1>3. state' \in [Ids -> States \cup {"absent"}]
    BY <1>1 DEF TypeOK, States
  <1>4. answered' \in [Ids -> BOOLEAN]
    <2>1. \A id \in Ids : (id \in oldest) \in BOOLEAN /\ answered[id] \in BOOLEAN
      BY DEF TypeOK
    <2> QED BY <1>1, <2>1, Zenon
  <1> QED BY <1>1, <1>2, <1>3, <1>4, ClearTypes DEF TypeOK

LEMMA SweepTypes ==
  ASSUME TypeOK, ChainSound, NEW w \in Sweepers
  PROVE  /\ SweepStart(w) => TypeOK'
         /\ \A id \in Ids : ExpireOne(w, id) => TypeOK'
         /\ \A id \in Ids : ExpireSkip(w, id) => TypeOK'
  <1>1. ASSUME SweepStart(w) PROVE TypeOK'
    BY <1>1 DEF SweepStart, TypeOK
  <1>2. ASSUME NEW id \in Ids, ExpireOne(w, id) PROVE TypeOK'
    <2>1. notices' \in [Ids -> 0 .. 2] /\ sweep' \in [Sweepers -> SUBSET Ids]
      BY <1>2 DEF ExpireOne, TypeOK
    <2>2. /\ state' \in [Ids -> States \cup {"absent"}]
          /\ target' \in [Ids -> Actors \cup {None}]
          /\ overdue' \in [Ids -> BOOLEAN]
      <3>1. CASE ~GoesOn(id) \/ PickSuccessor(id, ForceHuman(id)) = None
        BY <1>2, <3>1 DEF ExpireOne, HandOff, TypeOK, States
      <3>2. CASE GoesOn(id) /\ PickSuccessor(id, ForceHuman(id)) # None
        <4> DEFINE next == <<id[1], id[2] + 1>>
                   pick == PickSuccessor(id, ForceHuman(id))
        <4>1. next \in Ids /\ pick \in Actors
          BY <1>2, <3>2, HandOffEffect
        <4>2. /\ state' = [state EXCEPT ![id] = "FAILED", ![next] = "SUBMITTED"]
              /\ target' = [target EXCEPT ![next] = pick]
              /\ overdue' = [overdue EXCEPT ![next] = pick \in Agents /\ chainOver[id[1]]]
          BY <1>2, <3>2 DEF ExpireOne, HandOff
        <4> HIDE DEF next, pick
        <4> QED BY <4>1, <4>2 DEF TypeOK, States
      <3> QED BY <3>1, <3>2
    <2> QED BY <1>2, <2>1, <2>2 DEF ExpireOne, TypeOK
  <1>3. ASSUME NEW id \in Ids, ExpireSkip(w, id) PROVE TypeOK'
    BY <1>3 DEF ExpireSkip, TypeOK
  <1> QED BY <1>1, <1>2, <1>3

LEMMA TimeTypes ==
  ASSUME TypeOK, Time
  PROVE  TypeOK'
  <1>1. ASSUME NEW id \in Ids, LeaseLapses(id) PROVE TypeOK'
    BY <1>1 DEF LeaseLapses, TypeOK
  <1>2. ASSUME NEW id \in Ids, DeadlinePasses(id) PROVE TypeOK'
    BY <1>2 DEF DeadlinePasses, TypeOK
  <1>3. ASSUME NEW r \in Roots, ChainRunsOut(r) PROVE TypeOK'
    BY <1>3 DEF ChainRunsOut, TypeOK
  <1> QED BY <1>1, <1>2, <1>3 DEF Time

-----------------------------------------------------------------------------
(* The invariant *)

(* Every step but a new question and an expiry leaves the chains as they are. *)
LEMMA OthersMoveOpenOnes ==
  ASSUME TypeOK
  PROVE  /\ \A s \in Sessions :
               /\ AnswerMoves(s) => OpenOnesMove
               /\ \A id \in Ids : Take(s, id) => OpenOnesMove
         /\ Humans => OpenOnesMove
  <1>1. ASSUME NEW s \in Sessions, AnswerMoves(s) PROVE OpenOnesMove
    <2>1. answering[s] \in Answer
      BY <1>1 DEF AnswerMoves, TypeOK
    <2>2. PICK id \in Ids, next \in States : id = answering[s].id /\ next = answering[s].next
      BY <2>1 DEF Answer, States
    <2>3. state' = [state EXCEPT ![id] = next] /\ IsOpen(id)
      BY <1>1, <2>2 DEF AnswerMoves, StillHeld
    <2> QED BY <2>3 DEF OpenOnesMove, TypeOK
  <1>2. ASSUME NEW s \in Sessions, NEW id \in Ids, Take(s, id) PROVE OpenOnesMove
    BY <1>2 DEF Take, CanTake, OpenOnesMove, TypeOK, States
  <1>3. ASSUME NEW id \in Ids, NEW from \in SUBSET CLAIMABLE_REQUEST_STATES, NEW to \in States,
               NEW comment, Move(id, from, to, comment)
        PROVE  OpenOnesMove
    BY <1>3 DEF Move, OpenOnesMove, TypeOK, IsOpen
  <1>4. ASSUME Humans PROVE OpenOnesMove
    <2>1. ASSUME NEW id \in Ids, AnswerAsHuman(id) PROVE OpenOnesMove
      BY <1>3, <2>1 DEF AnswerAsHuman, States
    <2>2. ASSUME NEW id \in Ids, ReplyToAgentRequest(id) PROVE OpenOnesMove
      BY <1>3, <2>2 DEF ReplyToAgentRequest, States
    <2>3. ASSUME NEW id \in Ids, CancelAgentRequest(id) PROVE OpenOnesMove
      BY <1>3, <2>3 DEF CancelAgentRequest, States
    <2>4. ASSUME NEW id \in Ids, WithdrawNeedInfo(id) PROVE OpenOnesMove
      BY <1>3, <2>4 DEF WithdrawNeedInfo, States
    <2>5. ASSUME NEW t \in Actors, AnswerNeedInfoByComment(t) PROVE OpenOnesMove
      BY <2>5 DEF AnswerNeedInfoByComment, OpenOnesMove, IsOpen, States
    <2> QED BY <1>4, <2>1, <2>2, <2>3, <2>4, <2>5 DEF Humans
  <1> QED BY <1>1, <1>2, <1>4

LEMMA InitSound == Init => RequestSound
  <1> SUFFICES ASSUME Init PROVE RequestSound
    OBVIOUS
  <1>1. TypeOK
    BY GenerationsNat DEF Init, TypeOK
  <1>2. \A id \in Ids : state[id] = "absent" /\ notices[id] = 0
    BY DEF Init
  <1>3. OnlyTheLastIsOpen /\ NobodyTwice /\ AskedSomeone
    BY <1>2 DEF OnlyTheLastIsOpen, NobodyTwice, AskedSomeone
  <1>4. NoticedIsSettled /\ DeadEndAskedAPerson
    BY <1>2 DEF NoticedIsSettled, DeadEndAskedAPerson
  <1>6. AtTheLimitAPerson
    BY <1>2 DEF AtTheLimitAPerson
  <1>5. NeedInfoStaysWithItsTarget
    BY DEF Init, NeedInfoStaysWithItsTarget
  <1> QED BY <1>1, <1>3, <1>4, <1>5, <1>6 DEF RequestSound, ChainSound

LEMMA StepKeeps == RequestSound /\ [Next]_vars => RequestSound'
  <1> SUFFICES ASSUME TypeOK, ChainSound, [Next]_vars PROVE TypeOK' /\ ChainSound'
    BY DEF RequestSound
  <1>0. ASSUME UNCHANGED <<state, target, needInfo, notices>> PROVE ChainSound'
    <2>1. OpenOnesMove
      BY <1>0 DEF OpenOnesMove
    <2> QED BY <1>0, <2>1, MoveKeepsChain
  <1>1. CASE UNCHANGED vars
    <2>1. TypeOK'
      BY <1>1 DEF vars, TypeOK
    <2> QED BY <1>0, <1>1, <2>1 DEF vars
  <1>2. CASE Asking
    <2>1. PICK r \in Roots, t \in Actors, need \in BOOLEAN : Open(r, t, need)
      BY <1>2 DEF Asking, OpenFromMention, RequestNeedInfo
    <2> QED BY <2>1, AskingTypes, OpenKeepsChain
  <1>3. CASE Executing
    <2>1. PICK s \in Sessions :
              \/ AnswerMoves(s) \/ AnswerRefused(s)
              \/ \E id \in Ids : Renew(s, id) \/ Take(s, id) \/ AnswerRead(s, id)
      BY <1>3 DEF Executing
    <2>2. CASE AnswerMoves(s)
      BY <2>2, AnswerTypes, OthersMoveOpenOnes, MoveKeepsChain DEF AnswerMoves
    <2>3. CASE AnswerRefused(s)
      BY <1>0, <2>3, AnswerTypes DEF AnswerRefused
    <2>4. ASSUME NEW id \in Ids, Renew(s, id) PROVE TypeOK' /\ ChainSound'
      BY <1>1, <2>4 DEF Renew
    <2>5. ASSUME NEW id \in Ids, Take(s, id) PROVE TypeOK' /\ ChainSound'
      BY <2>5, TakeTypes, OthersMoveOpenOnes, MoveKeepsChain DEF Take
    <2>6. ASSUME NEW id \in Ids, AnswerRead(s, id) PROVE TypeOK' /\ ChainSound'
      BY <1>0, <2>6, AnswerTypes DEF AnswerRead
    <2> QED BY <2>1, <2>2, <2>3, <2>4, <2>5, <2>6
  <1>4. CASE Humans
    <2>1. UNCHANGED <<target, needInfo, notices>>
      BY <1>4 DEF Humans, AnswerAsHuman, ReplyToAgentRequest, CancelAgentRequest,
                  WithdrawNeedInfo, AnswerNeedInfoByComment, Move
    <2>2. TypeOK'
      BY <1>4, HumanTypes, CommentTypes DEF Humans
    <2> QED BY <1>4, <2>1, <2>2, OthersMoveOpenOnes, MoveKeepsChain
  <1>5. CASE \E w \in Sweepers : Sweep(w)
    <2>1. PICK w \in Sweepers : Sweep(w)
      BY <1>5
    <2>2. CASE SweepStart(w)
      BY <1>0, <2>2, SweepTypes DEF SweepStart
    <2>3. ASSUME NEW id \in Ids, ExpireOne(w, id) PROVE TypeOK' /\ ChainSound'
      BY <2>3, SweepTypes, ExpireLastKeepsChain, HandOffKeepsChain
    <2>4. ASSUME NEW id \in Ids, ExpireSkip(w, id) PROVE TypeOK' /\ ChainSound'
      BY <1>0, <2>4, SweepTypes DEF ExpireSkip
    <2> QED BY <2>1, <2>2, <2>3, <2>4 DEF Sweep
  <1>6. CASE Time
    <2>1. UNCHANGED <<state, target, needInfo, notices>>
      BY <1>6 DEF Time, LeaseLapses, DeadlinePasses, ChainRunsOut
    <2> QED BY <1>0, <1>6, <2>1, TimeTypes
  <1> QED BY <1>1, <1>2, <1>3, <1>4, <1>5, <1>6 DEF Next

LEMMA RequestInvariant == Spec => []RequestSound
  <1>1. Init => RequestSound
    BY InitSound
  <1>2. RequestSound /\ [Next]_vars => RequestSound'
    BY StepKeeps
  <1> QED BY <1>1, <1>2, PTL DEF Spec

-----------------------------------------------------------------------------
(* What the requests guarantee *)

(* At most one request of a chain is open.                                   *)
LEMMA SoundImpliesInv == RequestSound => RequestInv
  <1> SUFFICES ASSUME RequestSound PROVE RequestInv
    OBVIOUS
  <1>1. OneActorAtATime
    <2> SUFFICES ASSUME NEW r \in Roots
                 PROVE  /\ Cardinality({id \in Chain(r) : IsOpen(id)}) <= 1
                        /\ \A id, other \in Chain(r) : target[id] = target[other] => id = other
      BY DEF OneActorAtATime
    <2> DEFINE S == {id \in Chain(r) : IsOpen(id)}
    <2>1. \A x, y \in S : x = y
      <3> SUFFICES ASSUME NEW x \in S, NEW y \in S PROVE x = y
        OBVIOUS
      <3>1. x \in Ids /\ y \in Ids /\ x[1] = r /\ y[1] = r
        BY DEF Chain
      <3>2. state[x] \notin TERMINAL_REQUEST_STATES /\ state[y] \notin TERMINAL_REQUEST_STATES
        BY DEF IsOpen
      <3>3. state[x] # "absent" /\ state[y] # "absent"
        BY DEF IsOpen
      <3>4. x[2] = y[2]
        BY <3>1, <3>2, <3>3, IdParts DEF RequestSound, ChainSound, OnlyTheLastIsOpen
      <3> QED BY <3>1, <3>4, IdParts
    <2>2. Cardinality(S) <= 1
      <3>1. CASE S = {}
        BY <3>1, FS_EmptySet
      <3>2. CASE S # {}
        <4>1. PICK x : S = {x}
          BY <2>1, <3>2
        <4>2. Cardinality({x}) = 1
          BY FS_Singleton, Zenon
        <4> HIDE DEF S
        <4> QED BY <4>1, <4>2
      <3> QED BY <3>1, <3>2
    <2>3. \A id, other \in Chain(r) : target[id] = target[other] => id = other
      BY DEF RequestSound, ChainSound, NobodyTwice, Chain
    <2> QED BY <2>2, <2>3
  <1> QED BY <1>1 DEF RequestInv, RequestSound, ChainSound

(* Whatever successors the actors declare, a question is with one actor at a  *)
(* time and with nobody twice, people only are asked from the hop limit on, a  *)
(* chain that lapses has asked a person if the team has one to ask, and a      *)
(* needinfo stays with the person it names.                                  *)
THEOREM AChainAsksInTurn == Spec => []RequestInv
  BY RequestInvariant, SoundImpliesInv, PTL

(* A step leaves a settled request, its answer and its notices alone.         *)
LEMMA SettledStep ==
  ASSUME RequestSound, [Next]_vars, NEW id \in Ids, state[id] \in TERMINAL_REQUEST_STATES
  PROVE  state'[id] = state[id] /\ answered'[id] = answered[id] /\ notices'[id] = notices[id]
  <1>0. TypeOK /\ ChainSound /\ ~IsOpen(id)
    BY DEF RequestSound, IsOpen
  <1>1. CASE UNCHANGED vars
    BY <1>1 DEF vars
  <1>2. CASE Asking
    <2>1. PICK r \in Roots, t \in Actors, need \in BOOLEAN : Open(r, t, need)
      BY <1>2 DEF Asking, OpenFromMention, RequestNeedInfo
    <2> QED BY <1>0, <2>1, IdParts DEF Open, TypeOK
  <1>3. CASE Executing
    <2>1. PICK s \in Sessions :
              \/ AnswerMoves(s) \/ AnswerRefused(s)
              \/ \E x \in Ids : Renew(s, x) \/ Take(s, x) \/ AnswerRead(s, x)
      BY <1>3 DEF Executing
    <2>2. CASE AnswerMoves(s)
      <3>1. answering[s] \in Answer
        BY <1>0, <2>2 DEF AnswerMoves, TypeOK
      <3>2. PICK x \in Ids, next \in States : x = answering[s].id /\ next = answering[s].next
        BY <3>1 DEF Answer, States
      <3>3. /\ state' = [state EXCEPT ![x] = next] /\ IsOpen(x)
            /\ answered' = [answered EXCEPT ![x] = TRUE] /\ notices' = notices
        BY <2>2, <3>2 DEF AnswerMoves, StillHeld
      <3> QED BY <1>0, <3>3 DEF TypeOK
    <2>3. CASE AnswerRefused(s)
      BY <2>3 DEF AnswerRefused
    <2>4. ASSUME NEW x \in Ids, Renew(s, x) \/ AnswerRead(s, x)
          PROVE  UNCHANGED <<state, answered, notices>>
      BY <2>4 DEF Renew, AnswerRead, vars
    <2>5. ASSUME NEW x \in Ids, Take(s, x)
          PROVE  state'[id] = state[id] /\ UNCHANGED <<answered, notices>>
      BY <1>0, <2>5 DEF Take, CanTake, TypeOK
    <2> QED BY <2>1, <2>2, <2>3, <2>4, <2>5
  <1>4. CASE Humans
    <2>1. ASSUME NEW x \in Ids, NEW from \in SUBSET CLAIMABLE_REQUEST_STATES, NEW to,
                 NEW comment, Move(x, from, to, comment)
          PROVE  /\ state'[id] = state[id] /\ answered'[id] = answered[id]
                 /\ notices'[id] = notices[id]
      BY <1>0, <2>1 DEF Move, TypeOK, IsOpen
    <2>2. ASSUME NEW x \in Ids,
                 \/ AnswerAsHuman(x) \/ ReplyToAgentRequest(x)
                 \/ CancelAgentRequest(x) \/ WithdrawNeedInfo(x)
          PROVE  /\ state'[id] = state[id] /\ answered'[id] = answered[id]
                 /\ notices'[id] = notices[id]
      BY <2>1, <2>2 DEF AnswerAsHuman, ReplyToAgentRequest, CancelAgentRequest, WithdrawNeedInfo
    <2>3. ASSUME NEW t \in Actors, AnswerNeedInfoByComment(t)
          PROVE  /\ state'[id] = state[id] /\ answered'[id] = answered[id]
                 /\ notices'[id] = notices[id]
      BY <1>0, <2>3 DEF AnswerNeedInfoByComment, IsOpen
    <2> QED BY <1>4, <2>2, <2>3 DEF Humans
  <1>5. CASE \E w \in Sweepers : Sweep(w)
    <2>1. PICK w \in Sweepers : Sweep(w)
      BY <1>5
    <2>2. ASSUME NEW x \in Ids, ExpireOne(w, x)
          PROVE  state'[id] = state[id] /\ notices'[id] = notices[id] /\ answered' = answered
      <3>1. x # id /\ answered' = answered /\ notices'[id] = notices[id]
        BY <1>0, <2>2 DEF ExpireOne, StillOverdue, TypeOK
      <3>2. CASE ~GoesOn(x) \/ PickSuccessor(x, ForceHuman(x)) = None
        BY <1>0, <2>2, <3>1, <3>2 DEF ExpireOne, HandOff, TypeOK
      <3>3. CASE GoesOn(x) /\ PickSuccessor(x, ForceHuman(x)) # None
        BY <1>0, <2>2, <3>1, <3>3, HandOffEffect
      <3> QED BY <3>1, <3>2, <3>3
    <2>3. ASSUME SweepStart(w) \/ \E x \in Ids : ExpireSkip(w, x)
          PROVE  UNCHANGED <<state, answered, notices>>
      BY <2>3 DEF SweepStart, ExpireSkip
    <2> QED BY <2>1, <2>2, <2>3 DEF Sweep
  <1>6. CASE Time
    BY <1>6 DEF Time, LeaseLapses, DeadlinePasses, ChainRunsOut
  <1> QED BY <1>1, <1>2, <1>3, <1>4, <1>5, <1>6 DEF Next

(* The outcome of a request is final: no execution, person or sweep that had  *)
(* read it while it was open moves it, its answer or its notice afterwards.   *)
THEOREM ASettledRequestStays == Spec => SettledForGood
  <1>1. RequestSound /\ [Next]_vars =>
          [\A id \in Ids : state[id] \in TERMINAL_REQUEST_STATES =>
              state'[id] = state[id] /\ answered'[id] = answered[id] /\ notices'[id] = notices[id]]_vars
    BY SettledStep
  <1> QED BY <1>1, RequestInvariant, PTL DEF Spec, SettledForGood

(* Only AnswerMoves and AnswerRefused end an answer, and only the first moves *)
(* the request, under the claim of its newest generation.                     *)
LEMMA NewestStep ==
  ASSUME RequestSound, [Next]_vars, NEW s \in Sessions, answering[s] # None,
         answering'[s] = None, state'[answering[s].id] # state[answering[s].id]
  PROVE  token[s][answering[s].id] = generation[answering[s].id]
  <1>0. TypeOK /\ answering[s] \in Answer /\ answering[s].id \in Ids
    BY DEF RequestSound, TypeOK, Answer
  <1>1. AnswerMoves(s)
    <2>1. CASE UNCHANGED vars
      BY <2>1 DEF vars
    <2>2. CASE Asking
      BY <2>2 DEF Asking, OpenFromMention, RequestNeedInfo, Open
    <2>3. CASE Executing
      <3>1. PICK v \in Sessions :
                \/ AnswerMoves(v) \/ AnswerRefused(v)
                \/ \E id \in Ids : Renew(v, id) \/ Take(v, id) \/ AnswerRead(v, id)
        BY <2>3 DEF Executing
      <3>2. CASE AnswerMoves(v)
        <4>1. v = s
          BY <1>0, <3>2 DEF AnswerMoves, TypeOK
        <4> QED BY <3>2, <4>1
      <3>3. CASE AnswerRefused(v)
        BY <3>3 DEF AnswerRefused
      <3>4. ASSUME NEW id \in Ids, Renew(v, id) \/ Take(v, id) \/ AnswerRead(v, id)
            PROVE  state' = state \/ answering' = answering
        BY <3>4 DEF Renew, Take, AnswerRead, vars
      <3> QED BY <3>1, <3>2, <3>3, <3>4
    <2>4. CASE Humans
      BY <2>4 DEF Humans, AnswerAsHuman, ReplyToAgentRequest, CancelAgentRequest,
                  WithdrawNeedInfo, AnswerNeedInfoByComment, Move
    <2>5. CASE \E w \in Sweepers : Sweep(w)
      BY <2>5 DEF Sweep, SweepStart, ExpireOne, ExpireSkip
    <2>6. CASE Time
      BY <2>6 DEF Time, LeaseLapses, DeadlinePasses, ChainRunsOut
    <2> QED BY <2>1, <2>2, <2>3, <2>4, <2>5, <2>6 DEF Next
  <1>2. HoldsClaim(s, answering[s].id)
    BY <1>1 DEF AnswerMoves, StillHeld
  <1> QED BY <1>0, <1>2 DEF HoldsClaim, TypeOK

(* An answer that moves a request is its newest execution's: a session that   *)
(* slept through another's claim is refused, whatever it had read.            *)
THEOREM TheNewestExecutionAnswers == Spec => NewestExecutionAnswers
  <1>1. RequestSound /\ [Next]_vars =>
          [\A s \in Sessions :
              (answering[s] # None /\ answering'[s] = None
                 /\ state'[answering[s].id] # state[answering[s].id]) =>
              token[s][answering[s].id] = generation[answering[s].id]]_vars
    BY NewestStep
  <1> QED BY <1>1, RequestInvariant, PTL DEF Spec, NewestExecutionAnswers
=============================================================================
