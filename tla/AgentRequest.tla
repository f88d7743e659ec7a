---------------------------- MODULE AgentRequest ----------------------------
(***************************************************************************)
(* The agent request ledger: a question put to one actor, with a state, a    *)
(* claim and a deadline.  Executions (sessions) of the target agent claim,   *)
(* renew and answer with a token; people answer, reply, cancel and withdraw; *)
(* every server sweeps overdue requests and hands them to a successor in a   *)
(* new request of the same chain.                                           *)
(*                                                                         *)
(* A request is named <<root, hop>>: the chain it belongs to and its         *)
(* hopCount.  All requests are on one work item.  A claim token is the claim *)
(* generation that minted it; 0 stands for null.  Time is what the code      *)
(* compares: a lease is live, a deadline is overdue, a chain is over.        *)
(* Delegation between agents, which also opens requests, is not modelled.    *)
(***************************************************************************)
EXTENDS Integers, FiniteSets, Sequences

CONSTANTS
    Agents, People,        \* the actors that can be asked
    Successor, OwnerOf,    \* User.successorActorId and User.ownerId, or None
    TeamOwners,            \* the team's human owners, oldest membership first, at most five
    CannotAnswer,          \* deactivated, or without the right to answer on the team
    Sessions, ActorOf,     \* executions, and the agent whose credential each carries
    Sweepers,              \* sweeps that may overlap
    NeedInfoTargets,       \* whom a needinfo may be addressed to
    MaxRoots,              \* bound: chains opened by a person
    MaxHop,                \* bound: hand-offs of a chain, enough to ask every actor once
    MaxGeneration,         \* bound: claims taken of a request
    MAX_HANDOFF_HOPS, EXPIRY_BATCH_SIZE,
    None

Actors == Agents \cup People
Roots == 1 .. MaxRoots
Ids == Roots \X (0 .. MaxHop)
Generations == 0 .. MaxGeneration

OPEN_STATES == {"SUBMITTED", "WORKING"}
CLAIMABLE_REQUEST_STATES == OPEN_STATES \cup {"INPUT_REQUIRED"}
TERMINAL_REQUEST_STATES == {"COMPLETED", "FAILED", "CANCELED"}
States == CLAIMABLE_REQUEST_STATES \cup TERMINAL_REQUEST_STATES

ASSUME RequestAssumption ==
    /\ Agents \cap People = {} /\ None \notin Actors
    /\ Successor \in [Actors -> Actors \cup {None}]
    /\ OwnerOf \in [Actors -> People \cup {None}]
    /\ TeamOwners \in Seq(People)
    /\ CannotAnswer \subseteq Actors
    /\ ActorOf \in [Sessions -> Agents]
    /\ NeedInfoTargets \subseteq Actors
    /\ MaxRoots \in Nat /\ MaxHop \in Nat /\ MaxGeneration \in Nat
    /\ IsFiniteSet(Actors) /\ MaxHop + 1 >= Cardinality(Actors)
    /\ MAX_HANDOFF_HOPS \in Nat \ {0} /\ EXPIRY_BATCH_SIZE \in Nat \ {0}

VARIABLES
    state,        \* AgentRequest.state, or "absent" before the row exists
    target,       \* targetActorId
    needInfo,     \* needInfo of each chain's first request
    generation,   \* claimGeneration
    claim,        \* claimTokenHash, set and cleared together with claimedBy
    live,         \* claimExpiresAt is in the future
    overdue,      \* deadlineAt has passed
    chainOver,    \* chainDeadlineAt has passed
    answered,     \* answeredCommentId is set
    token,        \* the claim token each session keeps for each request
    answering,    \* the answer each session has read its request for
    sweep,        \* the overdue requests each sweep has still to settle
    notices       \* ghost: expiry notices posted for each request, counted to 2

vars == <<state, target, needInfo, generation, claim, live, overdue, chainOver, answered,
          token, answering, sweep, notices>>

Answer == [id : Ids, next : {"COMPLETED", "FAILED", "INPUT_REQUIRED"}]

TypeOK ==
    /\ state \in [Ids -> States \cup {"absent"}]
    /\ target \in [Ids -> Actors \cup {None}]
    /\ needInfo \in [Roots -> BOOLEAN]
    /\ generation \in [Ids -> Generations]
    /\ claim \in [Ids -> Generations] /\ \A id \in Ids : claim[id] \in {0, generation[id]}
    /\ live \in [Ids -> BOOLEAN]
    /\ overdue \in [Ids -> BOOLEAN]
    /\ chainOver \in [Roots -> BOOLEAN]
    /\ answered \in [Ids -> BOOLEAN]
    /\ token \in [Sessions -> [Ids -> Generations]]
    /\ answering \in [Sessions -> Answer \cup {None}]
    /\ sweep \in [Sweepers -> SUBSET Ids]
    /\ notices \in [Ids -> 0 .. 2]

IsOpen(id) == state[id] \in CLAIMABLE_REQUEST_STATES
Chain(r) == {id \in Ids : id[1] = r /\ state[id] # "absent"}
IsNeedInfo(id) == id[2] = 0 /\ needInfo[id[1]]

-----------------------------------------------------------------------------
(* Opening a request.                                                       *)

Open(r, t, need) ==
    /\ state[<<r, 0>>] = "absent"
    /\ \A q \in 1 .. r - 1 : state[<<q, 0>>] # "absent"     \* chains are numbered by createdAt
    /\ state' = [state EXCEPT ![<<r, 0>>] = "SUBMITTED"]
    /\ target' = [target EXCEPT ![<<r, 0>>] = t]
    /\ needInfo' = [needInfo EXCEPT ![r] = need]
    /\ UNCHANGED <<generation, claim, live, overdue, chainOver, answered, token, answering, sweep, notices>>

(* A person mentions an agent in a comment (openAgentRequestsForMentions).   *)
OpenFromMention(r, t) == t \in Agents /\ Open(r, t, FALSE)

(* requestNeedInfo refuses a second open needinfo to the same target.  Its    *)
(* check takes no lock; no property relies on it.                            *)
RequestNeedInfo(r, t) ==
    /\ t \in NeedInfoTargets \ CannotAnswer
    /\ ~\E id \in Ids : IsNeedInfo(id) /\ state[id] \in OPEN_STATES /\ target[id] = t
    /\ Open(r, t, TRUE)

-----------------------------------------------------------------------------
(* The target agent's executions.                                           *)

HoldsClaim(s, id) == token[s][id] # 0 /\ claim[id] = token[s][id] /\ target[id] = ActorOf[s]

CanRenew(s, id) == HoldsClaim(s, id) /\ live[id] /\ IsOpen(id)

Renew(s, id) ==
    /\ CanRenew(s, id)
    /\ UNCHANGED vars     \* claimExpiresAt moves on; the lease is live before and after

(* claimAgentRequest without a token that renews: unclaimed, or lapsed.      *)
CanTake(s, id) == target[id] = ActorOf[s] /\ IsOpen(id) /\ (claim[id] = 0 \/ ~live[id])

(* The token of a new generation.                                           *)
MintClaimToken(id) == generation[id] + 1

Take(s, id) ==
    /\ ~CanRenew(s, id) /\ CanTake(s, id)
    /\ answering[s] = None
    /\ generation[id] < MaxGeneration
    /\ generation' = [generation EXCEPT ![id] = @ + 1]
    /\ claim' = [claim EXCEPT ![id] = MintClaimToken(id)]
    /\ token' = [token EXCEPT ![s][id] = MintClaimToken(id)]
    /\ live' = [live EXCEPT ![id] = TRUE]
    /\ state' = [state EXCEPT ![id] = "WORKING"]
    /\ UNCHANGED <<target, needInfo, overdue, chainOver, answered, answering, sweep, notices>>

(* answerAgentRequest reads the row and checks the claim and its lease ...   *)
AnswerRead(s, id) ==
    /\ answering[s] = None
    /\ state[id] \notin TERMINAL_REQUEST_STATES
    /\ HoldsClaim(s, id) /\ live[id]
    /\ \E next \in {"COMPLETED", "FAILED", "INPUT_REQUIRED"} :
          answering' = [answering EXCEPT ![s] = [id |-> id, next |-> next]]
    /\ UNCHANGED <<state, target, needInfo, generation, claim, live, overdue, chainOver, answered,
                   token, sweep, notices>>

(* ... and moves it by compare-and-set, which other transactions may have    *)
(* made fail since; asking back hands the claim over.                        *)
ActorHoldsClaim(s, id) == claim[id] # 0 /\ target[id] = ActorOf[s] /\ IsOpen(id)
StillHeld(s, id) == HoldsClaim(s, id) /\ IsOpen(id)

AnswerMoves(s) ==
    /\ answering[s] # None
    /\ LET id == answering[s].id
           next == answering[s].next
       IN  /\ StillHeld(s, id)
           /\ state' = [state EXCEPT ![id] = next]
           /\ answered' = [answered EXCEPT ![id] = TRUE]
           /\ claim' = [claim EXCEPT ![id] = IF next = "INPUT_REQUIRED" THEN 0 ELSE @]
           /\ live' = [live EXCEPT ![id] = @ /\ next # "INPUT_REQUIRED"]
    /\ answering' = [answering EXCEPT ![s] = None]
    /\ UNCHANGED <<target, needInfo, generation, overdue, chainOver, token, sweep, notices>>

AnswerRefused(s) ==
    /\ answering[s] # None
    /\ ~StillHeld(s, answering[s].id)
    /\ answering' = [answering EXCEPT ![s] = None]
    /\ UNCHANGED <<state, target, needInfo, generation, claim, live, overdue, chainOver, answered,
                   token, sweep, notices>>

-----------------------------------------------------------------------------
(* People.  The read each of these makes first is implied by its            *)
(* compare-and-set, so each is one step.                                     *)

Move(id, from, to, comment) ==
    /\ state[id] \in from
    /\ state' = [state EXCEPT ![id] = to]
    /\ answered' = [answered EXCEPT ![id] = comment]
    /\ UNCHANGED <<target, needInfo, generation, overdue, chainOver, token, answering, sweep, notices>>

ClearClaim(S) ==
    /\ claim' = [id \in Ids |-> IF id \in S THEN 0 ELSE claim[id]]
    /\ live' = [id \in Ids |-> live[id] /\ id \notin S]

(* The person asked, or an administrator for anyone.                         *)
AnswerAsHuman(id) ==
    /\ \E next \in {"COMPLETED", "FAILED", "INPUT_REQUIRED"} : Move(id, OPEN_STATES, next, TRUE)
    /\ ClearClaim({id})

ReplyToAgentRequest(id) ==
    /\ Move(id, {"INPUT_REQUIRED"}, "SUBMITTED", FALSE)
    /\ UNCHANGED <<claim, live>>

CancelAgentRequest(id) ==
    /\ Move(id, CLAIMABLE_REQUEST_STATES, "CANCELED", answered[id])
    /\ UNCHANGED <<claim, live>>

WithdrawNeedInfo(id) ==
    /\ IsNeedInfo(id)
    /\ Move(id, CLAIMABLE_REQUEST_STATES, "CANCELED", answered[id])
    /\ ClearClaim({id})

(* A comment the target writes on the work answers every needinfo open to    *)
(* them; answeredCommentId is unique, so the oldest request takes it.        *)
AnswerNeedInfoByComment(t) ==
    LET hit == {id \in Ids : IsNeedInfo(id) /\ state[id] \in OPEN_STATES /\ target[id] = t}
        oldest == {id \in hit : \A other \in hit : id[1] <= other[1]}
    IN  /\ hit # {}
        /\ state' = [id \in Ids |-> IF id \in hit THEN "COMPLETED" ELSE state[id]]
        /\ answered' = [id \in Ids |-> IF id \in hit THEN id \in oldest ELSE answered[id]]
        /\ ClearClaim(hit)
        /\ UNCHANGED <<target, needInfo, generation, overdue, chainOver, token, answering, sweep, notices>>

-----------------------------------------------------------------------------
(* Expiry and hand-off.                                                     *)

(* expireOverdueAgentRequests reads a batch of overdue requests, then        *)
(* settles each one in its own transaction.                                  *)
SweepStart(w) ==
    LET late == {id \in Ids : IsOpen(id) /\ overdue[id]} IN
    /\ sweep[w] = {} /\ late # {}
    /\ \E batch \in SUBSET late :
          /\ batch # {} /\ Cardinality(batch) <= EXPIRY_BATCH_SIZE
          /\ batch = late \/ Cardinality(batch) = EXPIRY_BATCH_SIZE
          /\ sweep' = [sweep EXCEPT ![w] = batch]
    /\ UNCHANGED <<state, target, needInfo, generation, claim, live, overdue, chainOver, answered,
                   token, answering, notices>>

AnyAnswerable(a, id, forceHuman) ==
    a # None /\ a \notin CannotAnswer /\ (forceHuman => a \in People)
Answerable(a, id, forceHuman) ==
    /\ a # None
    /\ a \notin {target[other] : other \in Chain(id[1])}     \* visited
    /\ a \notin CannotAnswer
    /\ forceHuman => a \in People

(* pickSuccessor: the declared successor, the owner, then the team's owners. *)
Candidates(id) == <<Successor[target[id]], OwnerOf[target[id]]>> \o TeamOwners

PickSuccessor(id, forceHuman) ==
    LET list == Candidates(id)
        fit == {i \in DOMAIN list : Answerable(list[i], id, forceHuman)}
    IN  IF fit = {} THEN None ELSE list[CHOOSE i \in fit : \A j \in fit : i <= j]

ForceHuman(id) == id[2] + 1 >= MAX_HANDOFF_HOPS \/ chainOver[id[1]]

GoesOn(id) == ~IsNeedInfo(id)

(* An agent's new deadline is capped by the chain's; a person's is not.      *)
HandOff(id) ==
    LET next == <<id[1], id[2] + 1>>
        pick == PickSuccessor(id, ForceHuman(id))
    IN  IF ~GoesOn(id) \/ pick = None
        THEN /\ state' = [state EXCEPT ![id] = "FAILED"]
             /\ UNCHANGED <<target, overdue>>
        ELSE /\ next \in Ids
             /\ state' = [state EXCEPT ![id] = "FAILED", ![next] = "SUBMITTED"]
             /\ target' = [target EXCEPT ![next] = pick]
             /\ overdue' = [overdue EXCEPT ![next] = pick \in Agents /\ chainOver[id[1]]]

(* expireOneRequest: a compare-and-set on the state first.                   *)
SweptWhateverItIs(id) == overdue[id]
OpenOverdue(id) == overdue[id] /\ state[id] \in OPEN_STATES
StillOverdue(id) == overdue[id] /\ IsOpen(id)

ExpireOne(w, id) ==
    /\ id \in sweep[w]
    /\ StillOverdue(id)
    /\ HandOff(id)
    /\ notices' = [notices EXCEPT ![id] = IF @ < 2 THEN @ + 1 ELSE @]
    /\ sweep' = [sweep EXCEPT ![w] = @ \ {id}]
    /\ UNCHANGED <<needInfo, generation, claim, live, chainOver, answered, token, answering>>

ExpireSkip(w, id) ==
    /\ id \in sweep[w]
    /\ ~StillOverdue(id)
    /\ sweep' = [sweep EXCEPT ![w] = @ \ {id}]
    /\ UNCHANGED <<state, target, needInfo, generation, claim, live, overdue, chainOver, answered,
                   token, answering, notices>>

-----------------------------------------------------------------------------
(* Time.                                                                    *)

LeaseLapses(id) ==
    /\ live[id] /\ IsOpen(id)
    /\ live' = [live EXCEPT ![id] = FALSE]
    /\ UNCHANGED <<state, target, needInfo, generation, claim, overdue, chainOver, answered,
                   token, answering, sweep, notices>>

DeadlinePasses(id) ==
    /\ IsOpen(id) /\ ~overdue[id]
    /\ overdue' = [overdue EXCEPT ![id] = TRUE]
    /\ UNCHANGED <<state, target, needInfo, generation, claim, live, chainOver, answered,
                   token, answering, sweep, notices>>

(* chainDeadlineAt: 72 hours after the first request, and no earlier than    *)
(* the deadline of any agent asked in the chain.  A needinfo is not handed    *)
(* off and has no use for it.                                               *)
ChainRunsOut(r) ==
    /\ ~needInfo[r] /\ ~chainOver[r]
    /\ \E id \in Chain(r) : IsOpen(id)
    /\ \A id \in Chain(r) : target[id] \in Agents => overdue[id] \/ ~IsOpen(id)
    /\ chainOver' = [chainOver EXCEPT ![r] = TRUE]
    /\ UNCHANGED <<state, target, needInfo, generation, claim, live, overdue, answered,
                   token, answering, sweep, notices>>

-----------------------------------------------------------------------------
Init ==
    /\ state = [id \in Ids |-> "absent"]
    /\ target = [id \in Ids |-> None]
    /\ needInfo = [r \in Roots |-> FALSE]
    /\ generation = [id \in Ids |-> 0]
    /\ claim = [id \in Ids |-> 0]
    /\ live = [id \in Ids |-> FALSE]
    /\ overdue = [id \in Ids |-> FALSE]
    /\ chainOver = [r \in Roots |-> FALSE]
    /\ answered = [id \in Ids |-> FALSE]
    /\ token = [s \in Sessions |-> [id \in Ids |-> 0]]
    /\ answering = [s \in Sessions |-> None]
    /\ sweep = [w \in Sweepers |-> {}]
    /\ notices = [id \in Ids |-> 0]

Asking == \E r \in Roots, t \in Actors : OpenFromMention(r, t) \/ RequestNeedInfo(r, t)
Executing ==
    \E s \in Sessions :
        \/ AnswerMoves(s) \/ AnswerRefused(s)
        \/ \E id \in Ids : Renew(s, id) \/ Take(s, id) \/ AnswerRead(s, id)
Humans ==
    \/ \E id \in Ids : AnswerAsHuman(id) \/ ReplyToAgentRequest(id) \/ CancelAgentRequest(id) \/ WithdrawNeedInfo(id)
    \/ \E t \in Actors : AnswerNeedInfoByComment(t)
Sweep(w) == SweepStart(w) \/ \E id \in Ids : ExpireOne(w, id) \/ ExpireSkip(w, id)
Time ==
    \/ \E id \in Ids : LeaseLapses(id) \/ DeadlinePasses(id)
    \/ \E r \in Roots : ChainRunsOut(r)

Next == Asking \/ Executing \/ Humans \/ (\E w \in Sweepers : Sweep(w)) \/ Time

Spec == Init /\ [][Next]_vars

-----------------------------------------------------------------------------
(* Safety.                                                                  *)

(* The outcome of a request is final: whatever executions, people and sweeps *)
(* had read it while it was open, none moves it or its answer afterwards     *)
(* (agent-request-service.ts, the compare-and-sets on state).                *)
SettledForGood ==
    [][\A id \in Ids : state[id] \in TERMINAL_REQUEST_STATES =>
          state'[id] = state[id] /\ answered'[id] = answered[id] /\ notices'[id] = notices[id]]_vars

(* An answer given with a token is the answer of the newest execution: no    *)
(* other took the request between its claim and its answer (docs/api.md,     *)
(* "A stalled session that wakes up after a fresh one re-claimed is          *)
(* rejected").                                                              *)
NewestExecutionAnswers ==
    [][\A s \in Sessions :
          (answering[s] # None /\ answering'[s] = None
             /\ state'[answering[s].id] # state[answering[s].id]) =>
          token[s][answering[s].id] = generation[answering[s].id]]_vars

(* A question is with one actor at a time, and with nobody twice: the        *)
(* requests of a chain are open one after the other and have different       *)
(* targets, whatever cycles the declared successors form.                    *)
OneActorAtATime ==
    \A r \in Roots :
        /\ Cardinality({id \in Chain(r) : IsOpen(id)}) <= 1
        /\ \A id, other \in Chain(r) : target[id] = target[other] => id = other

(* docs/api.md, "What this guarantees is eventual escalation to a person":   *)
(* a chain that lapses with nobody left to ask has asked a person, if the    *)
(* team has an owner who can answer.                                         *)
DeadEndAskedAPerson ==
    (\E i \in DOMAIN TeamOwners : TeamOwners[i] \notin CannotAnswer) =>
        \A id \in Ids :
            (notices[id] > 0 /\ ~IsNeedInfo(id)
               /\ \A other \in Chain(id[1]) : other[2] <= id[2]) =>
            \E other \in Chain(id[1]) : target[other] \in People

(* agent-request-expiry.ts, "A needinfo names the one person who has the     *)
(* answer": it is never handed to anyone else, however it ends.              *)
NeedInfoStaysWithItsTarget == \A r \in Roots : needInfo[r] => Chain(r) = {<<r, 0>>}

(* docs/api.md, "at either limit the hand-off goes straight to a valid        *)
(* human": from the hop limit on a chain asks people only, also when an agent *)
(* that was not asked yet is the declared successor.                         *)
AtTheLimitAPerson ==
    \A id \in Ids : state[id] # "absent" /\ id[2] >= MAX_HANDOFF_HOPS => target[id] \in People

(* The state invariant of the requests: a chain asks one actor at a time and  *)
(* nobody twice, goes over to people at the limit and ends with one, and a    *)
(* needinfo does not start one.                                              *)
RequestInv ==
    /\ TypeOK /\ OneActorAtATime /\ DeadEndAskedAPerson /\ AtTheLimitAPerson
    /\ NeedInfoStaysWithItsTarget

-----------------------------------------------------------------------------
(* Progress.  Deadlines pass, and every server sweeps every thirty seconds;  *)
(* nothing is asked of the agents or the people.                             *)
Fairness ==
    /\ \A id \in Ids : WF_vars(DeadlinePasses(id))
    /\ \A w \in Sweepers : WF_vars(Sweep(w))
FairSpec == Spec /\ Fairness

(* docs/api.md, "The chain terminates by construction, not by hope ... What  *)
(* this guarantees is eventual escalation to a person": every question leaves *)
(* the agents for good, settled or open with a person only, although agents   *)
(* name each other as successors and ask back without end.                    *)
ChainLeavesTheAgents ==
    \A r \in Roots :
        (state[<<r, 0>>] # "absent")
            ~> [](\A id \in Chain(r) : IsOpen(id) => target[id] \in People)
=============================================================================
