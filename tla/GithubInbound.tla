--------------------------- MODULE GithubInbound ---------------------------
(***************************************************************************)
(* GitHub webhooks: accepted as durable receipts, claimed under a lease by    *)
(* the inbound worker of any replica, and applied to one work item through    *)
(* the dual-track state machine (monotonic forward, provenance rollback) in   *)
(* the transaction that completes the receipt.                              *)
(*                                                                         *)
(* What happens on GitHub is a history, numbered by timestamp (updated_at),   *)
(* chosen at the start: an event arriving as it happens is one case of an     *)
(* event arriving late.  Events arrive late, in any order, not at all, and more than once: under the same  *)
(* delivery id, which changes nothing, or under another (a repository hook    *)
(* and an app installation both deliver), which is a receipt of its own.      *)
(* What is recorded against duplicates is the event for a pull request and    *)
(* the delivery for a branch, whose payload has no timestamp.                 *)
(* The lease token of a claim is its attempt number.                         *)
(*                                                                         *)
(* A transaction is one step when its first write takes the item's row lock.  *)
(* The merge handler is not: when its forward write matches nothing it holds  *)
(* no lock on the item, and its second write sees what others committed.      *)
(***************************************************************************)
EXTENDS Integers, Sequences, FiniteSets

CONSTANTS
    PRs,            \* pull requests that name the item
    Workers,        \* inbound workers, one per replica
    MoveTargets,    \* states people and agents move the item to
    Histories,      \* what may happen on GitHub
    MaxEvents,      \* bound: length of a history
    MaxReceipts,    \* bound: deliveries accepted
    MaxFaults,      \* bound: lapsed leases, failures and crashes
    MAX_FAILURES,
    None

StateTypes == {"BACKLOG", "UNSTARTED", "STARTED", "REVIEW", "COMPLETED", "CANCELED"}
Kinds == {"opened", "reopened", "merged", "unmerged"}

Event == [kind : Kinds, pr : PRs] \cup [kind : {"branch"}]

(* A pull request is opened, closed and reopened, and its merge ends it;      *)
(* branches are created any time.                                            *)

Earlier(h, t) == {u \in 1 .. t - 1 : h[u].kind # "branch" /\ h[u].pr = h[t].pr}

MayFollow(h, t) ==
    LET before == Earlier(h, t)
        last == h[CHOOSE u \in before : \A v \in before : v <= u].kind
    IN  IF h[t].kind = "opened" THEN before = {}
        ELSE before # {} /\ IF h[t].kind = "reopened" THEN last = "unmerged"
                            ELSE last \in {"opened", "reopened"}

History(h) == \A t \in DOMAIN h : h[t].kind # "branch" => MayFollow(h, t)

ASSUME InboundAssumption ==
    /\ MoveTargets \subseteq StateTypes
    /\ \A h \in Histories : h \in Seq(Event) /\ Len(h) <= MaxEvents /\ History(h)
    /\ MaxEvents \in Nat /\ MaxReceipts \in Nat /\ MaxFaults \in Nat
    /\ MAX_FAILURES \in Nat \ {0}
    /\ None \notin PRs

VARIABLES
    events,         \* what happens on GitHub, in the order of its timestamps
    receipts,       \* InboundGitHubDelivery rows, in the order of receivedAt
    worker,         \* what each worker is doing
    faults,         \* lapsed leases, failures and crashes so far
    state,          \* type of the item's workflow state
    stateSourcePrId,
    lastAppliedEventTime,
    log,            \* WebhookEventLog: the keys recorded for the item
    fenced,         \* ghost: pull requests whose merge was processed and left the item in Review
    applied         \* ghost: how often what has each key moved the item, counted to 2

vars == <<events, receipts, worker, faults, state, stateSourcePrId, lastAppliedEventTime, log,
          fenced, applied>>
item == <<state, stateSourcePrId, lastAppliedEventTime, log, fenced, applied>>

Keys == (1 .. MaxEvents) \X (0 .. MaxReceipts)
Receipt == [event : 1 .. MaxEvents,
            status : {"PENDING", "RETRY", "PROCESSING", "PROCESSED", "DEAD"},
            attempts : 0 .. MaxFaults + 1,
            leaseOwner : 0 .. MaxFaults + 1,
            leased : BOOLEAN,               \* leaseUntil is in the future
            due : BOOLEAN,                  \* availableAt has passed
            failureCount : 0 .. MAX_FAILURES]
Worker == [step : {"idle", "picked", "claimed", "fence"},
           receipt : 0 .. MaxReceipts,
           leaseOwner : 0 .. MaxFaults + 1,
           failureCount : 0 .. MAX_FAILURES]

TypeOK ==
    /\ events \in Histories
    /\ receipts \in Seq(Receipt) /\ Len(receipts) <= MaxReceipts
    /\ worker \in [Workers -> Worker]
    /\ faults \in 0 .. MaxFaults
    /\ state \in StateTypes
    /\ stateSourcePrId \in PRs \cup {None}
    /\ lastAppliedEventTime \in 0 .. MaxEvents
    /\ log \subseteq Keys
    /\ fenced \subseteq PRs
    /\ applied \in [Keys -> 0 .. 2]

-----------------------------------------------------------------------------
(* Receipts.                                                                *)

AcceptGitHubDelivery(t) ==
    /\ t \in DOMAIN events /\ Len(receipts) < MaxReceipts
    /\ receipts' = Append(receipts, [event |-> t, status |-> "PENDING", attempts |-> 0,
                                     leaseOwner |-> 0, leased |-> FALSE, due |-> TRUE,
                                     failureCount |-> 0])
    /\ UNCHANGED <<events, worker, faults, item>>

Eligible(r) ==
    \/ r.status \in {"PENDING", "RETRY"} /\ r.due
    \/ r.status = "PROCESSING" /\ ~r.leased

Fault == faults < MaxFaults /\ faults' = faults + 1

IdleWorker == [step |-> "idle", receipt |-> 0, leaseOwner |-> 0, failureCount |-> 0]
Idle(w) == worker' = [worker EXCEPT ![w] = IdleWorker]

(* claimGitHubDelivery reads the oldest eligible receipt ...                *)
Pick(w) ==
    /\ worker[w].step = "idle"
    /\ \E i \in DOMAIN receipts :
          /\ Eligible(receipts[i])
          /\ \A j \in 1 .. i - 1 : ~Eligible(receipts[j])
          /\ worker' = [worker EXCEPT ![w] = [IdleWorker EXCEPT !.step = "picked", !.receipt = i]]
    /\ UNCHANGED <<events, receipts, faults, item>>

(* ... and claims it if it still is; a transaction applying the receipt holds *)
(* its row.                                                                 *)
Claim(w) ==
    /\ worker[w].step = "picked"
    /\ LET i == worker[w].receipt
           r == receipts[i]
       IN  /\ Eligible(r)
           /\ \A v \in Workers : ~(worker[v].step = "fence" /\ worker[v].receipt = i)
           /\ receipts' = [receipts EXCEPT ![i].status = "PROCESSING", ![i].leased = TRUE,
                                           ![i].attempts = @ + 1, ![i].leaseOwner = r.attempts + 1]
           /\ worker' = [worker EXCEPT ![w].step = "claimed", ![w].leaseOwner = r.attempts + 1,
                                       ![w].failureCount = r.failureCount]
    /\ UNCHANGED <<events, faults, item>>

ClaimLost(w) ==
    /\ worker[w].step = "picked"
    /\ ~Eligible(receipts[worker[w].receipt])
    /\ Idle(w)
    /\ UNCHANGED <<events, receipts, faults, item>>

Holds(w) ==
    LET r == receipts[worker[w].receipt] IN
    /\ r.status = "PROCESSING" /\ r.leaseOwner = worker[w].leaseOwner

Completed(w) ==
    receipts' = [receipts EXCEPT ![worker[w].receipt].status = "PROCESSED",
                                 ![worker[w].receipt].leaseOwner = 0,
                                 ![worker[w].receipt].leased = FALSE]

-----------------------------------------------------------------------------
(* The state machine.                                                       *)

LOWER_RANK_TYPES_OF ==
    [STARTED |-> {"BACKLOG", "UNSTARTED"}, REVIEW |-> {"BACKLOG", "UNSTARTED", "STARTED"}]

(* eventSourceKey of the event t that receipt i carries; recordEventLog.      *)
EventSourceKey(t, i) == IF events[t].kind = "branch" THEN <<t, i>> ELSE <<t, 0>>
AlwaysNew(key) == TRUE
IsNewEvent(key) == key \notin log

AnyTime(t) == TRUE
NotOlder(t) == lastAppliedEventTime <= t

Moved(key) == applied' = [applied EXCEPT ![key] = IF @ < 2 THEN @ + 1 ELSE @]

(* applyMonotonicForward's compare-and-set; a branch carries no timestamp.   *)
ForwardApplies(t, to) ==
    /\ state \in LOWER_RANK_TYPES_OF[to]
    /\ events[t].kind = "branch" \/ NotOlder(t)

Forward(t, i, to, source) ==
    /\ state' = to
    /\ stateSourcePrId' = source
    /\ lastAppliedEventTime' = IF events[t].kind = "branch" THEN lastAppliedEventTime ELSE t
    /\ Moved(EventSourceKey(t, i))

NoMove == UNCHANGED <<state, stateSourcePrId, lastAppliedEventTime, applied>>

ApplyForward(t, i, to, source) ==
    IF ForwardApplies(t, to) THEN Forward(t, i, to, source) ELSE NoMove

(* applyProvenanceRollback.                                                 *)
RollbackAnySource(t) == state = "REVIEW" /\ NotOlder(t)
RollbackApplies(t) == state = "REVIEW" /\ stateSourcePrId = events[t].pr /\ NotOlder(t)

ApplyRollback(t) ==
    IF RollbackApplies(t)
    THEN /\ state' = "STARTED"
         /\ stateSourcePrId' = None
         /\ lastAppliedEventTime' = t
         /\ Moved(EventSourceKey(t, 0))
    ELSE NoMove

(* processClaimedGitHubDelivery: the lease is checked before the effect and  *)
(* again by the write that completes the receipt.  No other transaction may  *)
(* be recording the same event: it would hold the unique key.                *)
Applying(w, t) ==
    /\ worker[w].step = "claimed"
    /\ Holds(w) /\ receipts[worker[w].receipt].leased
    /\ t = receipts[worker[w].receipt].event
    /\ \A v \in Workers : worker[v].step = "fence" => receipts[worker[v].receipt].event # t

Finish(w, t) ==
    /\ log' = log \cup {EventSourceKey(t, worker[w].receipt)}
    /\ Completed(w)
    /\ Idle(w)
    /\ UNCHANGED <<events, faults>>

Duplicate(w) ==
    \E t \in DOMAIN events :
        /\ Applying(w, t) /\ ~IsNewEvent(EventSourceKey(t, worker[w].receipt))
        /\ NoMove /\ UNCHANGED fenced
        /\ Finish(w, t)

ProcessGitHubPrEvent(w) ==
    \E t \in DOMAIN events :
        /\ Applying(w, t) /\ IsNewEvent(EventSourceKey(t, worker[w].receipt))
        /\ \/ /\ events[t].kind \in {"opened", "reopened"}
              /\ ApplyForward(t, worker[w].receipt, "REVIEW", events[t].pr)
           \/ /\ events[t].kind = "unmerged"
              /\ ApplyRollback(t)
        /\ UNCHANGED fenced
        /\ Finish(w, t)

ProcessGitHubCreateEvent(w) ==
    \E t \in DOMAIN events :
        /\ Applying(w, t) /\ IsNewEvent(EventSourceKey(t, worker[w].receipt))
        /\ events[t].kind = "branch"
        /\ ApplyForward(t, worker[w].receipt, "STARTED", None)
        /\ UNCHANGED fenced
        /\ Finish(w, t)

(* A merge moves the item to Review, its mergeTarget ...                     *)
MergeForward(w) ==
    \E t \in DOMAIN events :
        /\ Applying(w, t) /\ IsNewEvent(EventSourceKey(t, worker[w].receipt))
        /\ events[t].kind = "merged"
        /\ \/ /\ ForwardApplies(t, "REVIEW")
              /\ Forward(t, worker[w].receipt, "REVIEW", None)
              /\ fenced' = fenced \cup {events[t].pr}
              /\ Finish(w, t)
           \/ /\ ~ForwardApplies(t, "REVIEW")
              /\ worker' = [worker EXCEPT ![w].step = "fence"]
              /\ UNCHANGED <<events, receipts, faults, item>>

(* ... or, if it is there already, takes it from the pull request that did.  *)
FenceNothing(t) == FALSE
FenceApplies(t) == state = "REVIEW" /\ NotOlder(t)

MergeFence(w) ==
    /\ worker[w].step = "fence"
    /\ receipts[worker[w].receipt].leased
    /\ LET t == receipts[worker[w].receipt].event IN
          /\ IF FenceApplies(t)
             THEN stateSourcePrId' = None /\ lastAppliedEventTime' = t
             ELSE UNCHANGED <<stateSourcePrId, lastAppliedEventTime>>
          /\ fenced' = IF state = "REVIEW" THEN fenced \cup {events[t].pr} ELSE fenced
          /\ UNCHANGED <<state, applied>>
          /\ Finish(w, t)

(* LeaseLostError: the transaction rolls back and leaves the receipt alone.   *)
Stale(w) ==
    /\ worker[w].step \in {"claimed", "fence"}
    /\ ~(Holds(w) /\ receipts[worker[w].receipt].leased)
    /\ Idle(w)
    /\ UNCHANGED <<events, receipts, faults, item>>

(* Any other error rolls back and is counted, whether or not the lease is     *)
(* still live, if nobody claimed the receipt since.                          *)
HoldsOrNot(w) == TRUE
FailureCounts(w) == Holds(w)

IsDead(failureCount) == failureCount + 1 >= MAX_FAILURES

Fail(w) ==
    /\ worker[w].step \in {"claimed", "fence"}
    /\ LET i == worker[w].receipt IN
          receipts' =
              IF ~FailureCounts(w) THEN receipts
              ELSE [receipts EXCEPT
                      ![i].status = IF IsDead(worker[w].failureCount) THEN "DEAD" ELSE "RETRY",
                      ![i].failureCount = @ + 1, ![i].due = FALSE,
                      ![i].leaseOwner = 0, ![i].leased = FALSE]
    /\ Idle(w) /\ Fault
    /\ UNCHANGED <<events, item>>

(* replayGitHubDelivery, by an operator.                                     *)
ReplayGitHubDelivery(i) ==
    /\ receipts[i].status = "DEAD"
    /\ receipts' = [receipts EXCEPT ![i].status = "PENDING", ![i].failureCount = 0, ![i].due = TRUE]
    /\ UNCHANGED <<events, worker, faults, item>>

-----------------------------------------------------------------------------
(* Everyone else, time, and crashes.                                         *)

(* People and agents move the item; the columns of the webhook track stay.    *)
MoveItem(to) ==
    /\ to # state
    /\ state' = to
    /\ UNCHANGED <<events, receipts, worker, faults, stateSourcePrId, lastAppliedEventTime,
                   log, fenced, applied>>

LeaseLapses(i) ==
    /\ receipts[i].leased
    /\ receipts' = [receipts EXCEPT ![i].leased = FALSE]
    /\ Fault
    /\ UNCHANGED <<events, worker, item>>

RetryDelayPasses(i) ==
    /\ ~receipts[i].due /\ receipts[i].status = "RETRY"
    /\ receipts' = [receipts EXCEPT ![i].due = TRUE]
    /\ UNCHANGED <<events, worker, faults, item>>

Crash(w) ==
    /\ worker[w].step # "idle"
    /\ Idle(w) /\ Fault
    /\ UNCHANGED <<events, receipts, item>>

-----------------------------------------------------------------------------
Init ==
    /\ events \in Histories
    /\ receipts = <<>>
    /\ worker = [w \in Workers |-> IdleWorker]
    /\ faults = 0
    /\ state = "UNSTARTED"
    /\ stateSourcePrId = None
    /\ lastAppliedEventTime = 0
    /\ log = {}
    /\ fenced = {}
    /\ applied = [key \in Keys |-> 0]

Process(w) ==
    \/ Duplicate(w) \/ ProcessGitHubPrEvent(w) \/ ProcessGitHubCreateEvent(w)
    \/ MergeForward(w) \/ MergeFence(w)

Next ==
    \/ \E t \in DOMAIN events : AcceptGitHubDelivery(t)
    \/ \E w \in Workers :
          Pick(w) \/ Claim(w) \/ ClaimLost(w) \/ Process(w) \/ Stale(w) \/ Fail(w) \/ Crash(w)
    \/ \E i \in DOMAIN receipts : ReplayGitHubDelivery(i) \/ LeaseLapses(i) \/ RetryDelayPasses(i)
    \/ \E to \in MoveTargets : MoveItem(to)

Spec == Init /\ [][Next]_vars

-----------------------------------------------------------------------------
(* Safety.                                                                  *)

(* Redelivery, takeover of a lapsed lease, a retry and a replay never apply   *)
(* an event twice, although people may have moved the item back to where the  *)
(* event would move it again (recordEventLog, and the receipt's one           *)
(* transaction); a branch is applied once per delivery.                     *)
AppliedOnce == \A key \in Keys : applied[key] <= 1

(* The state invariant of receipts and item: types, and no event twice.       *)
InboundInv == TypeOK /\ AppliedOnce

(* A processed receipt is never reopened, whatever a worker that lost its     *)
(* lease still does with it (processClaimedGitHubDelivery).                   *)
ProcessedForGood ==
    [][\A i \in DOMAIN receipts :
          receipts[i].status = "PROCESSED" => receipts'[i] = receipts[i]]_vars

(* A delayed close moves nothing that is newer: it takes effect only if no     *)
(* event after it has (the LWW guard), and not once the merge of its pull      *)
(* request was processed in Review, whatever people do with the item in       *)
(* between (github-webhook-handler.ts, "Fence older unmerged-close events").   *)
LateCloseMovesNothing ==
    [][\A w \in Workers, t \in DOMAIN events :
          (events[t].kind = "unmerged" /\ Applying(w, t) /\ applied'[<<t, 0>>] > applied[<<t, 0>>])
          => /\ events[t].pr \notin fenced
             /\ \A u \in DOMAIN events : u > t => applied[<<u, 0>>] = 0]_vars

(* github-webhook-state-machine.ts, "Restricted provenance rollback": a       *)
(* closed pull request moves the item out of Review only if its opening had   *)
(* moved the item in, also when the opening was lost or comes later than the  *)
(* close and it was a person who asked for the review.                        *)
RolledBackByAMover ==
    [][\A w \in Workers, t \in DOMAIN events :
          (events[t].kind = "unmerged" /\ Applying(w, t) /\ applied'[<<t, 0>>] > applied[<<t, 0>>])
          => \E u \in DOMAIN events : /\ events[u].kind \in {"opened", "reopened"}
                                      /\ events[u].pr = events[t].pr
                                      /\ applied[<<u, 0>>] > 0]_vars
=============================================================================
