---------------------------- MODULE EventOutbox ----------------------------
(***************************************************************************)
(* The transactional outbox: events enqueued with the work's transaction are *)
(* POSTed to webhook subscriptions by flushEventOutbox, which a timer starts *)
(* in every replica and which may overlap itself.  A flush claims one event   *)
(* at a time by compare-and-set on claimedAt, delivers it to its targets     *)
(* concurrently, records each delivery, and closes the event by a write      *)
(* fenced on the claim it took.                                             *)
(*                                                                         *)
(* Time is what the code compares: a claim is aged once it is older than     *)
(* OUTBOX_CLAIM_LEASE_MS, a delivery waits until its nextAttemptAt.  The      *)
(* claim timestamp is the worker that took it: a worker runs one flush at a  *)
(* time and a flush claims an event at most once, so the two identify each   *)
(* other while the worker lives.                                            *)
(***************************************************************************)
EXTENDS Integers, FiniteSets, Sequences

CONSTANTS
    Workers,      \* flush invocations that may overlap
    MaxEvents,    \* bound: events are 1..MaxEvents, numbered by createdAt
    Targets,      \* webhook subscriptions
    Routed,       \* the targets each event matches
    MAX_DELIVERY_ATTEMPTS,
    BatchLimit,   \* flushEventOutbox's limit
    Threshold,    \* WEBHOOK_AUTO_DISABLE_THRESHOLD
    Faults,       \* what may go wrong: "crash", "stall"
    Switches,     \* bound: the ways administrators switch a subscription, of BOOLEAN
    None

Events == 1 .. MaxEvents
Outcomes == {"ok", "failed", "exhausted", "pending"}
Answers == {"ok", "refused", "failed", "lost"}   \* lost: taken, but the answer timed out

Delivery == [attempts : 0 .. MAX_DELIVERY_ATTEMPTS, delivered : BOOLEAN, waiting : BOOLEAN]
Posted == [answer : Answers, attempt : 1 .. MAX_DELIVERY_ATTEMPTS]

ASSUME OutboxAssumption ==
    /\ MaxEvents \in Nat
    /\ Routed \in [Events -> SUBSET Targets]
    /\ MAX_DELIVERY_ATTEMPTS \in Nat \ {0}
    /\ BatchLimit \in Nat \ {0}
    /\ Threshold \in Nat \ {0}
    /\ Faults \subseteq {"crash", "stall"} /\ Switches \subseteq BOOLEAN
    /\ None \notin Workers \cup Outcomes \cup Delivery \cup Posted

VARIABLES
    enqueued,     \* how many events the outbox holds
    status,       \* of each event: open, delivered or dead
    claimedBy,    \* EventOutbox.claimedAt: the worker that set it, or None
    aged,         \* claimedAt is older than the lease
    rows,         \* EventOutboxDelivery of each event and target, or None
    flush,        \* the flush each worker is running
    failures,     \* WebhookSubscription.consecutiveFailures
    enabled,      \* WebhookSubscription.enabled
    accepted,     \* ghost: POSTs of each event each receiver took, counted to 2
    stolen,       \* ghost: a live flush lost its aged claim on the event to another
    excused       \* ghost: a crash or a lost answer left a POST unrecorded

vars == <<enqueued, status, claimedBy, aged, rows, flush, failures, enabled, accepted, stolen, excused>>

Flush == [step : {"idle", "next", "deliver", "close", "account"},
          todo : Seq(Events),            \* due events not yet handled
          reclaimable : SUBSET Events,   \* claims older than this flush's cutoff
          targets : SUBSET Targets,      \* enabled when the flush started
          posted : [Targets -> Posted \cup {None}],   \* POSTs not yet recorded
          outcome : [Targets -> Outcomes \cup {None}],
          verdict : {"open", "delivered", "dead"}]

TypeOK ==
    /\ enqueued \in 0 .. MaxEvents
    /\ status \in [Events -> {"open", "delivered", "dead"}]
    /\ claimedBy \in [Events -> Workers \cup {None}]
    /\ aged \in [Events -> BOOLEAN]
    /\ rows \in [Events -> [Targets -> Delivery \cup {None}]]
    /\ flush \in [Workers -> Flush]
    /\ failures \in [Targets -> 0 .. Threshold]
    /\ enabled \in [Targets -> BOOLEAN]
    /\ accepted \in [Events -> [Targets -> 0 .. 2]]
    /\ stolen \in [Events -> BOOLEAN]
    /\ excused \in [Events -> BOOLEAN]

-----------------------------------------------------------------------------
Idle == [step |-> "idle", todo |-> <<>>, reclaimable |-> {}, targets |-> {},
         posted |-> [t \in Targets |-> None], outcome |-> [t \in Targets |-> None],
         verdict |-> "open"]

Current(w) == Head(flush[w].todo)
Delivering(w, e) == flush[w].step \in {"deliver", "close"} /\ Current(w) = e

(* eventTargets: the subscriptions of this flush that match the event.       *)
TargetsOf(w) == Routed[Current(w)] \cap flush[w].targets

(* The flush goes on to its next event.                                     *)
NextEvent(w) == [Idle EXCEPT !.step = "next", !.todo = Tail(flush[w].todo),
                             !.reclaimable = flush[w].reclaimable, !.targets = flush[w].targets]

Exhausted(row) == ~row.delivered /\ row.attempts >= MAX_DELIVERY_ATTEMPTS
Resolved(row) == row.delivered \/ Exhausted(row)

(* filterDueEventIds: never tried, or some delivery may be tried now.        *)
Due(e) ==
    LET tried == {t \in Targets : rows[e][t] # None}
    IN  \/ tried = {}
        \/ \E t \in tried : ~Resolved(rows[e][t]) /\ ~rows[e][t].waiting

-----------------------------------------------------------------------------
(* enqueueWorkEvent: the row is written with the transaction it reports.     *)
EnqueueWorkEvent ==
    /\ enqueued < MaxEvents
    /\ enqueued' = enqueued + 1
    /\ UNCHANGED <<status, claimedBy, aged, rows, flush, failures, enabled, accepted, stolen, excused>>

(* The head of flushEventOutbox: the oldest open events that are unclaimed   *)
(* or whose claim is aged, at most limit of them, and of those the due ones. *)
Pending == {e \in 1 .. enqueued : status[e] = "open" /\ (claimedBy[e] = None \/ aged[e])}
Batch == {e \in Pending : Cardinality({f \in Pending : f < e}) < BatchLimit}
InOrder(S) ==
    CHOOSE s \in [1 .. Cardinality(S) -> S] : \A i, j \in DOMAIN s : i < j => s[i] < s[j]

FlushStart(w) ==
    /\ flush[w].step = "idle"
    /\ {t \in Targets : enabled[t]} # {}
    /\ {e \in Batch : Due(e)} # {}
    /\ flush' = [flush EXCEPT ![w] =
                   [Idle EXCEPT !.step = "next",
                                !.todo = InOrder({e \in Batch : Due(e)}),
                                !.reclaimable = {e \in Batch : claimedBy[e] # None},
                                !.targets = {t \in Targets : enabled[t]}]]
    /\ UNCHANGED <<enqueued, status, claimedBy, aged, rows, failures, enabled, accepted, stolen, excused>>

(* The claim's compare-and-set.  claimCutoff is fixed when the flush starts,  *)
(* so a claim taken since then is never reclaimable by it.                   *)
MayClaimAny(w, e) == status[e] = "open"
MayClaim(w, e) ==
    /\ status[e] = "open"
    /\ claimedBy[e] = None \/ (aged[e] /\ e \in flush[w].reclaimable)

Claim(w) ==
    /\ flush[w].step = "next" /\ flush[w].todo # <<>>
    /\ MayClaim(w, Current(w))
    /\ LET e == Current(w) IN
          /\ claimedBy' = [claimedBy EXCEPT ![e] = w]
          /\ aged' = [aged EXCEPT ![e] = FALSE]
          /\ stolen' = [stolen EXCEPT ![e] =
                           @ \/ (aged[e] /\ \E v \in Workers \ {w} : Delivering(v, e))]
          /\ flush' = [v \in Workers |->
                          IF v = w THEN [flush[v] EXCEPT !.step = "deliver"]
                          ELSE [flush[v] EXCEPT !.reclaimable = @ \ {e}]]
    /\ UNCHANGED <<enqueued, status, rows, failures, enabled, accepted, excused>>

(* Lost the race: another flush has the event, or closed it.                 *)
Skip(w) ==
    /\ flush[w].step = "next" /\ flush[w].todo # <<>>
    /\ ~MayClaim(w, Current(w))
    /\ flush' = [flush EXCEPT ![w].todo = Tail(@)]
    /\ UNCHANGED <<enqueued, status, claimedBy, aged, rows, failures, enabled, accepted, stolen, excused>>

FlushEnd(w) ==
    /\ flush[w].step = "next" /\ flush[w].todo = <<>>
    /\ flush' = [flush EXCEPT ![w] = Idle]
    /\ UNCHANGED <<enqueued, status, claimedBy, aged, rows, failures, enabled, accepted, stolen, excused>>

-----------------------------------------------------------------------------
(* deliverToTarget, which runs for every target at once.                     *)

NewRow == [attempts |-> 0, delivered |-> FALSE, waiting |-> FALSE]

(* The upsert, then an early return or the POST and its answer.              *)
EarlyReturn(row) == Resolved(row) \/ row.waiting
Post(w, t) ==
    /\ flush[w].step = "deliver" /\ t \in TargetsOf(w)
    /\ flush[w].posted[t] = None /\ flush[w].outcome[t] = None
    /\ LET e == Current(w)
           row == IF rows[e][t] = None THEN NewRow ELSE rows[e][t]
       IN  /\ rows' = [rows EXCEPT ![e][t] = row]
           /\ \/ /\ EarlyReturn(row)
                 /\ flush' = [flush EXCEPT ![w].outcome[t] =
                                 IF row.delivered THEN "ok"
                                 ELSE IF Exhausted(row) THEN "exhausted" ELSE "pending"]
                 /\ UNCHANGED <<accepted, excused>>
              \/ /\ ~EarlyReturn(row)
                 /\ \E a \in Answers :
                       /\ flush' = [flush EXCEPT ![w].posted[t] =
                                       [answer |-> a, attempt |-> row.attempts + 1]]
                       /\ accepted' = [accepted EXCEPT ![e][t] =
                                          IF a \in {"ok", "lost"} /\ @ < 2 THEN @ + 1 ELSE @]
                       /\ excused' = [excused EXCEPT ![e] = @ \/ a = "lost"]
    /\ UNCHANGED <<enqueued, status, claimedBy, aged, failures, enabled, stolen>>

(* The answer is recorded over whatever the row holds by then: 4xx other     *)
(* than 408 and 429 spends the schedule at once; 5xx, 408, 429 and a timeout *)
(* back off unless this was the last attempt.                               *)
RecordedRowUncounted(row, posted) ==
    CASE posted.answer = "ok" -> [attempts |-> posted.attempt, delivered |-> TRUE, waiting |-> FALSE]
      [] posted.answer = "refused" -> [row EXCEPT !.attempts = MAX_DELIVERY_ATTEMPTS]
      [] OTHER -> [row EXCEPT !.waiting = TRUE]
RecordedRow(row, posted) ==
    CASE posted.answer = "ok" -> [attempts |-> posted.attempt, delivered |-> TRUE, waiting |-> FALSE]
      [] posted.answer = "refused" -> [row EXCEPT !.attempts = MAX_DELIVERY_ATTEMPTS]
      [] OTHER -> [row EXCEPT !.attempts = posted.attempt,
                              !.waiting = @ \/ posted.attempt < MAX_DELIVERY_ATTEMPTS]
RecordedOutcome(posted) ==
    CASE posted.answer = "ok" -> "ok"
      [] posted.answer = "refused" \/ posted.attempt >= MAX_DELIVERY_ATTEMPTS -> "exhausted"
      [] OTHER -> "failed"

Record(w, t) ==
    /\ flush[w].step = "deliver" /\ flush[w].posted[t] # None
    /\ LET e == Current(w)
           posted == flush[w].posted[t]
       IN  /\ rows' = [rows EXCEPT ![e][t] = RecordedRow(@, posted)]
           /\ flush' = [flush EXCEPT ![w].posted[t] = None,
                                     ![w].outcome[t] = RecordedOutcome(posted)]
    /\ UNCHANGED <<enqueued, status, claimedBy, aged, failures, enabled, accepted, stolen, excused>>

-----------------------------------------------------------------------------
(* Closing the event.                                                       *)

Answered(w) == \A t \in TargetsOf(w) : flush[w].outcome[t] # None
AllOk(w) == \A t \in TargetsOf(w) : flush[w].outcome[t] = "ok"
AllResolved(w) == \A t \in TargetsOf(w) : Resolved(rows[Current(w)][t])
AnyExhausted(w) == \E t \in TargetsOf(w) : Exhausted(rows[Current(w)][t])

(* What the flush decides from its outcomes and the delivery rows; an event  *)
(* with no target is delivered.                                             *)
DeadWhileRetrying(w) ==
    IF AllOk(w) THEN "delivered" ELSE IF AnyExhausted(w) THEN "dead" ELSE "open"
Verdict(w) ==
    IF AllOk(w) THEN "delivered"
    ELSE IF AllResolved(w) /\ AnyExhausted(w) THEN "dead" ELSE "open"

Evaluate(w) ==
    /\ flush[w].step = "deliver" /\ Answered(w)
    /\ flush' = [flush EXCEPT ![w].step = "close", ![w].verdict = Verdict(w)]
    /\ UNCHANGED <<enqueued, status, claimedBy, aged, rows, failures, enabled, accepted, stolen, excused>>

(* The final write counts only while the claim is still this flush's.        *)
Unfenced(w) == TRUE
Fenced(w) == claimedBy[Current(w)] = w

Close(w) ==
    /\ flush[w].step = "close"
    /\ Fenced(w)
    /\ status' = [status EXCEPT ![Current(w)] = flush[w].verdict]
    /\ claimedBy' = [claimedBy EXCEPT ![Current(w)] = None]
    /\ aged' = [aged EXCEPT ![Current(w)] = FALSE]
    /\ flush' = [flush EXCEPT ![w].step = "account"]
    /\ UNCHANGED <<enqueued, rows, failures, enabled, accepted, stolen, excused>>

CloseLost(w) ==
    /\ flush[w].step = "close"
    /\ ~Fenced(w)
    /\ flush' = [flush EXCEPT ![w] = NextEvent(w)]
    /\ UNCHANGED <<enqueued, status, claimedBy, aged, rows, failures, enabled, accepted, stolen, excused>>

(* accountSubscriptionOutcomes, after the event is closed.  The disabled     *)
(* notice it sends is one more event of the outbox and is left out.          *)
(* A counter at the threshold has done all it can and stays there.           *)
Counted(w, t) ==
    CASE t \in TargetsOf(w) /\ flush[w].outcome[t] = "ok" -> 0
      [] t \in TargetsOf(w) /\ flush[w].outcome[t] = "exhausted" ->
            IF failures[t] < Threshold THEN failures[t] + 1 ELSE failures[t]
      [] OTHER -> failures[t]
Account(w) ==
    /\ flush[w].step = "account"
    /\ failures' = [t \in Targets |-> Counted(w, t)]
    /\ enabled' = [t \in Targets |->
                     /\ enabled[t]
                     /\ ~(t \in TargetsOf(w) /\ flush[w].outcome[t] = "exhausted"
                          /\ Counted(w, t) >= Threshold)]
    /\ flush' = [flush EXCEPT ![w] = NextEvent(w)]
    /\ UNCHANGED <<enqueued, status, claimedBy, aged, rows, accepted, stolen, excused>>

(* webhookUpdate: an administrator switches the subscription on or off;      *)
(* switching it on, also when it is on already, forgets its failures.  Edits  *)
(* of the url, the event types or the filter are left out: which events match  *)
(* a subscription is fixed (Routed).                                        *)
WebhookUpdate(t, on) ==
    /\ enabled' = [enabled EXCEPT ![t] = on]
    /\ failures' = [failures EXCEPT ![t] = IF on THEN 0 ELSE @]
    /\ UNCHANGED <<enqueued, status, claimedBy, aged, rows, flush, accepted, stolen, excused>>

-----------------------------------------------------------------------------
(* Time and faults.                                                         *)

(* A claim outlives its lease: its flush is dead, or stalls.                 *)
ClaimAges(e) ==
    /\ claimedBy[e] # None /\ ~aged[e]
    /\ Delivering(claimedBy[e], e) => "stall" \in Faults
    /\ aged' = [aged EXCEPT ![e] = TRUE]
    /\ UNCHANGED <<enqueued, status, claimedBy, rows, flush, failures, enabled, accepted, stolen, excused>>

BackoffElapses(e, t) ==
    /\ rows[e][t] # None /\ rows[e][t].waiting
    /\ rows' = [rows EXCEPT ![e][t].waiting = FALSE]
    /\ UNCHANGED <<enqueued, status, claimedBy, aged, flush, failures, enabled, accepted, stolen, excused>>

Crash(w) ==
    /\ "crash" \in Faults
    /\ flush[w].step # "idle"
    /\ flush' = [flush EXCEPT ![w] = Idle]
    /\ excused' = [e \in Events |-> excused[e] \/
                     (Delivering(w, e) /\ \E t \in Targets : flush[w].posted[t] # None)]
    /\ UNCHANGED <<enqueued, status, claimedBy, aged, rows, failures, enabled, accepted, stolen>>

-----------------------------------------------------------------------------
Init ==
    /\ enqueued = 0
    /\ status = [e \in Events |-> "open"]
    /\ claimedBy = [e \in Events |-> None]
    /\ aged = [e \in Events |-> FALSE]
    /\ rows = [e \in Events |-> [t \in Targets |-> None]]
    /\ flush = [w \in Workers |-> Idle]
    /\ failures = [t \in Targets |-> 0]
    /\ enabled = [t \in Targets |-> TRUE]
    /\ accepted = [e \in Events |-> [t \in Targets |-> 0]]
    /\ stolen = [e \in Events |-> FALSE]
    /\ excused = [e \in Events |-> FALSE]

FlushStep(w) ==
    \/ Claim(w) \/ Skip(w) \/ FlushEnd(w) \/ Evaluate(w) \/ Close(w) \/ CloseLost(w)
    \/ Account(w)
    \/ \E t \in Targets : Post(w, t) \/ Record(w, t)

Next ==
    \/ EnqueueWorkEvent
    \/ \E w \in Workers : FlushStart(w) \/ FlushStep(w) \/ Crash(w)
    \/ \E t \in Targets, on \in Switches : WebhookUpdate(t, on)
    \/ \E e \in Events : ClaimAges(e) \/ \E t \in Targets : BackoffElapses(e, t)

Spec == Init /\ [][Next]_vars

-----------------------------------------------------------------------------
(* Safety.                                                                  *)

(* An event counted as delivered reached every target of the flush that      *)
(* closed it.  One counted as dead has no target left to try, unless a flush  *)
(* that lost its claim wrote over what the closing flush had read.           *)
ClosedOnEvidence ==
    [][\A e \in Events : status'[e] # status[e] =>
          \E w \in Workers :
              /\ Delivering(w, e)
              /\ \A t \in TargetsOf(w) :
                    /\ status'[e] = "delivered" => rows[e][t] # None /\ rows[e][t].delivered
                    /\ status'[e] = "dead" =>
                          stolen[e] \/ (rows[e][t] # None /\ Resolved(rows[e][t]))]_vars

(* Overlapping flushes and replicas do not repeat a POST a receiver already   *)
(* took: a repeat needs a stolen claim, a crash before the bookkeeping, or a  *)
(* lost answer (docs/api.md, "Delivery is at-least-once").                   *)
NoNeedlessRepeat == \A e \in Events, t \in Targets : accepted[e][t] > 1 => stolen[e] \/ excused[e]

(* The state invariant of the outbox: types, and no repeat without an excuse. *)
OutboxInv == TypeOK /\ NoNeedlessRepeat

-----------------------------------------------------------------------------
(* The promise kept.  An event is one once its transaction has committed, it is  *)
(* held while it is claimed, and it has arrived where a POST of it was taken.    *)
EventState == [e \in Events |-> IF e <= enqueued THEN status[e] ELSE "none"]
Held == {e \in Events : claimedBy[e] # None}
TakenBy == [e \in Events |-> {t \in Targets : accepted[e][t] > 0}]
SwitchedOn == {t \in Targets : enabled[t]}
SeenOn == [w \in Workers |-> flush[w].targets]

Abstract == INSTANCE AtLeastOnce WITH
    Event <- Events, Target <- Targets, Sender <- Workers, Matches <- Routed,
    state <- EventState, held <- Held, taken <- TakenBy, on <- SwitchedOn, view <- SeenOn

(* However many flushes overlap, stall, crash or come back late: a closed event  *)
(* is never reopened, claimed again or counted the other way, and one counted as *)
(* delivered was taken by every matching subscription the flush found enabled    *)
(* (docs/api.md, "Delivery is at-least-once").                                   *)
ImplementsAtLeastOnce == Abstract!Spec

-----------------------------------------------------------------------------
(* Progress.  Every replica's timer starts a flush every ten seconds, a       *)
(* running flush goes on, and time passes.                                   *)
Fairness ==
    /\ \A w \in Workers : WF_vars(FlushStart(w)) /\ WF_vars(FlushStep(w))
    /\ \A e \in Events : WF_vars(ClaimAges(e))
    /\ \A e \in Events, t \in Targets : WF_vars(BackoffElapses(e, t))
FairSpec == Spec /\ Fairness

(* Every event is delivered or dead-lettered in the end, unless no           *)
(* subscription is left to deliver to (event-outbox.ts: "stubborn endpoints   *)
(* dead-letter instead of retrying forever").                               *)
EveryEventCloses ==
    \A e \in Events : (e <= enqueued) ~> (status[e] # "open" \/ \A t \in Targets : ~enabled[t])
=============================================================================
