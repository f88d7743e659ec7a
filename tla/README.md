# Involute: a TLA+ verification project

Involute is an agent-native work tracker. People and agents share one
PostgreSQL database through one or more Node servers (`packages/server`):
people through GraphQL and the web app, agents through MCP. This directory
models the parts of the server whose correctness depends on the order in which
several actors act, checks them with TLC on small instances, and proves most of
their safety properties with TLAPS for every instance.

Paths below are relative to `src/packages/server/src/` unless they start with
`docs/`.

## 1. The system

| part | state | operations | who acts at once |
|---|---|---|---|
| Work lease and runs | `WorkClaim`, `WorkRun`, state and commitment of an `Issue` | `claimWork`, `reportRun`, `releaseClaim`, `sweepExpiredClaims`, late runs, `reviewWork`, `commitWork`, `uncommitWork` | sessions of one agent account, several agents, people, the sweep timer, GitHub |
| Event outbox | `EventOutbox`, `EventOutboxDelivery`, `WebhookSubscription` | `enqueueWorkEvent`, `flushEventOutbox`, `deliverToTarget`, `accountSubscriptionOutcomes`, `webhookUpdate` | overlapping flush ticks, replicas, receivers, crashes |
| Agent requests | `AgentRequest` | open, claim, renew, answer, ask back, reply, cancel, needinfo, expire, hand off | several executions of one agent, people, the expiry timer of every server |
| GitHub inbound | `InboundGitHubDelivery` | accept, claim, process, retry, dead-letter, replay | replicas, redelivery, crashes, an operator |
| GitHub state machine | `Issue.stateId`, `stateSourcePrId`, `lastAppliedEventTime`, `WebhookEventLog` | `recordEventLog`, `applyMonotonicForward`, `applyProvenanceRollback`, the merge fence | webhooks late, repeated and out of order; people; agents |
| External executors | `ExecutorDispatch`, `ExecutorEffect`, receipts | ack, checkpoint, effects, receipt, stop, reconcile, recover | an external executor that calls late, people |
| Delivery roots | change sets, `DeliveryPackage`, tasks | propose, decide, instantiate, settle, accept, return | leads, executors, people |
| Work graph | `WorkLink`, `parentId`, tombstones | link, unlink, reparent, delete, restore | any writer, two restores of one item |
| Contract amendments | `ContractAmendment`, the item's contract | propose, accept, reject, reopen, edit | agents, the Autonomy Gate, people |
| Evidence | `WorkEvidence`, verification rows and leases | attach, retract, verify | workers of every replica, GitHub's slow answers |
| Automatic acceptance | evaluations, reviews | sweep of the items in Review | overlapping sweeps, reviewers, executors |
| Schedules | `WorkSchedule`, `WorkRun.scheduleRound` | set, pause, clear, fire, report a round | the one-minute timer of every server, people, agents |
| Delegation and autonomy | policies, budgets on requests | decide, delegate | agents delegating at once |
| SLA sweeps, notifications, search, import, sync, access control, API surfaces, clients | their own tables | CRUD, timers, I/O | mostly one actor |

How they interact. Everything meets in the database. A service call is one
transaction; writers of one work item serialise on its `Issue` row, either by
`SELECT ... FOR UPDATE` or by the row lock of their first write. Services
announce what they did by inserting into the outbox in the same transaction.
Timers of `index.ts` (lines 431-560) drive what nobody calls: the outbox flush
(10 s), request expiry (30 s), the claim sweep (5 min), the inbound worker (5 s).
Every replica runs all of them, and `setInterval` does not wait for the previous
tick, so most of them may overlap themselves.

What is hard. Reads that precede the lock (the sweep, the uncommit, an answer,
a picked receipt); decisions that are re-evaluated at a later instant in the
same transaction (a claim that expires between the check and the write); a
compare-and-set whose predicate leaves something out; a crash between two
transactions of one logical operation (POST, bookkeeping, close); two processes
with one identity, separated only by a token; chains of hand-offs that must end;
and provider events that arrive in any order.

What makes each part correct:

- **Work lease**: one execution of an item at a time; only the session that
  holds the token reports; what was recorded stays; an expired lease does not
  occupy the work for ever.
- **Event outbox**: at-least-once delivery with repeats only where a crash, a
  lost answer or a stolen claim explains them; an event is closed once, on
  evidence, and always in the end.
- **Agent requests**: one actor at a time is asked; outcomes are final; an
  answer by token is the newest execution's; a chain leaves the agents in the end
  and has asked a person.
- **GitHub inbound**: every event takes effect once; a late close moves nothing newer; a
  merge is not undone by an older close; a rollback undoes a move its pull request
  made.
- **Delivery**: a package is accepted on what was delivered; an external effect
  of unknown outcome can always be reconciled and blocks the next; attempts stay
  within what was approved; a stop is final; authority ends with the grant.
- **Work graph**: the two projections of the hierarchy agree; no writer closes a
  cycle; what a restore puts back is what the deletion took.
- **Contract and evidence**: at most one amendment waits; nothing is overwritten
  unseen; evidence that makes an item eligible was observed for the contract and
  the commit that stand, by the worker that held it.
- **Acceptance gate**: it accepts what stands when it writes, never what people
  took back before it looked, and reaches every item in Review.
- **Schedules**: every round fires once, a missed round is a missed one, the next
  firing is the first match of the rule (but for hours in which the clock is
  changed), and an active schedule keeps firing.

## 2. Plan

Done, in this order:

1. `WorkLease` with `MCWorkLease`, and `WorkLeaseProofs`.
2. `EventOutbox` with `MCEventOutbox`.
3. `AgentRequest` with `MCAgentRequest`.
4. `GithubInbound` with `MCGithubInbound`: receipts and state machine composed,
   since the receipt completes in the transaction that moves the item.
5. `Lease`, what the lease promises the rest of the system, and the refinement
   that shows `WorkLease` implements it.
6. `WorkGraph`: links, hierarchy, tombstones and restore.
7. `Delivery`: external executors and delivery packages.
8. `ContractAmendment`, and `EvidenceVerification` composed with it, since the
   contract decides what evidence is worth.
9. `ReviewGate`: the automatic acceptance of reviewed work.
10. `WorkSchedule`: scheduled rounds and the cron search.

11. `AtLeastOnce`, what the outbox promises its subscribers, and the refinement that
    shows `EventOutbox` implements it.
12. Proofs of every safety property the runs check, and of both refinements
    (section 5).

Next:

13. Delegation budgets (`autonomy-delegation.ts`) added to `AgentRequest`; the
    lost update of `parent.budgetUnits` is the first question.

## 3. Modules

### WorkLease

One work item; every handler that writes it locks its `Issue` row. `claim` is the
`WorkClaim` row, `runs` the `WorkRun` rows, `commitment` and `state` the item's
columns, `expiry` the latest `work.claim_expired` event. `minted` remembers which
session each claim id (and its token) was issued to.

| actions | code |
|---|---|
| `ClaimCheck`, `ClaimWrite`, `ClaimCommit`, `ClaimAbort` | `claimWork`, `upsertWorkClaim`. Three steps under one row lock (`tx`), because the lease is compared with three readings of the clock |
| `StartRun`, `UpdateRun`, `LateRun` | `reportRun` with `moveToInProgress`, `moveToInReview`, rebinding and `lateRunAllowance` |
| `ReleaseClaim` | `releaseClaim` |
| `SweepRead`, `SweepClose`, `SweepMiss` | `sweepExpiredClaims`: the read before the lock, the close behind it, and the delete that finds nothing and rolls back |
| `ReviewWork`, `GithubMove`, `UpdateState` | `reviewWorkInTransaction`, the GitHub forward move, `updateIssue` |
| `CommitWork`, `UncommitCheck`, `UncommitWrite` | `commitWork`, and `uncommitWork`, which takes no lock before its compare-and-set |

`Issue.revision` is kept as what its readers can tell: an uncommit in flight
survives exactly while no step increments the revision, so the increment is the
reset of `undo`. The item is not an incident. Whether a completed run belongs to
a schedule is a choice of the report.

### Lease

One lease stands at a time, a lease that ended never stands again, executions
begin and advance only under a standing lease and stay as they finish. `WorkLease`
implements it (`ImplementsLease`) under the mapping of the committed claim to the
standing lease, of the minted ids to the used ones, and of the runs to executions.
The mapping hides sessions, tokens, clocks, the claim transaction and the sweep.

### EventOutbox

Events, their delivery rows per target, and the flush each worker runs.
`FlushStart` reads the batch, `Claim` is the compare-and-set on `claimedAt`, `Post`
the request, `Record` the bookkeeping, `Evaluate`, `Close` and `CloseLost` the
verdict and the fenced write, `Account` the subscription counters,
`WebhookUpdate` the administrator who switches a subscription on or off at any time
(`Switches` bounds which of the two an instance contains). `ClaimAges` and
`BackoffElapses` are time. `Faults` says whether flushes may die (`crash`) or outlive their claim (`stall`). `accepted`,
`stolen` and `excused` are ghosts: what the receivers took, and why a repeat was
legitimate. A subscription keeps its URL (an edited URL is a new target hash), its
event types and its filter, so which events match it is fixed (`Routed`), although a
flush evaluates the match again.
Rotating a secret, which forgets the failures like switching on, is left out.

### AtLeastOnce

Events are open until a sender that holds them settles them, once and for all; they
may arrive again and again, but only at subscriptions they match and a sender saw
enabled; a sender calls an event delivered only when it has arrived at every
subscription it matches of those that were enabled when the sender began, and dead
only if there was one. `EventOutbox` implements it (`ImplementsAtLeastOnce`): an event
is one once it is enqueued (`EventState`), held while it is claimed (`Held`), has arrived
where a receiver took a POST of it (`TakenBy`), and a sender's view is the subscriptions
its flush read (`SeenOn`). The mapping hides delivery rows, attempts, backoff, batches,
the age and the owner of a claim, counters and crashes.

### AgentRequest

Requests are named by chain and hop. `Take`, `Renew`, `AnswerRead`, `AnswerMoves`,
`AnswerRefused` are the executions of an agent (the answer is split between its
read and its compare-and-set); `AnswerAsHuman`, `ReplyToAgentRequest`,
`CancelAgentRequest`, `WithdrawNeedInfo` and `AnswerNeedInfoByComment` are people;
`SweepStart`, `ExpireOne`, `ExpireSkip` with `PickSuccessor` and `HandOff` are
`expireOverdueAgentRequests`. All requests are on one item; delegation, which
also opens requests, is not modelled; notices are counted, not worded.

### GithubInbound

`events` is a history of GitHub, numbered by `updated_at` and chosen at the start:
arriving as it happens is one case of arriving late. `AcceptGitHubDelivery` files a
receipt for any event, again under a second delivery id, or never. `Pick`, `Claim`,
`ClaimLost`, `Stale`, `Fail`, `ReplayGitHubDelivery` are `github-inbound.ts`;
`Duplicate`, `ProcessGitHubPrEvent`, `ProcessGitHubCreateEvent`, `MergeForward` and
`MergeFence` are the handler and the state machine. A merge is two steps when its
forward write matches nothing: it then holds no lock on the item, and its second
write sees what others committed. `fenced` and `applied` are ghosts.
Distinct events have distinct timestamps. Routing, signatures, the incident gate,
the attempt history and payload compaction are left out.

### WorkGraph

`parent` and the `CONTAINS` links are the hierarchy, kept twice by the code; `BLOCKS`
links are the dependencies. Every writer holds the team's advisory lock
(`lockWorkGraph`), so `CreateIssue`, `CreateContains`, `CreateBlocks`, `DeleteContains`,
`DeleteBlocks`, `UpdateParent`, `UpdateKind` and `DeleteIssue` are one step each. The
cycle checks are modelled by the set they compute (`canReach`); `ReachIsSearch`,
an assumption TLC evaluates, compares it with the search of the code on every
graph over three items. Restoring is two steps,
`RestoreRead` and `RestoreDeletedIssue`, because the snapshot is read before the
lock. One repository is assumed.

### Delivery

A root with its grant, a task per unit and grant revision, and for each task its
dispatch, claim, runs, effects and receipts. `plan` is the sequence of policies
people will approve, chosen at the start; each gives its units their
`maxAttempts`. `ProposeDeliveryChange`, `ApproveDeliveryChange`,
`DeclineDeliveryChange`, `EditContract` and `MoveRoot` are people; `ClaimWork`,
`CompleteRun`, `EndClaim` and the two ends of a lease are the work lease as the
package sees it; `Ack` to `Recover` are the operations of `executorUpdate`;
`AcceptPackage` and `ReturnPackage` are the review. All hold the team's lock, so
each call is one step; the difficulty is the order of calls, late ones included.
Units are independent: `dependsOn` only delays a claim.

### ContractAmendment, EvidenceVerification

`contract` maps fields to values, so the digest a run freezes is equal again when a
contract is changed back. An amendment and the gate's acceptance of it are two
transactions of one call (`gate`). `EvidenceVerification` extends it with the
evidence of one item and the workers: `ReadEvidence`, `TakeLease`, `AppendPending`,
`AppendObservation`, `VerificationFails`, `ReleaseLease`, with `Crash`, `LeaseEnds` and
`RowAges` (the retry delay) around them. GitHub answers anything about what it is
asked. `Eligible` is the evaluation the gate makes of the standing rows.

### ReviewGate

`SweepBegins` reads the candidates, and then for each `Skip`, `Ask`, `GitHubDeclines`,
`GateAccepts`, `GateLeavesIt` or `GateThrows`. People and executors (`People`) rework,
return, accept, move and mark items while GitHub is asked. `order` is the order of
the last evaluations, which decides who is in the next batch (`lastChecked` is an
item's place in it); `WindowPasses` is `BUG_GATE_RETRY_MS`. What the policy decides is open at every look.

### WorkSchedule

`nextMatch` is the cron search with its hour and day jumps, over a calendar with
small parameters and zones whose offset may change at any minute. `FireStart`, `FireRead`,
`FireWrite` and `FireLost` are one firing of a timer, `SetWorkSchedule`,
`SetWorkScheduleActive`, `ClearWorkSchedule` are people, `ReportRound` is an agent. The
write of a firing compares only the round, as in the code.

## 4. Runs

All runs pass; times are for two workers. The state invariants of a module are
conjoined, with its type invariant, under one name (`OutboxInv`, `GraphInv`, ...); the named
parts are in brackets.

| run | time | what it shows |
|---|---|---|
| `lease_safety` | 70 s | two sessions of one agent and a person, two claim ids, two runs, a clock of 3: `TypeOK`, `OneExecution`, `OnlyHolderReports`, `NoCompletionOverLiveLease`, `SupersededSilenced`, and `ImplementsLease`, the refinement |
| `lease_live` | short | `ExpiredLeaseEnds` although the sweep may lose its row between read and lock |
| `outbox_safety` | 180 s | two flushes, two targets, one event, crashes and stalls, subscriptions switched off by their failures and on by people: `OutboxInv` (`NoNeedlessRepeat`), `ClosedOnEvidence`, and `ImplementsAtLeastOnce`, the refinement |
| `outbox_live` | 170 s | two events, a batch of one and people who switch subscriptions off: `EveryEventCloses` when no flush dies |
| `request_chain` | 30 s | two executions, two sweeps, three agents naming each other in a circle, two owners: `RequestInv` (`OneActorAtATime`, `DeadEndAskedAPerson`, `AtTheLimitAPerson`, `NeedInfoStaysWithItsTarget`), `SettledForGood`, `NewestExecutionAnswers` |
| `request_rest` | 25 s | `ChainLeavesTheAgents` by deadlines and sweeps alone |
| `github_safety` | 60 s | two replicas, three receipts of a reworked pull request, two faults: `InboundInv` (`AppliedOnce`), `ProcessedForGood`, `LateCloseMovesNothing`, `RolledBackByAMover` |
| `graph_safety` | 145 s | three items, two kinds, two restores in flight, two deletions: `GraphInv` (`ProjectionAgrees`, `LegalKindsButRestored`), `NoCycleButThroughRestored`, `UndoRestores`, `RestoreKeepsTheRest`; TLC also evaluates `ReachIsSearch` |
| `delivery_safety` | 190 s | two units under one grant, or one unit approved twice: `DeliveryInv` (`OneRunPerGeneration`, `WithinBudget`), `AcceptedOnDelivery`, `UnresolvedIsReconcilable`, `DeliveredReachesReview`, `StopIsFinal`, `NoAuthorityWithoutGrant` |
| `gate_safety` | 85 s | two overlapping sweeps with a batch of one over a bug and an incident: `AcceptsWhatStands`, `TakenBackStaysWithPeople`, `NobodyCrowdedOut`, `GateTypeOK` |
| `evidence_safety` | 165 s | two workers on one evidence, amendments and edits of the contract, a second commit, crashes: `EvidenceInv` (`OnePending`, `EligibleIsConfirmed`), `NothingOverwrittenUnseen`, `VerdictStands` |
| `schedule_rounds` | 85 s | two timers, two schedules in turn, three rounds, rules in zones that change: `ScheduleInv` (`ToldOnce`, `ArmedForItsRule`), `MissesOnlyBrokenHours`, `MissedRoundsAreMissed`, `KeepsFiring` |

### Bounds, and why they are enough

- Lease: two claim ids let a claim be superseded and the old id be met again; two
  runs let a second execution start while the first is open; a clock of 3 with
  lease 1 gives a live, an expired and a swept lease and room for the late
  window. Two sessions of one account are the case tokens exist for. Sessions
  are interchangeable where they share an account, as are claim and run ids:
  the symmetry sets permute only these.
- Outbox: two workers race for one claim; two targets let one fail while the
  other succeeds; two attempts give a first try, a retry and exhaustion; a
  threshold of one reaches auto-disable, and switching on (`Switches`) undoes it, so
  flushes differ in the subscriptions they read. In `outbox_live` a batch of one makes
  an event in backoff occupy it; there people switch off, so a subscription may be gone
  while flushes still deliver to it or before an event has closed.
- Requests: five actors with three agents in a circle, hop limit two, four hops:
  a chain meets the limit while an agent is left to ask, and both owners. Two claim generations make one
  execution stale. A sweep batch of one makes sweeps revisit.
- GitHub: three receipts of four events contain every order of an opening, a
  close and a merge, and a duplicate; two faults contain a lapsed lease followed
  by the late failure of the old worker, and two failures to the dead letter and
  its replay (`MAX_FAILURES` is 2 instead of 3).

- Graph: three items are the shortest cycle that is neither a self-loop nor a pair;
  two kinds, one of which contains nothing, make kinds matter; two restores in
  flight race for one tombstone, and two deletions let a snapshot name an item
  that is gone.
- Delivery: two claims give an executor that lost its claim and its successor; one
  effect meets every order of recovery, return and stop, but that two are never
  started at once cannot fail with one, and is shown only by the theorem
  `EffectsStayReconcilable` (two effects are beyond five minutes); a unit with one attempt and
  one with two meet the budget from recovery and from return; a second approval
  makes the first grant's executor a late one.
- Gate: a batch of one makes every candidate compete; runs up to the bound let an
  item be reworked while GitHub is asked about its older run.
- Evidence: two values let a contract change and change back; two commits let the
  run move on while its evidence is verified; two workers steal the lease.
- Schedules: hours of 3 minutes, days of 2 hours, months of 2 days keep every jump
  of `nextMatch` (hour, day, month, and both day fields) within a horizon of 30
  minutes; `MissesOnlyBrokenHours` compares all of them with the definition, for
  every field set and zone of the instance: clocks put forward and back, by an hour and
  by part of one, at a full hour and inside one, once and twice. Some of these do lose
  a match (section 6). The clock of the firings is bounded by 3.

Deadlock is checked for the lease, GitHub, the gate and the evidence. The outbox,
the requests and the bounded histories of the graph, delivery and schedule come
to rest by design, so those runs do not check it.

### Fairness

- Lease: `WF` of `SweepRead`, because the interval timer starts the sweep again
  whatever happened to the last one (its errors are caught); `SF` of the sweep's
  step behind the row lock, because Postgres queues lock waiters and a sweep in
  the queue is not overtaken for ever; `WF` that a claim transaction ends.
- Outbox: `WF` of starting a flush and of each step of a running one, and of time
  passing. A crash is not excluded by fairness but by the instance (`Faults`).
- Requests: `WF` of deadlines passing and of each sweep. Nothing is asked of
  agents or people.
- Gate: `WF` of the retry window passing and of each sweep's steps, because the
  timer fires again whatever happened and GitHub's answer has a timeout.
- Schedules: `WF` of each server's firing (a one-minute timer whose errors are
  caught) and of time passing.

## 5. Proofs

Each `XProofs` module extends the model `X` (`AcceptanceProofs` extends
`EvidenceVerification` and `ReviewGate`), states an inductive invariant, proves
one lemma per action that it is preserved, and derives the theorems from it. The
proofs hold for every value of the constants that satisfies the named assumptions;
the bounds of section 4 are numbers there, of any size. Every inductive invariant
was model-checked on the run's instance before it was proved.

| module | theorem | statement: `Spec =>` |
|---|---|---|
| `WorkLeaseProofs` | `TypeCorrect`, `ExecutionIsExclusive`, `OnlyTokenHolderReports` | `[]TypeOK`, `[]OneExecution`, `[]OnlyHolderReports` |
| | `RunHistoryIsFrozen`, `SupersededRunsStaySilent`, `LiveLeaseIsRespected` | `RunHistoryFrozen`, `SupersededSilenced`, `NoCompletionOverLiveLease` |
| | `ClaimsImplementTheLease` | `ImplementsLease`, the refinement of `Lease` |
| `EventOutboxProofs` | `NoRepeatWithoutExcuse`, `AnEventClosesOnEvidence` | `[]OutboxInv`, `ClosedOnEvidence` |
| | `FlushesDeliverAtLeastOnce` | `ImplementsAtLeastOnce`, the refinement of `AtLeastOnce` |
| `AgentRequestProofs` | `AChainAsksInTurn`, `ASettledRequestStays`, `TheNewestExecutionAnswers` | `[]RequestInv`, `SettledForGood`, `NewestExecutionAnswers` |
| `GithubInboundProofs` | `NoEventTwice`, `AProcessedReceiptStays` | `[]InboundInv`, `ProcessedForGood` |
| | `ALateCloseMovesNothing`, `ARollbackHasAMover` | `LateCloseMovesNothing`, `RolledBackByAMover` |
| `WorkGraphProofs` | `TheProjectionAgrees`, `NoCycleIsBuilt` | `[]GraphInv`, `[]NoCycleButThroughRestored` |
| | `UndoIsExactEverywhere`, `ARestoreKeepsTheRest` | `[]UndoRestores`, `RestoreKeepsTheRest` |
| `DeliveryProofs` | `DispatchesAreSound`, `EffectsStayReconcilable` | `[]DeliveryInv`, `[]UnresolvedIsReconcilable` |
| | `DeliveryReachesReview`, `AcceptanceStandsOnDelivery` | `[]DeliveredReachesReview`, `[]AcceptedOnDelivery` |
| | `AStopIsFinal`, `AuthorityEndsWithTheGrant` | `StopIsFinal`, `NoAuthorityWithoutGrant` |
| `AcceptanceProofs` | `EligibleWasConfirmed`, `AcceptanceSeesWhatItOverwrites`, `AVerdictStands` | `[]EvidenceInv`, `NothingOverwrittenUnseen`, `VerdictStands` |
| | `TheGateIsWellFormed`, `TheGateAcceptsWhatStands`, `WhatPeopleTookBackStays` (of `GateSpec`) | `[]GateTypeOK`, `AcceptsWhatStands`, `TakenBackStaysWithPeople` |
| `WorkScheduleProofs` | `RoundsAreToldOnce`, `MissedRoundsWereMissed`, `OnlyBrokenHoursAreMissed` | `[]ScheduleInv`, `[]MissedRoundsAreMissed`, `[]MissesOnlyBrokenHours` |
| | `FirstWhereHoursAreWhole` | (of `nextMatch` itself) the first match, for a zone with `ChangesAtFullHours` |

### Assumptions

All are named `ASSUME`s of the models, and TLC evaluates them in every run of their
module. Most say that bounds are natural numbers, that kinds of actors are
disjoint and that `None` is no value of any of them. Those that say more:

- `PlanAssumption` (`Delivery`): a policy has at least one unit and gives each unit at
  least one attempt, as `delivery-policy.ts` validates (`maxAttempts` is 1 to 10).
- `InboundAssumption` (`GithubInbound`): the histories are ones GitHub can produce; in
  particular nothing happens to a pull request after its merge.
- `RequestAssumption` (`AgentRequest`): agents and people are disjoint, owners are
  people. Nothing is assumed of the declared successors.
- `NodeAssumption` (`WorkGraph`), `GateAssumption` (`ReviewGate`): items are finitely many.
- `ZoneAssumption` (`WorkSchedule`): a zone is any function from instants to offsets, so
  clocks may change anywhere, by any amount and any number of times, as
  `isValidTimeZone` accepts every IANA zone. The lengths of hours, days, weeks, months
  and years are any positive numbers.

### The arguments

**WorkLease.**
`LeaseInv == TypeOK /\ IdsMinted /\ PeopleCarryNoToken /\ TxSound /\ OneExecution /\ OnlyHolderReports`.
`OneExecution` alone is not inductive because a claim transaction holds a row it
has not committed yet: `TxSound` says that row either has a fresh id or keeps the
holder and the token of the row it renews. `OnlyHolderReports` needs `IdsMinted`
(a token in use was issued to somebody, so it is not issued again) and
`PeopleCarryNoToken` (a person's report never writes a run that has a token).
The refinement adds `TxRenews`: a claim that is live while `claimWork` holds the row
lock is being renewed, so its commit is a stutter of the abstract lease and never
the replacement of a standing lease. Each action then maps to a step of `Lease` or
leaves the claim, the minted ids and the executions alone.

**EventOutbox.** `OutboxSound` says of each flush that what it remembers is in the
delivery rows (an answer to record is of a row it wrote, an outcome was recorded,
the verdict it will write still holds), and of each event that only an open event
is claimed, that the flush delivering it holds the claim unless the claim was
stolen, and that without an excuse a POST that was taken is the only one and is
recorded or about to be (`TakenOnce`). The last is what makes `NoNeedlessRepeat`
inductive: between POST and bookkeeping the row does not show the success yet. The
order of a batch is a `CHOOSE`; that every set of events can be listed in
order (`ListingExists`) is proved by taking a least number for which it fails.

The refinement needs `PromiseSound` beside it: a row recorded as delivered, and an
answer of success that waits to be recorded, are of a POST the receiver took; a flush
works only on events that were enqueued and knows some subscription while it runs; a
verdict of dead has a target; an event not yet enqueued is open. Then `Close` is
`Settle` (the fence says the event is held, `ClaimedIsOpen` that it is open,
`VerdictHolds` and `PromiseSound` that a delivered event arrived), `Post` is `Arrive` when
the receiver takes it, also after the event was settled, a crash is the `End` of a
sender, accounting and administrators `Switch`, and everything else stutters.

**AgentRequest.** `RequestSound` adds to the run's invariant that a chain moved past
its earlier requests only by settling them, that it never comes back to an actor, that
what exists was put to somebody and that a notice means a settled request. The
interesting case is the hand-off: the first candidate that may be asked exists and
is new to the chain, it is a person from the hop limit on, and if there is none a
person was asked before. That the question leaves the agents in the end
(`ChainLeavesTheAgents`) stays with TLC.

**GithubInbound.** `InboundSound` has a part on deliveries and one on the item.
Deliveries: a worker's token is never newer than its receipt's, and every claim
of a receipt but the first was paid for by a fault. Item: what was applied is in
the log and not newer than the watermark (`AppliedNotNewer`), the pull request the item is
in Review for put it there by the newest applied event (`SourceMoved`), and the
watermark is past the merge of a fenced pull request (`FencedPast`).
`LateCloseMovesNothing` follows from the last two conjuncts and the compare-and-set.

**WorkGraph.** `GraphSound` states the agreement of parents and links edge by edge,
that links end at live items, and that a snapshot holds the link to every child it
would take back. The cycle argument (`NewEdgeIsSafe`) is about closed sets: `canReach`
refuses an edge unless some set holds its target, is closed under the edges and
lacks its source. A set of items that meets that closed set has its end inside it,
where the new edge does not start; one that does not meet it lacks the new edge's
target. Restored items are outside, as in the property: the code replays their
links without the check.

**Delivery.** `DispatchInv` adds to the five state properties that runs belong to the
task whose claim or dispatch names them, that a queued dispatch has no run, that
nothing has happened to a task no approval has created, that no receipt is of a
generation to come (`ReceiptsPast`), and that a started effect is of the current
generation and alone (`OneStarted`). Without `ReceiptsPast` a recovery could enter a
generation that already has receipts of another run.

**EvidenceVerification.** `ConfirmedInv` has `OnePending` without counting, and
`RowsAsked`: what is recorded as verified was asked about that very contract.

**ReviewGate.** `GateInv` says of the items that runs are counted from the first and that
what people took back are runs there were (`ItemsOK`), that the order of the last
evaluations lists items once (`OrderOK`, which makes a batch a sequence of distinct
items and keeps it one when an item moves to the end), and of a sweep between its
look and its write that it looked at a run the item had, completed if it is still the
newest, and taken back by people only after the look (`LooksStand`). The last part is
what carries `TakenBackStaysWithPeople` over the question to GitHub.

**WorkSchedule.** `ScheduleSound` says of a firing between its read and its write what
is still true while its compare-and-set on the round may succeed: the count of
missed rounds it read is the row's, and a last round it found without a run has
had none in time since (`ReadSound`). Rows and rounds of one schedule only grow, so a
firing that lost the round never meets it again. The search of `nextMatch` is a
recursive function, which has to be shown to exist (`SearchExists`) before anything
can be said of it; both that and `SearchFinds` take a last instant where they fail
and refute it by one step of the search. The step over an hour is sound because
day, month and hour of the wall clock are constant between an instant and the next
full hour while the offset is the same (`JumpStaysInTheHour`); an instant of the
jump with another offset lies in a broken hour by definition (`JumpPasses`). The lemma
`NextMatchFinds` is the result for every instant, not only the ones the run asks. A
zone that changes at full hours has no broken hour (`FullHoursAreWhole`: the first
change after an instant is no earlier than the next full hour), which gives
`FirstWhereHoursAreWhole`, the promise of the code's comment.

### Only model-checked

- Liveness (`ExpiredLeaseEnds`, `EveryEventCloses`, `ChainLeavesTheAgents`,
  `NobodyCrowdedOut`, `KeepsFiring`): fairness and `ENABLED` are out of the prover's reach.
- `ReachIsSearch`: that the breadth-first search of `graph-integrity.ts` computes the
  set the model uses needs induction over the search.

Every other property of a run is a theorem.

## 6. Met while modelling

The models contain what the code does, so the following are behaviours of the
models too. The properties above are stated so that they say what the code does
guarantee beside them.

- `claim-expiry.ts:26`: the sweep checks the lease before it waits for the `Issue` row
  and not again behind it; a renewal that commits while it waits is failed and
  deleted, against the comment at line 25.
- `run-service-report.ts:303`, `claim-service.ts:1164`: a late run, or a renewal whose
  row expires before the upsert, deletes the claim; `onDelete: SetNull` leaves the
  open run `RUNNING`, where no sweep finds it. `Lease` therefore lets executions be
  dropped with a lease but does not require it.
- `late-run.ts:42`: the holder before the last one may still file a late run, if the
  last claim ended by release or completion.
- `work-uncommit.ts:73`: an uncommit can undo work that was claimed meanwhile, since
  a claim does not move the revision.
- `event-outbox.ts:384`: after a crash between the last delivery row (`:711`) and the
  fenced close (`:291`) no row is due, so no flush takes the event again, and it
  keeps its place in every batch. `outbox_live` has no crashes for this reason.
- `event-outbox.ts:569`: one exhausted delivery is counted once per later flush of
  its event, against the count in `docs/api.md:1517`.
- `github-inbound.ts:44`: a lease that ran out is taken over without counting a
  failure, so a receipt that kills every worker is retried for ever and never dead-lettered.
- `need-info-service.ts:199`: a comment completes every open needinfo of its author
  but is the answer of the first only, against `docs/api.md:992`.
- `agent-request-handoff.ts:197` and `:169`: a person is timed out like an agent and
  followed by the next owner, past the limit stated in `docs/api.md:1053`, and the
  request of the last one is closed as `FAILED`, against `docs/api.md:1067` ("the
  request stays `submitted` until it is answered or canceled"). `ChainLeavesTheAgents`
  therefore speaks of the agents only: what it promises is the escalation to a
  person of `docs/api.md:1055`, and nothing about how long the person is given.
- `github-webhook-state-machine.ts:349`: `stateSourcePrId` survives moves by people and
  agents, so closing a pull request rolls back a later submission it did not make,
  against `docs/linear-aligned-architecture-spec.md:132`. What holds is
  `RolledBackByAMover`: the pull request did move the item once.
- `github-webhook-handler.ts:486`: a close committing between the two writes of a
  merge leaves the item in STARTED, which neither order of the two does.
- `github-webhook-state-machine.ts:218`: an event that does not move the item leaves
  no timestamp, so a close that arrives before its opening is forgotten.
- `work-tombstone.ts:244`: a restore replays the links of its snapshot without the
  cycle check, so edges added since the deletion may close a cycle through the
  restored item, against `graph-integrity.ts:36`. What holds is
  `NoCycleButThroughRestored`.
- `delivery-review.ts:68`: a return of a package with a dispatch still `RUNNING` (its
  lease over, its final receipt never filed) exhausts it with attempts left, against
  `docs/external-executors.md:77`.
- `executor-service.ts:153`: a renewal of the claim does not renew the dispatch's copy
  of the lease until the next checkpoint, and the executor is locked out meanwhile.
- `executor-service.ts:145`: completing the run before the final receipt ends the claim
  the receipt needs.
- `bug-auto-accept.ts:195`: the refusal of `assertIncidentMayClose`
  (`incident-closure.ts:38`) leaves the sweep without an evaluation, so an unfinished
  incident keeps the front of the batch, against the comment at
  `bug-auto-accept.ts:115`. `NobodyCrowdedOut` therefore asks that no such incident is
  in Review for ever.
- `contract-amendment.ts:331`: taking an automatic acceptance back has no staleness
  check and leaves the original accepted, so it can be taken back again over what a
  person accepted since. An agent that proposes again supersedes the copy that
  waits for the person.
- `work-schedule-cron.ts:118`: outside a matching hour the search adds the minutes that
  were left of the hour before the clock changed. Where it changes inside an hour,
  as in Pacific/Chatham (2:45 to 3:45 in spring, 3:45 to 2:45 in autumn), the jump
  from 2:00 lands at 4:00 and the rule `50 3 * * *` does not fire that day, and in autumn
  the second 2:50 is passed over, against the comment at line 102 ("The first matching minute").
  What holds is `MissesOnlyBrokenHours`.
- `work-schedule.ts:99`: a firing compares only the round, so a rule replaced or a
  schedule paused between its read and its write gets the old rule's next time and
  one more firing, against line 73.
- `work-schedule.ts:96`: a schedule removed and created again starts at round 1, and
  runs of the old rounds count for the new ones.

## 7. Not modelled

Listed with reasons under `components` in `PROJECT.json`. In short: delegation is in
the plan; idempotency keys are one insert under a unique constraint in the
transaction of the effect, so the database gives the guarantee; notifications,
reminders, search, import, synchronisation, access control, the API surfaces and
the clients are CRUD, I/O or pure evaluation with no interleaving of their own to
check. They are most of the repository's lines: the web, command-line and
extension clients, the GraphQL schema and the MCP tools alone are more than half of
it, which is why the modelled share of all lines is small although the services
that coordinate several actors are covered.
