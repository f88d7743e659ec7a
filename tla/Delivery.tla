------------------------------- MODULE Delivery -------------------------------
(***************************************************************************)
(* A delivery package and its external executors: a root item with an     *)
(* approved grant, one implementation task per unit and grant revision,    *)
(* the executor dispatch of each task, the claims and runs under which an  *)
(* executor works, its external effects and receipts, and the review of    *)
(* the package (executor-service.ts, delivery-*.ts, and the parts of       *)
(* claim-service.ts, run-service-report.ts, run-service-review.ts,         *)
(* claim-release.ts and claim-expiry.ts that touch them).                  *)
(*                                                                         *)
(* executorUpdate, claims, reviews and decisions each hold the team's      *)
(* advisory lock, or the task's row lock, for the whole transaction: each  *)
(* is one step.  What interleaves are the calls, in any order, and time.   *)
(* Calls that return what is already recorded (a replayed receipt, a       *)
(* second dispatch) change nothing and are left out, as is the revision    *)
(* fence: it refuses calls of a client whose last read is out of date,     *)
(* and a client may always have read just before it calls.                 *)
(*                                                                         *)
(* Leases are abstract: a lease is live until some step ends it.  The      *)
(* dispatch keeps its own copy of the claim's lease, refreshed only by an  *)
(* acknowledgement or a checkpoint: the claim may be renewed and outlive   *)
(* the copy, the copy never outlives the claim it was taken from.          *)
(* Renewals and checkpoints leave no other trace and are not steps of      *)
(* their own.                                                              *)
(***************************************************************************)
EXTENDS Integers, FiniteSets

CONSTANTS Unit,         \* keys of units, each with an executor
          Plans,        \* the packages considered, each a sequence of policies
          MaxGrants,    \* bound: approvals, the length of a plan
          MaxClaims,    \* bound: claims, and with them runs
          MaxEffects,   \* bound: external effects
          MaxGen        \* bound: generations of a dispatch

ASSUME BoundsAssumption == /\ MaxGrants \in Nat /\ MaxClaims \in Nat /\ MaxEffects \in Nat
                           /\ MaxGen \in Nat
ASSUME PlanAssumption ==
    \A p \in Plans : \E n \in 1 .. MaxGrants :
        /\ DOMAIN p = 1 .. n
        /\ \A g \in 1 .. n : /\ DOMAIN p[g] \in (SUBSET Unit) \ {{}}
                            /\ p[g] \in [DOMAIN p[g] -> Nat \ {0}]

NoRun == 0
RunId == 1 .. MaxClaims
EffectId == 1 .. MaxEffects
Task == Unit \X (1 .. MaxGrants)

RootState == {"open", "REVIEW", "COMPLETED", "CANCELED"}  \* open: BACKLOG to STARTED
DispatchState == {"QUEUED", "RUNNING", "STOP_REQUESTED", "STOPPED", "DELIVERED", "UNKNOWN", "EXHAUSTED"}

VARIABLES plan,      \* plan[g]: the policy of revision g, the maxAttempts of its units
          rootState, \* state type of the package's root item
          grant,     \* revision of its grant, 0 before the first approval
          stale,     \* the root's contract is no longer the one the grant digests
          proposal,  \* the pending change set: "none", "fresh", or "stale"
          taskState, \* taskState[t]: "open", "REVIEW" or "COMPLETED"
          disp,      \* disp[t]: the executor dispatch of task t
          claim,     \* claim[t]: the claim of task t
          runs,      \* runs[i]: the run of the i-th claim
          claims,    \* claims made so far
          effects,   \* effects[e]: the external effects prepared so far
          receipts,  \* receipts recorded
          byHand     \* history: a person moved the root since the last settlement

root == <<plan, rootState, grant, stale, proposal, byHand>>
exec == <<taskState, disp, claim, runs, claims>>
vars == <<root, exec, effects, receipts>>

NoClaim == [st |-> "none", run |-> NoRun]

\* A dispatch: its state, generation, bound run, and whether its lease is live.
QueuedDispatch(g) == [st |-> "QUEUED", gen |-> g, run |-> NoRun, leased |-> FALSE]

TypeOK ==
    /\ plan \in Plans
    /\ rootState \in RootState /\ grant \in 0 .. MaxGrants
    /\ stale \in BOOLEAN /\ byHand \in BOOLEAN
    /\ proposal \in {"none", "fresh", "stale"}
    /\ taskState \in [Task -> {"open", "REVIEW", "COMPLETED"}]
    /\ disp \in [Task -> [st : DispatchState, gen : Nat, run : {NoRun} \cup RunId,
                          leased : BOOLEAN]]
    /\ claim \in [Task -> [st : {"none", "live", "over"}, run : {NoRun} \cup RunId]]
    /\ claims \in 0 .. MaxClaims
    /\ runs \in [1 .. claims -> [task : Task, st : {"RUNNING", "COMPLETED", "revoked"}]]
    /\ \E n \in 0 .. MaxEffects :
          effects \in [1 .. n -> [task : Task, gen : Nat,
                                  st : {"PREPARED", "STARTED", "resolved"}]]
    /\ receipts \subseteq [task : Task, gen : Nat, run : RunId, final : BOOLEAN]

-----------------------------------------------------------------------------
(* What the operations look up *)

\* approvedDelivery: a grant, its contract unchanged, its root not closed.
approvedDelivery == grant > 0 /\ ~stale /\ rootState \notin {"COMPLETED", "CANCELED"}

\* assertDeliveryExecution: the task belongs to the current grant revision.
assertDeliveryExecution(t) == approvedDelivery /\ t[2] = grant

\* instantiateApprovedUnits has created the task.
Exists(t) == t[2] <= grant /\ t[1] \in DOMAIN plan[t[2]]

\* executorVisibleState: running on paper, but the lease is over.
executorVisibleState(d) ==
    IF d.st \in {"RUNNING", "STOP_REQUESTED"} /\ ~d.leased THEN "UNKNOWN" ELSE d.st

maxAttempts(t) == plan[t[2]][t[1]]

StartedEffects(t) == {e \in DOMAIN effects : effects[e].task = t /\ effects[e].st = "STARTED"}
StartedNow(t) == {e \in StartedEffects(t) : effects[e].gen = disp[t].gen}

CurrentTasks == {t \in Task : t[2] = grant /\ t[1] \in DOMAIN plan[grant]}
LastRun(t) == {i \in DOMAIN runs : runs[i].task = t /\ \A j \in DOMAIN runs : runs[j].task = t => j <= i}

\* Runs of the set S lose their authority (executionRevokedAt; open ones that lose
\* it with their claim fail as well).
Revoke(S) == [i \in DOMAIN runs |-> IF i \in S THEN [runs[i] EXCEPT !.st = "revoked"] ELSE runs[i]]

\* Mutants of ExecutorRuns: the state of the dispatch, or the grant, is not looked at.
ExecutorThoughStopped(t) ==
    /\ Exists(t) /\ assertDeliveryExecution(t)
    /\ disp[t].run # NoRun /\ runs[disp[t].run].st # "revoked"
    /\ claim[t].st = "live" /\ claim[t].run = disp[t].run
ExecutorUnbound(t) ==
    /\ Exists(t)
    /\ disp[t].run # NoRun /\ runs[disp[t].run].st # "revoked"
    /\ claim[t].st = "live" /\ claim[t].run = disp[t].run
    /\ disp[t].st = "RUNNING" /\ executorVisibleState(disp[t]) = "RUNNING"

\* executorUpdate's checks for the executor of a running dispatch.
ExecutorRuns(t) ==
    /\ Exists(t) /\ assertDeliveryExecution(t)
    /\ disp[t].run # NoRun /\ runs[disp[t].run].st # "revoked"
    /\ claim[t].st = "live" /\ claim[t].run = disp[t].run
    /\ disp[t].st = "RUNNING" /\ executorVisibleState(disp[t]) = "RUNNING"

Init ==
    /\ plan \in Plans
    /\ rootState = "open" /\ grant = 0 /\ stale = FALSE /\ proposal = "none"
    /\ byHand = FALSE
    /\ taskState = [t \in Task |-> "open"]
    /\ disp = [t \in Task |-> QueuedDispatch(1)]
    /\ claim = [t \in Task |-> NoClaim]
    /\ runs = <<>> /\ claims = 0 /\ effects = <<>> /\ receipts = {}

-----------------------------------------------------------------------------
(* Change sets: the grant *)

\* proposeDeliveryChange with a policy: the snapshot is the root as it is now.
ProposeDeliveryChange ==
    /\ proposal = "none" /\ grant < Cardinality(DOMAIN plan)
    /\ proposal' = "fresh"
    /\ UNCHANGED <<plan, rootState, grant, stale, byHand, exec, effects, receipts>>

\* decideDeliveryChange, approved: refused when the root has changed since, or is
\* closed; the new grant revision gets tasks and queued dispatches of its own.
ApproveDeliveryChange ==
    /\ proposal = "fresh" /\ rootState \notin {"COMPLETED", "CANCELED"}
    /\ proposal' = "none"
    /\ grant' = grant + 1 /\ stale' = FALSE
    /\ UNCHANGED <<plan, rootState, byHand, exec, effects, receipts>>

\* decideDeliveryChange, declined: a stale change set can only be declined.
DeclineDeliveryChange ==
    /\ proposal # "none"
    /\ proposal' = "none"
    /\ UNCHANGED <<plan, rootState, grant, stale, byHand, exec, effects, receipts>>

Touched == IF proposal = "fresh" THEN "stale" ELSE proposal

\* updateIssue on the root's contract: away from what the grant digests, or back to it.
EditContract ==
    /\ grant > 0
    /\ stale' = ~stale /\ proposal' = Touched
    /\ UNCHANGED <<plan, rootState, grant, byHand, exec, effects, receipts>>

\* updateIssue on the root's state: anything but COMPLETED once it has a package.
MoveRoot(s) ==
    /\ s \notin {rootState, "COMPLETED"}
    /\ rootState' = s /\ proposal' = Touched /\ byHand' = TRUE
    /\ UNCHANGED <<plan, grant, stale, exec, effects, receipts>>

\* updateIssue on a task's state: a person puts it back.
ReopenTask(t) ==
    /\ Exists(t) /\ taskState[t] # "open"
    /\ taskState' = [taskState EXCEPT ![t] = "open"]
    /\ UNCHANGED <<root, disp, claim, runs, claims, effects, receipts>>

-----------------------------------------------------------------------------
(* Claims and runs of a task *)

\* claimWork by the approved executor, and its first report: older runs of the
\* task fail and are revoked.
ClaimWork(t) ==
    /\ Exists(t) /\ assertDeliveryExecution(t) /\ taskState[t] = "open"
    /\ claim[t].st # "live" /\ claims < MaxClaims
    /\ claims' = claims + 1
    /\ claim' = [claim EXCEPT ![t] = [st |-> "live", run |-> claims + 1]]
    /\ runs' = [i \in 1 .. claims + 1 |->
                   IF i = claims + 1 THEN [task |-> t, st |-> "RUNNING"]
                   ELSE Revoke({j \in DOMAIN runs : runs[j].task = t})[i]]
    /\ UNCHANGED <<root, taskState, disp, effects, receipts>>

\* reportRun COMPLETED: the task goes to Review, the claim ends with it.
CompleteRun(t) ==
    LET i == claim[t].run IN
    /\ assertDeliveryExecution(t) /\ claim[t].st = "live"
    /\ runs[i].st = "RUNNING"
    /\ runs' = [runs EXCEPT ![i].st = "COMPLETED"]
    /\ claim' = [claim EXCEPT ![t] = NoClaim]
    /\ taskState' = [taskState EXCEPT ![t] = IF @ = "open" THEN "REVIEW" ELSE @]
    /\ UNCHANGED <<root, disp, claims, effects, receipts>>

\* releaseClaim, and the expiry sweep on a claim whose lease is over.
EndClaim(t) ==
    /\ claim[t].st # "none"
    /\ runs' = Revoke({claim[t].run})
    /\ claim' = [claim EXCEPT ![t] = NoClaim]
    /\ UNCHANGED <<root, taskState, disp, claims, effects, receipts>>

\* The claim's lease runs out, and any copy of it with it.  (A renewal that shortens
\* the lease leaves the dispatch a copy that outlives it; it is not modelled.)
ClaimLeaseEnds(t) ==
    /\ claim[t].st = "live"
    /\ claim' = [claim EXCEPT ![t].st = "over"]
    /\ disp' = [disp EXCEPT ![t].leased = FALSE]
    /\ UNCHANGED <<root, taskState, runs, claims, effects, receipts>>

\* The dispatch's copy runs out alone: the claim was renewed since, or is gone.
DispatchLeaseEnds(t) ==
    /\ disp[t].leased
    /\ disp' = [disp EXCEPT ![t].leased = FALSE]
    /\ UNCHANGED <<root, taskState, claim, runs, claims, effects, receipts>>

-----------------------------------------------------------------------------
(* executorUpdate *)

\* Mutant of Ack: a dispatch that is running already may be bound again.
AckAgain(t) ==
    LET i == claim[t].run IN
    /\ assertDeliveryExecution(t) /\ claim[t].st = "live"
    /\ disp[t].st \in {"QUEUED", "RUNNING"} /\ runs[i].st = "RUNNING"
    /\ disp' = [disp EXCEPT ![t].st = "RUNNING", ![t].run = i, ![t].leased = TRUE]
    /\ UNCHANGED <<root, taskState, claim, runs, claims, effects, receipts>>

\* ack: the queued dispatch is bound to the run, with a copy of the lease.
Ack(t) ==
    LET i == claim[t].run IN
    /\ assertDeliveryExecution(t) /\ claim[t].st = "live"
    /\ disp[t].st = "QUEUED" /\ runs[i].st = "RUNNING"
    /\ disp' = [disp EXCEPT ![t].st = "RUNNING", ![t].run = i, ![t].leased = TRUE]
    /\ UNCHANGED <<root, taskState, claim, runs, claims, effects, receipts>>

\* prepare_effect: refused while any effect of the dispatch is unresolved.
PrepareEffect(t) ==
    /\ ExecutorRuns(t) /\ StartedEffects(t) = {}
    /\ Cardinality(DOMAIN effects) < MaxEffects
    /\ effects' = [e \in 1 .. Cardinality(DOMAIN effects) + 1 |->
                      IF e \in DOMAIN effects THEN effects[e]
                      ELSE [task |-> t, gen |-> disp[t].gen, st |-> "PREPARED"]]
    /\ UNCHANGED <<root, exec, receipts>>

\* start_effect: the last authorisation before the effect itself.
StartEffect(e) ==
    LET t == effects[e].task IN
    /\ ExecutorRuns(t) /\ StartedEffects(t) = {}
    /\ effects[e].gen = disp[t].gen /\ effects[e].st = "PREPARED"
    /\ effects' = [effects EXCEPT ![e].st = "STARTED"]
    /\ UNCHANGED <<root, exec, receipts>>

\* settleDeliveryRootAfterReceipt: with the dispatches d, every unit is delivered.
Settles(d) == \A t \in CurrentTasks : d[t].st = "DELIVERED"

\* The root then moves to Review, unless it is there or closed.
SettleRoot(d) ==
    IF Settles(d) /\ rootState = "open"
      THEN rootState' = "REVIEW" /\ proposal' = Touched /\ byHand' = FALSE
      ELSE UNCHANGED <<rootState, proposal, byHand>>

\* Mutant of RecordReceipt: the package is settled before the dispatch is updated.
ReceiptSettlesFirst(t, named, observed, final) ==
    /\ ExecutorRuns(t)
    /\ named \subseteq StartedNow(t) /\ Cardinality(named) <= 1
    /\ receipts' = receipts \cup {[task |-> t, gen |-> disp[t].gen, run |-> disp[t].run, final |-> final]}
    /\ effects' = [e \in DOMAIN effects |->
                      IF e \in named /\ observed THEN [effects[e] EXCEPT !.st = "resolved"] ELSE effects[e]]
    /\ disp' = [disp EXCEPT ![t].st = IF final THEN "DELIVERED" ELSE "RUNNING"]
    /\ IF final THEN SettleRoot(disp) ELSE UNCHANGED <<rootState, proposal, byHand>>
    /\ UNCHANGED <<plan, grant, stale, taskState, claim, runs, claims>>

\* receipt: may name the started effect, whose observation matches or does not;
\* a final one marks the dispatch delivered.
RecordReceipt(t, named, observed, final) ==
    /\ ExecutorRuns(t)
    /\ named \subseteq StartedNow(t) /\ Cardinality(named) <= 1
    /\ receipts' = receipts \cup {[task |-> t, gen |-> disp[t].gen, run |-> disp[t].run, final |-> final]}
    /\ effects' = [e \in DOMAIN effects |->
                      IF e \in named /\ observed THEN [effects[e] EXCEPT !.st = "resolved"] ELSE effects[e]]
    /\ disp' = [disp EXCEPT ![t].st = IF final THEN "DELIVERED" ELSE "RUNNING"]
    /\ IF final THEN SettleRoot(disp') ELSE UNCHANGED <<rootState, proposal, byHand>>
    /\ UNCHANGED <<plan, grant, stale, taskState, claim, runs, claims>>

\* stop: by a person, possible without any grant.
Stop(t) ==
    /\ Exists(t) /\ disp[t].st \notin {"STOPPED", "DELIVERED", "STOP_REQUESTED"}
    /\ disp' = [disp EXCEPT ![t].st = IF @ = "QUEUED" THEN "STOPPED" ELSE "STOP_REQUESTED"]
    /\ UNCHANGED <<root, taskState, claim, runs, claims, effects, receipts>>

\* stop_ack: by the executor's run, unless it was revoked; a started effect leaves
\* the outcome unknown.
StopAck(t) ==
    /\ disp[t].run # NoRun /\ runs[disp[t].run].st # "revoked"
    /\ disp[t].st \in {"STOP_REQUESTED", "STOPPED"}
    /\ disp' = [disp EXCEPT ![t].st = IF StartedNow(t) # {} THEN "UNKNOWN" ELSE "STOPPED",
                            ![t].leased = FALSE]
    /\ UNCHANGED <<root, taskState, claim, runs, claims, effects, receipts>>

\* reconcile: a person records what became of a started effect.
Reconcile(t, e, completed) ==
    LET delivered == disp[t].st = "DELIVERED" /\ completed IN
    /\ e \in StartedNow(t) /\ claim[t].st # "live"
    /\ effects' = [effects EXCEPT ![e].st = "resolved"]
    /\ runs' = IF delivered THEN runs ELSE Revoke({disp[t].run} \ {NoRun})
    /\ disp' = [disp EXCEPT ![t].st = IF delivered THEN "DELIVERED" ELSE "UNKNOWN",
                            ![t].leased = FALSE]
    /\ UNCHANGED <<root, taskState, claim, claims, receipts>>

\* Mutant of Recover: a started effect is left behind.
RecoverOverEffect(t) ==
    /\ Exists(t) /\ assertDeliveryExecution(t)
    /\ executorVisibleState(disp[t]) \in {"UNKNOWN", "STOPPED"}
    /\ claim[t].st # "live" /\ disp[t].gen < maxAttempts(t)
    /\ runs' = Revoke({disp[t].run} \ {NoRun})
    /\ disp' = [disp EXCEPT ![t] = QueuedDispatch(disp[t].gen + 1)]
    /\ UNCHANGED <<root, taskState, claim, claims, effects, receipts>>

\* recover: the next attempt of a stopped or expired execution.
Recover(t) ==
    /\ Exists(t) /\ assertDeliveryExecution(t)
    /\ executorVisibleState(disp[t]) \in {"UNKNOWN", "STOPPED"}
    /\ claim[t].st # "live" /\ StartedNow(t) = {}
    /\ disp[t].gen < maxAttempts(t)
    /\ runs' = Revoke({disp[t].run} \ {NoRun})
    /\ disp' = [disp EXCEPT ![t] = QueuedDispatch(disp[t].gen + 1)]
    /\ UNCHANGED <<root, taskState, claim, claims, effects, receipts>>

-----------------------------------------------------------------------------
(* Review of the package *)

\* prepareDeliveryAcceptance for one task of the grant.
ReadyForAcceptance(t) ==
    /\ StartedEffects(t) = {}
    /\ disp[t].st = "DELIVERED"
    /\ [task |-> t, gen |-> disp[t].gen, run |-> disp[t].run, final |-> TRUE] \in receipts
    /\ LastRun(t) = {disp[t].run}
    /\ runs[disp[t].run].st = "COMPLETED"
    /\ claim[t].st # "live"

\* Mutant of AcceptPackage: only the receipts are looked at.
AcceptOnReceipts ==
    /\ rootState = "REVIEW" /\ approvedDelivery
    /\ \A t \in CurrentTasks : disp[t].st = "DELIVERED"
    /\ rootState' = "COMPLETED" /\ proposal' = Touched
    /\ taskState' = [t \in Task |-> IF t \in CurrentTasks THEN "COMPLETED" ELSE taskState[t]]
    /\ UNCHANGED <<plan, grant, stale, byHand, disp, claim, runs, claims, effects, receipts>>

\* reviewWork ACCEPTED: the root and all its tasks together.
AcceptPackage ==
    /\ rootState = "REVIEW" /\ approvedDelivery
    /\ \A t \in CurrentTasks : ReadyForAcceptance(t)
    /\ rootState' = "COMPLETED" /\ proposal' = Touched
    /\ taskState' = [t \in Task |-> IF t \in CurrentTasks THEN "COMPLETED" ELSE taskState[t]]
    /\ UNCHANGED <<plan, grant, stale, byHand, disp, claim, runs, claims, effects, receipts>>

\* What returnDeliveryChildren makes of one dispatch.
Returned(t) ==
    LET d == disp[t] IN
    IF d.st = "QUEUED" THEN d
    ELSE [QueuedDispatch(d.gen + 1) EXCEPT
             !.st = IF d.st \notin {"RUNNING", "STOP_REQUESTED"} /\ d.gen < maxAttempts(t)
                      THEN "QUEUED" ELSE "EXHAUSTED"]

\* reviewWork REJECTED: every run is revoked, every task and dispatch goes back.
ReturnPackage ==
    /\ rootState = "REVIEW" /\ approvedDelivery
    /\ \A t \in CurrentTasks : claim[t].st # "live" /\ StartedEffects(t) = {}
    /\ \A t \in CurrentTasks : Returned(t).gen <= MaxGen
    /\ rootState' = "open" /\ proposal' = Touched
    /\ taskState' = [t \in Task |-> IF t \in CurrentTasks THEN "open" ELSE taskState[t]]
    /\ runs' = Revoke({i \in DOMAIN runs : runs[i].task \in CurrentTasks})
    /\ disp' = [t \in Task |-> IF t \in CurrentTasks THEN Returned(t) ELSE disp[t]]
    /\ UNCHANGED <<plan, grant, stale, byHand, claim, claims, effects, receipts>>

Next ==
    \/ ProposeDeliveryChange \/ ApproveDeliveryChange \/ DeclineDeliveryChange
    \/ EditContract \/ AcceptPackage \/ ReturnPackage
    \/ \E s \in RootState : MoveRoot(s)
    \/ \E t \in Task : \/ ReopenTask(t) \/ ClaimWork(t) \/ CompleteRun(t)
                       \/ EndClaim(t) \/ ClaimLeaseEnds(t) \/ DispatchLeaseEnds(t)
                       \/ Ack(t) \/ PrepareEffect(t)
                       \/ Stop(t) \/ StopAck(t) \/ Recover(t)
    \/ \E e \in DOMAIN effects : StartEffect(e)
    \/ \E t \in Task : /\ ExecutorRuns(t)
                     /\ \E named \in SUBSET DOMAIN effects, observed, final \in BOOLEAN :
                          RecordReceipt(t, named, observed, final)
    \/ \E t \in Task, e \in DOMAIN effects, completed \in BOOLEAN : Reconcile(t, e, completed)

Spec == Init /\ [][Next]_vars

-----------------------------------------------------------------------------
(* Properties *)

\* A package is accepted on what was delivered, and stays so: while the root is
\* completed, every unit of its grant is delivered under its current generation
\* by a completed run that nobody revoked, and no external effect of it is open
\* (prepareDeliveryAcceptance; nothing may undo it afterwards).
AcceptedOnDelivery ==
    rootState = "COMPLETED" => \A t \in CurrentTasks : ReadyForAcceptance(t)

\* An effect whose outcome is unknown can always be reconciled, and blocks all
\* others: at most one effect of a dispatch is started, and it belongs to its
\* current generation, the only one reconcile looks at (recover and
\* returnDeliveryChildren refuse to start another generation over it).
UnresolvedIsReconcilable ==
    \A t \in Task : /\ Cardinality(StartedEffects(t)) <= 1
                    /\ StartedEffects(t) = StartedNow(t)

\* One generation is one execution: its receipts all come from one run, and that
\* run is the dispatch's as long as the generation lasts.
OneRunPerGeneration ==
    \A r \in receipts :
        /\ \A s \in receipts : s.task = r.task /\ s.gen = r.gen => s.run = r.run
        /\ disp[r.task].gen = r.gen => disp[r.task].run = r.run

\* The approved attempt budget holds whatever mix of recover, return and stop led
\* here: no generation past maxAttempts is ever queued, run or delivered.
WithinBudget ==
    \A t \in Task : Exists(t) /\ disp[t].st \in {"QUEUED", "RUNNING", "DELIVERED"}
                       => disp[t].gen <= maxAttempts(t)

\* The state invariant of dispatches: one run for a generation, and no generation past
\* the approved attempts.
DeliveryInv == TypeOK /\ OneRunPerGeneration /\ WithinBudget

\* A stop is final for its generation: once stop was requested, or the outcome is
\* unknown, no effect of it starts and it is not delivered, however late the
\* executor calls.
StopIsFinal ==
    [][\A t \in Task :
          disp[t].st \in {"STOP_REQUESTED", "STOPPED", "UNKNOWN"} /\ disp'[t].gen = disp[t].gen
             => /\ disp'[t].st \notin {"QUEUED", "RUNNING", "DELIVERED"}
                /\ \A e \in DOMAIN effects :
                      effects[e].task = t /\ effects[e].st = "PREPARED" => effects'[e].st = "PREPARED"]_vars

\* The last delivery sends the package to review: when all units are delivered the
\* root is in Review or accepted, unless a person has moved it since.
DeliveredReachesReview ==
    grant > 0 /\ Settles(disp) => rootState \in {"REVIEW", "COMPLETED"} \/ byHand

\* Authority ends with the grant: a run of a task of an older grant, or after the
\* contract was edited, starts no effect and records nothing.
NoAuthorityWithoutGrant ==
    [][/\ \A r \in receipts' \ receipts : assertDeliveryExecution(r.task)
       /\ \A e \in DOMAIN effects' :
             effects'[e].st = "STARTED" /\ (e \in DOMAIN effects => effects[e].st # "STARTED")
                => assertDeliveryExecution(effects'[e].task)]_vars
=============================================================================
