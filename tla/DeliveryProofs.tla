--------------------------- MODULE DeliveryProofs ---------------------------
(***************************************************************************)
(* Proofs about Delivery, for every set of units, every plan and any       *)
(* number of grants, claims, effects and generations.  DispatchInv below   *)
(* is the inductive invariant.                                             *)
(***************************************************************************)
EXTENDS Delivery, FiniteSetTheorems, TLAPS

-----------------------------------------------------------------------------
(* The inductive invariant *)

(* A change set waits only while the plan has a policy left to approve.      *)
GrantFits ==
    /\ grant <= Cardinality(DOMAIN plan)
    /\ proposal # "none" => grant < Cardinality(DOMAIN plan)

(* The run of a claim, and the run of a dispatch, is a run of their task; the *)
(* run of a claim is not completed, since completing it ends the claim.      *)
RunsOwned ==
    \A t \in Task :
        /\ claim[t].st # "none" => /\ claim[t].run \in 1 .. claims
                                   /\ runs[claim[t].run].task = t
                                   /\ runs[claim[t].run].st # "COMPLETED"
        /\ disp[t].run # NoRun => /\ disp[t].run \in 1 .. claims
                                  /\ runs[disp[t].run].task = t

(* A queued dispatch is bound to no run.                                     *)
QueuedUnbound == \A t \in Task : disp[t].st = "QUEUED" => disp[t].run = NoRun

(* Nothing has happened to a task that no approval has created yet.          *)
Untouched ==
    \A t \in Task : ~Exists(t) => /\ disp[t] = QueuedDispatch(1) /\ claim[t] = NoClaim
                                  /\ \A e \in DOMAIN effects : effects[e].task # t

(* No receipt is of a generation to come.                                    *)
ReceiptsPast == \A r \in receipts : r.gen <= disp[r.task].gen

(* A started effect is of the current generation, and the only one started.  *)
OneStarted ==
    \A e \in DOMAIN effects : effects[e].st = "STARTED" =>
        /\ effects[e].gen = disp[effects[e].task].gen
        /\ \A f \in DOMAIN effects :
              effects[f].st = "STARTED" /\ effects[f].task = effects[e].task => f = e

(* What the operations preserve.                                             *)
DispatchInv ==
    /\ TypeOK /\ GrantFits /\ RunsOwned /\ QueuedUnbound /\ Untouched /\ ReceiptsPast
    /\ OneStarted /\ OneRunPerGeneration /\ WithinBudget
    /\ DeliveredReachesReview /\ AcceptedOnDelivery

DispatchRec == [st : DispatchState, gen : Nat, run : {NoRun} \cup RunId, leased : BOOLEAN]
ClaimRec == [st : {"none", "live", "over"}, run : {NoRun} \cup RunId]
RunRec == [task : Task, st : {"RUNNING", "COMPLETED", "revoked"}]
EffectRec == [task : Task, gen : Nat, st : {"PREPARED", "STARTED", "resolved"}]
ReceiptRec == [task : Task, gen : Nat, run : RunId, final : BOOLEAN]

-----------------------------------------------------------------------------
(* What the proofs need to know about plans, effects and runs *)

(* A plan has a policy, with a unit and at least one attempt for each, for    *)
(* every revision up to its length.                                         *)
LEMMA PlanFacts ==
  ASSUME plan \in Plans
  PROVE  /\ Cardinality(DOMAIN plan) \in 1 .. MaxGrants
         /\ DOMAIN plan = 1 .. Cardinality(DOMAIN plan)
         /\ \A g \in DOMAIN plan : /\ DOMAIN plan[g] \in (SUBSET Unit) \ {{}}
                                   /\ \A u \in DOMAIN plan[g] : plan[g][u] \in Nat /\ plan[g][u] >= 1
  <1>1. PICK n \in 1 .. MaxGrants :
            /\ DOMAIN plan = 1 .. n
            /\ \A g \in 1 .. n : /\ DOMAIN plan[g] \in (SUBSET Unit) \ {{}}
                                /\ plan[g] \in [DOMAIN plan[g] -> Nat \ {0}]
    BY PlanAssumption
  <1>2. Cardinality(DOMAIN plan) = n
    BY <1>1, FS_Interval, BoundsAssumption
  <1> QED BY <1>1, <1>2

(* Effects are numbered without gaps.                                        *)
LEMMA EffectsDomain ==
  ASSUME TypeOK
  PROVE  /\ Cardinality(DOMAIN effects) \in 0 .. MaxEffects
         /\ DOMAIN effects = 1 .. Cardinality(DOMAIN effects)
         /\ effects \in [1 .. Cardinality(DOMAIN effects) -> EffectRec]
  <1>1. PICK n \in 0 .. MaxEffects : effects \in [1 .. n -> EffectRec]
    BY DEF TypeOK, EffectRec
  <1>2. DOMAIN effects = 1 .. n
    BY <1>1
  <1>3. Cardinality(1 .. n) = n
    BY FS_Interval, BoundsAssumption
  <1> QED BY <1>1, <1>2, <1>3

(* Revoking runs changes the state of those runs and nothing else.           *)
LEMMA RevokeFacts ==
  ASSUME TypeOK, NEW S
  PROVE  /\ Revoke(S) \in [1 .. claims -> RunRec]
         /\ \A i \in 1 .. claims : /\ Revoke(S)[i].task = runs[i].task
                                   /\ i \in S => Revoke(S)[i].st = "revoked"
                                   /\ i \notin S => Revoke(S)[i] = runs[i]
  <1>1. runs \in [1 .. claims -> RunRec]
    BY DEF TypeOK, RunRec
  <1>2. ASSUME NEW i \in 1 .. claims
        PROVE  /\ Revoke(S)[i] \in RunRec
               /\ Revoke(S)[i].task = runs[i].task
               /\ i \in S => Revoke(S)[i].st = "revoked"
               /\ i \notin S => Revoke(S)[i] = runs[i]
    BY <1>1, <1>2 DEF Revoke, RunRec
  <1>3. Revoke(S) = [i \in 1 .. claims |-> Revoke(S)[i]]
    BY <1>1 DEF Revoke
  <1> QED BY <1>2, <1>3

-----------------------------------------------------------------------------
(* Every operation preserves the invariant *)

(* A change set is proposed while a policy is left.                         *)
LEMMA ProposeDeliveryChangeKeeps ==
  ASSUME DispatchInv, ProposeDeliveryChange
  PROVE  DispatchInv'
  <1>1. TypeOK'
    BY  DEF DispatchInv, TypeOK, DispatchRec, ClaimRec, RunRec, EffectRec, ReceiptRec,
           GrantFits, RunsOwned, QueuedUnbound, Untouched, ReceiptsPast, OneStarted,
           OneRunPerGeneration, WithinBudget, DeliveredReachesReview, AcceptedOnDelivery,
           Exists, maxAttempts, Touched, assertDeliveryExecution, approvedDelivery, NoClaim,
           NoRun, QueuedDispatch, RunId, Revoke, ExecutorRuns, StartedNow, StartedEffects,
           CurrentTasks, Settles, SettleRoot, ReadyForAcceptance, LastRun, Returned,
           executorVisibleState, RootState, DispatchState, root, exec, Task,
           ProposeDeliveryChange
  <1>2. GrantFits'
    BY DEF DispatchInv, GrantFits, root, exec, ProposeDeliveryChange
  <1>3. RunsOwned' /\ QueuedUnbound' /\ Untouched' /\ ReceiptsPast' /\ OneStarted'
        /\ OneRunPerGeneration' /\ WithinBudget' /\ DeliveredReachesReview' /\ AcceptedOnDelivery'
    BY DEF DispatchInv, ProposeDeliveryChange, root, exec, RunsOwned, QueuedUnbound, Untouched,
           Exists, ReceiptsPast, OneStarted, OneRunPerGeneration, WithinBudget, maxAttempts,
           DeliveredReachesReview, Settles, CurrentTasks, AcceptedOnDelivery,
           ReadyForAcceptance, StartedEffects, LastRun
  <1> QED BY <1>1, <1>2, <1>3 DEF DispatchInv

(* A declined change set changes nothing else.                              *)
LEMMA DeclineDeliveryChangeKeeps ==
  ASSUME DispatchInv, DeclineDeliveryChange
  PROVE  DispatchInv'
  <1>1. TypeOK'
    BY  DEF DispatchInv, TypeOK, DispatchRec, ClaimRec, RunRec, EffectRec, ReceiptRec,
           GrantFits, RunsOwned, QueuedUnbound, Untouched, ReceiptsPast, OneStarted,
           OneRunPerGeneration, WithinBudget, DeliveredReachesReview, AcceptedOnDelivery,
           Exists, maxAttempts, Touched, assertDeliveryExecution, approvedDelivery, NoClaim,
           NoRun, QueuedDispatch, RunId, Revoke, ExecutorRuns, StartedNow, StartedEffects,
           CurrentTasks, Settles, SettleRoot, ReadyForAcceptance, LastRun, Returned,
           executorVisibleState, RootState, DispatchState, root, exec, Task,
           DeclineDeliveryChange
  <1>2. GrantFits'
    BY DEF DispatchInv, GrantFits, root, exec, DeclineDeliveryChange
  <1>3. RunsOwned' /\ QueuedUnbound' /\ Untouched' /\ ReceiptsPast' /\ OneStarted'
        /\ OneRunPerGeneration' /\ WithinBudget' /\ DeliveredReachesReview' /\ AcceptedOnDelivery'
    BY DEF DispatchInv, DeclineDeliveryChange, root, exec, RunsOwned, QueuedUnbound, Untouched,
           Exists, ReceiptsPast, OneStarted, OneRunPerGeneration, WithinBudget, maxAttempts,
           DeliveredReachesReview, Settles, CurrentTasks, AcceptedOnDelivery,
           ReadyForAcceptance, StartedEffects, LastRun
  <1> QED BY <1>1, <1>2, <1>3 DEF DispatchInv

(* An edit takes the grant's authority, and undoes no delivery.             *)
LEMMA EditContractKeeps ==
  ASSUME DispatchInv, EditContract
  PROVE  DispatchInv'
  <1>1. TypeOK'
    BY  DEF DispatchInv, TypeOK, DispatchRec, ClaimRec, RunRec, EffectRec, ReceiptRec,
           GrantFits, RunsOwned, QueuedUnbound, Untouched, ReceiptsPast, OneStarted,
           OneRunPerGeneration, WithinBudget, DeliveredReachesReview, AcceptedOnDelivery,
           Exists, maxAttempts, Touched, assertDeliveryExecution, approvedDelivery, NoClaim,
           NoRun, QueuedDispatch, RunId, Revoke, ExecutorRuns, StartedNow, StartedEffects,
           CurrentTasks, Settles, SettleRoot, ReadyForAcceptance, LastRun, Returned,
           executorVisibleState, RootState, DispatchState, root, exec, Task, EditContract
  <1>2. GrantFits'
    BY DEF DispatchInv, TypeOK, GrantFits, Touched, root, exec, EditContract
  <1>3. RunsOwned' /\ QueuedUnbound' /\ Untouched' /\ ReceiptsPast' /\ OneStarted'
        /\ OneRunPerGeneration' /\ WithinBudget' /\ DeliveredReachesReview' /\ AcceptedOnDelivery'
    BY DEF DispatchInv, EditContract, root, exec, RunsOwned, QueuedUnbound, Untouched, Exists,
           ReceiptsPast, OneStarted, OneRunPerGeneration, WithinBudget, maxAttempts,
           DeliveredReachesReview, Settles, CurrentTasks, AcceptedOnDelivery,
           ReadyForAcceptance, StartedEffects, LastRun
  <1> QED BY <1>1, <1>2, <1>3 DEF DispatchInv

(* A person's move is remembered; a completed root is left by it, never entered. *)
LEMMA MoveRootKeeps ==
  ASSUME DispatchInv, NEW s \in RootState, MoveRoot(s)
  PROVE  DispatchInv'
  <1>1. TypeOK'
    BY  DEF DispatchInv, TypeOK, DispatchRec, ClaimRec, RunRec, EffectRec, ReceiptRec,
           GrantFits, RunsOwned, QueuedUnbound, Untouched, ReceiptsPast, OneStarted,
           OneRunPerGeneration, WithinBudget, DeliveredReachesReview, AcceptedOnDelivery,
           Exists, maxAttempts, Touched, assertDeliveryExecution, approvedDelivery, NoClaim,
           NoRun, QueuedDispatch, RunId, Revoke, ExecutorRuns, StartedNow, StartedEffects,
           CurrentTasks, Settles, SettleRoot, ReadyForAcceptance, LastRun, Returned,
           executorVisibleState, RootState, DispatchState, root, exec, Task, MoveRoot
  <1>2. GrantFits'
    BY DEF DispatchInv, TypeOK, GrantFits, Touched, root, exec, MoveRoot
  <1>3. DeliveredReachesReview'
    BY DEF DispatchInv, DeliveredReachesReview, CurrentTasks, Settles, root, exec, Task,
           MoveRoot
  <1>4. AcceptedOnDelivery'
    BY DEF DispatchInv, AcceptedOnDelivery, StartedEffects, CurrentTasks, ReadyForAcceptance,
           LastRun, root, exec, Task, MoveRoot
  <1>5. RunsOwned' /\ QueuedUnbound' /\ Untouched' /\ ReceiptsPast' /\ OneStarted'
        /\ OneRunPerGeneration' /\ WithinBudget'
    BY DEF DispatchInv, MoveRoot, root, exec, RunsOwned, QueuedUnbound, Untouched, Exists,
           ReceiptsPast, OneStarted, OneRunPerGeneration, WithinBudget, maxAttempts
  <1> QED BY <1>1, <1>2, <1>3, <1>4, <1>5 DEF DispatchInv

(* Reopening a task touches neither its dispatch nor its runs.              *)
LEMMA ReopenTaskKeeps ==
  ASSUME DispatchInv, NEW t \in Task, ReopenTask(t)
  PROVE  DispatchInv'
  <1>1. TypeOK'
    BY  DEF DispatchInv, TypeOK, DispatchRec, ClaimRec, RunRec, EffectRec, ReceiptRec,
           GrantFits, RunsOwned, QueuedUnbound, Untouched, ReceiptsPast, OneStarted,
           OneRunPerGeneration, WithinBudget, DeliveredReachesReview, AcceptedOnDelivery,
           Exists, maxAttempts, Touched, assertDeliveryExecution, approvedDelivery, NoClaim,
           NoRun, QueuedDispatch, RunId, Revoke, ExecutorRuns, StartedNow, StartedEffects,
           CurrentTasks, Settles, SettleRoot, ReadyForAcceptance, LastRun, Returned,
           executorVisibleState, RootState, DispatchState, root, exec, Task, ReopenTask
  <1>2. GrantFits' /\ RunsOwned' /\ QueuedUnbound' /\ Untouched' /\ ReceiptsPast' /\ OneStarted'
        /\ OneRunPerGeneration' /\ WithinBudget' /\ DeliveredReachesReview' /\ AcceptedOnDelivery'
    BY DEF DispatchInv, ReopenTask, root, exec, GrantFits, RunsOwned, QueuedUnbound, Untouched,
           Exists, ReceiptsPast, OneStarted, OneRunPerGeneration, WithinBudget, maxAttempts,
           DeliveredReachesReview, Settles, CurrentTasks, AcceptedOnDelivery,
           ReadyForAcceptance, StartedEffects, LastRun
  <1> QED BY <1>1, <1>2 DEF DispatchInv

(* A new claim revokes runs of its own task only.                           *)
LEMMA ClaimWorkKeeps ==
  ASSUME DispatchInv, NEW t \in Task, ClaimWork(t)
  PROVE  DispatchInv'
  <1>1. claim' \in [Task -> ClaimRec]
    <2>1. claims + 1 \in RunId
      BY BoundsAssumption DEF DispatchInv, TypeOK, RunId, ClaimWork
    <2> QED BY <2>1 DEF DispatchInv, TypeOK, ClaimRec, ClaimWork
  <1>2. claims' \in 0 .. MaxClaims /\ runs' \in [1 .. claims' -> RunRec]
    <2> DEFINE S == {j \in DOMAIN runs : runs[j].task = t}
    <2>1. Revoke(S) \in [1 .. claims -> RunRec]
      BY RevokeFacts DEF DispatchInv
    <2>2. claims \in 0 .. MaxClaims /\ claims < MaxClaims /\ claims' = claims + 1
      BY DEF DispatchInv, TypeOK, ClaimWork
    <2>3. runs' = [i \in 1 .. claims + 1 |->
                     IF i = claims + 1 THEN [task |-> t, st |-> "RUNNING"] ELSE Revoke(S)[i]]
      BY DEF ClaimWork
    <2>4. [task |-> t, st |-> "RUNNING"] \in RunRec
      BY DEF RunRec
    <2> HIDE DEF S
    <2> QED BY <2>1, <2>2, <2>3, <2>4, BoundsAssumption
  <1>3. TypeOK'
    BY <1>1, <1>2 DEF DispatchInv, TypeOK, DispatchRec, ClaimRec, RunRec, EffectRec,
           ReceiptRec, GrantFits, RunsOwned, QueuedUnbound, Untouched, ReceiptsPast,
           OneStarted, OneRunPerGeneration, WithinBudget, DeliveredReachesReview,
           AcceptedOnDelivery, Exists, maxAttempts, Touched, assertDeliveryExecution,
           approvedDelivery, NoClaim, NoRun, QueuedDispatch, RunId, Revoke, ExecutorRuns,
           StartedNow, StartedEffects, CurrentTasks, Settles, SettleRoot, ReadyForAcceptance,
           LastRun, Returned, executorVisibleState, RootState, DispatchState, root, exec, Task,
           ClaimWork
  <1>4. RunsOwned'
    BY DEF DispatchInv, TypeOK, RunsOwned, Exists, assertDeliveryExecution, approvedDelivery,
           NoRun, Revoke, root, exec, Task, ClaimWork
  <1>5. Untouched'
    BY DEF DispatchInv, Untouched, Exists, NoClaim, NoRun, QueuedDispatch, root, exec, Task,
           ClaimWork
  <1>6. AcceptedOnDelivery'
    BY DEF DispatchInv, TypeOK, AcceptedOnDelivery, Exists, assertDeliveryExecution,
           approvedDelivery, Revoke, StartedEffects, CurrentTasks, ReadyForAcceptance, LastRun,
           root, exec, Task, ClaimWork
  <1>7. GrantFits' /\ QueuedUnbound' /\ ReceiptsPast' /\ OneStarted' /\ OneRunPerGeneration'
        /\ WithinBudget' /\ DeliveredReachesReview'
    BY DEF DispatchInv, ClaimWork, root, exec, GrantFits, QueuedUnbound, ReceiptsPast,
           OneStarted, OneRunPerGeneration, WithinBudget, Exists, maxAttempts,
           DeliveredReachesReview, Settles, CurrentTasks
  <1> QED BY <1>3, <1>4, <1>5, <1>6, <1>7 DEF DispatchInv

(* A completion ends the claim it was reported under.                       *)
LEMMA CompleteRunKeeps ==
  ASSUME DispatchInv, NEW t \in Task, CompleteRun(t)
  PROVE  DispatchInv'
  <1>1. claim' \in [Task -> ClaimRec]
    BY DEF DispatchInv, TypeOK, ClaimRec, assertDeliveryExecution, approvedDelivery, NoClaim,
           NoRun, RunId, root, exec, Task, CompleteRun
  <1>2. claims' \in 0 .. MaxClaims /\ runs' \in [1 .. claims' -> RunRec]
    <2>1. runs \in [1 .. claims -> RunRec] /\ claims \in 0 .. MaxClaims
      BY DEF DispatchInv, TypeOK, RunRec
    <2> QED BY <2>1 DEF CompleteRun, RunRec
  <1>3. TypeOK'
    BY <1>1, <1>2 DEF DispatchInv, TypeOK, DispatchRec, ClaimRec, RunRec, EffectRec,
           ReceiptRec, Exists, maxAttempts, Touched, assertDeliveryExecution, approvedDelivery,
           NoClaim, NoRun, QueuedDispatch, RunId, Revoke, ExecutorRuns, StartedNow,
           StartedEffects, CurrentTasks, Settles, SettleRoot, ReadyForAcceptance, LastRun,
           Returned, executorVisibleState, RootState, DispatchState, root, exec, Task,
           CompleteRun
  <1>4. RunsOwned'
    BY DEF DispatchInv, TypeOK, RunsOwned, assertDeliveryExecution, approvedDelivery, NoClaim,
           NoRun, root, exec, Task, CompleteRun
  <1>5. Untouched'
    BY DEF DispatchInv, Untouched, Exists, NoClaim, NoRun, QueuedDispatch, root, exec, Task,
           CompleteRun
  <1>6. AcceptedOnDelivery'
    BY DEF DispatchInv, AcceptedOnDelivery, StartedEffects, CurrentTasks, ReadyForAcceptance,
           LastRun, root, exec, Task, CompleteRun
  <1>7. GrantFits' /\ QueuedUnbound' /\ ReceiptsPast' /\ OneStarted' /\ OneRunPerGeneration'
        /\ WithinBudget' /\ DeliveredReachesReview'
    BY DEF DispatchInv, CompleteRun, root, exec, GrantFits, QueuedUnbound, ReceiptsPast,
           OneStarted, OneRunPerGeneration, WithinBudget, Exists, maxAttempts,
           DeliveredReachesReview, Settles, CurrentTasks
  <1> QED BY <1>3, <1>4, <1>5, <1>6, <1>7 DEF DispatchInv

(* Ending a claim revokes its run, which is not a completed one.            *)
LEMMA EndClaimKeeps ==
  ASSUME DispatchInv, NEW t \in Task, EndClaim(t)
  PROVE  DispatchInv'
  <1>1. claim' \in [Task -> ClaimRec]
    BY DEF DispatchInv, TypeOK, ClaimRec, NoClaim, NoRun, RunId, Revoke, root, exec, Task,
           EndClaim
  <1>2. claims' \in 0 .. MaxClaims /\ runs' \in [1 .. claims' -> RunRec]
    BY DEF DispatchInv, TypeOK, DispatchRec, ClaimRec, RunRec, EffectRec, ReceiptRec,
           GrantFits, RunsOwned, QueuedUnbound, Untouched, ReceiptsPast, OneStarted,
           OneRunPerGeneration, WithinBudget, DeliveredReachesReview, AcceptedOnDelivery,
           Exists, maxAttempts, Touched, assertDeliveryExecution, approvedDelivery, NoClaim,
           NoRun, QueuedDispatch, RunId, Revoke, ExecutorRuns, StartedNow, StartedEffects,
           CurrentTasks, Settles, SettleRoot, ReadyForAcceptance, LastRun, Returned,
           executorVisibleState, RootState, DispatchState, root, exec, Task, EndClaim
  <1>3. TypeOK'
    BY <1>1, <1>2 DEF DispatchInv, TypeOK, DispatchRec, ClaimRec, RunRec, EffectRec,
           ReceiptRec, Exists, maxAttempts, Touched, assertDeliveryExecution, approvedDelivery,
           NoClaim, NoRun, QueuedDispatch, RunId, Revoke, ExecutorRuns, StartedNow,
           StartedEffects, CurrentTasks, Settles, SettleRoot, ReadyForAcceptance, LastRun,
           Returned, executorVisibleState, RootState, DispatchState, root, exec, Task, EndClaim
  <1>4. RunsOwned'
    BY DEF DispatchInv, TypeOK, RunsOwned, NoClaim, NoRun, Revoke, root, exec, Task, EndClaim
  <1>5. Untouched'
    BY DEF DispatchInv, Untouched, Exists, NoClaim, NoRun, QueuedDispatch, root, exec, Task,
           EndClaim
  <1>6. AcceptedOnDelivery'
    BY DEF DispatchInv, TypeOK, DispatchRec, ClaimRec, RunRec, EffectRec, ReceiptRec,
           GrantFits, RunsOwned, QueuedUnbound, Untouched, ReceiptsPast, OneStarted,
           OneRunPerGeneration, WithinBudget, DeliveredReachesReview, AcceptedOnDelivery,
           Exists, maxAttempts, Touched, assertDeliveryExecution, approvedDelivery, NoClaim,
           NoRun, QueuedDispatch, RunId, Revoke, ExecutorRuns, StartedNow, StartedEffects,
           CurrentTasks, Settles, SettleRoot, ReadyForAcceptance, LastRun, Returned,
           executorVisibleState, RootState, DispatchState, root, exec, Task, EndClaim
  <1>7. GrantFits' /\ QueuedUnbound' /\ ReceiptsPast' /\ OneStarted' /\ OneRunPerGeneration'
        /\ WithinBudget' /\ DeliveredReachesReview'
    BY DEF DispatchInv, EndClaim, root, exec, GrantFits, QueuedUnbound, ReceiptsPast,
           OneStarted, OneRunPerGeneration, WithinBudget, Exists, maxAttempts,
           DeliveredReachesReview, Settles, CurrentTasks
  <1> QED BY <1>3, <1>4, <1>5, <1>6, <1>7 DEF DispatchInv

(* The end of a lease changes nothing but the lease.                        *)
LEMMA ClaimLeaseEndsKeeps ==
  ASSUME DispatchInv, NEW t \in Task, ClaimLeaseEnds(t)
  PROVE  DispatchInv'
  <1>0. Exists(t)
    BY DEF DispatchInv, ClaimLeaseEnds, Untouched, NoClaim
  <1>1. disp' \in [Task -> DispatchRec]
    <2>1. disp \in [Task -> DispatchRec]
      BY DEF DispatchInv, TypeOK, DispatchRec
    <2> QED BY <2>1 DEF DispatchRec, DispatchState, ClaimLeaseEnds
  <1>2. claim' \in [Task -> ClaimRec]
    <2>1. claim \in [Task -> ClaimRec]
      BY DEF DispatchInv, TypeOK, ClaimRec
    <2> QED BY <2>1 DEF ClaimRec, ClaimLeaseEnds
  <1>3. TypeOK'
    BY <1>1, <1>2, <1>0 DEF DispatchInv, TypeOK, DispatchRec, ClaimRec, RunRec, EffectRec,
           ReceiptRec, Exists, maxAttempts, Touched, assertDeliveryExecution, approvedDelivery,
           NoClaim, NoRun, QueuedDispatch, RunId, Revoke, ExecutorRuns, StartedNow,
           StartedEffects, CurrentTasks, Settles, SettleRoot, ReadyForAcceptance, LastRun,
           Returned, executorVisibleState, RootState, DispatchState, root, exec, Task,
           ClaimLeaseEnds
  <1>4. RunsOwned'
    BY <1>0 DEF DispatchInv, RunsOwned, NoRun, root, exec, Task, ClaimLeaseEnds
  <1>5. QueuedUnbound'
    BY <1>0 DEF DispatchInv, QueuedUnbound, NoRun, root, exec, Task, ClaimLeaseEnds
  <1>6. Untouched'
    BY <1>0 DEF DispatchInv, TypeOK, Untouched, Exists, ClaimLeaseEnds, root, exec
  <1>7. ReceiptsPast'
    BY <1>0 DEF DispatchInv, ReceiptsPast, root, exec, ClaimLeaseEnds
  <1>8. OneStarted'
    BY <1>0 DEF DispatchInv, OneStarted, root, exec, ClaimLeaseEnds
  <1>9. OneRunPerGeneration'
    BY <1>0 DEF DispatchInv, OneRunPerGeneration, root, exec, ClaimLeaseEnds
  <1>10. WithinBudget'
    BY <1>0 DEF DispatchInv, WithinBudget, Exists, maxAttempts, root, exec, Task, ClaimLeaseEnds
  <1>11. DeliveredReachesReview'
    BY <1>0 DEF DispatchInv, DeliveredReachesReview, CurrentTasks, Settles, root, exec, Task,
           ClaimLeaseEnds
  <1>12. AcceptedOnDelivery'
    BY <1>0 DEF DispatchInv, AcceptedOnDelivery, StartedEffects, CurrentTasks,
           ReadyForAcceptance, LastRun, root, exec, Task, ClaimLeaseEnds
  <1>13. GrantFits'
    BY DEF DispatchInv, ClaimLeaseEnds, root, exec, GrantFits
  <1> QED BY <1>3, <1>4, <1>5, <1>6, <1>7, <1>8, <1>9, <1>10, <1>11, <1>12, <1>13
          DEF DispatchInv

(* Nor does the end of the dispatch's copy.                                 *)
LEMMA DispatchLeaseEndsKeeps ==
  ASSUME DispatchInv, NEW t \in Task, DispatchLeaseEnds(t)
  PROVE  DispatchInv'
  <1>0. Exists(t)
    BY DEF DispatchInv, DispatchLeaseEnds, Untouched, QueuedDispatch
  <1>1. disp' \in [Task -> DispatchRec]
    <2>1. disp \in [Task -> DispatchRec]
      BY DEF DispatchInv, TypeOK, DispatchRec
    <2> QED BY <2>1 DEF DispatchRec, DispatchState, DispatchLeaseEnds
  <1>2. TypeOK'
    BY <1>1, <1>0 DEF DispatchInv, TypeOK, DispatchRec, ClaimRec, RunRec, EffectRec,
           ReceiptRec, Exists, maxAttempts, Touched, assertDeliveryExecution, approvedDelivery,
           NoClaim, NoRun, QueuedDispatch, RunId, Revoke, ExecutorRuns, StartedNow,
           StartedEffects, CurrentTasks, Settles, SettleRoot, ReadyForAcceptance, LastRun,
           Returned, executorVisibleState, RootState, DispatchState, root, exec, Task,
           DispatchLeaseEnds
  <1>3. RunsOwned'
    BY <1>0 DEF DispatchInv, RunsOwned, NoRun, root, exec, Task, DispatchLeaseEnds
  <1>4. QueuedUnbound'
    BY <1>0 DEF DispatchInv, QueuedUnbound, NoRun, root, exec, Task, DispatchLeaseEnds
  <1>5. Untouched'
    BY <1>0 DEF DispatchInv, TypeOK, Untouched, Exists, DispatchLeaseEnds, root, exec
  <1>6. ReceiptsPast'
    BY <1>0 DEF DispatchInv, ReceiptsPast, root, exec, DispatchLeaseEnds
  <1>7. OneStarted'
    BY <1>0 DEF DispatchInv, OneStarted, root, exec, DispatchLeaseEnds
  <1>8. OneRunPerGeneration'
    BY <1>0 DEF DispatchInv, OneRunPerGeneration, root, exec, DispatchLeaseEnds
  <1>9. WithinBudget'
    BY <1>0 DEF DispatchInv, WithinBudget, Exists, maxAttempts, root, exec, Task,
           DispatchLeaseEnds
  <1>10. DeliveredReachesReview'
    BY <1>0 DEF DispatchInv, DeliveredReachesReview, CurrentTasks, Settles, root, exec, Task,
           DispatchLeaseEnds
  <1>11. AcceptedOnDelivery'
    BY <1>0 DEF DispatchInv, AcceptedOnDelivery, StartedEffects, CurrentTasks,
           ReadyForAcceptance, LastRun, root, exec, Task, DispatchLeaseEnds
  <1>12. GrantFits'
    BY DEF DispatchInv, DispatchLeaseEnds, root, exec, GrantFits
  <1> QED BY <1>2, <1>3, <1>4, <1>5, <1>6, <1>7, <1>8, <1>9, <1>10, <1>11, <1>12 DEF DispatchInv

(* An acknowledgement binds a queued dispatch, of whose generation no receipt exists. *)
LEMMA AckKeeps ==
  ASSUME DispatchInv, NEW t \in Task, Ack(t)
  PROVE  DispatchInv'
  <1>0. Exists(t)
    BY DEF DispatchInv, Ack, Untouched, NoClaim
  <1>1. disp' \in [Task -> DispatchRec]
    <2>1. disp \in [Task -> DispatchRec] /\ claim[t].run \in {NoRun} \cup RunId
      BY DEF DispatchInv, TypeOK, DispatchRec
    <2>2. [disp[t] EXCEPT !.st = "RUNNING", !.run = claim[t].run, !.leased = TRUE] \in DispatchRec
      BY <2>1 DEF DispatchRec, DispatchState
    <2>3. disp' = [disp EXCEPT ![t] = [disp[t] EXCEPT !.st = "RUNNING", !.run = claim[t].run,
                                                      !.leased = TRUE]]
      BY <2>1 DEF Ack
    <2> QED BY <2>1, <2>2, <2>3
  <1>2. TypeOK'
    BY <1>1, <1>0 DEF DispatchInv, TypeOK, DispatchRec, ClaimRec, RunRec, EffectRec,
           ReceiptRec, GrantFits, RunsOwned, QueuedUnbound, Untouched, ReceiptsPast,
           OneStarted, OneRunPerGeneration, WithinBudget, DeliveredReachesReview,
           AcceptedOnDelivery, Exists, maxAttempts, Touched, assertDeliveryExecution,
           approvedDelivery, NoClaim, NoRun, QueuedDispatch, RunId, Revoke, ExecutorRuns,
           StartedNow, StartedEffects, CurrentTasks, Settles, SettleRoot, ReadyForAcceptance,
           LastRun, Returned, executorVisibleState, RootState, DispatchState, root, exec, Task,
           Ack
  <1>3. RunsOwned'
    BY <1>0 DEF DispatchInv, TypeOK, RunsOwned, NoRun, root, exec, Task, Ack
  <1>4. QueuedUnbound'
    BY <1>0 DEF DispatchInv, TypeOK, QueuedUnbound, NoRun, root, exec, Task, Ack
  <1>5. Untouched'
    BY <1>0 DEF DispatchInv, TypeOK, Untouched, Exists, Ack, root, exec
  <1>6. ReceiptsPast'
    BY <1>0 DEF DispatchInv, TypeOK, ReceiptsPast, root, exec, Ack
  <1>7. OneStarted'
    BY <1>0 DEF DispatchInv, TypeOK, OneStarted, root, exec, Ack
  <1>8. OneRunPerGeneration'
    BY <1>0 DEF DispatchInv, TypeOK, DispatchRec, ClaimRec, RunRec, EffectRec, ReceiptRec,
           GrantFits, RunsOwned, QueuedUnbound, Untouched, ReceiptsPast, OneStarted,
           OneRunPerGeneration, WithinBudget, DeliveredReachesReview, AcceptedOnDelivery,
           Exists, maxAttempts, Touched, assertDeliveryExecution, approvedDelivery, NoClaim,
           NoRun, QueuedDispatch, RunId, Revoke, ExecutorRuns, StartedNow, StartedEffects,
           CurrentTasks, Settles, SettleRoot, ReadyForAcceptance, LastRun, Returned,
           executorVisibleState, RootState, DispatchState, root, exec, Task, Ack
  <1>9. WithinBudget'
    BY <1>0 DEF DispatchInv, TypeOK, DispatchRec, ClaimRec, RunRec, EffectRec, ReceiptRec,
           GrantFits, RunsOwned, QueuedUnbound, Untouched, ReceiptsPast, OneStarted,
           OneRunPerGeneration, WithinBudget, DeliveredReachesReview, AcceptedOnDelivery,
           Exists, maxAttempts, Touched, assertDeliveryExecution, approvedDelivery, NoClaim,
           NoRun, QueuedDispatch, RunId, Revoke, ExecutorRuns, StartedNow, StartedEffects,
           CurrentTasks, Settles, SettleRoot, ReadyForAcceptance, LastRun, Returned,
           executorVisibleState, RootState, DispatchState, root, exec, Task, Ack
  <1>10. DeliveredReachesReview'
    BY <1>0 DEF DispatchInv, TypeOK, DeliveredReachesReview, CurrentTasks, Settles, root, exec,
           Task, Ack
  <1>11. AcceptedOnDelivery'
    BY <1>0 DEF DispatchInv, TypeOK, AcceptedOnDelivery, assertDeliveryExecution,
           approvedDelivery, StartedEffects, CurrentTasks, ReadyForAcceptance, LastRun, root,
           exec, Task, Ack
  <1>12. GrantFits'
    BY DEF DispatchInv, Ack, root, exec, GrantFits
  <1> QED BY <1>2, <1>3, <1>4, <1>5, <1>6, <1>7, <1>8, <1>9, <1>10, <1>11, <1>12 DEF DispatchInv

(* A prepared effect is not a started one.                                  *)
LEMMA PrepareEffectKeeps ==
  ASSUME DispatchInv, NEW t \in Task, PrepareEffect(t)
  PROVE  DispatchInv'
  <1>0. Exists(t)
    BY DEF DispatchInv, PrepareEffect, ExecutorRuns
  <1>1. \E n \in 0 .. MaxEffects : effects' \in [1 .. n -> EffectRec]
    <2> DEFINE n == Cardinality(DOMAIN effects)
    <2>1. n \in 0 .. MaxEffects /\ DOMAIN effects = 1 .. n /\ effects \in [1 .. n -> EffectRec]
      BY EffectsDomain DEF DispatchInv
    <2>2. [task |-> t, gen |-> disp[t].gen, st |-> "PREPARED"] \in EffectRec
      BY DEF DispatchInv, TypeOK, EffectRec
    <2>3. /\ n < MaxEffects
          /\ effects' = [e \in 1 .. n + 1 |->
                            IF e \in DOMAIN effects THEN effects[e]
                            ELSE [task |-> t, gen |-> disp[t].gen, st |-> "PREPARED"]]
      BY DEF PrepareEffect
    <2> HIDE DEF n
    <2>4. n + 1 \in 0 .. MaxEffects /\ effects' \in [1 .. n + 1 -> EffectRec]
      BY <2>1, <2>2, <2>3, BoundsAssumption
    <2> QED BY <2>4
  <1>2. TypeOK'
    BY <1>1, <1>0 DEF DispatchInv, TypeOK, DispatchRec, ClaimRec, RunRec, EffectRec,
           ReceiptRec, GrantFits, RunsOwned, QueuedUnbound, Untouched, ReceiptsPast,
           OneStarted, OneRunPerGeneration, WithinBudget, DeliveredReachesReview,
           AcceptedOnDelivery, Exists, maxAttempts, Touched, assertDeliveryExecution,
           approvedDelivery, NoClaim, NoRun, QueuedDispatch, RunId, Revoke, ExecutorRuns,
           StartedNow, StartedEffects, CurrentTasks, Settles, SettleRoot, ReadyForAcceptance,
           LastRun, Returned, executorVisibleState, RootState, DispatchState, root, exec, Task,
           PrepareEffect
  <1>3. Untouched'
    BY <1>0 DEF DispatchInv, TypeOK, Untouched, Exists, PrepareEffect, root, exec
  <1>4. OneStarted'
    <2>1. ASSUME NEW e \in DOMAIN effects', effects'[e].st = "STARTED"
          PROVE  e \in DOMAIN effects /\ effects'[e] = effects[e]
      BY <2>1, EffectsDomain DEF DispatchInv, PrepareEffect
    <2>2. disp' = disp
      BY DEF PrepareEffect, exec
    <2> QED BY <2>1, <2>2 DEF DispatchInv, OneStarted
  <1>5. AcceptedOnDelivery'
    BY <1>0 DEF DispatchInv, AcceptedOnDelivery, StartedEffects, CurrentTasks,
           ReadyForAcceptance, LastRun, root, exec, Task, PrepareEffect
  <1>6. GrantFits' /\ RunsOwned' /\ QueuedUnbound' /\ ReceiptsPast' /\ OneRunPerGeneration'
        /\ WithinBudget' /\ DeliveredReachesReview'
    BY DEF DispatchInv, PrepareEffect, root, exec, GrantFits, RunsOwned, QueuedUnbound,
           ReceiptsPast, OneRunPerGeneration, WithinBudget, Exists, maxAttempts,
           DeliveredReachesReview, Settles, CurrentTasks
  <1> QED BY <1>2, <1>3, <1>4, <1>5, <1>6 DEF DispatchInv

(* An effect starts alone, in the current generation.                       *)
LEMMA StartEffectKeeps ==
  ASSUME DispatchInv, NEW e \in DOMAIN effects, StartEffect(e)
  PROVE  DispatchInv'
  <1>1. \E n \in 0 .. MaxEffects : effects' \in [1 .. n -> EffectRec]
    BY DEF DispatchInv, TypeOK, EffectRec, Exists, assertDeliveryExecution, approvedDelivery,
           NoRun, ExecutorRuns, StartedEffects, executorVisibleState, root, exec, Task,
           StartEffect
  <1>2. TypeOK'
    BY <1>1 DEF DispatchInv, TypeOK, DispatchRec, ClaimRec, RunRec, EffectRec, ReceiptRec,
           Exists, maxAttempts, Touched, assertDeliveryExecution, approvedDelivery, NoClaim,
           NoRun, QueuedDispatch, RunId, Revoke, ExecutorRuns, StartedNow, StartedEffects,
           CurrentTasks, Settles, SettleRoot, ReadyForAcceptance, LastRun, Returned,
           executorVisibleState, RootState, DispatchState, root, exec, Task, StartEffect
  <1>3. Untouched'
    BY DEF DispatchInv, Untouched, Exists, NoClaim, NoRun, QueuedDispatch, root, exec, Task,
           StartEffect
  <1>4. OneStarted'
    BY DEF DispatchInv, TypeOK, OneStarted, Exists, assertDeliveryExecution, approvedDelivery,
           NoRun, ExecutorRuns, StartedEffects, executorVisibleState, root, exec, StartEffect
  <1>5. AcceptedOnDelivery'
    BY DEF DispatchInv, TypeOK, AcceptedOnDelivery, Exists, assertDeliveryExecution,
           approvedDelivery, NoRun, ExecutorRuns, StartedEffects, CurrentTasks,
           ReadyForAcceptance, LastRun, executorVisibleState, root, exec, Task, StartEffect
  <1>6. GrantFits' /\ RunsOwned' /\ QueuedUnbound' /\ ReceiptsPast' /\ OneRunPerGeneration'
        /\ WithinBudget' /\ DeliveredReachesReview'
    BY DEF DispatchInv, StartEffect, root, exec, GrantFits, RunsOwned, QueuedUnbound,
           ReceiptsPast, OneRunPerGeneration, WithinBudget, Exists, maxAttempts,
           DeliveredReachesReview, Settles, CurrentTasks
  <1> QED BY <1>2, <1>3, <1>4, <1>5, <1>6 DEF DispatchInv

(* A receipt is of the dispatch's own run and generation, and the last final one moves the root. *)
LEMMA RecordReceiptKeeps ==
  ASSUME DispatchInv, NEW t \in Task, NEW named \in SUBSET DOMAIN effects, NEW observed \in BOOLEAN,
         NEW final \in BOOLEAN, RecordReceipt(t, named, observed, final)
  PROVE  DispatchInv'
  <1>0. Exists(t)
    BY DEF DispatchInv, RecordReceipt, ExecutorRuns
  <1>1. disp' \in [Task -> DispatchRec]
    <2>1. disp \in [Task -> DispatchRec]
      BY DEF DispatchInv, TypeOK, DispatchRec
    <2> QED BY <2>1 DEF DispatchRec, DispatchState, RecordReceipt
  <1>2. \E n \in 0 .. MaxEffects : effects' \in [1 .. n -> EffectRec]
    <2>1. PICK n \in 0 .. MaxEffects : effects \in [1 .. n -> EffectRec]
      BY DEF DispatchInv, TypeOK, EffectRec
    <2>2. effects' \in [1 .. n -> EffectRec]
      BY <2>1 DEF RecordReceipt, EffectRec
    <2> QED BY <2>2
  <1>3. receipts' \subseteq ReceiptRec
    BY <1>0 DEF DispatchInv, TypeOK, ReceiptRec, Exists, Touched, assertDeliveryExecution,
           approvedDelivery, NoRun, RunId, ExecutorRuns, StartedNow, StartedEffects,
           CurrentTasks, Settles, SettleRoot, executorVisibleState, root, exec, Task,
           RecordReceipt
  <1>4. TypeOK'
    BY <1>1, <1>2, <1>3, <1>0 DEF DispatchInv, TypeOK, DispatchRec, ClaimRec, RunRec,
           EffectRec, ReceiptRec, GrantFits, RunsOwned, QueuedUnbound, Untouched, ReceiptsPast,
           OneStarted, OneRunPerGeneration, WithinBudget, DeliveredReachesReview,
           AcceptedOnDelivery, Exists, maxAttempts, Touched, assertDeliveryExecution,
           approvedDelivery, NoClaim, NoRun, QueuedDispatch, RunId, Revoke, ExecutorRuns,
           StartedNow, StartedEffects, CurrentTasks, Settles, SettleRoot, ReadyForAcceptance,
           LastRun, Returned, executorVisibleState, RootState, DispatchState, root, exec, Task,
           RecordReceipt
  <1>5. GrantFits'
    BY <1>0 DEF DispatchInv, TypeOK, GrantFits, Exists, Touched, assertDeliveryExecution,
           approvedDelivery, NoRun, ExecutorRuns, StartedNow, StartedEffects, CurrentTasks,
           Settles, SettleRoot, executorVisibleState, root, exec, Task, RecordReceipt
  <1>6. RunsOwned'
    BY <1>0 DEF DispatchInv, RunsOwned, NoRun, root, exec, Task, RecordReceipt
  <1>7. QueuedUnbound'
    BY <1>0 DEF DispatchInv, QueuedUnbound, NoRun, root, exec, Task, RecordReceipt
  <1>8. Untouched'
    BY <1>0 DEF DispatchInv, TypeOK, Untouched, Exists, RecordReceipt, root, exec
  <1>9. ReceiptsPast'
    BY <1>0 DEF DispatchInv, TypeOK, ReceiptsPast, root, exec, RecordReceipt
  <1>10. OneStarted'
    BY <1>0 DEF DispatchInv, OneStarted, root, exec, RecordReceipt
  <1>11. OneRunPerGeneration'
    BY <1>0 DEF DispatchInv, OneRunPerGeneration, root, exec, RecordReceipt
  <1>12. WithinBudget'
    BY <1>0 DEF DispatchInv, TypeOK, DispatchRec, ClaimRec, RunRec, EffectRec, ReceiptRec,
           GrantFits, RunsOwned, QueuedUnbound, Untouched, ReceiptsPast, OneStarted,
           OneRunPerGeneration, WithinBudget, DeliveredReachesReview, AcceptedOnDelivery,
           Exists, maxAttempts, Touched, assertDeliveryExecution, approvedDelivery, NoClaim,
           NoRun, QueuedDispatch, RunId, Revoke, ExecutorRuns, StartedNow, StartedEffects,
           CurrentTasks, Settles, SettleRoot, ReadyForAcceptance, LastRun, Returned,
           executorVisibleState, RootState, DispatchState, root, exec, Task, RecordReceipt
  <1>13. DeliveredReachesReview'
    BY <1>0 DEF DispatchInv, TypeOK, DispatchRec, ClaimRec, RunRec, EffectRec, ReceiptRec,
           DeliveredReachesReview, Exists, maxAttempts, Touched, assertDeliveryExecution,
           approvedDelivery, NoClaim, NoRun, QueuedDispatch, RunId, Revoke, ExecutorRuns,
           StartedNow, StartedEffects, CurrentTasks, Settles, SettleRoot, ReadyForAcceptance,
           LastRun, Returned, executorVisibleState, RootState, DispatchState, root, exec, Task,
           RecordReceipt
  <1>14. AcceptedOnDelivery'
    BY <1>0 DEF DispatchInv, TypeOK, AcceptedOnDelivery, Exists, Touched,
           assertDeliveryExecution, approvedDelivery, NoRun, ExecutorRuns, StartedNow,
           StartedEffects, CurrentTasks, Settles, SettleRoot, ReadyForAcceptance, LastRun,
           executorVisibleState, root, exec, Task, RecordReceipt
  <1> QED BY <1>4, <1>5, <1>6, <1>7, <1>8, <1>9, <1>10, <1>11, <1>12, <1>13, <1>14
          DEF DispatchInv

(* A stop delivers nothing.                                                 *)
LEMMA StopKeeps ==
  ASSUME DispatchInv, NEW t \in Task, Stop(t)
  PROVE  DispatchInv'
  <1>0. Exists(t)
    BY DEF DispatchInv, Stop, ExecutorRuns
  <1>1. disp' \in [Task -> DispatchRec]
    <2>1. disp \in [Task -> DispatchRec]
      BY DEF DispatchInv, TypeOK, DispatchRec
    <2> QED BY <2>1 DEF DispatchRec, DispatchState, Stop
  <1>2. TypeOK'
    BY <1>1, <1>0 DEF DispatchInv, TypeOK, DispatchRec, ClaimRec, RunRec, EffectRec,
           ReceiptRec, Exists, maxAttempts, Touched, assertDeliveryExecution, approvedDelivery,
           NoClaim, NoRun, QueuedDispatch, RunId, Revoke, ExecutorRuns, StartedNow,
           StartedEffects, CurrentTasks, Settles, SettleRoot, ReadyForAcceptance, LastRun,
           Returned, executorVisibleState, RootState, DispatchState, root, exec, Task, Stop
  <1>3. RunsOwned'
    BY <1>0 DEF DispatchInv, RunsOwned, NoRun, root, exec, Task, Stop
  <1>4. QueuedUnbound'
    BY <1>0 DEF DispatchInv, QueuedUnbound, NoRun, root, exec, Task, Stop
  <1>5. Untouched'
    BY <1>0 DEF DispatchInv, TypeOK, Untouched, Exists, Stop, root, exec
  <1>6. ReceiptsPast'
    BY <1>0 DEF DispatchInv, ReceiptsPast, root, exec, Stop
  <1>7. OneStarted'
    BY <1>0 DEF DispatchInv, OneStarted, root, exec, Stop
  <1>8. OneRunPerGeneration'
    BY <1>0 DEF DispatchInv, OneRunPerGeneration, root, exec, Stop
  <1>9. WithinBudget'
    BY <1>0 DEF DispatchInv, WithinBudget, Exists, maxAttempts, root, exec, Task, Stop
  <1>10. DeliveredReachesReview'
    BY <1>0 DEF DispatchInv, DeliveredReachesReview, CurrentTasks, Settles, root, exec, Task,
           Stop
  <1>11. AcceptedOnDelivery'
    BY <1>0 DEF DispatchInv, AcceptedOnDelivery, StartedEffects, CurrentTasks,
           ReadyForAcceptance, LastRun, root, exec, Task, Stop
  <1>12. GrantFits'
    BY DEF DispatchInv, Stop, root, exec, GrantFits
  <1> QED BY <1>2, <1>3, <1>4, <1>5, <1>6, <1>7, <1>8, <1>9, <1>10, <1>11, <1>12 DEF DispatchInv

(* Nor does its acknowledgement.                                            *)
LEMMA StopAckKeeps ==
  ASSUME DispatchInv, NEW t \in Task, StopAck(t)
  PROVE  DispatchInv'
  <1>0. Exists(t)
    BY DEF DispatchInv, StopAck, Untouched, QueuedDispatch, NoRun
  <1>1. disp' \in [Task -> DispatchRec]
    <2> DEFINE st == IF StartedNow(t) # {} THEN "UNKNOWN" ELSE "STOPPED"
    <2>1. disp \in [Task -> DispatchRec] /\ st \in DispatchState
      BY DEF DispatchInv, TypeOK, DispatchRec, DispatchState
    <2>2. disp' = [disp EXCEPT ![t].st = st, ![t].leased = FALSE]
      BY DEF StopAck
    <2> HIDE DEF st
    <2>3. [disp[t] EXCEPT !.st = st, !.leased = FALSE] \in DispatchRec
      BY <2>1 DEF DispatchRec
    <2>4. disp' = [disp EXCEPT ![t] = [disp[t] EXCEPT !.st = st, !.leased = FALSE]]
      BY <2>1, <2>2
    <2> QED BY <2>1, <2>3, <2>4
  <1>2. TypeOK'
    BY <1>1, <1>0 DEF DispatchInv, TypeOK, DispatchRec, ClaimRec, RunRec, EffectRec,
           ReceiptRec, GrantFits, RunsOwned, QueuedUnbound, Untouched, ReceiptsPast,
           OneStarted, OneRunPerGeneration, WithinBudget, DeliveredReachesReview,
           AcceptedOnDelivery, Exists, maxAttempts, Touched, assertDeliveryExecution,
           approvedDelivery, NoClaim, NoRun, QueuedDispatch, RunId, Revoke, ExecutorRuns,
           StartedNow, StartedEffects, CurrentTasks, Settles, SettleRoot, ReadyForAcceptance,
           LastRun, Returned, executorVisibleState, RootState, DispatchState, root, exec, Task,
           StopAck
  <1>3. RunsOwned'
    BY <1>0 DEF DispatchInv, TypeOK, RunsOwned, NoRun, root, exec, Task, StopAck
  <1>4. QueuedUnbound'
    BY <1>0 DEF DispatchInv, TypeOK, QueuedUnbound, NoRun, root, exec, Task, StopAck
  <1>5. Untouched'
    BY <1>0 DEF DispatchInv, TypeOK, Untouched, Exists, StopAck, root, exec
  <1>6. ReceiptsPast'
    BY <1>0 DEF DispatchInv, TypeOK, ReceiptsPast, root, exec, StopAck
  <1>7. OneStarted'
    BY <1>0 DEF DispatchInv, TypeOK, OneStarted, root, exec, StopAck
  <1>8. OneRunPerGeneration'
    BY <1>0 DEF DispatchInv, TypeOK, DispatchRec, ClaimRec, RunRec, EffectRec, ReceiptRec,
           GrantFits, RunsOwned, QueuedUnbound, Untouched, ReceiptsPast, OneStarted,
           OneRunPerGeneration, WithinBudget, DeliveredReachesReview, AcceptedOnDelivery,
           Exists, maxAttempts, Touched, assertDeliveryExecution, approvedDelivery, NoClaim,
           NoRun, QueuedDispatch, RunId, Revoke, ExecutorRuns, StartedNow, StartedEffects,
           CurrentTasks, Settles, SettleRoot, ReadyForAcceptance, LastRun, Returned,
           executorVisibleState, RootState, DispatchState, root, exec, Task, StopAck
  <1>9. WithinBudget'
    <2>1. ASSUME NEW c \in Task, disp'[c].st \in {"QUEUED", "RUNNING", "DELIVERED"}
          PROVE  disp'[c] = disp[c]
      BY <2>1 DEF DispatchInv, TypeOK, StopAck
    <2> QED BY <2>1 DEF DispatchInv, WithinBudget, Exists, maxAttempts, StopAck, root
  <1>10. DeliveredReachesReview'
    <2>1. CurrentTasks' = CurrentTasks /\ UNCHANGED <<grant, rootState, byHand>>
      BY DEF CurrentTasks, StopAck, root
    <2>2. ASSUME NEW c \in Task, disp'[c].st = "DELIVERED"
          PROVE  disp[c].st = "DELIVERED"
      BY <2>2 DEF DispatchInv, TypeOK, DispatchRec, StopAck
    <2> QED BY <2>1, <2>2 DEF DispatchInv, DeliveredReachesReview, Settles, CurrentTasks
  <1>11. AcceptedOnDelivery'
    BY <1>0 DEF DispatchInv, TypeOK, DispatchRec, ClaimRec, RunRec, EffectRec, ReceiptRec,
           GrantFits, RunsOwned, QueuedUnbound, Untouched, ReceiptsPast, OneStarted,
           OneRunPerGeneration, WithinBudget, DeliveredReachesReview, AcceptedOnDelivery,
           Exists, maxAttempts, Touched, assertDeliveryExecution, approvedDelivery, NoClaim,
           NoRun, QueuedDispatch, RunId, Revoke, ExecutorRuns, StartedNow, StartedEffects,
           CurrentTasks, Settles, SettleRoot, ReadyForAcceptance, LastRun, Returned,
           executorVisibleState, RootState, DispatchState, root, exec, Task, StopAck
  <1>12. GrantFits'
    BY DEF DispatchInv, StopAck, root, exec, GrantFits
  <1> QED BY <1>2, <1>3, <1>4, <1>5, <1>6, <1>7, <1>8, <1>9, <1>10, <1>11, <1>12 DEF DispatchInv

(* Reconciling resolves the one started effect and delivers nothing new.    *)
LEMMA ReconcileKeeps ==
  ASSUME DispatchInv, NEW t \in Task, NEW e \in DOMAIN effects, NEW completed \in BOOLEAN,
         Reconcile(t, e, completed)
  PROVE  DispatchInv'
  <1>0. Exists(t)
    BY DEF DispatchInv, Reconcile, Untouched, StartedNow, StartedEffects
  <1>1. disp' \in [Task -> DispatchRec]
    <2>1. disp \in [Task -> DispatchRec]
      BY DEF DispatchInv, TypeOK, DispatchRec
    <2>2. PICK s \in DispatchState : disp' = [disp EXCEPT ![t].st = s, ![t].leased = FALSE]
      BY DEF Reconcile, DispatchState
    <2>3. disp[t] \in DispatchRec
      BY <2>1
    <2>4. [disp[t] EXCEPT !.st = s, !.leased = FALSE] \in DispatchRec
      BY <2>3 DEF DispatchRec
    <2>5. disp' = [disp EXCEPT ![t] = [disp[t] EXCEPT !.st = s, !.leased = FALSE]]
      BY <2>1, <2>2
    <2> QED BY <2>1, <2>4, <2>5
  <1>2. claims' \in 0 .. MaxClaims /\ runs' \in [1 .. claims' -> RunRec]
    BY <1>0 DEF DispatchInv, TypeOK, DispatchRec, ClaimRec, RunRec, EffectRec, ReceiptRec,
           GrantFits, RunsOwned, QueuedUnbound, Untouched, ReceiptsPast, OneStarted,
           OneRunPerGeneration, WithinBudget, DeliveredReachesReview, AcceptedOnDelivery,
           Exists, maxAttempts, Touched, assertDeliveryExecution, approvedDelivery, NoClaim,
           NoRun, QueuedDispatch, RunId, Revoke, ExecutorRuns, StartedNow, StartedEffects,
           CurrentTasks, Settles, SettleRoot, ReadyForAcceptance, LastRun, Returned,
           executorVisibleState, RootState, DispatchState, root, exec, Task, Reconcile
  <1>3. \E n \in 0 .. MaxEffects : effects' \in [1 .. n -> EffectRec]
    <2>1. PICK n \in 0 .. MaxEffects : effects \in [1 .. n -> EffectRec]
      BY DEF DispatchInv, TypeOK, EffectRec
    <2>2. effects' \in [1 .. n -> EffectRec]
      BY <2>1 DEF Reconcile, EffectRec
    <2> QED BY <2>2
  <1>4. TypeOK'
    BY <1>1, <1>2, <1>3, <1>0 DEF DispatchInv, TypeOK, DispatchRec, ClaimRec, RunRec,
           EffectRec, ReceiptRec, GrantFits, RunsOwned, QueuedUnbound, Untouched, ReceiptsPast,
           OneStarted, OneRunPerGeneration, WithinBudget, DeliveredReachesReview,
           AcceptedOnDelivery, Exists, maxAttempts, Touched, assertDeliveryExecution,
           approvedDelivery, NoClaim, NoRun, QueuedDispatch, RunId, Revoke, ExecutorRuns,
           StartedNow, StartedEffects, CurrentTasks, Settles, SettleRoot, ReadyForAcceptance,
           LastRun, Returned, executorVisibleState, RootState, DispatchState, root, exec, Task,
           Reconcile
  <1>5. RunsOwned'
    BY <1>0 DEF DispatchInv, TypeOK, RunsOwned, NoRun, Revoke, StartedNow, StartedEffects,
           root, exec, Task, Reconcile
  <1>6. QueuedUnbound'
    BY <1>0 DEF DispatchInv, TypeOK, QueuedUnbound, NoRun, root, exec, Task, Reconcile
  <1>7. Untouched'
    BY <1>0 DEF DispatchInv, TypeOK, Untouched, Exists, Reconcile, root, exec
  <1>8. ReceiptsPast'
    BY <1>0 DEF DispatchInv, TypeOK, ReceiptsPast, root, exec, Reconcile
  <1>9. OneStarted'
    BY <1>0 DEF DispatchInv, TypeOK, OneStarted, root, exec, Reconcile
  <1>10. OneRunPerGeneration'
    BY <1>0 DEF DispatchInv, TypeOK, DispatchRec, ClaimRec, RunRec, EffectRec, ReceiptRec,
           OneRunPerGeneration, Exists, maxAttempts, Touched, assertDeliveryExecution,
           approvedDelivery, NoClaim, NoRun, QueuedDispatch, RunId, Revoke, ExecutorRuns,
           StartedNow, StartedEffects, CurrentTasks, Settles, SettleRoot, ReadyForAcceptance,
           LastRun, Returned, executorVisibleState, RootState, DispatchState, root, exec, Task,
           Reconcile
  <1>11. WithinBudget'
    BY <1>0 DEF DispatchInv, TypeOK, DispatchRec, ClaimRec, RunRec, EffectRec, ReceiptRec,
           GrantFits, RunsOwned, QueuedUnbound, Untouched, ReceiptsPast, OneStarted,
           OneRunPerGeneration, WithinBudget, DeliveredReachesReview, AcceptedOnDelivery,
           Exists, maxAttempts, Touched, assertDeliveryExecution, approvedDelivery, NoClaim,
           NoRun, QueuedDispatch, RunId, Revoke, ExecutorRuns, StartedNow, StartedEffects,
           CurrentTasks, Settles, SettleRoot, ReadyForAcceptance, LastRun, Returned,
           executorVisibleState, RootState, DispatchState, root, exec, Task, Reconcile
  <1>12. DeliveredReachesReview'
    BY <1>0 DEF DispatchInv, TypeOK, DeliveredReachesReview, CurrentTasks, Settles, root, exec,
           Task, Reconcile
  <1>13. AcceptedOnDelivery'
    BY <1>0 DEF DispatchInv, TypeOK, DispatchRec, ClaimRec, RunRec, EffectRec, ReceiptRec,
           GrantFits, RunsOwned, QueuedUnbound, Untouched, ReceiptsPast, OneStarted,
           OneRunPerGeneration, WithinBudget, DeliveredReachesReview, AcceptedOnDelivery,
           Exists, maxAttempts, Touched, assertDeliveryExecution, approvedDelivery, NoClaim,
           NoRun, QueuedDispatch, RunId, Revoke, ExecutorRuns, StartedNow, StartedEffects,
           CurrentTasks, Settles, SettleRoot, ReadyForAcceptance, LastRun, Returned,
           executorVisibleState, RootState, DispatchState, root, exec, Task, Reconcile
  <1>14. GrantFits'
    BY DEF DispatchInv, Reconcile, root, exec, GrantFits
  <1> QED BY <1>4, <1>5, <1>6, <1>7, <1>8, <1>9, <1>10, <1>11, <1>12, <1>13, <1>14
          DEF DispatchInv

(* The next attempt leaves no started effect and no receipt of its generation behind. *)
LEMMA RecoverKeeps ==
  ASSUME DispatchInv, NEW t \in Task, Recover(t)
  PROVE  DispatchInv'
  <1>0. Exists(t)
    BY DEF DispatchInv, Recover, ExecutorRuns
  <1>1. disp' \in [Task -> DispatchRec]
    BY <1>0 DEF DispatchInv, TypeOK, DispatchRec, Exists, maxAttempts, assertDeliveryExecution,
           approvedDelivery, NoRun, QueuedDispatch, RunId, Revoke, StartedNow, StartedEffects,
           executorVisibleState, DispatchState, root, exec, Task, Recover
  <1>2. claims' \in 0 .. MaxClaims /\ runs' \in [1 .. claims' -> RunRec]
    BY RevokeFacts DEF DispatchInv, TypeOK, Recover
  <1>3. TypeOK'
    BY <1>1, <1>2, <1>0 DEF DispatchInv, TypeOK, DispatchRec, ClaimRec, RunRec, EffectRec,
           ReceiptRec, Exists, maxAttempts, Touched, assertDeliveryExecution, approvedDelivery,
           NoClaim, NoRun, QueuedDispatch, RunId, Revoke, ExecutorRuns, StartedNow,
           StartedEffects, CurrentTasks, Settles, SettleRoot, ReadyForAcceptance, LastRun,
           Returned, executorVisibleState, RootState, DispatchState, root, exec, Task, Recover
  <1>4. RunsOwned'
    BY <1>0 DEF DispatchInv, TypeOK, RunsOwned, Exists, maxAttempts, assertDeliveryExecution,
           approvedDelivery, NoRun, QueuedDispatch, Revoke, StartedNow, StartedEffects,
           executorVisibleState, root, exec, Task, Recover
  <1>5. QueuedUnbound'
    BY <1>0 DEF DispatchInv, TypeOK, QueuedUnbound, Exists, maxAttempts,
           assertDeliveryExecution, approvedDelivery, NoRun, QueuedDispatch, Revoke,
           StartedNow, StartedEffects, executorVisibleState, root, exec, Task, Recover
  <1>6. Untouched'
    BY <1>0 DEF DispatchInv, TypeOK, Untouched, Exists, Recover, root, exec
  <1>7. ReceiptsPast'
    BY <1>0 DEF DispatchInv, TypeOK, ReceiptsPast, Exists, maxAttempts,
           assertDeliveryExecution, approvedDelivery, NoRun, QueuedDispatch, Revoke,
           StartedNow, StartedEffects, executorVisibleState, root, exec, Recover
  <1>8. OneStarted'
    BY <1>0 DEF DispatchInv, TypeOK, OneStarted, Exists, maxAttempts, assertDeliveryExecution,
           approvedDelivery, NoRun, QueuedDispatch, Revoke, StartedNow, StartedEffects,
           executorVisibleState, root, exec, Recover
  <1>9. OneRunPerGeneration'
    BY <1>0 DEF DispatchInv, TypeOK, DispatchRec, ClaimRec, RunRec, EffectRec, ReceiptRec,
           GrantFits, RunsOwned, QueuedUnbound, Untouched, ReceiptsPast, OneStarted,
           OneRunPerGeneration, WithinBudget, DeliveredReachesReview, AcceptedOnDelivery,
           Exists, maxAttempts, Touched, assertDeliveryExecution, approvedDelivery, NoClaim,
           NoRun, QueuedDispatch, RunId, Revoke, ExecutorRuns, StartedNow, StartedEffects,
           CurrentTasks, Settles, SettleRoot, ReadyForAcceptance, LastRun, Returned,
           executorVisibleState, RootState, DispatchState, root, exec, Task, Recover
  <1>10. WithinBudget'
    <2>1. plan \in Plans /\ UNCHANGED <<plan, grant>>
      BY DEF DispatchInv, TypeOK, Recover, root
    <2>2. disp' = [disp EXCEPT ![t] = QueuedDispatch(disp[t].gen + 1)]
      BY DEF Recover
    <2>3. disp[t].gen \in Nat /\ disp[t].gen < plan[t[2]][t[1]]
      BY DEF DispatchInv, TypeOK, Recover, maxAttempts
    <2>4. plan[t[2]][t[1]] \in Nat
      BY <1>0, <2>1, PlanFacts DEF DispatchInv, GrantFits, Exists, TypeOK, Task
    <2>5. disp'[t].gen = disp[t].gen + 1 /\ \A c \in Task \ {t} : disp'[c] = disp[c]
      BY <2>2 DEF DispatchInv, TypeOK, QueuedDispatch
    <2> QED BY <2>1, <2>3, <2>4, <2>5 DEF DispatchInv, WithinBudget, Exists, maxAttempts
  <1>11. DeliveredReachesReview'
    BY <1>0 DEF DispatchInv, TypeOK, DeliveredReachesReview, Exists, maxAttempts,
           assertDeliveryExecution, approvedDelivery, NoRun, QueuedDispatch, Revoke,
           StartedNow, StartedEffects, CurrentTasks, Settles, executorVisibleState, root, exec,
           Task, Recover
  <1>12. AcceptedOnDelivery'
    BY <1>0 DEF DispatchInv, TypeOK, AcceptedOnDelivery, Exists, maxAttempts,
           assertDeliveryExecution, approvedDelivery, NoRun, QueuedDispatch, Revoke,
           StartedNow, StartedEffects, CurrentTasks, ReadyForAcceptance, LastRun,
           executorVisibleState, root, exec, Task, Recover
  <1>13. GrantFits'
    BY DEF DispatchInv, Recover, root, exec, GrantFits
  <1> QED BY <1>3, <1>4, <1>5, <1>6, <1>7, <1>8, <1>9, <1>10, <1>11, <1>12, <1>13
          DEF DispatchInv

(* An approval makes the tasks of the next revision exist: none of them has   *)
(* happened to anybody, and there is at least one, so nothing is settled.     *)
LEMMA ApproveDeliveryChangeKeeps ==
  ASSUME DispatchInv, ApproveDeliveryChange
  PROVE  DispatchInv'
  <1>1. plan \in Plans /\ grant \in 0 .. MaxGrants /\ grant < Cardinality(DOMAIN plan)
    BY DEF DispatchInv, TypeOK, GrantFits, ApproveDeliveryChange
  <1>2. /\ grant' = grant + 1 /\ plan' = plan /\ proposal' = "none" /\ rootState' # "COMPLETED"
        /\ UNCHANGED <<rootState, byHand, exec, effects, receipts>>
    BY DEF ApproveDeliveryChange
  <1>3. GrantFits'
    BY <1>1, <1>2, PlanFacts DEF GrantFits
  <1>4. TypeOK'
    <2>1. grant + 1 \in 0 .. MaxGrants
      BY <1>1, PlanFacts, BoundsAssumption
    <2> QED BY <1>2, <2>1 DEF DispatchInv, TypeOK, ApproveDeliveryChange, exec
  <1>5. \A t \in Task : Exists(t) => Exists(t)'
    BY <1>1, <1>2 DEF Exists, Task
  <1>6. \A t \in Task : ~Exists(t) => disp[t] = QueuedDispatch(1)
    BY DEF DispatchInv, Untouched
  <1>7. Untouched'
    BY <1>2, <1>5 DEF DispatchInv, Untouched, exec
  <1>8. WithinBudget'
    <2>1. ASSUME NEW t \in Task, Exists(t)', ~Exists(t)
          PROVE  disp'[t].gen = 1 /\ maxAttempts(t)' >= 1
      <3>1. disp[t].gen = 1
        BY <1>6, <2>1 DEF QueuedDispatch
      <3>2. plan[t[2]][t[1]] >= 1
        BY <1>1, <1>2, <2>1, PlanFacts DEF Exists, Task
      <3> QED BY <1>2, <3>1, <3>2 DEF maxAttempts, exec
    <2>2. ASSUME NEW t \in Task
          PROVE  disp'[t].gen = 1 \/ (disp'[t] = disp[t] /\ maxAttempts(t)' = maxAttempts(t))
      BY <1>2 DEF maxAttempts, exec
    <2> QED BY <1>2, <2>1, <2>2 DEF DispatchInv, WithinBudget, maxAttempts, exec
  <1>9. DeliveredReachesReview'
    <2>0. grant + 1 \in 1 .. MaxGrants /\ grant + 1 \in DOMAIN plan
      BY <1>1, PlanFacts, BoundsAssumption
    <2>1. PICK u \in Unit : u \in DOMAIN plan[grant + 1]
      <3>1. DOMAIN plan[grant + 1] \in (SUBSET Unit) \ {{}}
        BY <1>1, <2>0, PlanFacts
      <3> QED BY <3>1
    <2>2. <<u, grant + 1>> \in Task /\ <<u, grant + 1>> \in CurrentTasks'
      BY <1>2, <2>0, <2>1 DEF Task, CurrentTasks
    <2>3. ~Exists(<<u, grant + 1>>)
      BY <1>1 DEF Exists
    <2>4. disp'[<<u, grant + 1>>].st = "QUEUED"
      BY <1>2, <1>6, <2>2, <2>3 DEF QueuedDispatch, exec
    <2> QED BY <2>2, <2>4 DEF DeliveredReachesReview, Settles
  <1>10. AcceptedOnDelivery'
    BY <1>2 DEF AcceptedOnDelivery
  <1>11. /\ RunsOwned' /\ QueuedUnbound' /\ ReceiptsPast' /\ OneStarted' /\ OneRunPerGeneration'
    BY <1>2 DEF DispatchInv, RunsOwned, QueuedUnbound, ReceiptsPast, OneStarted,
           OneRunPerGeneration, exec
  <1> QED BY <1>3, <1>4, <1>7, <1>8, <1>9, <1>10, <1>11 DEF DispatchInv

(* An acceptance changes states of items only, and checks what it promises.   *)
LEMMA AcceptPackageKeeps ==
  ASSUME DispatchInv, AcceptPackage
  PROVE  DispatchInv'
  <1>1. /\ rootState' = "COMPLETED" /\ proposal' = Touched
        /\ UNCHANGED <<plan, grant, stale, byHand, disp, claim, runs, claims, effects, receipts>>
    BY DEF AcceptPackage
  <1>2. CurrentTasks' = CurrentTasks
    BY <1>1 DEF CurrentTasks
  <1>3. TypeOK'
    BY <1>1 DEF DispatchInv, TypeOK, AcceptPackage, Touched, RootState
  <1>4. ASSUME NEW t \in CurrentTasks
        PROVE  ReadyForAcceptance(t)'
    <2>1. ReadyForAcceptance(t)
      BY DEF AcceptPackage
    <2> QED BY <1>1, <2>1 DEF ReadyForAcceptance, StartedEffects, LastRun
  <1>5. AcceptedOnDelivery'
    BY <1>2, <1>4 DEF AcceptedOnDelivery
  <1>6. GrantFits' /\ RunsOwned' /\ QueuedUnbound' /\ Untouched' /\ ReceiptsPast'
    BY <1>1 DEF DispatchInv, GrantFits, RunsOwned, QueuedUnbound, Untouched, ReceiptsPast,
           Exists, Touched
  <1>7. OneStarted' /\ OneRunPerGeneration' /\ WithinBudget' /\ DeliveredReachesReview'
    BY <1>1 DEF DispatchInv, OneStarted, OneRunPerGeneration, WithinBudget, Exists,
           maxAttempts, DeliveredReachesReview
  <1> QED BY <1>3, <1>5, <1>6, <1>7 DEF DispatchInv

(* What a return makes of the dispatch of a current task.                    *)
LEMMA ReturnedFacts ==
  ASSUME DispatchInv, NEW t \in Task
  PROVE  /\ Returned(t) \in DispatchRec
         /\ Returned(t).run = NoRun /\ Returned(t).st \in {"QUEUED", "EXHAUSTED"}
         /\ Returned(t) = disp[t] \/ Returned(t).gen = disp[t].gen + 1
         /\ Returned(t).st = "QUEUED" /\ Returned(t) # disp[t] => disp[t].gen < maxAttempts(t)
  <1>1. disp[t] \in DispatchRec
    BY DEF DispatchInv, TypeOK, DispatchRec
  <1>2. CASE disp[t].st = "QUEUED"
    BY <1>1, <1>2 DEF DispatchInv, QueuedUnbound, Returned
  <1>3. CASE disp[t].st # "QUEUED"
    <2> DEFINE st == IF disp[t].st \notin {"RUNNING", "STOP_REQUESTED"} /\ disp[t].gen < maxAttempts(t)
                       THEN "QUEUED" ELSE "EXHAUSTED"
    <2>1. Returned(t) = [st |-> st, gen |-> disp[t].gen + 1, run |-> NoRun, leased |-> FALSE]
      BY <1>3 DEF Returned, QueuedDispatch
    <2> QED BY <1>1, <2>1 DEF DispatchRec, DispatchState
  <1> QED BY <1>2, <1>3

(* A return starts generations that no receipt and no started effect is of,   *)
(* within the budget, and leaves no unit delivered.                          *)
LEMMA ReturnPackageKeeps ==
  ASSUME DispatchInv, ReturnPackage
  PROVE  DispatchInv'
  <1>1. /\ rootState' = "open" /\ proposal' = Touched
        /\ UNCHANGED <<plan, grant, stale, byHand, claim, claims, effects, receipts>>
    BY DEF ReturnPackage
  <1>2. plan \in Plans /\ grant \in 1 .. MaxGrants /\ grant <= Cardinality(DOMAIN plan)
    BY DEF DispatchInv, TypeOK, GrantFits, ReturnPackage, approvedDelivery
  <1>3. ASSUME NEW t \in CurrentTasks
        PROVE  t \in Task /\ Exists(t) /\ disp'[t] = Returned(t)
    BY <1>2 DEF CurrentTasks, Exists, ReturnPackage
  <1>4. ASSUME NEW t \in Task \ CurrentTasks
        PROVE  disp'[t] = disp[t]
    BY DEF ReturnPackage
  <1>5. CurrentTasks' = CurrentTasks /\ \A t \in Task : Exists(t)' = Exists(t)
    BY <1>1 DEF CurrentTasks, Exists
  <1>6. TypeOK'
    <2>1. disp' \in [Task -> DispatchRec]
      <3>1. \A t \in Task : disp[t] \in DispatchRec
        BY DEF DispatchInv, TypeOK, DispatchRec
      <3>2. disp' = [t \in Task |-> disp'[t]]
        BY DEF ReturnPackage
      <3> QED BY <1>3, <1>4, <3>1, <3>2, ReturnedFacts
    <2>2. runs' \in [1 .. claims' -> RunRec]
      BY <1>1, RevokeFacts DEF DispatchInv, ReturnPackage
    <2>3. taskState' \in [Task -> {"open", "REVIEW", "COMPLETED"}]
      BY DEF DispatchInv, TypeOK, ReturnPackage
    <2> QED BY <1>1, <2>1, <2>2, <2>3 DEF DispatchInv, TypeOK, Touched, RootState, DispatchRec,
                RunRec
  <1>7. \A i \in 1 .. claims : runs'[i].task = runs[i].task
        /\ (runs'[i].st # "revoked" => runs'[i] = runs[i])
    BY RevokeFacts DEF DispatchInv, ReturnPackage
  <1>8. RunsOwned'
    <2>1. ASSUME NEW t \in Task, claim'[t].st # "none"
          PROVE  /\ claim'[t].run \in 1 .. claims'
                 /\ runs'[claim'[t].run].task = t
                 /\ runs'[claim'[t].run].st # "COMPLETED"
      <3>1. claim[t].run \in 1 .. claims /\ runs[claim[t].run].task = t
            /\ runs[claim[t].run].st # "COMPLETED"
        BY <1>1, <2>1 DEF DispatchInv, RunsOwned
      <3> QED BY <1>1, <1>7, <3>1
    <2>2. ASSUME NEW t \in Task, disp'[t].run # NoRun
          PROVE  disp'[t].run \in 1 .. claims' /\ runs'[disp'[t].run].task = t
      BY <1>1, <1>3, <1>4, <1>7, <2>2, ReturnedFacts DEF DispatchInv, RunsOwned
    <2> QED BY <2>1, <2>2 DEF RunsOwned
  <1>9. QueuedUnbound'
    BY <1>3, <1>4, ReturnedFacts DEF DispatchInv, QueuedUnbound
  <1>10. Untouched'
    BY <1>1, <1>3, <1>4, <1>5 DEF DispatchInv, Untouched
  <1>11. \A t \in Task : disp[t].gen \in Nat /\ disp[t].gen <= disp'[t].gen
    <2>1. \A t \in Task : disp[t].gen \in Nat
      BY DEF DispatchInv, TypeOK
    <2>2. \A t \in CurrentTasks : disp'[t].gen \in {disp[t].gen, disp[t].gen + 1}
      BY <1>3, ReturnedFacts
    <2> QED BY <1>4, <2>1, <2>2
  <1>12. ReceiptsPast'
    <2>1. \A r \in receipts : r.task \in Task /\ r.gen \in Nat
      BY DEF DispatchInv, TypeOK
    <2>2. \A t \in Task : disp'[t].gen \in Nat
      BY <1>6 DEF TypeOK
    <2> QED BY <1>1, <1>11, <2>1, <2>2 DEF DispatchInv, ReceiptsPast
  <1>13. OneStarted'
    <2>1. \A e \in DOMAIN effects : effects[e].task \in Task
      BY DEF DispatchInv, TypeOK
    <2>2. \A e \in DOMAIN effects : effects[e].st = "STARTED" => effects[e].task \notin CurrentTasks
      BY DEF ReturnPackage, StartedEffects
    <2> QED BY <1>1, <1>4, <2>1, <2>2 DEF DispatchInv, OneStarted
  <1>14. OneRunPerGeneration'
    <2>1. ASSUME NEW r \in receipts, disp'[r.task].gen = r.gen
          PROVE  disp'[r.task].run = r.run
      <3>1. r.task \in Task /\ r.gen \in Nat /\ r.gen <= disp[r.task].gen /\ disp[r.task].gen \in Nat
        BY DEF DispatchInv, TypeOK, ReceiptsPast
      <3>2. disp'[r.task] = disp[r.task]
        BY <1>3, <1>4, <2>1, <3>1, ReturnedFacts
      <3> QED BY <2>1, <3>2 DEF DispatchInv, OneRunPerGeneration
    <2> QED BY <1>1, <2>1 DEF DispatchInv, OneRunPerGeneration
  <1>15. WithinBudget'
    <2>1. ASSUME NEW t \in CurrentTasks, Returned(t).st = "QUEUED"
          PROVE  Returned(t).gen <= maxAttempts(t)
      <3>1. plan[t[2]][t[1]] \in Nat /\ disp[t].gen \in Nat
        BY <1>2, <1>3, PlanFacts DEF DispatchInv, TypeOK, Exists, Task
      <3>2. CASE Returned(t) = disp[t]
        BY <1>3, <2>1, <3>2 DEF DispatchInv, WithinBudget
      <3>3. CASE Returned(t) # disp[t]
        <4>1. Returned(t).gen = disp[t].gen + 1 /\ disp[t].gen < maxAttempts(t)
          BY <1>3, <2>1, <3>3, ReturnedFacts
        <4> QED BY <3>1, <4>1 DEF maxAttempts
      <3> QED BY <3>2, <3>3
    <2>2. ASSUME NEW t \in CurrentTasks
          PROVE  disp'[t].st \notin {"RUNNING", "DELIVERED"}
      BY <1>3, ReturnedFacts
    <2>3. \A t \in Task : maxAttempts(t)' = maxAttempts(t)
      BY <1>1 DEF maxAttempts
    <2> QED BY <1>3, <1>4, <1>5, <2>1, <2>2, <2>3 DEF DispatchInv, WithinBudget
  <1>16. DeliveredReachesReview'
    <2>1. PICK u \in Unit : u \in DOMAIN plan[grant]
      <3>1. grant \in DOMAIN plan
        BY <1>2, PlanFacts
      <3>2. DOMAIN plan[grant] \in (SUBSET Unit) \ {{}}
        BY <1>2, <3>1, PlanFacts
      <3> QED BY <3>2
    <2>2. <<u, grant>> \in CurrentTasks
      BY <1>2, <2>1 DEF CurrentTasks, Task
    <2>3. disp'[<<u, grant>>].st # "DELIVERED"
      BY <1>3, <2>2, ReturnedFacts
    <2> QED BY <1>5, <2>2, <2>3 DEF DeliveredReachesReview, Settles
  <1>17. GrantFits' /\ AcceptedOnDelivery'
    BY <1>1 DEF DispatchInv, GrantFits, AcceptedOnDelivery, Touched
  <1> QED BY <1>6, <1>8, <1>9, <1>10, <1>12, <1>13, <1>14, <1>15, <1>16, <1>17 DEF DispatchInv

-----------------------------------------------------------------------------
(* The theorems *)

(* Nothing is granted, claimed or done at the start.                         *)
LEMMA InitKeeps == Init => DispatchInv
  <1> SUFFICES ASSUME Init PROVE DispatchInv
    OBVIOUS
  <1>1. /\ plan \in Plans /\ grant = 0 /\ proposal = "none" /\ rootState = "open"
        /\ disp = [t \in Task |-> QueuedDispatch(1)] /\ claim = [t \in Task |-> NoClaim]
        /\ claims = 0 /\ receipts = {} /\ runs = <<>> /\ effects = <<>>
    BY DEF Init
  <1>2. DOMAIN effects = {} /\ DOMAIN runs = {}
    BY <1>1
  <1>3. TypeOK
    <2>1. disp \in [Task -> DispatchRec] /\ claim \in [Task -> ClaimRec]
      BY <1>1 DEF DispatchRec, ClaimRec, QueuedDispatch, NoClaim, DispatchState
    <2>2. runs \in [1 .. claims -> RunRec] /\ effects \in [1 .. 0 -> EffectRec]
      BY <1>1
    <2>3. 0 \in 0 .. MaxEffects /\ 0 \in 0 .. MaxClaims /\ 0 \in 0 .. MaxGrants
      BY BoundsAssumption
    <2> QED BY <1>1, <2>1, <2>2, <2>3
            DEF Init, TypeOK, RootState, DispatchRec, ClaimRec, RunRec, EffectRec
  <1>4. GrantFits
    BY <1>1, PlanFacts DEF GrantFits
  <1>5. RunsOwned /\ QueuedUnbound /\ Untouched
    BY <1>1, <1>2 DEF RunsOwned, QueuedUnbound, Untouched, QueuedDispatch, NoClaim
  <1>6. ReceiptsPast /\ OneStarted /\ OneRunPerGeneration
    BY <1>1, <1>2 DEF ReceiptsPast, OneStarted, OneRunPerGeneration
  <1>7. WithinBudget
    BY <1>1 DEF WithinBudget, Exists, Task
  <1>8. DeliveredReachesReview /\ AcceptedOnDelivery
    BY <1>1 DEF DeliveredReachesReview, AcceptedOnDelivery
  <1> QED BY <1>3, <1>4, <1>5, <1>6, <1>7, <1>8 DEF DispatchInv

(* A step that changes nothing keeps everything.                             *)
LEMMA StutterKeeps ==
  ASSUME DispatchInv, UNCHANGED vars
  PROVE  DispatchInv'
  <1>1. TypeOK' /\ GrantFits' /\ RunsOwned' /\ QueuedUnbound' /\ Untouched' /\ ReceiptsPast'
    BY DEF DispatchInv, TypeOK, GrantFits, RunsOwned, QueuedUnbound, Untouched, Exists,
           ReceiptsPast, vars, root, exec
  <1>2. OneStarted' /\ OneRunPerGeneration' /\ WithinBudget' /\ DeliveredReachesReview'
    BY DEF DispatchInv, OneStarted, OneRunPerGeneration, WithinBudget, Exists, maxAttempts,
           DeliveredReachesReview, Settles, CurrentTasks, vars, root, exec
  <1>3. AcceptedOnDelivery'
    <2>1. CurrentTasks' = CurrentTasks
      BY DEF CurrentTasks, vars, root
    <2>2. \A t \in CurrentTasks : ReadyForAcceptance(t) => ReadyForAcceptance(t)'
      BY DEF ReadyForAcceptance, StartedEffects, LastRun, vars, root, exec
    <2> QED BY <2>1, <2>2 DEF DispatchInv, AcceptedOnDelivery, vars, root
  <1> QED BY <1>1, <1>2, <1>3 DEF DispatchInv

(* DispatchInv is inductive.                                                 *)
LEMMA StepKeeps == DispatchInv /\ [Next]_vars => DispatchInv'
  <1> SUFFICES ASSUME DispatchInv, [Next]_vars PROVE DispatchInv'
    OBVIOUS
  <1>1. CASE ProposeDeliveryChange \/ ApproveDeliveryChange \/ DeclineDeliveryChange
             \/ EditContract \/ AcceptPackage \/ ReturnPackage
    BY <1>1, ProposeDeliveryChangeKeeps, ApproveDeliveryChangeKeeps, DeclineDeliveryChangeKeeps,
       EditContractKeeps, AcceptPackageKeeps, ReturnPackageKeeps
  <1>2. CASE \E s \in RootState : MoveRoot(s)
    BY <1>2, MoveRootKeeps
  <1>3. ASSUME NEW t \in Task, ReopenTask(t) \/ ClaimWork(t) \/ CompleteRun(t) \/ EndClaim(t)
        PROVE  DispatchInv'
    BY <1>3, ReopenTaskKeeps, ClaimWorkKeeps, CompleteRunKeeps, EndClaimKeeps
  <1>4. ASSUME NEW t \in Task, ClaimLeaseEnds(t) \/ DispatchLeaseEnds(t) \/ Ack(t) \/ PrepareEffect(t)
        PROVE  DispatchInv'
    BY <1>4, ClaimLeaseEndsKeeps, DispatchLeaseEndsKeeps, AckKeeps, PrepareEffectKeeps
  <1>5. ASSUME NEW t \in Task, Stop(t) \/ StopAck(t) \/ Recover(t)
        PROVE  DispatchInv'
    BY <1>5, StopKeeps, StopAckKeeps, RecoverKeeps
  <1>6. CASE \E e \in DOMAIN effects : StartEffect(e)
    BY <1>6, StartEffectKeeps
  <1>7. CASE \E t \in Task, named \in SUBSET DOMAIN effects, observed, final \in BOOLEAN :
                RecordReceipt(t, named, observed, final)
    BY <1>7, RecordReceiptKeeps
  <1>8. CASE \E t \in Task, e \in DOMAIN effects, completed \in BOOLEAN : Reconcile(t, e, completed)
    BY <1>8, ReconcileKeeps
  <1>9. CASE UNCHANGED vars
    BY <1>9, StutterKeeps
  <1> QED BY <1>1, <1>2, <1>3, <1>4, <1>5, <1>6, <1>7, <1>8, <1>9 DEF Next

(* The inductive invariant holds in every reachable state.                   *)
LEMMA DispatchInvariant == Spec => []DispatchInv
  BY InitKeeps, StepKeeps, PTL DEF Spec

(* Types, one run for a generation, and no generation past the approved       *)
(* attempts, whatever mix of recover, return, stop and late receipt.         *)
THEOREM DispatchesAreSound == Spec => []DeliveryInv
  <1>1. DispatchInv => DeliveryInv
    BY DEF DispatchInv, DeliveryInv
  <1> QED BY <1>1, DispatchInvariant, PTL

(* An unresolved effect can always be reconciled and blocks all others.       *)
THEOREM EffectsStayReconcilable == Spec => []UnresolvedIsReconcilable
  <1>1. ASSUME DispatchInv, NEW t \in Task
        PROVE  Cardinality(StartedEffects(t)) <= 1 /\ StartedEffects(t) = StartedNow(t)
    <2>1. \A e, f \in StartedEffects(t) : e = f
      BY <1>1 DEF DispatchInv, OneStarted, StartedEffects
    <2>2. StartedEffects(t) = {} \/ \E e \in StartedEffects(t) : StartedEffects(t) = {e}
      BY <2>1
    <2>3. Cardinality(StartedEffects(t)) <= 1
      <3>1. CASE StartedEffects(t) = {}
        <4>1. Cardinality(StartedEffects(t)) = 0
          BY <3>1, FS_EmptySet, Zenon
        <4> QED BY <4>1
      <3>2. ASSUME NEW e, StartedEffects(t) = {e}
            PROVE  Cardinality(StartedEffects(t)) <= 1
        <4>1. Cardinality(StartedEffects(t)) = 1
          BY <3>2, FS_Singleton, Zenon
        <4> QED BY <4>1
      <3> QED BY <2>2, <3>1, <3>2, Zenon
    <2>4. StartedEffects(t) = StartedNow(t)
      BY <1>1 DEF DispatchInv, OneStarted, StartedEffects, StartedNow
    <2> QED BY <2>3, <2>4
  <1>2. DispatchInv => UnresolvedIsReconcilable
    BY <1>1 DEF UnresolvedIsReconcilable
  <1> QED BY <1>2, DispatchInvariant, PTL

(* A package whose units are all delivered is in review or accepted, unless    *)
(* a person moved it.                                                        *)
THEOREM DeliveryReachesReview == Spec => []DeliveredReachesReview
  <1>1. DispatchInv => DeliveredReachesReview
    BY DEF DispatchInv
  <1> QED BY <1>1, DispatchInvariant, PTL

(* A package is accepted on what was delivered, and stays so.                 *)
THEOREM AcceptanceStandsOnDelivery == Spec => []AcceptedOnDelivery
  <1>1. DispatchInv => AcceptedOnDelivery
    BY DEF DispatchInv
  <1> QED BY <1>1, DispatchInvariant, PTL

(* The steps that may change a dispatch or an effect, and how.               *)
StopRespected(t) ==
    disp[t].st \in {"STOP_REQUESTED", "STOPPED", "UNKNOWN"} /\ disp'[t].gen = disp[t].gen
      => /\ disp'[t].st \notin {"QUEUED", "RUNNING", "DELIVERED"}
         /\ \A e \in DOMAIN effects :
               effects[e].task = t /\ effects[e].st = "PREPARED" => effects'[e].st = "PREPARED"

(* A stop is final for its generation.                                       *)
THEOREM AStopIsFinal == Spec => StopIsFinal
  <1>1. ASSUME DispatchInv, [Next]_vars, NEW c \in Task
        PROVE  StopRespected(c)
    <2> USE <1>1
    <2>0. \A t \in Task : disp[t] \in DispatchRec /\ disp[t].gen \in Nat
      BY DEF DispatchInv, TypeOK, DispatchRec
    <2>1. ASSUME UNCHANGED <<disp, effects>>
          PROVE  StopRespected(c)
      BY <2>1 DEF StopRespected
    <2>2. ASSUME NEW t \in Task,
                 ClaimLeaseEnds(t) \/ DispatchLeaseEnds(t) \/ Stop(t) \/ StopAck(t)
          PROVE  StopRespected(c)
      <3>1. effects' = effects
        BY <2>2 DEF ClaimLeaseEnds, DispatchLeaseEnds, Stop, StopAck
      <3>2. CASE ClaimLeaseEnds(t) \/ DispatchLeaseEnds(t)
        <4>1. \A u \in Task : disp'[u].st = disp[u].st
          <5>1. disp \in [Task -> DispatchRec]
            BY DEF DispatchInv, TypeOK, DispatchRec
          <5>2. \A u \in Task : [disp[u] EXCEPT !.leased = FALSE].st = disp[u].st
            BY <5>1 DEF DispatchRec
          <5>3. disp' = [disp EXCEPT ![t] = [disp[t] EXCEPT !.leased = FALSE]]
            BY <3>2 DEF ClaimLeaseEnds, DispatchLeaseEnds
          <5> QED BY <5>1, <5>2, <5>3
        <4> QED BY <3>1, <4>1 DEF StopRespected
      <3>3. CASE Stop(t) \/ StopAck(t)
        <4>1. \A u \in Task : disp'[u] = disp[u] \/ disp'[u].st \in {"STOP_REQUESTED", "STOPPED", "UNKNOWN"}
          BY <3>3 DEF DispatchInv, TypeOK, Stop, StopAck
        <4> QED BY <3>1, <4>1 DEF StopRespected
      <3> QED BY <2>2, <3>2, <3>3
    <2>3. ASSUME NEW t \in Task, Ack(t)
          PROVE  StopRespected(c)
      BY <2>3 DEF DispatchInv, TypeOK, StopRespected, Ack
    <2>4. ASSUME NEW t \in Task, Recover(t)
          PROVE  StopRespected(c)
      BY <2>0, <2>4 DEF DispatchInv, TypeOK, StopRespected, Recover, QueuedDispatch
    <2>5. ASSUME NEW t \in Task, PrepareEffect(t)
          PROVE  StopRespected(c)
      <3>1. \A e \in DOMAIN effects : effects'[e] = effects[e]
        BY <2>5, EffectsDomain DEF DispatchInv, PrepareEffect
      <3> QED BY <2>5, <3>1 DEF StopRespected, PrepareEffect, exec
    <2>6. ASSUME NEW e \in DOMAIN effects, StartEffect(e)
          PROVE  StopRespected(c)
      BY <2>6 DEF DispatchInv, StopRespected, StartEffect, ExecutorRuns, exec
    <2>7. ASSUME NEW t \in Task, NEW named \in SUBSET DOMAIN effects, NEW observed \in BOOLEAN,
                 NEW final \in BOOLEAN, RecordReceipt(t, named, observed, final)
          PROVE  StopRespected(c)
      <3>1. \A e \in DOMAIN effects : effects[e].st = "PREPARED" => effects'[e] = effects[e]
        BY <2>7 DEF RecordReceipt, StartedNow, StartedEffects
      <3>2. disp[t].st = "RUNNING" /\ \A u \in Task \ {t} : disp'[u] = disp[u]
        BY <2>7 DEF DispatchInv, TypeOK, RecordReceipt, ExecutorRuns
      <3> QED BY <3>1, <3>2 DEF StopRespected
    <2>8. ASSUME NEW t \in Task, NEW e \in DOMAIN effects, NEW completed \in BOOLEAN,
                 Reconcile(t, e, completed)
          PROVE  StopRespected(c)
      <3>1. \A f \in DOMAIN effects : effects[f].st = "PREPARED" => effects'[f] = effects[f]
        BY <2>8 DEF DispatchInv, TypeOK, Reconcile, StartedNow, StartedEffects
      <3>2. \A u \in Task : \/ disp'[u].st = disp[u].st \/ disp'[u].st = "UNKNOWN"
        BY <2>8 DEF DispatchInv, TypeOK, Reconcile
      <3> QED BY <3>1, <3>2 DEF StopRespected
    <2>9. ASSUME ReturnPackage
          PROVE  StopRespected(c)
      <3>1. effects' = effects
        BY <2>9 DEF ReturnPackage
      <3>2. CASE c \in CurrentTasks
        <4>1. disp'[c] = Returned(c)
          BY <2>9, <3>2 DEF ReturnPackage
        <4>2. disp[c].st # "QUEUED" => Returned(c).gen = disp[c].gen + 1
          BY DEF Returned, QueuedDispatch
        <4> QED BY <2>0, <3>1, <4>1, <4>2 DEF StopRespected
      <3>3. CASE c \notin CurrentTasks
        BY <2>9, <3>1, <3>3 DEF ReturnPackage, StopRespected
      <3> QED BY <3>2, <3>3
    <2>10. CASE UNCHANGED vars \/ ProposeDeliveryChange \/ ApproveDeliveryChange \/ DeclineDeliveryChange
                \/ EditContract \/ AcceptPackage \/ (\E s \in RootState : MoveRoot(s))
      BY <2>1, <2>10 DEF vars, ProposeDeliveryChange, ApproveDeliveryChange,
             DeclineDeliveryChange, EditContract, AcceptPackage, MoveRoot, exec
    <2>11. CASE \E t \in Task : ReopenTask(t) \/ ClaimWork(t) \/ CompleteRun(t) \/ EndClaim(t)
      BY <2>1, <2>11 DEF ReopenTask, ClaimWork, CompleteRun, EndClaim
    <2> QED BY <2>2, <2>3, <2>4, <2>5, <2>6, <2>7, <2>8, <2>9, <2>10, <2>11 DEF Next
  <1>2. DispatchInv /\ [Next]_vars =>
          [\A t \in Task :
             disp[t].st \in {"STOP_REQUESTED", "STOPPED", "UNKNOWN"} /\ disp'[t].gen = disp[t].gen
             => /\ disp'[t].st \notin {"QUEUED", "RUNNING", "DELIVERED"}
                /\ \A e \in DOMAIN effects :
                      effects[e].task = t /\
                      effects[e].st = "PREPARED" => effects'[e].st = "PREPARED"]_vars
    BY <1>1 DEF StopRespected
  <1> QED BY <1>2, DispatchInvariant, PTL DEF Spec, StopIsFinal

(* What a task without authority has on record: its receipts, and the effects *)
(* that are started.                                                         *)
NothingRecorded(t) ==
    /\ {r \in receipts' : r.task = t} = {r \in receipts : r.task = t}
    /\ \A e \in DOMAIN effects' : effects'[e].task = t /\ effects'[e].st = "STARTED"
          => e \in DOMAIN effects /\ effects[e].st = "STARTED"

(* Authority ends with the grant.                                            *)
THEOREM AuthorityEndsWithTheGrant == Spec => NoAuthorityWithoutGrant
  <1>1. ASSUME DispatchInv, [Next]_vars, NEW c \in Task, ~assertDeliveryExecution(c)
        PROVE  NothingRecorded(c)
    <2> USE <1>1
    <2>1. ASSUME UNCHANGED <<receipts, effects>>
          PROVE  NothingRecorded(c)
      BY <2>1 DEF NothingRecorded
    <2>2. ASSUME NEW t \in Task, PrepareEffect(t)
          PROVE  NothingRecorded(c)
      BY <2>2, EffectsDomain DEF DispatchInv, PrepareEffect, NothingRecorded
    <2>3. ASSUME NEW e \in DOMAIN effects, StartEffect(e)
          PROVE  NothingRecorded(c)
      BY <2>3 DEF DispatchInv, TypeOK, StartEffect, ExecutorRuns, NothingRecorded
    <2>4. ASSUME NEW t \in Task, NEW named \in SUBSET DOMAIN effects, NEW observed \in BOOLEAN,
                 NEW final \in BOOLEAN, RecordReceipt(t, named, observed, final)
          PROVE  NothingRecorded(c)
      <3>1. t # c
        BY <2>4 DEF RecordReceipt, ExecutorRuns
      <3>2. {r \in receipts' : r.task = c} = {r \in receipts : r.task = c}
        BY <2>4, <3>1 DEF RecordReceipt
      <3>3. ASSUME NEW e \in DOMAIN effects'
            PROVE  e \in DOMAIN effects /\ (effects'[e].st = "STARTED" => effects[e].st = "STARTED")
        BY <2>4, <3>3 DEF DispatchInv, TypeOK, RecordReceipt
      <3> QED BY <3>2, <3>3 DEF NothingRecorded
    <2>5. ASSUME NEW t \in Task, NEW e \in DOMAIN effects, NEW completed \in BOOLEAN,
                 Reconcile(t, e, completed)
          PROVE  NothingRecorded(c)
      BY <2>5 DEF DispatchInv, TypeOK, Reconcile, NothingRecorded
    <2>6. CASE UNCHANGED vars \/ ProposeDeliveryChange \/ ApproveDeliveryChange \/ DeclineDeliveryChange
               \/ EditContract \/ AcceptPackage \/ ReturnPackage \/ (\E s \in RootState : MoveRoot(s))
      BY <2>1, <2>6 DEF vars, ProposeDeliveryChange, ApproveDeliveryChange,
             DeclineDeliveryChange, EditContract, AcceptPackage, ReturnPackage, MoveRoot
    <2>7. CASE \E t \in Task : \/ ReopenTask(t) \/ ClaimWork(t) \/ CompleteRun(t) \/ EndClaim(t)
                               \/ ClaimLeaseEnds(t) \/ DispatchLeaseEnds(t) \/ Ack(t)
                               \/ Stop(t) \/ StopAck(t) \/ Recover(t)
      BY <2>1, <2>7 DEF ReopenTask, ClaimWork, CompleteRun, EndClaim, ClaimLeaseEnds,
             DispatchLeaseEnds, Ack, Stop, StopAck, Recover
    <2> QED BY <2>2, <2>3, <2>4, <2>5, <2>6, <2>7 DEF Next
  <1>2. ASSUME DispatchInv, [Next]_vars
        PROVE  /\ \A r \in receipts' \ receipts : assertDeliveryExecution(r.task)
               /\ \A e \in DOMAIN effects' :
                     effects'[e].st = "STARTED"
                     /\ (e \in DOMAIN effects => effects[e].st # "STARTED")
                        => assertDeliveryExecution(effects'[e].task)
    <2>1. /\ \A r \in receipts' : r.task \in Task
          /\ \A e \in DOMAIN effects' : effects'[e].task \in Task
      BY <1>2, StepKeeps DEF DispatchInv, TypeOK
    <2>2. \A c \in Task : ~assertDeliveryExecution(c) => NothingRecorded(c)
      BY <1>1, <1>2
    <2>3. ASSUME NEW r \in receipts' \ receipts
          PROVE  assertDeliveryExecution(r.task)
      BY <2>1, <2>2, <2>3 DEF NothingRecorded
    <2>4. ASSUME NEW e \in DOMAIN effects', effects'[e].st = "STARTED",
                 e \in DOMAIN effects => effects[e].st # "STARTED"
          PROVE  assertDeliveryExecution(effects'[e].task)
      BY <2>1, <2>2, <2>4 DEF NothingRecorded
    <2> QED BY <2>3, <2>4
  <1>3. DispatchInv /\ [Next]_vars =>
          [/\ \A r \in receipts' \ receipts : assertDeliveryExecution(r.task)
           /\ \A e \in DOMAIN effects' :
                 effects'[e].st = "STARTED" /\ (e \in DOMAIN effects => effects[e].st # "STARTED")
                    => assertDeliveryExecution(effects'[e].task)]_vars
    BY <1>2
  <1> QED BY <1>3, DispatchInvariant, PTL DEF Spec, NoAuthorityWithoutGrant
=============================================================================
