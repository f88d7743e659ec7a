----------------------------- MODULE WorkLease -----------------------------
(***************************************************************************)
(* The execution lease on one committed work item: who may work on it       *)
(* (WorkClaim), what they reported (WorkRun), and how the lease ends        *)
(* (completion, release, expiry sweep, a late run).  Every handler that      *)
(* writes here locks the item's Issue row first, so one item is one unit of  *)
(* concurrency and the model has one.                                       *)
(*                                                                         *)
(* A handler is one step when everything it decides on is read under the    *)
(* row lock.  Three are not, and are split where the code is: claimWork      *)
(* checks the lease and writes it at different times under the lock,        *)
(* sweepExpiredClaims reads the claim before it takes the lock, and          *)
(* uncommitWork takes no lock until its final compare-and-set.               *)
(*                                                                         *)
(* Issue.revision is kept as what its readers can tell: an uncommit in       *)
(* flight survives exactly while no step increments the revision, so the     *)
(* increment is the reset of undo.  A refused call changes nothing.          *)
(***************************************************************************)
EXTENDS Integers, FiniteSets

CONSTANTS
    Sessions,     \* agent executions: processes that keep a claim token secret
    Humans,       \* people; they hold no token
    Agents,       \* agent accounts; several sessions may share one
    AgentOf,      \* the account each session runs under
    Claims,       \* WorkClaim ids (and the tokens minted with them)
    Runs,         \* WorkRun ids
    Leases,       \* lease lengths a claim may ask for
    LateWindow,   \* LATE_RUN_WINDOW_MS
    MoveTargets,  \* state types people move the item to
    Reported,     \* run statuses callers report
    MaxTime,      \* bound on the clock
    None

StateTypes == {"BACKLOG", "UNSTARTED", "STARTED", "REVIEW", "COMPLETED", "CANCELED"}
OpenStatuses == {"QUEUED", "RUNNING", "BLOCKED"}
TERMINAL_RUN_STATUSES == {"COMPLETED", "FAILED"}
Statuses == OpenStatuses \cup TERMINAL_RUN_STATUSES

ASSUME CallersAssumption ==
    /\ AgentOf \in [Sessions -> Agents]
    /\ Sessions \cap Humans = {}
    /\ Agents \cap Humans = {}
    /\ None \notin Claims \cup Sessions \cup Humans \cup Agents
ASSUME TimeAssumption ==
    /\ Leases \subseteq Nat \ {0}
    /\ LateWindow \in Nat
    /\ MaxTime \in Nat
ASSUME InputsAssumption ==
    /\ MoveTargets \subseteq StateTypes
    /\ Reported \subseteq Statuses

VARIABLES
    now,          \* the database clock
    commitment,   \* Issue.commitmentStatus
    state,        \* type of the Issue's workflow state
    commitAudit,  \* state before the commit, while that commit's audit is the latest
    undo,         \* uncommit calls past their checks: the state each will restore
    claim,        \* the WorkClaim row, or None
    minted,       \* who each claim id was issued to (None: not used yet)
    runs,         \* the WorkRun rows
    tx,           \* the claimWork transaction holding the row lock, or None
    sweep,        \* the claim row the expiry sweep has read, or None
    expiry        \* the latest work.claim_expired event, or None

vars == <<now, commitment, state, commitAudit, undo, claim, minted, runs, tx,
          sweep, expiry>>

-----------------------------------------------------------------------------
(* Types.                                                                   *)

Callers == Sessions \cup Humans
Actors == Agents \cup Humans

WorkClaim == [id : Claims, token : Claims \cup {None}, actor : Actors, leaseUntil : Nat]
WorkRun == [actor : Actors, by : Callers, claimId : Claims \cup {None},
            claimSnapshotId : Claims \cup {None}, token : Claims \cup {None},
            status : Statuses, revoked : BOOLEAN]
ClaimTx == [by : Callers, renewing : BOOLEAN, row : WorkClaim \cup {None}]

(* An absent row is not a row.                                              *)
ASSUME NoneAssumption == None \notin WorkClaim /\ None \notin WorkRun /\ None \notin ClaimTx

TypeOK ==
    /\ now \in Nat
    /\ commitment \in {"CANDIDATE", "COMMITTED"}
    /\ state \in StateTypes
    /\ commitAudit \in StateTypes \cup {None}
    /\ undo \in [Humans -> StateTypes \cup {None}]
    /\ claim \in WorkClaim \cup {None}
    /\ minted \in [Claims -> Callers \cup {None}]
    /\ runs \in [Runs -> WorkRun \cup {None}]
    /\ tx \in ClaimTx \cup {None}
    /\ sweep \in WorkClaim \cup {None}
    /\ expiry \in [actor : Actors, leaseUntil : Nat] \cup {None}

-----------------------------------------------------------------------------
(* What the handlers ask of the rows.                                       *)

ActorOf(c) == IF c \in Humans THEN c ELSE AgentOf[c]
IsAgent(c) == c \in Sessions
Live(row) == row # None /\ row.leaseUntil > now
Exists(r) == runs[r] # None
Open(run) == run # None /\ run.status \in OpenStatuses

(* assertWorkToken: a session proves its lease with the token it was given.  *)
(* (AnyToken, and the other definitions Next does not use, are deliberately  *)
(* wrong variants of the definition that follows them, each one plausible    *)
(* slip; the properties below tell them apart.)                             *)
AnyToken(c, token) == TRUE
HoldsToken(c, token) == token # None /\ minted[token] = c

ALLOWED_RUN_TRANSITIONS ==
    [s \in Statuses |->
        CASE s = "QUEUED"  -> {"RUNNING", "BLOCKED", "COMPLETED", "FAILED"}
          [] s = "RUNNING" -> {"BLOCKED", "COMPLETED", "FAILED"}
          [] s = "BLOCKED" -> {"RUNNING", "COMPLETED", "FAILED"}
          [] OTHER -> {}]

-----------------------------------------------------------------------------
(* Changes several handlers share.                                          *)

(* revision + 1: every uncommit in flight loses its compare-and-set, and the *)
(* commit's audit is no longer that of the current revision.                 *)
BumpRevision ==
    /\ undo' = [h \in Humans |-> None]
    /\ commitAudit' = None

(* Deleting a claim row sets claimId to NULL on the runs that point at it    *)
(* (onDelete: SetNull in schema.prisma).                                    *)
Detach(rs, id) ==
    [r \in Runs |-> IF rs[r] # None /\ rs[r].claimId = id
                    THEN [rs[r] EXCEPT !.claimId = None] ELSE rs[r]]

(* What release and expiry do to the runs of a claim: revoke the execution,  *)
(* fail what is open, then delete the claim.                                *)
CloseRuns(rs, id) ==
    LET revoked == [r \in Runs |->
            IF rs[r] # None /\ rs[r].claimSnapshotId = id
            THEN [rs[r] EXCEPT !.revoked = TRUE] ELSE rs[r]]
        failed == [r \in Runs |->
            IF Open(revoked[r]) /\ revoked[r].claimId = id
            THEN [revoked[r] EXCEPT !.status = "FAILED"] ELSE revoked[r]]
    IN  Detach(failed, id)

(* A claim that is not a renewal supersedes every earlier run of the work.   *)
Supersede(rs) ==
    [r \in Runs |-> IF rs[r] = None THEN None
                    ELSE [rs[r] EXCEPT !.status = IF @ \in OpenStatuses THEN "FAILED" ELSE @,
                                       !.revoked = TRUE]]

-----------------------------------------------------------------------------
(* Claiming.                                                                *)

Tick ==
    /\ now < MaxTime
    /\ now' = now + 1
    /\ UNCHANGED <<commitment, state, commitAudit, undo, claim, minted, runs, tx,
                   sweep, expiry>>

(* claimWork up to the readiness check, with the Issue row locked.           *)
ClaimCheck(c) ==
    /\ tx = None
    /\ commitment = "COMMITTED"
    /\ Live(claim) => /\ claim.actor = ActorOf(c)
                      /\ IsAgent(c) => HoldsToken(c, claim.token)
    /\ ~Live(claim) => state \in {"UNSTARTED", "STARTED"}
    /\ tx' = [by |-> c, renewing |-> Live(claim), row |-> None]
    /\ UNCHANGED <<now, commitment, state, commitAudit, undo, claim, minted, runs,
                   sweep, expiry>>

(* upsertWorkClaim, not yet committed: an expired row goes, the caller's own *)
(* live row is extended, otherwise a row with a fresh id is created.  A      *)
(* renewal whose row expired since the check keeps its token but not its id. *)
UpsertRow(d) ==
    IF Live(claim) THEN {[claim EXCEPT !.leaseUntil = now + d]}
    ELSE {[id |-> id,
           token |-> IF ~IsAgent(tx.by) THEN None
                     ELSE IF tx.renewing THEN claim.token ELSE id,
           actor |-> ActorOf(tx.by),
           leaseUntil |-> now + d] : id \in {i \in Claims : minted[i] = None}}

ClaimWrite ==
    /\ tx # None /\ tx.row = None
    /\ \E d \in Leases : \E row \in UpsertRow(d) : tx' = [tx EXCEPT !.row = row]
    /\ UNCHANGED <<now, commitment, state, commitAudit, undo, claim, minted, runs,
                   sweep, expiry>>

ClaimCommit ==
    /\ tx # None /\ tx.row # None
    /\ claim' = tx.row
    /\ minted' = [minted EXCEPT ![tx.row.id] = IF @ = None THEN tx.by ELSE @]
    /\ LET kept == IF tx.renewing THEN runs ELSE Supersede(runs)
       IN  runs' = IF claim # None /\ claim.id # tx.row.id
                   THEN Detach(kept, claim.id) ELSE kept
    /\ state' = IF state \in {"UNSTARTED", "BACKLOG"} THEN "STARTED" ELSE state
    /\ tx' = None
    /\ UNCHANGED <<now, commitment, commitAudit, undo, sweep, expiry>>

(* The server dies, or the transaction fails, before the commit.             *)
ClaimAbort ==
    /\ tx # None
    /\ tx' = None
    /\ UNCHANGED <<now, commitment, state, commitAudit, undo, claim, minted, runs,
                   sweep, expiry>>

-----------------------------------------------------------------------------
(* Reporting.                                                               *)

(* The claim a report stands on: the caller's own, and live unless a person  *)
(* files a terminal report after the fact.                                  *)
ActiveClaim(c, status) ==
    /\ claim # None
    /\ claim.actor = ActorOf(c)
    /\ Live(claim) \/ (~IsAgent(c) /\ status \in TERMINAL_RUN_STATUSES)

(* moveToInProgress and moveToInReview.  Whether the run is a scheduled      *)
(* round is stored on it and matters only when it completes, so it is chosen *)
(* with that report.                                                        *)
StartsWork(status) == status = "RUNNING" /\ state \in {"UNSTARTED", "BACKLOG"}
SubmitsWork(status, scheduled) ==
    /\ status = "COMPLETED" /\ ~scheduled
    /\ state \notin {"REVIEW", "COMPLETED", "CANCELED"}

(* The tail of reportRun: RUNNING starts the work; COMPLETED submits it for  *)
(* review unless the run is a scheduled round, and ends the claim.           *)
AfterReport(status, scheduled, rs) ==
    /\ state' = IF StartsWork(status) THEN "STARTED"
                ELSE IF SubmitsWork(status, scheduled) THEN "REVIEW" ELSE state
    /\ IF SubmitsWork(status, scheduled) THEN BumpRevision
       ELSE /\ commitAudit' = IF StartsWork(status) THEN None ELSE commitAudit
            /\ UNCHANGED undo
    /\ IF status = "COMPLETED"
       THEN claim' = None /\ runs' = Detach(rs, claim.id)
       ELSE UNCHANGED claim /\ runs' = rs
    /\ UNCHANGED <<now, commitment, minted, tx, sweep, expiry>>

(* "Rebind to open run under this claim": a second one is never started.      *)
RebindForgotten == TRUE
NoOpenRun == \A o \in Runs : ~(Open(runs[o]) /\ runs[o].claimId = claim.id)

StartRun(c, r, status, scheduled) ==
    /\ tx = None
    /\ runs[r] = None
    /\ ActiveClaim(c, status)
    /\ NoOpenRun
    /\ IsAgent(c) => HoldsToken(c, claim.token)
    /\ AfterReport(status, scheduled,
           [runs EXCEPT ![r] = [actor |-> ActorOf(c), by |-> c, claimId |-> claim.id,
                                claimSnapshotId |-> claim.id, token |-> claim.token,
                                status |-> status, revoked |-> FALSE]])

(* A report on an existing run, named by id or found open under the claim.   *)
MayUpdateAnyClaim(c, run, status) ==
    /\ claim # None
    /\ run.actor = ActorOf(c)
    /\ IsAgent(c) => HoldsToken(c, run.token)
MayUpdate(c, run, status) ==
    /\ run.actor = ActorOf(c)
    /\ run.status \notin TERMINAL_RUN_STATUSES
    /\ run.claimId # None /\ claim # None /\ run.claimId = claim.id
    /\ ActiveClaim(c, status)
    /\ IsAgent(c) => HoldsToken(c, run.token) /\ ~run.revoked
    /\ status # run.status => status \in ALLOWED_RUN_TRANSITIONS[run.status]

UpdateRun(c, r, status, scheduled) ==
    /\ tx = None
    /\ Exists(r)
    /\ MayUpdate(c, runs[r], status)
    /\ AfterReport(status, scheduled,
           [runs EXCEPT ![r] = [@ EXCEPT !.status = status, !.by = c]])

(* lateRunAllowance: In Review, nobody holds the work, and either the        *)
(* caller's own stale claim or the latest expiry event is recent enough.     *)
Recent(leaseUntil) == leaseUntil > now - LateWindow
LateIgnoringHolder(a) ==
    /\ state = "REVIEW"
    /\ \/ claim # None /\ claim.actor = a /\ Recent(claim.leaseUntil)
       \/ expiry # None /\ expiry.actor = a /\ Recent(expiry.leaseUntil)
lateRunAllowance(a) ==
    /\ state = "REVIEW"
    /\ ~Live(claim)
    /\ \/ claim # None /\ claim.actor = a /\ Recent(claim.leaseUntil)
       \/ claim = None /\ expiry # None /\ expiry.actor = a /\ Recent(expiry.leaseUntil)

LateRunKeepsClaim(c, r) ==
    /\ tx = None
    /\ runs[r] = None
    /\ ~ActiveClaim(c, "COMPLETED")
    /\ lateRunAllowance(ActorOf(c))
    /\ runs' = [runs EXCEPT ![r] =
           [actor |-> ActorOf(c), by |-> c, claimId |-> None, claimSnapshotId |-> None,
            token |-> None, status |-> "COMPLETED", revoked |-> FALSE]]
    /\ commitAudit' = None
    /\ UNCHANGED <<now, commitment, state, undo, claim, minted, tx, sweep, expiry>>
LateRun(c, r) ==
    /\ tx = None
    /\ runs[r] = None
    /\ ~ActiveClaim(c, "COMPLETED")
    /\ lateRunAllowance(ActorOf(c))
    /\ LET filed == [runs EXCEPT ![r] =
               [actor |-> ActorOf(c), by |-> c, claimId |-> None, claimSnapshotId |-> None,
                token |-> None, status |-> "COMPLETED", revoked |-> FALSE]]
       IN  runs' = IF claim = None THEN filed ELSE Detach(filed, claim.id)
    /\ claim' = None
    /\ commitAudit' = None
    /\ UNCHANGED <<now, commitment, state, undo, minted, tx, sweep, expiry>>

-----------------------------------------------------------------------------
(* Ending a claim.                                                          *)

ReleaseClaim(c) ==
    /\ tx = None
    /\ claim # None
    /\ IsAgent(c) => claim.actor = ActorOf(c) /\ Live(claim) /\ HoldsToken(c, claim.token)
    /\ runs' = CloseRuns(runs, claim.id)
    /\ claim' = None
    /\ BumpRevision
    /\ UNCHANGED <<now, commitment, state, minted, tx, sweep, expiry>>

(* sweepExpiredClaims reads the claim and checks its lease before it locks.  *)
SweepRead ==
    /\ sweep = None
    /\ claim # None /\ claim.leaseUntil <= now
    /\ sweep' = claim
    /\ UNCHANGED <<now, commitment, state, commitAudit, undo, claim, minted, runs, tx,
                   expiry>>

(* Having the lock: a row of that id is closed whatever its lease is now; if *)
(* it is gone the delete throws and the transaction rolls back.              *)
SweepClose ==
    /\ tx = None
    /\ sweep # None
    /\ claim # None /\ claim.id = sweep.id
    /\ runs' = CloseRuns(runs, claim.id)
    /\ claim' = None
    /\ state' = IF state = "STARTED" THEN "UNSTARTED" ELSE state
    /\ expiry' = [actor |-> sweep.actor, leaseUntil |-> sweep.leaseUntil]
    /\ sweep' = None
    /\ BumpRevision
    /\ UNCHANGED <<now, commitment, minted, tx>>

SweepMissThrows ==
    /\ tx = None
    /\ sweep # None
    /\ claim # None => claim.id # sweep.id
    /\ UNCHANGED vars
SweepMiss ==
    /\ tx = None
    /\ sweep # None
    /\ claim # None => claim.id # sweep.id
    /\ sweep' = None
    /\ UNCHANGED <<now, commitment, state, commitAudit, undo, claim, minted, runs, tx,
                   expiry>>

-----------------------------------------------------------------------------
(* The item itself: review, state moves, commit and its undo.                *)

ReviewWorkNoTarget(accepted) ==
    /\ tx = None
    /\ state = "REVIEW"
    /\ state' = IF accepted THEN None ELSE "UNSTARTED"
    /\ BumpRevision
    /\ UNCHANGED <<now, commitment, claim, minted, runs, tx, sweep, expiry>>
ReviewWork(accepted) ==
    /\ tx = None
    /\ state = "REVIEW"
    /\ state' = IF accepted THEN "COMPLETED" ELSE "UNSTARTED"
    /\ BumpRevision
    /\ UNCHANGED <<now, commitment, claim, minted, runs, tx, sweep, expiry>>

(* GitHub moves the state without a revision: a branch or a pull request     *)
(* forward, an unmerged close back from Review.  It does write an audit.     *)
GithubMove(s) ==
    /\ tx = None
    /\ \/ s = "STARTED" /\ state \in {"BACKLOG", "UNSTARTED", "REVIEW"}
       \/ s = "REVIEW" /\ state \in {"BACKLOG", "UNSTARTED", "STARTED"}
    /\ state' = s
    /\ commitAudit' = None
    /\ UNCHANGED <<now, commitment, undo, claim, minted, runs, tx, sweep, expiry>>

(* updateIssue with a stateId.                                              *)
UpdateState(s) ==
    /\ tx = None
    /\ s # state
    /\ state' = s
    /\ BumpRevision
    /\ UNCHANGED <<now, commitment, claim, minted, runs, tx, sweep, expiry>>

CommitWork(s) ==
    /\ tx = None
    /\ commitment = "CANDIDATE"
    /\ commitment' = "COMMITTED"
    /\ commitAudit' = state
    /\ undo' = [h \in Humans |-> None]
    /\ state' = s
    /\ UNCHANGED <<now, claim, minted, runs, tx, sweep, expiry>>

(* uncommitWork reads without a lock that nothing happened since the commit. *)
UncommitCheck(h) ==
    /\ undo[h] = None
    /\ commitment = "COMMITTED"
    /\ claim = None
    /\ \A r \in Runs : ~Exists(r)
    /\ commitAudit # None
    /\ undo' = [undo EXCEPT ![h] = commitAudit]
    /\ UNCHANGED <<now, commitment, state, commitAudit, claim, minted, runs, tx, sweep,
                   expiry>>

(* claimIssueRevision succeeds while no step incremented the revision.       *)
UncommitWrite(h) ==
    /\ tx = None
    /\ undo[h] # None
    /\ commitment' = "CANDIDATE"
    /\ state' = undo[h]
    /\ BumpRevision
    /\ UNCHANGED <<now, claim, minted, runs, tx, sweep, expiry>>

-----------------------------------------------------------------------------
Init ==
    /\ now = 0
    /\ commitment = "COMMITTED"
    /\ state = "UNSTARTED"
    /\ commitAudit = "BACKLOG"
    /\ undo = [h \in Humans |-> None]
    /\ claim = None
    /\ minted = [c \in Claims |-> None]
    /\ runs = [r \in Runs |-> None]
    /\ tx = None
    /\ sweep = None
    /\ expiry = None

ClaimStep == (\E c \in Callers : ClaimCheck(c)) \/ ClaimWrite \/ ClaimCommit \/ ClaimAbort
ReportStep ==
    \E c \in Callers, r \in Runs :
        \/ \E status \in Reported, scheduled \in BOOLEAN :
              StartRun(c, r, status, scheduled) \/ UpdateRun(c, r, status, scheduled)
        \/ LateRun(c, r)
EndStep == (\E c \in Callers : ReleaseClaim(c)) \/ SweepRead \/ SweepClose \/ SweepMiss
WorkStep ==
    \/ \E accepted \in BOOLEAN : ReviewWork(accepted)
    \/ \E s \in StateTypes : GithubMove(s)
    \/ \E s \in MoveTargets : UpdateState(s)
    \/ \E s \in StateTypes \ {"CANCELED"} : CommitWork(s)
    \/ \E h \in Humans : UncommitCheck(h) \/ UncommitWrite(h)

Next == Tick \/ ClaimStep \/ ReportStep \/ EndStep \/ WorkStep

Spec == Init /\ [][Next]_vars

-----------------------------------------------------------------------------
(* Safety.                                                                  *)

(* An open run that still points at a claim points at the current one and    *)
(* carries its holder and its token, and it is the only one: however claims, *)
(* renewals, releases and sweeps interleave, one execution is in progress.   *)
OneExecution ==
    \A r \in Runs : (Open(runs[r]) /\ runs[r].claimId # None) =>
        /\ claim # None /\ claim.id = runs[r].claimId
        /\ runs[r].actor = claim.actor /\ runs[r].token = claim.token
        /\ ~runs[r].revoked
        /\ \A o \in Runs \ {r} : ~(Open(runs[o]) /\ runs[o].claimId = claim.id)

(* Two sessions of one agent account never mix: a run an agent started under *)
(* a lease was last written by the session that lease's token was minted for *)
(* (work-execution.ts: a lost token needs a new lease).                     *)
OnlyHolderReports ==
    \A r \in Runs : (Exists(r) /\ runs[r].token # None) => minted[runs[r].token] = runs[r].by

(* The strengthening that makes the two inductive: ids in use were minted;   *)
(* people carry no token; and while claimWork holds the row lock, the row it *)
(* is about to write either has a fresh id or keeps its holder and token.    *)
IdsMinted == claim # None => minted[claim.id] # None
PeopleCarryNoToken ==
    /\ claim # None /\ claim.actor \in Humans => claim.token = None
    /\ \A r \in Runs : Exists(r) /\ runs[r].actor \in Humans => runs[r].token = None
TxSound ==
    tx # None =>
        /\ tx.renewing => claim # None
        /\ tx.row # None =>
              /\ tx.row.actor \in Humans => tx.row.token = None
              /\ claim # None /\ claim.id = tx.row.id =>
                    tx.row.actor = claim.actor /\ tx.row.token = claim.token
LeaseInv ==
    TypeOK /\ IdsMinted /\ PeopleCarryNoToken /\ TxSound /\ OneExecution /\ OnlyHolderReports

(* What was recorded stays: a COMPLETED or FAILED run keeps its status, and  *)
(* an execution once revoked is never given its authority back.             *)
RunHistoryFrozen ==
    [][\A r \in Runs : Exists(r) =>
          /\ runs'[r] # None
          /\ runs[r].status \in TERMINAL_RUN_STATUSES => runs'[r].status = runs[r].status
          /\ runs[r].revoked => runs'[r].revoked]_vars

(* No completed run is filed over somebody else's live lease: neither a      *)
(* superseded execution coming back nor a late run (late-run.ts).            *)
NoCompletionOverLiveLease ==
    [][\A r \in Runs :
          (runs'[r] # None /\ runs'[r].status = "COMPLETED" /\ runs'[r] # runs[r]
             /\ (Exists(r) => runs[r].status # "COMPLETED"))
          => ~(Live(claim) /\ claim.actor # runs'[r].actor)]_vars

(* A claim that is not a renewal silences every earlier execution of the     *)
(* work, and so does the end of the claim: a run left behind by a newer       *)
(* claim, or left RUNNING by a late run that deleted its claim               *)
(* (run-service-report.ts), never completes and never shows progress again.  *)
SupersededSilenced ==
    [][\A r \in Runs :
          (Exists(r) /\ (claim = None \/ runs[r].token # claim.token))
          => runs'[r].by = runs[r].by /\ runs'[r].status \in {runs[r].status, "FAILED"}]_vars

-----------------------------------------------------------------------------
(* Progress.  The sweep is an interval timer of the server, so it runs again *)
(* and again; a claim transaction ends by committing or rolling back; and    *)
(* Postgres queues the waiters of a row lock, so a sweep waiting for it is   *)
(* not overtaken for ever (strong fairness of the step behind the lock).     *)

TxEnds == ClaimCommit \/ ClaimAbort
Fairness == WF_vars(SweepRead) /\ SF_vars(SweepClose \/ SweepMiss) /\ WF_vars(TxEnds)
FairSpec == Spec /\ Fairness

(* An expired lease does not occupy the work: the row with that id is gone   *)
(* or renewed, even if the holder never comes back.                         *)
ExpiredLeaseEnds ==
    \A id \in Claims :
        (claim # None /\ claim.id = id /\ claim.leaseUntil <= now)
        ~> (claim = None \/ claim.id # id \/ claim.leaseUntil > now)

-----------------------------------------------------------------------------
(* Refinement: claims and runs implement the lease the rest of the system    *)
(* reasons with.                                                            *)

ExecutionOf(run) ==
    IF run = None THEN "none" ELSE IF run.status \in OpenStatuses THEN "open" ELSE run.status

Abstract == INSTANCE Lease WITH
    Id <- Claims,
    Work <- Runs,
    lease <- IF claim = None THEN None ELSE claim.id,
    used <- {id \in Claims : minted[id] # None},
    exec <- [r \in Runs |-> ExecutionOf(runs[r])]

(* Every step of claimWork, reportRun, release, sweep and review is a step of *)
(* the abstract lease, or none at all: a claim id deleted is never given out  *)
(* again, no report counts without a standing claim, a late run leaves nobody *)
(* holding the work, and nothing finished is rewritten.                      *)
ImplementsLease == Abstract!Spec
=============================================================================
