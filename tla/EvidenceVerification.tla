------------------------ MODULE EvidenceVerification ------------------------
(***************************************************************************)
(* The evidence of an item's runs and the workers that verify it against   *)
(* GitHub (evidence-verification.ts, evidence-retract.ts), composed with   *)
(* the amendments and edits that change the item's contract meanwhile      *)
(* (ContractAmendment).                                                    *)
(*                                                                         *)
(* A worker reads the evidence with its run and item, takes a lease on it, *)
(* appends a PENDING row, asks GitHub, and then in a transaction under the *)
(* item's row lock appends what it observed.  A run freezes the digest of  *)
(* the contract it was started under, so that a contract changed and       *)
(* changed back is the same contract again.                                *)
(*                                                                         *)
(* GitHub may answer anything about the commit and the contract it is      *)
(* asked about.  Rows are kept by their newest, the only one read.  The    *)
(* item stays where workers look for evidence (STARTED or Review).         *)
(***************************************************************************)
EXTENDS ContractAmendment

CONSTANTS Evidence,       \* evidence items of kind PR or TEST
          Covers,         \* Covers[e]: the criteria a verified e covers
          Criterion,      \* the required criteria
          DigestField,    \* fields of the contract in its revision's digest
          Worker,         \* verifiers of all replicas
          MaxRuns,        \* bound: runs
          MaxCommit,      \* bound: commits of a run
          None

ASSUME EvidenceAssumption ==
    /\ Covers \in [Evidence -> SUBSET Criterion] /\ DigestField \subseteq Field
    /\ MaxRuns \in Nat /\ MaxCommit \in Nat /\ None \notin Worker

VARIABLES runs,      \* runs[r]: status, frozen contract and newest commit of run r
          evidence,  \* evidence[e]: its run, lease, retraction and newest row
          worker     \* worker[w]: what worker w does

vars == <<amendmentVars, runs, evidence, worker>>
evidenceVars == <<runs, evidence, worker>>

RunId == 1 .. MaxRuns
Commit == 0 .. MaxCommit   \* 0: none reported yet

\* snapshotContract: the revision is a digest of the contents.
snapshotContract == [f \in DigestField |-> contract[f]]
Revision == [DigestField -> Value]

\* Only of a VERIFIED row are the bindings read.  asked is history: the contract
\* GitHub was asked about.
Row == [status : {"PENDING", "FAILED", "UNAVAILABLE", "STALE"}] \cup
       [status : {"VERIFIED"}, rev : Revision, commit : Commit, asked : Revision, fresh : BOOLEAN]

NoEvidence == [run |-> 0, retracted |-> FALSE, lease |-> None, live |-> FALSE, row |-> None]
Idle == [pc |-> "idle"]

TypeOK ==
    /\ AmendmentTypeOK
    /\ Len(runs) <= MaxRuns
    /\ runs \in Seq([st : {"RUNNING", "COMPLETED", "barred"}, rev : Revision, commit : Commit])
    /\ evidence \in [Evidence -> [run : 0 .. MaxRuns, retracted : BOOLEAN, live : BOOLEAN,
                                  lease : {None} \cup Worker, row : {None} \cup Row]]
    /\ worker \in [Worker -> {Idle} \cup
           [pc : {"finally"}, ev : Evidence] \cup
           [pc : {"read", "leased", "asking"}, ev : Evidence, rev : Revision,
            commit : Commit, seen : Revision]]
    /\ \A e \in Evidence : evidence[e].run <= Len(runs)
    /\ \A e \in Evidence : evidence[e].live => evidence[e].lease # None

Init ==
    /\ AmendmentInit
    /\ runs = <<>>
    /\ evidence = [e \in Evidence |-> NoEvidence]
    /\ worker = [w \in Worker |-> Idle]

-----------------------------------------------------------------------------
(* Executors and people *)

\* reportRun: a new run freezes the contract; reports set its commit, and complete it.
StartRun ==
    /\ Len(runs) < MaxRuns
    /\ runs' = Append(runs, [st |-> "RUNNING", rev |-> snapshotContract, commit |-> 0])
    /\ UNCHANGED <<amendmentVars, evidence, worker>>
ReportCommit(r) ==
    /\ runs[r].st = "RUNNING" /\ runs[r].commit < MaxCommit
    /\ runs' = [runs EXCEPT ![r].commit = @ + 1]
    /\ UNCHANGED <<amendmentVars, evidence, worker>>
CompleteRun(r) ==
    /\ runs[r].st = "RUNNING"
    /\ runs' = [runs EXCEPT ![r].st = "COMPLETED"]
    /\ UNCHANGED <<amendmentVars, evidence, worker>>

\* A person returns it, its authority is revoked, or its lease goes to another.
BarRun(r) ==
    /\ runs[r].st # "barred"
    /\ runs' = [runs EXCEPT ![r].st = "barred"]
    /\ UNCHANGED <<amendmentVars, evidence, worker>>

\* attachEvidence
attachEvidence(e, r) ==
    /\ evidence[e].run = 0
    /\ evidence' = [evidence EXCEPT ![e].run = r]
    /\ UNCHANGED <<amendmentVars, runs, worker>>

\* retractEvidence, by a person or by the agent that attached it.
retractEvidence(e) ==
    /\ evidence[e].run # 0 /\ ~evidence[e].retracted
    /\ evidence' = [evidence EXCEPT ![e].retracted = TRUE]
    /\ UNCHANGED <<amendmentVars, runs, worker>>

-----------------------------------------------------------------------------
(* verifyEvidence *)

\* The evidence, its run and its item are read in one query.
ReadEvidence(w, e) ==
    /\ worker[w].pc = "idle"
    /\ evidence[e].run # 0 /\ ~evidence[e].retracted
    /\ worker' = [worker EXCEPT ![w] =
           [pc |-> "read", ev |-> e, rev |-> runs[evidence[e].run].rev,
            commit |-> runs[evidence[e].run].commit, seen |-> snapshotContract]]
    /\ UNCHANGED <<amendmentVars, runs, evidence>>

\* The lease is free or over, and the evidence still stands; else VERIFICATION_BUSY.
TakeLease(w) ==
    LET e == worker[w].ev
    IN  /\ worker[w].pc = "read"
        /\ IF ~evidence[e].live /\ ~evidence[e].retracted
           THEN /\ evidence' = [evidence EXCEPT ![e].lease = w, ![e].live = TRUE]
                /\ worker' = [worker EXCEPT ![w].pc = "leased"]
           ELSE /\ worker' = [worker EXCEPT ![w] = Idle]
                /\ UNCHANGED evidence
        /\ UNCHANGED <<amendmentVars, runs>>

\* The PENDING row: nothing is looked at again.
AppendPending(w) ==
    /\ worker[w].pc = "leased"
    /\ evidence' = [evidence EXCEPT ![worker[w].ev].row = [status |-> "PENDING"]]
    /\ worker' = [worker EXCEPT ![w].pc = "asking"]
    /\ UNCHANGED <<amendmentVars, runs>>

\* Mutant of Observable: a run of an older contract is asked about all the same.
ObservableAnyhow(w) == worker[w].commit # 0

\* GitHub is asked only for a bound run of the contract that was read.
Observable(w) == worker[w].commit # 0 /\ worker[w].rev = worker[w].seen

\* Mutant of Owned: the lease is not looked at.
OwnedByAnybody(w) ==
    LET e == evidence[worker[w].ev] IN ~e.retracted

\* The transaction goes on only for the holder of a live lease on standing evidence.
Owned(w) ==
    LET e == evidence[worker[w].ev] IN ~e.retracted /\ e.lease = w /\ e.live

Changed(w) ==
    LET r == evidence[worker[w].ev].run
    IN  snapshotContract # worker[w].rev \/ runs[r].commit # worker[w].commit

Finally(w) == worker' = [worker EXCEPT ![w] = [pc |-> "finally", ev |-> worker[w].ev]]

\* The observation, or STALE when contract or execution changed meanwhile.
AppendObservation(w) ==
    /\ worker[w].pc = "asking" /\ Owned(w)
    /\ \E row \in IF Changed(w) THEN {[status |-> "STALE"]}
                  ELSE {[status |-> "UNAVAILABLE"]} \cup
                       IF ~Observable(w) THEN {}
                       ELSE {[status |-> "FAILED"],
                             [status |-> "VERIFIED", rev |-> worker[w].rev,
                              commit |-> worker[w].commit, asked |-> worker[w].seen, fresh |-> TRUE]} :
          evidence' = [evidence EXCEPT ![worker[w].ev].row = row]
    /\ Finally(w)
    /\ UNCHANGED <<amendmentVars, runs>>

\* VERIFICATION_LEASE_LOST, or any other exception after the lease was taken.
VerificationFails(w) ==
    /\ worker[w].pc \in {"leased", "asking"}
    /\ Finally(w)
    /\ UNCHANGED <<amendmentVars, runs, evidence>>

\* The finally block gives up the worker's own lease.
ReleaseLease(w) ==
    /\ worker[w].pc = "finally"
    /\ LET e == worker[w].ev
       IN  evidence' = IF evidence[e].lease = w
                       THEN [evidence EXCEPT ![e].lease = None, ![e].live = FALSE] ELSE evidence
    /\ worker' = [worker EXCEPT ![w] = Idle]
    /\ UNCHANGED <<amendmentVars, runs>>

\* The process dies: its lease stays until it is over.
Crash(w) ==
    /\ worker[w].pc # "idle"
    /\ worker' = [worker EXCEPT ![w] = Idle]
    /\ UNCHANGED <<amendmentVars, runs, evidence>>

\* Time: a lease is over, a verified row is older than VERIFICATION_MAX_AGE_MS.
LeaseEnds(e) ==
    /\ evidence[e].live
    /\ evidence' = [evidence EXCEPT ![e].live = FALSE]
    /\ UNCHANGED <<amendmentVars, runs, worker>>
RowAges(e) ==
    /\ evidence[e].row # None /\ evidence[e].row.status = "VERIFIED" /\ evidence[e].row.fresh
    /\ evidence' = [evidence EXCEPT ![e].row.fresh = FALSE]
    /\ UNCHANGED <<amendmentVars, runs, worker>>

VerifyStep(w) == \/ \E e \in Evidence : ReadEvidence(w, e)
                 \/ TakeLease(w) \/ AppendPending(w) \/ AppendObservation(w)
                 \/ VerificationFails(w) \/ ReleaseLease(w) \/ Crash(w)

Next ==
    \/ AmendmentNext /\ UNCHANGED evidenceVars
    \/ StartRun
    \/ \E r \in DOMAIN runs : \/ ReportCommit(r) \/ CompleteRun(r) \/ BarRun(r)
                             \/ \E e \in Evidence : attachEvidence(e, r)
    \/ \E e \in Evidence : retractEvidence(e) \/ LeaseEnds(e) \/ RowAges(e)
    \/ \E w \in Worker : VerifyStep(w)

Spec == Init /\ [][Next]_vars

-----------------------------------------------------------------------------
(* assessVerifiedEvidence *)

Standing == {e \in Evidence : evidence[e].run = Len(runs) /\ ~evidence[e].retracted}

Verified(e) ==
    LET row == evidence[e].row
        run == runs[evidence[e].run]
    IN  /\ row # None /\ row.status = "VERIFIED" /\ row.fresh
        /\ row.commit = run.commit /\ row.rev = snapshotContract

\* The newest run is complete, bound and of the current contract, and its standing
\* evidence is verified and covers every required criterion.
Eligible ==
    /\ Len(runs) > 0 /\ runs[Len(runs)].st = "COMPLETED" /\ runs[Len(runs)].commit # 0
    /\ runs[Len(runs)].rev = snapshotContract
    /\ Standing # {} /\ \A e \in Standing : Verified(e)
    /\ Criterion \subseteq UNION {Covers[e] : e \in Standing}

-----------------------------------------------------------------------------
(* Properties *)

\* Whatever is eligible was really confirmed: for every standing evidence GitHub was
\* asked about the contract as it reads now and the commit the run ends on.
EligibleIsConfirmed ==
    Eligible => \A e \in Standing : /\ evidence[e].row.asked = snapshotContract
                                    /\ evidence[e].row.commit = runs[Len(runs)].commit

\* The invariant of evidence and amendments together: what is eligible was confirmed,
\* and at most one amendment of its contract waits.
EvidenceInv == TypeOK /\ OnePending /\ EligibleIsConfirmed

Observed(e) == /\ evidence'[e].row # evidence[e].row
               /\ evidence'[e].row.status # "PENDING"
               /\ evidence'[e].row.status = "VERIFIED" => evidence'[e].row.fresh

\* A verdict stands: it is written by the worker that took the lease last, and not by
\* a slow one whose lease another took; on evidence that nobody retracted while GitHub
\* was asked; and a verification is about the execution and the contract of the moment
\* it is written, whatever moved, or moved and moved back, meanwhile (the transaction
\* at the end of verifyEvidence).
VerdictStands ==
    [][\A e \in Evidence : Observed(e) =>
          /\ \E w \in Worker : evidence[e].lease = w /\ worker[w].pc = "asking"
                               /\ worker[w].ev = e /\ worker'[w].pc = "finally"
          /\ ~evidence[e].retracted
          /\ evidence'[e].row.status = "VERIFIED" =>
                /\ evidence'[e].row.rev = snapshotContract
                /\ evidence'[e].row.commit = runs[evidence[e].run].commit]_vars
=============================================================================
