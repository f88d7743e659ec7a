-------------------------- MODULE AcceptanceProofs --------------------------
(***************************************************************************)
(* Proofs about EvidenceVerification and the ContractAmendment it extends,   *)
(* for every contract, every set of evidence and of workers and any number   *)
(* of amendments, runs and commits, and about ReviewGate, for any items and  *)
(* sweeps.  The two specifications share no variable.                       *)
(***************************************************************************)
EXTENDS EvidenceVerification, ReviewGate, SequenceTheorems, FiniteSetTheorems, TLAPS

-----------------------------------------------------------------------------
(* Amendments *)

(* OnePending, without counting.                                             *)
SinglePending == \A m, n \in Pending : m = n
AmendInv == AmendmentTypeOK /\ SinglePending

LEMMA SingleIsOne == AmendInv => OnePending
  <1> SUFFICES ASSUME AmendInv PROVE Cardinality(Pending) <= 1
    BY DEF OnePending
  <1>1. CASE Pending = {}
    BY <1>1, FS_EmptySet
  <1>2. CASE Pending # {}
    <2>1. PICK n \in Pending : TRUE
      BY <1>2
    <2>2. Pending = {n}
      BY <2>1 DEF AmendInv, SinglePending
    <2> QED BY <2>2, FS_Singleton
  <1> QED BY <1>1, <1>2

(* What a contract and the values of some of its fields are.                  *)
LEMMA ValuesAre ==
  /\ \A v \in Values : \E S \in SUBSET Field : S # {} /\ v \in [S -> Value]
  /\ \A S \in SUBSET Field : S # {} => [S -> Value] \subseteq Values
  BY DEF Values

LEMMA WrittenType ==
  ASSUME contract \in [Field -> Value], NEW v \in Values
  PROVE  Written(v) \in [Field -> Value]
  <1>1. PICK S \in SUBSET Field : v \in [S -> Value]
    BY ValuesAre
  <1> QED BY <1>1 DEF Written

(* The three kinds of amendments.                                            *)
PendingRow == [status : {"PENDING"}, before : Values, changes : Values, gate : BOOLEAN]
AutoRow == [status : {"AUTO"}, before : Values, changes : Values]
SettledRow == [status : {"SUPERSEDED", "ACCEPTED", "REJECTED"}]

LEMMA AmendmentKinds ==
  ASSUME NEW a \in Amendment
  PROVE  /\ a.status = "PENDING" => a \in PendingRow
         /\ a.status = "AUTO" => a \in AutoRow
         /\ PendingRow \subseteq Amendment /\ AutoRow \subseteq Amendment
            /\ SettledRow \subseteq Amendment
  BY DEF Amendment, PendingRow, AutoRow, SettledRow

(* One amendment is decided, or its gate leaves it.                           *)
LEMMA OneChanges ==
  ASSUME AmendInv, NEW n \in Pending, NEW a \in Amendment,
         amendments' = [amendments EXCEPT ![n] = a],
         a.status \in {"PENDING", "AUTO"} => DOMAIN a.before = DOMAIN a.changes,
         contract' \in [Field -> Value]
  PROVE  AmendInv'
  <1>1. amendments \in Seq(Amendment) /\ n \in DOMAIN amendments
        /\ DOMAIN amendments = 1 .. Len(amendments)
    BY DEF AmendInv, AmendmentTypeOK, Pending
  <1>2. /\ amendments' \in Seq(Amendment) /\ Len(amendments') = Len(amendments)
        /\ DOMAIN amendments' = DOMAIN amendments /\ amendments'[n] = a
        /\ \A m \in DOMAIN amendments : m # n => amendments'[m] = amendments[m]
    BY <1>1
  <1>3. AmendmentTypeOK'
    BY <1>2 DEF AmendInv, AmendmentTypeOK
  <1>4. Pending' \subseteq Pending
    BY <1>2 DEF Pending
  <1> QED BY <1>3, <1>4 DEF AmendInv, SinglePending

(* The open amendment gives way to the one that is filed.                     *)
LEMMA FiledKeeps ==
  ASSUME AmendInv, NEW before \in Values, NEW changes \in Values, NEW gate \in BOOLEAN,
         DOMAIN before = DOMAIN changes, Filed(before, changes, gate),
         Len(amendments) < MaxAmendments, contract' \in [Field -> Value]
  PROVE  AmendInv'
  <1> DEFINE old == [n \in DOMAIN amendments |->
                        IF n \in Pending THEN [status |-> "SUPERSEDED"] ELSE amendments[n]]
             new == [before |-> before, changes |-> changes, gate |-> gate, status |-> "PENDING"]
  <1>1. amendments \in Seq(Amendment) /\ DOMAIN amendments = 1 .. Len(amendments)
        /\ Len(amendments) \in Nat
    BY DEF AmendInv, AmendmentTypeOK
  <1>2. [status |-> "SUPERSEDED"] \in Amendment
    BY DEF Amendment
  <1>3. /\ old \in Seq(Amendment) /\ Len(old) = Len(amendments) /\ DOMAIN old = DOMAIN amendments
        /\ \A n \in DOMAIN amendments : old[n].status # "PENDING"
        /\ \A n \in DOMAIN amendments : old[n].status = "AUTO" => old[n] = amendments[n]
    <2>1. \A n \in DOMAIN amendments : old[n] \in Amendment
      BY <1>1, <1>2
    <2>2. old \in [1 .. Len(amendments) -> Amendment]
      BY <1>1, <2>1
    <2>3. old \in Seq(Amendment)
      BY <1>1, <2>2, SeqDef
    <2> QED BY <1>1, <2>3 DEF Pending
  <1>4. new \in Amendment /\ new.status = "PENDING" /\ DOMAIN new.before = DOMAIN new.changes
    BY DEF Amendment
  <1>5. amendments' = Append(old, new)
    BY DEF Filed
  <1> HIDE DEF old, new
  <1>6. /\ amendments' \in Seq(Amendment) /\ Len(amendments') = Len(amendments) + 1
        /\ DOMAIN amendments' = 1 .. Len(amendments) + 1
        /\ \A n \in DOMAIN amendments : amendments'[n] = old[n]
        /\ amendments'[Len(amendments) + 1] = new
    BY <1>1, <1>3, <1>4, <1>5
  <1>7. \A n \in DOMAIN amendments' : n \in DOMAIN amendments \/ n = Len(amendments) + 1
    BY <1>1, <1>6
  <1>8. AmendmentTypeOK'
    <2>1. \A n \in DOMAIN amendments' : amendments'[n].status \in {"PENDING", "AUTO"} =>
             DOMAIN amendments'[n].before = DOMAIN amendments'[n].changes
      BY <1>3, <1>4, <1>6, <1>7 DEF AmendInv, AmendmentTypeOK
    <2>2. Len(amendments') <= MaxAmendments
      BY <1>1, <1>6, AmendmentAssumption
    <2> QED BY <1>6, <2>1, <2>2 DEF AmendmentTypeOK
  <1>9. Pending' \subseteq {Len(amendments) + 1}
    BY <1>3, <1>6, <1>7 DEF Pending
  <1> QED BY <1>8, <1>9 DEF AmendInv, SinglePending

LEMMA ProposeKeeps ==
  ASSUME AmendInv, NEW requested \in Values, proposeContractAmendment(requested)
  PROVE  AmendInv'
  <1> DEFINE changed == {f \in DOMAIN requested : requested[f] # contract[f]}
             before == [f \in changed |-> contract[f]]
             changes == [f \in changed |-> requested[f]]
  <1>1. PICK S \in SUBSET Field : requested \in [S -> Value]
    BY ValuesAre
  <1>2. contract \in [Field -> Value] /\ changed # {} /\ changed \in SUBSET Field
    BY <1>1 DEF AmendInv, AmendmentTypeOK, proposeContractAmendment
  <1>3. before \in [changed -> Value] /\ changes \in [changed -> Value]
    BY <1>1, <1>2
  <1>4. Filed(before, changes, TRUE) /\ Len(amendments) < MaxAmendments /\ contract' = contract
    BY DEF proposeContractAmendment
  <1>5. DOMAIN before = DOMAIN changes
    OBVIOUS
  <1> HIDE DEF changed, before, changes
  <1>6. before \in Values /\ changes \in Values
    BY <1>2, <1>3, ValuesAre
  <1> QED BY <1>2, <1>4, <1>5, <1>6, FiledKeeps

(* Every operation on contract and amendments keeps both.                     *)
LEMMA AmendStep ==
  ASSUME AmendInv, AmendmentNext
  PROVE  AmendInv'
  <1>0. contract \in [Field -> Value] /\ amendments \in Seq(Amendment)
    BY DEF AmendInv, AmendmentTypeOK
  <1>1. ASSUME NEW n \in Pending
        PROVE  /\ amendments[n] \in PendingRow
               /\ DOMAIN amendments[n].before = DOMAIN amendments[n].changes
    <2>1. n \in DOMAIN amendments /\ amendments[n].status = "PENDING"
      BY <1>1 DEF Pending
    <2>2. amendments[n] \in Amendment
      BY <1>0, <2>1
    <2> QED BY <2>1, <2>2, AmendmentKinds DEF AmendInv, AmendmentTypeOK
  <1>2. ASSUME NEW f \in Field, NEW v \in Value, EditContract(f, v)
        PROVE  AmendInv'
    BY <1>0, <1>2 DEF EditContract, AmendInv, AmendmentTypeOK, SinglePending, Pending
  <1>3. ASSUME NEW n \in DOMAIN amendments, acceptContractAmendment(n)
        PROVE  AmendInv'
    <2>1. n \in Pending /\ amendments' = [amendments EXCEPT ![n] = [status |-> "ACCEPTED"]]
      BY <1>3 DEF acceptContractAmendment, accept
    <2>2. contract' \in [Field -> Value]
      BY <1>0, <1>1, <1>3, <2>1, WrittenType DEF acceptContractAmendment, accept, PendingRow
    <2>3. [status |-> "ACCEPTED"] \in Amendment /\ [status |-> "ACCEPTED"].status = "ACCEPTED"
      BY DEF Amendment
    <2> QED BY <2>1, <2>2, <2>3, OneChanges
  <1>4. ASSUME NEW n \in DOMAIN amendments, rejectContractAmendment(n)
        PROVE  AmendInv'
    <2>1. n \in Pending /\ amendments' = [amendments EXCEPT ![n] = [status |-> "REJECTED"]]
          /\ contract' = contract
      BY <1>4 DEF rejectContractAmendment
    <2>2. [status |-> "REJECTED"] \in Amendment /\ [status |-> "REJECTED"].status = "REJECTED"
      BY DEF Amendment
    <2> QED BY <1>0, <2>1, <2>2, OneChanges
  <1>5. ASSUME NEW n \in DOMAIN amendments, GateAcceptsAmendment(n)
        PROVE  AmendInv'
    <2> DEFINE a == [status |-> "AUTO", before |-> amendments[n].before, changes |-> amendments[n].changes]
    <2>1. n \in Pending /\ amendments' = [amendments EXCEPT ![n] = a]
      BY <1>5 DEF GateAcceptsAmendment, accept
    <2>2. contract' \in [Field -> Value]
      BY <1>0, <1>1, <1>5, <2>1, WrittenType DEF GateAcceptsAmendment, accept, PendingRow
    <2>3. a \in Amendment /\ DOMAIN a.before = DOMAIN a.changes
      BY <1>1, <2>1 DEF Amendment, PendingRow
    <2> HIDE DEF a
    <2> QED BY <2>1, <2>2, <2>3, OneChanges
  <1>6. ASSUME NEW n \in DOMAIN amendments, GateLeavesAmendment(n)
        PROVE  AmendInv'
    <2> DEFINE a == [amendments[n] EXCEPT !.gate = FALSE]
    <2>1. n \in Pending /\ amendments' = [amendments EXCEPT ![n] = a] /\ contract' = contract
      BY <1>6 DEF GateLeavesAmendment
    <2>2. a \in PendingRow /\ DOMAIN a.before = DOMAIN a.changes
      BY <1>1, <2>1 DEF PendingRow
    <2> HIDE DEF a
    <2>3. a \in Amendment
      BY <2>2 DEF Amendment, PendingRow
    <2> QED BY <1>0, <2>1, <2>2, <2>3, OneChanges
  <1>7. ASSUME NEW n \in DOMAIN amendments, reopenContractAmendment(n)
        PROVE  AmendInv'
    <2>1. /\ Len(amendments) < MaxAmendments /\ amendments[n].status = "AUTO"
          /\ contract' = Written(amendments[n].before)
          /\ Filed(amendments[n].before, amendments[n].changes, FALSE)
      BY <1>7 DEF reopenContractAmendment
    <2>2. amendments[n] \in Amendment
      BY <1>0
    <2>3. amendments[n].before \in Values /\ amendments[n].changes \in Values
      BY <2>1, <2>2, AmendmentKinds DEF AutoRow
    <2>4. DOMAIN amendments[n].before = DOMAIN amendments[n].changes
      BY <2>1 DEF AmendInv, AmendmentTypeOK
    <2>5. contract' \in [Field -> Value]
      BY <1>0, <2>1, <2>3, WrittenType
    <2> QED BY <2>1, <2>3, <2>4, <2>5, FiledKeeps
  <1> QED BY <1>2, <1>3, <1>4, <1>5, <1>6, <1>7, ProposeKeeps DEF AmendmentNext

(* No acceptance writes over a value the amendment was not proposed against.   *)
LEMMA NotOverwrittenStep ==
  ASSUME AmendInv, AmendmentNext, NEW n \in Pending, amendments'[n].status \in {"ACCEPTED", "AUTO"}
  PROVE  \A f \in DOMAIN amendments[n].before : contract[f] = amendments[n].before[f]
  <1>0. /\ amendments \in Seq(Amendment) /\ n \in DOMAIN amendments /\ amendments[n].status = "PENDING"
        /\ DOMAIN amendments = 1 .. Len(amendments) /\ Len(amendments) \in Nat
    BY DEF AmendInv, AmendmentTypeOK, Pending
  <1>1. ASSUME NEW m \in DOMAIN amendments, NEW a, accept(m, a)
        PROVE  \A f \in DOMAIN amendments[n].before : contract[f] = amendments[n].before[f]
    <2>1. m = n
      BY <1>1 DEF accept, AmendInv, SinglePending
    <2> QED BY <1>1, <2>1 DEF accept, isAmendmentStale
  <1>2. ASSUME NEW before, NEW changes, NEW gate, Filed(before, changes, gate)
        PROVE  FALSE
    <2> DEFINE old == [k \in DOMAIN amendments |->
                          IF k \in Pending THEN [status |-> "SUPERSEDED"] ELSE amendments[k]]
               new == [before |-> before, changes |-> changes, gate |-> gate, status |-> "PENDING"]
    <2>1. amendments' = Append(old, new) /\ old[n].status = "SUPERSEDED"
      BY <1>0, <1>2 DEF Filed
    <2>2. old \in Seq(Amendment) /\ n \in 1 .. Len(old)
      <3>1. [status |-> "SUPERSEDED"] \in Amendment
        BY DEF Amendment
      <3>2. \A k \in DOMAIN amendments : old[k] \in Amendment
        BY <1>0, <3>1
      <3>3. old \in [1 .. Len(amendments) -> Amendment]
        BY <1>0, <3>2
      <3>4. old \in Seq(Amendment)
        BY <1>0, <3>3, SeqDef
      <3> QED BY <1>0, <3>3, <3>4
    <2> HIDE DEF old, new
    <2>3. amendments'[n] = old[n]
      BY <2>1, <2>2, AppendProperties
    <2> QED BY <2>1, <2>3
  <1>3. ASSUME NEW f \in Field, NEW v \in Value, EditContract(f, v)
        PROVE  FALSE
    BY <1>0, <1>3 DEF EditContract
  <1>4. ASSUME NEW m \in DOMAIN amendments, rejectContractAmendment(m) \/ GateLeavesAmendment(m)
        PROVE  FALSE
    <2>1. m = n
      BY <1>4 DEF rejectContractAmendment, GateLeavesAmendment, AmendInv, SinglePending
    <2>2. CASE rejectContractAmendment(m)
      BY <1>0, <2>1, <2>2 DEF rejectContractAmendment
    <2>3. CASE GateLeavesAmendment(m)
      <3>1. amendments[n] \in PendingRow
        BY <1>0, AmendmentKinds
      <3> QED BY <1>0, <2>1, <2>3, <3>1 DEF GateLeavesAmendment, PendingRow
    <2> QED BY <1>4, <2>2, <2>3
  <1> QED BY <1>1, <1>2, <1>3, <1>4
          DEF AmendmentNext, acceptContractAmendment, GateAcceptsAmendment, proposeContractAmendment,
              reopenContractAmendment

-----------------------------------------------------------------------------
(* Runs, evidence and workers *)

(* The rows and states TypeOK speaks of.                                      *)
RunRow == [st : {"RUNNING", "COMPLETED", "barred"}, rev : Revision, commit : Commit]
EvidenceRow == [run : 0 .. MaxRuns, retracted : BOOLEAN, live : BOOLEAN,
                lease : {None} \cup Worker, row : {None} \cup Row]
VerifiedRow == [status : {"VERIFIED"}, rev : Revision, commit : Commit, asked : Revision, fresh : BOOLEAN]
Busy == [pc : {"read", "leased", "asking"}, ev : Evidence, rev : Revision, commit : Commit, seen : Revision]
Ending == [pc : {"finally"}, ev : Evidence]
WorkerState == {Idle} \cup Ending \cup Busy

TypeRuns == Len(runs) <= MaxRuns /\ runs \in Seq(RunRow)
TypeEvidence ==
    /\ evidence \in [Evidence -> EvidenceRow]
    /\ \A e \in Evidence : evidence[e].run <= Len(runs)
    /\ \A e \in Evidence : evidence[e].live => evidence[e].lease # None
TypeWorker == worker \in [Worker -> WorkerState]

(* What is recorded as verified was asked about.                              *)
RowSound(row) == row # None /\ row.status = "VERIFIED" => row.asked = row.rev
RowsAsked == \A e \in Evidence : RowSound(evidence[e].row)

VerifyInv == TypeRuns /\ TypeEvidence /\ TypeWorker /\ RowsAsked
ConfirmedInv == AmendInv /\ VerifyInv

LEMMA TypesAreTypeOK ==
  TypeOK <=> AmendmentTypeOK /\ TypeRuns /\ TypeEvidence /\ TypeWorker
  BY DEF TypeOK, TypeRuns, TypeEvidence, TypeWorker, RunRow, EvidenceRow, Busy, Ending, WorkerState

LEMMA SnapshotType == AmendInv => snapshotContract \in Revision
  BY EvidenceAssumption DEF AmendInv, AmendmentTypeOK, snapshotContract, Revision

LEMMA WorkerKinds ==
  ASSUME NEW x \in WorkerState
  PROVE  /\ x.pc \in {"read", "leased", "asking"} => x \in Busy
         /\ x.pc = "finally" => x \in Ending
  BY DEF WorkerState, Busy, Ending, Idle

(* One piece of evidence changes, and workers change within their types.      *)
LEMMA EvidenceChanges ==
  ASSUME VerifyInv, NEW e \in Evidence, NEW x \in EvidenceRow,
         evidence' = [evidence EXCEPT ![e] = x], runs' = runs, TypeWorker',
         x.run <= Len(runs), x.live => x.lease # None, RowSound(x.row)
  PROVE  VerifyInv'
  <1>1. /\ evidence' \in [Evidence -> EvidenceRow] /\ evidence'[e] = x
        /\ \A d \in Evidence : d # e => evidence'[d] = evidence[d]
    BY DEF VerifyInv, TypeEvidence
  <1>2. TypeEvidence'
    BY <1>1 DEF VerifyInv, TypeEvidence
  <1>3. RowsAsked'
    BY <1>1 DEF VerifyInv, RowsAsked, RowSound
  <1>4. TypeRuns'
    BY DEF VerifyInv, TypeRuns
  <1> QED BY <1>2, <1>3, <1>4 DEF VerifyInv

LEMMA WorkerChanges ==
  ASSUME VerifyInv, NEW w \in Worker, NEW x \in WorkerState, worker' = [worker EXCEPT ![w] = x]
  PROVE  TypeWorker'
  BY DEF VerifyInv, TypeWorker

LEMMA WorkersOnly ==
  ASSUME VerifyInv, TypeWorker', runs' = runs, evidence' = evidence
  PROVE  VerifyInv'
  BY DEF VerifyInv, TypeRuns, TypeEvidence, RowsAsked, RowSound

(* Runs are added and change, none goes.                                      *)
LEMMA RunsChange ==
  ASSUME VerifyInv, runs' \in Seq(RunRow), Len(runs') <= MaxRuns, Len(runs') >= Len(runs),
         evidence' = evidence, worker' = worker
  PROVE  VerifyInv'
  <1>1. \A e \in Evidence : evidence[e].run \in Nat /\ evidence[e].run <= Len(runs)
    <2>1. \A e \in Evidence : evidence[e].run \in 0 .. MaxRuns
      BY DEF VerifyInv, TypeEvidence, EvidenceRow
    <2> QED BY <2>1 DEF VerifyInv, TypeEvidence
  <1>2. Len(runs) \in Nat /\ Len(runs') \in Nat
    BY DEF VerifyInv, TypeRuns
  <1>3. TypeEvidence'
    BY <1>1, <1>2 DEF VerifyInv, TypeEvidence
  <1> QED BY <1>3 DEF VerifyInv, TypeRuns, TypeWorker, RowsAsked, RowSound

LEMMA RunsKeep ==
  ASSUME ConfirmedInv,
         StartRun \/ \E r \in DOMAIN runs : ReportCommit(r) \/ CompleteRun(r) \/ BarRun(r)
  PROVE  VerifyInv'
  <1>0. VerifyInv /\ runs \in Seq(RunRow) /\ Len(runs) \in Nat /\ Len(runs) <= MaxRuns
    BY DEF ConfirmedInv, VerifyInv, TypeRuns
  <1>1. CASE StartRun
    <2> DEFINE x == [st |-> "RUNNING", rev |-> snapshotContract, commit |-> 0]
    <2>1. 0 \in Commit
      BY EvidenceAssumption DEF Commit
    <2>2. x \in RunRow
      BY <2>1, SnapshotType DEF ConfirmedInv, RunRow
    <2>3. runs' = Append(runs, x) /\ Len(runs) < MaxRuns /\ evidence' = evidence /\ worker' = worker
      BY <1>1 DEF StartRun
    <2> HIDE DEF x
    <2>4. runs' \in Seq(RunRow) /\ Len(runs') = Len(runs) + 1
      BY <1>0, <2>2, <2>3
    <2> QED BY <1>0, <2>3, <2>4, RunsChange, EvidenceAssumption
  <1>2. ASSUME NEW r \in DOMAIN runs, ReportCommit(r) \/ CompleteRun(r) \/ BarRun(r)
        PROVE  VerifyInv'
    <2>1. PICK x \in RunRow : x = runs[r]
      BY <1>0
    <2>2. /\ x.commit < MaxCommit => [x EXCEPT !.commit = x.commit + 1] \in RunRow
          /\ [x EXCEPT !.st = "COMPLETED"] \in RunRow
          /\ [x EXCEPT !.st = "barred"] \in RunRow
      <3>1. x.commit \in 0 .. MaxCommit
        BY DEF RunRow, Commit
      <3>2. x.commit < MaxCommit => x.commit + 1 \in Commit
        BY <3>1, EvidenceAssumption DEF Commit
      <3> QED BY <3>2 DEF RunRow
    <2>3. \E y \in RunRow : runs' = [runs EXCEPT ![r] = y]
      <3>1. CASE ReportCommit(r)
        <4>1. runs' = [runs EXCEPT ![r] = [x EXCEPT !.commit = x.commit + 1]] /\ x.commit < MaxCommit
          BY <2>1, <3>1 DEF ReportCommit
        <4> QED BY <2>2, <4>1
      <3>2. CASE CompleteRun(r)
        <4>1. runs' = [runs EXCEPT ![r] = [x EXCEPT !.st = "COMPLETED"]]
          BY <2>1, <3>2 DEF CompleteRun
        <4> QED BY <2>2, <4>1
      <3>3. CASE BarRun(r)
        <4>1. runs' = [runs EXCEPT ![r] = [x EXCEPT !.st = "barred"]]
          BY <2>1, <3>3 DEF BarRun
        <4> QED BY <2>2, <4>1
      <3> QED BY <1>2, <3>1, <3>2, <3>3
    <2>4. runs' \in Seq(RunRow) /\ Len(runs') = Len(runs)
      BY <1>0, <2>3
    <2>5. evidence' = evidence /\ worker' = worker
      BY <1>2 DEF ReportCommit, CompleteRun, BarRun
    <2> QED BY <1>0, <2>4, <2>5, RunsChange
  <1> QED BY <1>1, <1>2

(* Evidence is attached, retracted, loses its lease, or ages.                  *)
LEMMA EvidenceKeeps ==
  ASSUME VerifyInv, NEW e \in Evidence,
         \/ \E r \in DOMAIN runs : attachEvidence(e, r)
         \/ retractEvidence(e) \/ LeaseEnds(e) \/ RowAges(e)
  PROVE  VerifyInv'
  <1>0. /\ evidence[e] \in EvidenceRow /\ evidence[e].run <= Len(runs) /\ RowSound(evidence[e].row)
        /\ evidence[e].live => evidence[e].lease # None
        /\ runs \in Seq(RunRow) /\ Len(runs) \in Nat /\ Len(runs) <= MaxRuns
           /\ DOMAIN runs = 1 .. Len(runs)
    BY DEF VerifyInv, TypeEvidence, TypeRuns, RowsAsked
  <1>1. runs' = runs /\ worker' = worker
    BY DEF attachEvidence, retractEvidence, LeaseEnds, RowAges
  <1>2. TypeWorker'
    BY <1>1 DEF VerifyInv, TypeWorker
  <1>3. PICK x \in EvidenceRow : x = evidence[e]
    BY <1>0
  <1>4. CASE \E r \in DOMAIN runs : attachEvidence(e, r)
    <2>1. PICK r \in DOMAIN runs : attachEvidence(e, r)
      BY <1>4
    <2>2. r \in 0 .. MaxRuns /\ r <= Len(runs)
      BY <1>0, EvidenceAssumption
    <2> DEFINE y == [x EXCEPT !.run = r]
    <2>3. y \in EvidenceRow /\ y.run = r /\ y.live = x.live /\ y.lease = x.lease /\ y.row = x.row
      BY <2>2 DEF EvidenceRow
    <2>4. evidence' = [evidence EXCEPT ![e] = y]
      BY <1>3, <2>1, <2>3 DEF attachEvidence
    <2> HIDE DEF y
    <2> QED BY <1>0, <1>1, <1>2, <1>3, <2>2, <2>3, <2>4, EvidenceChanges
  <1>5. CASE retractEvidence(e)
    <2> DEFINE y == [x EXCEPT !.retracted = TRUE]
    <2>1. y \in EvidenceRow /\ y.run = x.run /\ y.live = x.live /\ y.lease = x.lease /\ y.row = x.row
      BY DEF EvidenceRow
    <2>2. evidence' = [evidence EXCEPT ![e] = y]
      BY <1>3, <1>5, <2>1 DEF retractEvidence
    <2> HIDE DEF y
    <2> QED BY <1>0, <1>1, <1>2, <1>3, <2>1, <2>2, EvidenceChanges
  <1>6. CASE LeaseEnds(e)
    <2> DEFINE y == [x EXCEPT !.live = FALSE]
    <2>1. y \in EvidenceRow /\ y.run = x.run /\ y.live = FALSE /\ y.lease = x.lease /\ y.row = x.row
      BY DEF EvidenceRow
    <2>2. evidence' = [evidence EXCEPT ![e] = y]
      BY <1>3, <1>6, <2>1 DEF LeaseEnds
    <2> HIDE DEF y
    <2> QED BY <1>0, <1>1, <1>2, <1>3, <2>1, <2>2, EvidenceChanges
  <1>7. CASE RowAges(e)
    <2>1. x.row # None /\ x.row \in Row /\ x.row.status = "VERIFIED"
      BY <1>3, <1>7 DEF RowAges, EvidenceRow
    <2>2. PICK row \in VerifiedRow : row = x.row
      BY <2>1 DEF Row, VerifiedRow
    <2> DEFINE old == [row EXCEPT !.fresh = FALSE]
    <2>3. old \in VerifiedRow /\ old.asked = row.asked /\ old.rev = row.rev
      BY DEF VerifiedRow
    <2>4. old \in Row
      BY DEF Row, VerifiedRow
    <2> DEFINE y == [x EXCEPT !.row = old]
    <2>5. y \in EvidenceRow /\ y.run = x.run /\ y.live = x.live /\ y.lease = x.lease /\ y.row = old
      BY <2>4 DEF EvidenceRow
    <2>6. evidence' = [evidence EXCEPT ![e] = y]
      BY <1>3, <1>7, <2>2, <2>3, <2>5 DEF RowAges
    <2> HIDE DEF y
    <2>7. RowSound(old)
      BY <1>0, <1>3, <2>1, <2>2, <2>3 DEF RowSound
    <2> HIDE DEF old
    <2> QED BY <1>0, <1>1, <1>2, <1>3, <2>5, <2>6, <2>7, EvidenceChanges
  <1> QED BY <1>4, <1>5, <1>6, <1>7

(* A worker reads, takes or misses the lease, fails, ends or crashes.          *)
LEMMA WorkerKeeps ==
  ASSUME ConfirmedInv, NEW w \in Worker,
         \/ \E e \in Evidence : ReadEvidence(w, e)
         \/ VerificationFails(w) \/ Crash(w)
  PROVE  VerifyInv'
  <1>0. VerifyInv /\ worker[w] \in WorkerState /\ runs' = runs /\ evidence' = evidence
    BY DEF ConfirmedInv, VerifyInv, TypeWorker, ReadEvidence, VerificationFails, Crash
  <1>1. CASE \E e \in Evidence : ReadEvidence(w, e)
    <2>1. PICK e \in Evidence : ReadEvidence(w, e)
      BY <1>1
    <2> DEFINE x == [pc |-> "read", ev |-> e, rev |-> runs[evidence[e].run].rev,
                     commit |-> runs[evidence[e].run].commit, seen |-> snapshotContract]
    <2>2. evidence[e].run \in DOMAIN runs
      <3>1. evidence[e] \in EvidenceRow /\ evidence[e].run <= Len(runs) /\ evidence[e].run # 0
        BY <1>0, <2>1 DEF VerifyInv, TypeEvidence, ReadEvidence
      <3>2. evidence[e].run \in 0 .. MaxRuns
        BY <3>1 DEF EvidenceRow
      <3>3. DOMAIN runs = 1 .. Len(runs) /\ Len(runs) \in Nat
        BY <1>0 DEF VerifyInv, TypeRuns
      <3> QED BY <3>1, <3>2, <3>3
    <2>3. runs[evidence[e].run] \in RunRow
      BY <1>0, <2>2 DEF VerifyInv, TypeRuns
    <2>4. x \in Busy
      BY <2>3, SnapshotType DEF ConfirmedInv, RunRow, Busy
    <2>5. worker' = [worker EXCEPT ![w] = x]
      BY <2>1 DEF ReadEvidence
    <2> HIDE DEF x
    <2>6. x \in WorkerState
      BY <2>4 DEF WorkerState
    <2> QED BY <1>0, <2>5, <2>6, WorkerChanges, WorkersOnly
  <1>2. CASE VerificationFails(w)
    <2> DEFINE x == [pc |-> "finally", ev |-> worker[w].ev]
    <2>1. worker[w] \in Busy
      BY <1>0, <1>2, WorkerKinds DEF VerificationFails
    <2>2. x \in Ending
      BY <2>1 DEF Busy, Ending
    <2>3. worker' = [worker EXCEPT ![w] = x]
      BY <1>2 DEF VerificationFails, Finally
    <2> HIDE DEF x
    <2>4. x \in WorkerState
      BY <2>2 DEF WorkerState
    <2> QED BY <1>0, <2>3, <2>4, WorkerChanges, WorkersOnly
  <1>3. CASE Crash(w)
    <2>1. worker' = [worker EXCEPT ![w] = Idle] /\ Idle \in WorkerState
      BY <1>3 DEF Crash, WorkerState
    <2> QED BY <1>0, <2>1, WorkerChanges, WorkersOnly
  <1> QED BY <1>1, <1>2, <1>3

LEMMA LeaseKeeps ==
  ASSUME ConfirmedInv, NEW w \in Worker, TakeLease(w) \/ ReleaseLease(w)
  PROVE  VerifyInv'
  <1>0. VerifyInv /\ worker[w] \in WorkerState /\ runs' = runs
    BY DEF ConfirmedInv, VerifyInv, TypeWorker, TakeLease, ReleaseLease
  <1>1. worker[w] \in Busy \/ worker[w] \in Ending
    BY <1>0, WorkerKinds DEF TakeLease, ReleaseLease
  <1>2. PICK e \in Evidence : e = worker[w].ev
    BY <1>1 DEF Busy, Ending
  <1>3. PICK x \in EvidenceRow :
           /\ x = evidence[e] /\ x.run <= Len(runs) /\ RowSound(x.row) /\ (x.live => x.lease # None)
    BY <1>0 DEF VerifyInv, TypeEvidence, RowsAsked
  <1>4. ASSUME worker' = [worker EXCEPT ![w] = Idle] PROVE TypeWorker'
    BY <1>0, <1>4, WorkerChanges DEF WorkerState
  <1>5. CASE TakeLease(w)
    <2>1. worker[w] \in Busy
      BY <1>0, <1>5, WorkerKinds DEF TakeLease
    <2>2. CASE ~x.live /\ ~x.retracted
      <3> DEFINE y == [x EXCEPT !.lease = w, !.live = TRUE]
      <3>1. y \in EvidenceRow /\ y.run = x.run /\ y.row = x.row /\ y.lease = w
        BY DEF EvidenceRow
      <3>2. evidence' = [evidence EXCEPT ![e] = y]
        BY <1>2, <1>3, <1>5, <2>2 DEF TakeLease
      <3> HIDE DEF y
      <3>3. TypeWorker'
        <4>1. PICK z \in Busy : z = worker[w]
          BY <2>1
        <4> DEFINE v == [z EXCEPT !.pc = "leased"]
        <4>2. v \in Busy
          BY DEF Busy
        <4>3. worker' = [worker EXCEPT ![w] = v]
          BY <1>2, <1>3, <1>5, <2>2, <4>1 DEF TakeLease
        <4> HIDE DEF v
        <4>4. v \in WorkerState
          BY <4>2 DEF WorkerState
        <4> QED BY <1>0, <4>3, <4>4, WorkerChanges
      <3>4. w # None
        BY EvidenceAssumption
      <3> QED BY <1>0, <1>3, <3>1, <3>2, <3>3, <3>4, EvidenceChanges
    <2>3. CASE ~(~x.live /\ ~x.retracted)
      BY <1>0, <1>2, <1>3, <1>4, <1>5, <2>3, WorkersOnly DEF TakeLease
    <2> QED BY <2>2, <2>3
  <1>6. CASE ReleaseLease(w)
    <2>1. TypeWorker'
      BY <1>4, <1>6 DEF ReleaseLease
    <2>2. CASE x.lease = w
      <3> DEFINE y == [x EXCEPT !.lease = None, !.live = FALSE]
      <3>1. y \in EvidenceRow /\ y.run = x.run /\ y.row = x.row /\ y.live = FALSE
        BY DEF EvidenceRow
      <3>2. evidence' = [evidence EXCEPT ![e] = y]
        BY <1>2, <1>3, <1>6, <2>2 DEF ReleaseLease
      <3> HIDE DEF y
      <3> QED BY <1>0, <1>3, <2>1, <3>1, <3>2, EvidenceChanges
    <2>3. CASE x.lease # w
      BY <1>0, <1>2, <1>3, <1>6, <2>1, <2>3, WorkersOnly DEF ReleaseLease
    <2> QED BY <2>2, <2>3
  <1> QED BY <1>5, <1>6

(* Rows are appended: PENDING, or what was observed.                          *)
LEMMA AppendKeeps ==
  ASSUME ConfirmedInv, NEW w \in Worker, AppendPending(w) \/ AppendObservation(w)
  PROVE  VerifyInv'
  <1>0. VerifyInv /\ runs' = runs
    BY DEF ConfirmedInv, VerifyInv, AppendPending, AppendObservation
  <1>1. worker[w] \in Busy
    <2>1. worker[w] \in WorkerState
      BY DEF ConfirmedInv, VerifyInv, TypeWorker
    <2> QED BY <2>1, WorkerKinds DEF AppendPending, AppendObservation
  <1>2. PICK z \in Busy : z = worker[w]
    BY <1>1
  <1>3. PICK e \in Evidence : e = z.ev
    BY DEF Busy
  <1>4. PICK x \in EvidenceRow :
           /\ x = evidence[e] /\ x.run <= Len(runs) /\ RowSound(x.row) /\ (x.live => x.lease # None)
    BY <1>0 DEF VerifyInv, TypeEvidence, RowsAsked
  <1>5. ASSUME NEW row \in Row, RowSound(row), evidence' = [evidence EXCEPT ![e].row = row], TypeWorker'
        PROVE  VerifyInv'
    <2> DEFINE y == [x EXCEPT !.row = row]
    <2>1. y \in EvidenceRow /\ y.run = x.run /\ y.row = row /\ y.live = x.live /\ y.lease = x.lease
      BY DEF EvidenceRow
    <2>2. evidence' = [evidence EXCEPT ![e] = y]
      BY <1>4, <1>5
    <2> HIDE DEF y
    <2> QED BY <1>0, <1>4, <1>5, <2>1, <2>2, EvidenceChanges
  <1>6. CASE AppendPending(w)
    <2> DEFINE v == [z EXCEPT !.pc = "asking"]
    <2>1. v \in Busy
      BY DEF Busy
    <2>2. worker' = [worker EXCEPT ![w] = v]
      BY <1>2, <1>6 DEF AppendPending
    <2> HIDE DEF v
    <2>3. v \in WorkerState
      BY <2>1 DEF WorkerState
    <2>4. TypeWorker'
      BY <1>0, <2>2, <2>3, WorkerChanges
    <2>5. [status |-> "PENDING"] \in Row /\ RowSound([status |-> "PENDING"])
      BY DEF Row, RowSound
    <2>6. evidence' = [evidence EXCEPT ![e].row = [status |-> "PENDING"]]
      BY <1>2, <1>3, <1>6 DEF AppendPending
    <2> QED BY <1>5, <2>4, <2>5, <2>6
  <1>7. CASE AppendObservation(w)
    <2> DEFINE v == [pc |-> "finally", ev |-> e]
    <2>1. v \in Ending
      BY DEF Ending
    <2>2. worker' = [worker EXCEPT ![w] = v]
      BY <1>2, <1>3, <1>7 DEF AppendObservation, Finally
    <2> HIDE DEF v
    <2>3. v \in WorkerState
      BY <2>1 DEF WorkerState
    <2>4. TypeWorker'
      BY <1>0, <2>2, <2>3, WorkerChanges
    <2> DEFINE found == [status |-> "VERIFIED", rev |-> z.rev, commit |-> z.commit,
                        asked |-> z.seen, fresh |-> TRUE]
    <2>5. PICK row : /\ evidence' = [evidence EXCEPT ![e].row = row]
                     /\ \/ row \in {[status |-> "STALE"], [status |-> "UNAVAILABLE"], [status |-> "FAILED"]}
                        \/ z.rev = z.seen /\ row = found
      BY <1>2, <1>3, <1>7 DEF AppendObservation, Observable
    <2>6. row \in Row /\ RowSound(row)
      <3>1. CASE row \in {[status |-> "STALE"], [status |-> "UNAVAILABLE"], [status |-> "FAILED"]}
        BY <3>1 DEF Row, RowSound
      <3>2. CASE z.rev = z.seen /\ row = found
        BY <3>2 DEF Row, RowSound, Busy
      <3> QED BY <2>5, <3>1, <3>2
    <2> QED BY <1>5, <2>4, <2>5, <2>6
  <1> QED BY <1>6, <1>7

-----------------------------------------------------------------------------
(* Every step *)

LEMMA ConfirmedStep ==
  ASSUME ConfirmedInv, [Next]_vars
  PROVE  ConfirmedInv'
  <1>0. AmendInv /\ VerifyInv
    BY DEF ConfirmedInv
  <1>1. ASSUME UNCHANGED amendmentVars PROVE AmendInv'
    BY <1>0, <1>1 DEF AmendInv, AmendmentTypeOK, SinglePending, Pending, amendmentVars
  <1>2. ASSUME UNCHANGED evidenceVars PROVE VerifyInv'
    BY <1>0, <1>2 DEF VerifyInv, TypeRuns, TypeEvidence, TypeWorker, RowsAsked, RowSound, evidenceVars
  <1>3. CASE AmendmentNext /\ UNCHANGED evidenceVars
    BY <1>0, <1>2, <1>3, AmendStep DEF ConfirmedInv
  <1>4. CASE StartRun \/ \E r \in DOMAIN runs : ReportCommit(r) \/ CompleteRun(r) \/ BarRun(r)
    <2>1. UNCHANGED amendmentVars
      BY <1>4 DEF StartRun, ReportCommit, CompleteRun, BarRun
    <2> QED BY <1>1, <1>4, <2>1, RunsKeep DEF ConfirmedInv
  <1>5. ASSUME NEW e \in Evidence,
               \/ \E r \in DOMAIN runs : attachEvidence(e, r)
               \/ retractEvidence(e) \/ LeaseEnds(e) \/ RowAges(e)
        PROVE  ConfirmedInv'
    <2>1. UNCHANGED amendmentVars
      BY <1>5 DEF attachEvidence, retractEvidence, LeaseEnds, RowAges
    <2> QED BY <1>0, <1>1, <1>5, <2>1, EvidenceKeeps DEF ConfirmedInv
  <1>6. ASSUME NEW w \in Worker, VerifyStep(w)
        PROVE  ConfirmedInv'
    <2>1. UNCHANGED amendmentVars
      BY <1>6 DEF VerifyStep, ReadEvidence, TakeLease, AppendPending, AppendObservation,
                  VerificationFails, ReleaseLease, Crash
    <2>2. VerifyInv'
      BY <1>6, WorkerKeeps, LeaseKeeps, AppendKeeps DEF VerifyStep
    <2> QED BY <1>1, <2>1, <2>2 DEF ConfirmedInv
  <1>7. CASE UNCHANGED vars
    BY <1>1, <1>2, <1>7 DEF ConfirmedInv, vars, evidenceVars
  <1>8. CASE Next
    BY <1>3, <1>4, <1>5, <1>6, <1>8 DEF Next
  <1> QED BY <1>7, <1>8

LEMMA ConfirmedInit == Init => ConfirmedInv
  <1> SUFFICES ASSUME Init PROVE ConfirmedInv
    OBVIOUS
  <1>1. AmendInv
    BY AmendmentAssumption DEF Init, AmendmentInit, AmendInv, AmendmentTypeOK, SinglePending, Pending
  <1>2. TypeRuns
    BY EvidenceAssumption DEF Init, TypeRuns
  <1>3. NoEvidence \in EvidenceRow /\ NoEvidence.run = 0 /\ NoEvidence.live = FALSE
        /\ NoEvidence.row = None
    BY EvidenceAssumption DEF NoEvidence, EvidenceRow
  <1>4. TypeEvidence /\ RowsAsked
    BY <1>2, <1>3 DEF Init, TypeEvidence, RowsAsked, RowSound
  <1>5. TypeWorker
    BY DEF Init, TypeWorker, WorkerState
  <1> QED BY <1>1, <1>2, <1>4, <1>5 DEF ConfirmedInv, VerifyInv

LEMMA ConfirmedInvariant == Spec => []ConfirmedInv
  <1>1. ConfirmedInv /\ [Next]_vars => ConfirmedInv'
    BY ConfirmedStep
  <1> QED BY <1>1, ConfirmedInit, PTL DEF Spec

LEMMA ConfirmedImpliesInv == ConfirmedInv => EvidenceInv
  <1> SUFFICES ASSUME ConfirmedInv PROVE EvidenceInv
    OBVIOUS
  <1>1. TypeOK
    BY TypesAreTypeOK DEF ConfirmedInv, AmendInv, VerifyInv
  <1>2. OnePending
    BY SingleIsOne DEF ConfirmedInv
  <1>3. EligibleIsConfirmed
    BY DEF EligibleIsConfirmed, Eligible, Standing, Verified, ConfirmedInv, VerifyInv, RowsAsked,
       RowSound
  <1> QED BY <1>1, <1>2, <1>3 DEF EvidenceInv

(* What is eligible for automatic acceptance was confirmed by GitHub for the    *)
(* contract and the commit that stand, and at most one amendment waits          *)
(* (assessVerifiedEvidence, proposeContractAmendment).                         *)
THEOREM EligibleWasConfirmed == Spec => []EvidenceInv
  BY ConfirmedInvariant, ConfirmedImpliesInv, PTL

(* No acceptance writes over a value its amendment was not proposed against     *)
(* (isAmendmentStale, checked in the transaction that writes).                 *)
THEOREM AcceptanceSeesWhatItOverwrites == Spec => NothingOverwrittenUnseen
  <1>1. ConfirmedInv /\ [Next]_vars =>
           [\A n \in Pending : amendments'[n].status \in {"ACCEPTED", "AUTO"} =>
               \A f \in DOMAIN amendments[n].before : contract[f] = amendments[n].before[f]]_amendmentVars
    <2> SUFFICES ASSUME ConfirmedInv, [Next]_vars, amendmentVars' # amendmentVars
                 PROVE  \A n \in Pending : amendments'[n].status \in {"ACCEPTED", "AUTO"} =>
                           \A f \in DOMAIN amendments[n].before : contract[f] = amendments[n].before[f]
      OBVIOUS
    <2>1. AmendmentNext
      BY DEF Next, vars, StartRun, ReportCommit, CompleteRun, BarRun, attachEvidence, retractEvidence,
             LeaseEnds, RowAges, VerifyStep, ReadEvidence, TakeLease, AppendPending, AppendObservation,
             VerificationFails, ReleaseLease, Crash
    <2> QED BY <2>1, NotOverwrittenStep DEF ConfirmedInv
  <1> QED BY <1>1, ConfirmedInvariant, PTL DEF Spec, NothingOverwrittenUnseen

(* A step that writes a verdict is the last transaction of verifyEvidence.      *)
LEMMA VerdictStep ==
  ASSUME ConfirmedInv, [Next]_vars, NEW e \in Evidence, Observed(e)
  PROVE  /\ \E w \in Worker : evidence[e].lease = w /\ worker[w].pc = "asking"
                              /\ worker[w].ev = e /\ worker'[w].pc = "finally"
         /\ ~evidence[e].retracted
         /\ evidence'[e].row.status = "VERIFIED" =>
               /\ evidence'[e].row.rev = snapshotContract
               /\ evidence'[e].row.commit = runs[evidence[e].run].commit
  <1>0. evidence \in [Evidence -> EvidenceRow] /\ worker \in [Worker -> WorkerState]
    BY DEF ConfirmedInv, VerifyInv, TypeEvidence, TypeWorker
  <1>1. evidence'[e].row # evidence[e].row
    BY DEF Observed
  <1>2. ASSUME evidence' = evidence PROVE FALSE
    BY <1>1, <1>2
  <1>3. ASSUME NEW d \in Evidence,
               \/ \E r \in DOMAIN runs : attachEvidence(d, r)
               \/ retractEvidence(d) \/ LeaseEnds(d)
        PROVE  FALSE
    <2>1. evidence'[e].row = evidence[e].row
      BY <1>0, <1>3 DEF attachEvidence, retractEvidence, LeaseEnds, EvidenceRow
    <2> QED BY <1>1, <2>1
  <1>4. ASSUME NEW d \in Evidence, RowAges(d)
        PROVE  FALSE
    <2>1. PICK x \in EvidenceRow : x = evidence[d]
      BY <1>0
    <2>2. x.row \in Row /\ x.row.status = "VERIFIED"
      BY <1>4, <2>1 DEF RowAges, EvidenceRow
    <2>3. PICK row \in VerifiedRow : row = x.row
      BY <2>2 DEF Row, VerifiedRow
    <2> DEFINE old == [row EXCEPT !.fresh = FALSE]
    <2>4. old.status = "VERIFIED" /\ old.fresh = FALSE
      BY DEF VerifiedRow
    <2>5. evidence' = [evidence EXCEPT ![d] = [x EXCEPT !.row = old]]
      BY <1>4, <2>1, <2>3 DEF RowAges
    <2> HIDE DEF old
    <2>6. [x EXCEPT !.row = old].row = old
      BY DEF EvidenceRow
    <2>7. d = e
      BY <1>0, <1>1, <2>5
    <2>8. evidence'[e].row = old
      BY <1>0, <2>5, <2>6, <2>7
    <2> QED BY <2>4, <2>8 DEF Observed
  <1>5. ASSUME NEW w \in Worker, TakeLease(w) \/ ReleaseLease(w)
        PROVE  FALSE
    <2>1. evidence'[e].row = evidence[e].row
      BY <1>0, <1>5 DEF TakeLease, ReleaseLease, EvidenceRow
    <2> QED BY <1>1, <2>1
  <1>6. ASSUME NEW w \in Worker, AppendPending(w)
        PROVE  FALSE
    <2>1. evidence' = [evidence EXCEPT ![worker[w].ev].row = [status |-> "PENDING"]]
      BY <1>6 DEF AppendPending
    <2>2. worker[w].ev = e
      BY <1>0, <1>1, <2>1
    <2>3. evidence'[e].row = [status |-> "PENDING"]
      BY <1>0, <2>1, <2>2 DEF EvidenceRow
    <2> QED BY <2>3 DEF Observed
  <1>7. ASSUME NEW w \in Worker, AppendObservation(w)
        PROVE  /\ \E v \in Worker : evidence[e].lease = v /\ worker[v].pc = "asking"
                                    /\ worker[v].ev = e /\ worker'[v].pc = "finally"
               /\ ~evidence[e].retracted
               /\ evidence'[e].row.status = "VERIFIED" =>
                     /\ evidence'[e].row.rev = snapshotContract
                     /\ evidence'[e].row.commit = runs[evidence[e].run].commit
    <2> DEFINE found == [status |-> "VERIFIED", rev |-> worker[w].rev, commit |-> worker[w].commit,
                         asked |-> worker[w].seen, fresh |-> TRUE]
    <2>1. PICK row : /\ evidence' = [evidence EXCEPT ![worker[w].ev].row = row]
                     /\ \/ row \in {[status |-> "STALE"], [status |-> "UNAVAILABLE"], [status |-> "FAILED"]}
                        \/ ~Changed(w) /\ row = found
      BY <1>7 DEF AppendObservation
    <2>2. worker[w].ev = e
      BY <1>0, <1>1, <2>1
    <2>3. evidence'[e].row = row
      BY <1>0, <2>1, <2>2 DEF EvidenceRow
    <2>4. worker'[w].pc = "finally" /\ worker[w].pc = "asking"
      BY <1>0, <1>7 DEF AppendObservation, Finally
    <2>5. evidence[e].lease = w /\ ~evidence[e].retracted
      BY <1>7, <2>2 DEF AppendObservation, Owned
    <2>6. row.status = "VERIFIED" => ~Changed(w) /\ row.rev = worker[w].rev
          /\ row.commit = worker[w].commit
      BY <2>1
    <2>7. ~Changed(w) => worker[w].rev = snapshotContract
          /\ worker[w].commit = runs[evidence[e].run].commit
      BY <2>2 DEF Changed
    <2> QED BY <2>2, <2>3, <2>4, <2>5, <2>6, <2>7
  <1>8. CASE \/ AmendmentNext /\ UNCHANGED evidenceVars
             \/ StartRun \/ \E r \in DOMAIN runs : ReportCommit(r) \/ CompleteRun(r) \/ BarRun(r)
             \/ UNCHANGED vars
    <2>1. evidence' = evidence
      BY <1>8 DEF evidenceVars, StartRun, ReportCommit, CompleteRun, BarRun, vars
    <2> QED BY <1>2, <2>1
  <1>9. ASSUME NEW w \in Worker,
               (\E d \in Evidence : ReadEvidence(w, d)) \/ VerificationFails(w) \/ Crash(w)
        PROVE  FALSE
    <2>1. evidence' = evidence
      BY <1>9 DEF ReadEvidence, VerificationFails, Crash
    <2> QED BY <1>2, <2>1
  <1>10. CASE \E w \in Worker : VerifyStep(w)
    BY <1>5, <1>6, <1>7, <1>9, <1>10 DEF VerifyStep
  <1>11. CASE \E d \in Evidence : \/ \E r \in DOMAIN runs : attachEvidence(d, r)
                                  \/ retractEvidence(d) \/ LeaseEnds(d) \/ RowAges(d)
    BY <1>3, <1>4, <1>11
  <1> QED BY <1>8, <1>10, <1>11 DEF Next

(* A verdict is written only by the holder of the lease, on evidence nobody     *)
(* retracted, and a verification is about the contract and the commit of the    *)
(* moment it is written (the transaction at the end of verifyEvidence).         *)
THEOREM AVerdictStands == Spec => VerdictStands
  <1>1. ConfirmedInv /\ [Next]_vars =>
           [\A e \in Evidence : Observed(e) =>
              /\ \E w \in Worker : evidence[e].lease = w /\ worker[w].pc = "asking"
                                   /\ worker[w].ev = e /\ worker'[w].pc = "finally"
              /\ ~evidence[e].retracted
              /\ evidence'[e].row.status = "VERIFIED" =>
                    /\ evidence'[e].row.rev = snapshotContract
                    /\ evidence'[e].row.commit = runs[evidence[e].run].commit]_vars
    BY VerdictStep
  <1> QED BY <1>1, ConfirmedInvariant, PTL DEF Spec, VerdictStands

-----------------------------------------------------------------------------
(* The gate: its records *)

ItemsOK == /\ item \in [Item -> ItemRecord]
           /\ \A i \in Item : item[i].run <= MaxItemRuns[i]
                              /\ item[i].theirs \subseteq 1 .. item[i].run

OrderOK == /\ order \in Seq(Item) /\ IsInjective(order)
           /\ recent \subseteq ToSet(order)

SweepOK(s) == /\ s \in SweepRecord
              /\ (s.pc = "idle") <=> (s.list = <<>>)
              /\ Len(s.list) <= BUG_GATE_BATCH

SweepsOK == /\ sweep \in [Sweep -> SweepRecord]
            /\ \A g \in Sweep : SweepOK(sweep[g])

LEMMA GateTypeParts == GateTypeOK <=> ItemsOK /\ OrderOK /\ SweepsOK
  BY DEF GateTypeOK, ItemsOK, OrderOK, SweepsOK, SweepOK

(* What the sweep looked at, until it accepts: a run the item had, completed if it   *)
(* is still the newest, and taken over by people only after the look.               *)
LookStands(s) ==
    s.pc = "asking" =>
        LET i == Head(s.list).item
        IN  /\ 0 < s.run /\ s.run <= item[i].run
            /\ s.run = item[i].run => item[i].done
            /\ s.run \in item[i].theirs => s.late

LooksStand == \A g \in Sweep : LookStands(sweep[g])

GateInv == ItemsOK /\ OrderOK /\ SweepsOK /\ LooksStand

Listed == [item : Item, intermittent : BOOLEAN]

LEMMA CurrentIsItem ==
  ASSUME NEW s, SweepOK(s), s.pc # "idle"
  PROVE  /\ s.list \in Seq(Listed) /\ s.list # <<>> /\ Len(s.list) > 0
         /\ Head(s.list) \in Listed /\ Head(s.list).item \in Item
  <1>1. s.list \in Seq(Listed) /\ s.list # <<>>
    BY DEF SweepOK, SweepRecord, Listed
  <1>2. Head(s.list) \in Listed /\ Len(s.list) > 0
    BY <1>1
  <1> QED BY <1>1, <1>2 DEF Listed

LEMMA NoSweepOK == SweepOK(NoSweep) /\ NoSweep.pc # "asking"
  <1>1. <<>> \in Seq([item : Item, intermittent : BOOLEAN]) /\ Len(<<>>) = 0
    OBVIOUS
  <1>2. NoSweep \in SweepRecord
    BY <1>1 DEF NoSweep, SweepRecord
  <1> QED BY <1>1, <1>2, GateAssumption DEF SweepOK, NoSweep

LEMMA NextSweepOK ==
  ASSUME NEW s, SweepOK(s), s.pc # "idle"
  PROVE  SweepOK(Next1(s)) /\ Next1(s).pc # "asking"
  <1>1. CASE Len(s.list) = 1
    BY <1>1, NoSweepOK DEF Next1
  <1>2. CASE Len(s.list) # 1
    <2>1. s.list \in Seq(Listed) /\ Len(s.list) > 0
      BY CurrentIsItem
    <2>2. Len(s.list) \in Nat
      BY <2>1
    <2>3. /\ Tail(s.list) \in Seq(Listed) /\ Len(Tail(s.list)) = Len(s.list) - 1
          /\ Tail(s.list) # <<>>
      <3>1. s.list # <<>>
        BY CurrentIsItem
      <3>2. Tail(s.list) \in Seq(Listed) /\ Len(Tail(s.list)) = Len(s.list) - 1
        BY <2>1, <3>1, HeadTailProperties
      <3>3. Len(Tail(s.list)) # 0
        BY <2>1, <2>2, <1>2, <3>2
      <3>4. Len(<<>>) = 0
        OBVIOUS
      <3> QED BY <3>2, <3>3, <3>4
    <2>4. Next1(s) = [pc |-> "look", list |-> Tail(s.list), run |-> 0, late |-> FALSE]
      BY <1>2 DEF Next1, LooksAt
    <2>5. Next1(s) \in SweepRecord
      BY <2>3, <2>4 DEF SweepRecord, Listed
    <2> QED BY <2>2, <2>3, <2>4, <2>5, GateAssumption DEF SweepOK
  <1> QED BY <1>1, <1>2

(* People take an item over: the sweeps keep their place and run.                   *)
LEMMA TakenOverOK ==
  ASSUME SweepsOK, NEW i \in Item, NEW g \in Sweep
  PROVE  LET t == TakenOver(i, sweep)
         IN  /\ SweepOK(t[g]) /\ t[g].pc = sweep[g].pc /\ t[g].list = sweep[g].list
             /\ t[g].run = sweep[g].run /\ (sweep[g].late => t[g].late)
             /\ (t[g].pc = "asking" /\ Head(t[g].list).item = i) => t[g].late
  <1> DEFINE s == sweep[g]
             t == TakenOver(i, sweep)[g]
  <1>1. t = IF s.pc = "asking" /\ Head(s.list).item = i THEN [s EXCEPT !.late = TRUE] ELSE s
    BY DEF TakenOver
  <1>2. s \in SweepRecord /\ SweepOK(s)
    BY DEF SweepsOK
  <1> HIDE DEF s, t
  <1>3. /\ t.pc = s.pc /\ t.list = s.list /\ t.run = s.run /\ (s.late => t.late)
        /\ t \in SweepRecord
        /\ (t.pc = "asking" /\ Head(t.list).item = i) => t.late
    BY <1>1, <1>2 DEF SweepRecord
  <1>4. SweepOK(t)
    BY <1>2, <1>3 DEF SweepOK
  <1> QED BY <1>3, <1>4 DEF s, t

LEMMA TakenOverType ==
  ASSUME SweepsOK, NEW i \in Item
  PROVE  TakenOver(i, sweep) \in [Sweep -> SweepRecord]
  <1>1. TakenOver(i, sweep) = [g \in Sweep |-> TakenOver(i, sweep)[g]]
    BY DEF TakenOver
  <1>2. \A g \in Sweep : TakenOver(i, sweep)[g] \in SweepRecord
    BY TakenOverOK DEF SweepOK
  <1> QED BY <1>1, <1>2

-----------------------------------------------------------------------------
(* The gate: the order of evaluations and the candidates *)

LEMMA PlaceIs ==
  ASSUME OrderOK, NEW i
  PROVE  /\ lastChecked(i) \in 0 .. Len(order)
         /\ lastChecked(i) = 0 => \A k \in 1 .. Len(order) : order[k] # i
         /\ lastChecked(i) # 0 => order[lastChecked(i)] = i
  <1>1. DOMAIN order = 1 .. Len(order) /\ Len(order) \in Nat
    BY DEF OrderOK
  <1>2. ToSet(order) = {order[k] : k \in DOMAIN order}
    BY DEF ToSet
  <1>3. CASE i \in ToSet(order)
    <2>1. \E k \in DOMAIN order : order[k] = i
      BY <1>2, <1>3
    <2>2. lastChecked(i) = CHOOSE k \in DOMAIN order : order[k] = i
      BY <1>3 DEF lastChecked
    <2>3. lastChecked(i) \in DOMAIN order /\ order[lastChecked(i)] = i
      BY <2>1, <2>2, Zenon
    <2> QED BY <1>1, <2>3
  <1>4. CASE i \notin ToSet(order)
    <2>1. lastChecked(i) = 0
      BY <1>4 DEF lastChecked
    <2>2. \A k \in DOMAIN order : order[k] # i
      BY <1>2, <1>4
    <2> QED BY <1>1, <2>1, <2>2
  <1> QED BY <1>3, <1>4

(* An element leaves a sequence: what is left, position by position.                 *)
LEMMA RemovedAt ==
  ASSUME NEW S, NEW s \in Seq(S), NEW p \in 1 .. Len(s)
  PROVE  /\ RemoveAt(s, p) \in Seq(S) /\ Len(RemoveAt(s, p)) = Len(s) - 1
         /\ \A k \in 1 .. (Len(s) - 1) :
               RemoveAt(s, p)[k] = s[IF k < p THEN k ELSE k + 1]
  <1> DEFINE a == SubSeq(s, 1, p - 1)
             b == SubSeq(s, p + 1, Len(s))
  <1>1. Len(s) \in Nat /\ p \in Nat /\ 1 <= p /\ p <= Len(s)
    OBVIOUS
  <1>2. /\ a \in Seq(S) /\ Len(a) = p - 1
        /\ \A k \in 1 .. (p - 1) : a[k] = s[k]
    BY <1>1, SubSeqProperties
  <1>3. /\ b \in Seq(S) /\ Len(b) = Len(s) - p
        /\ \A k \in 1 .. (Len(s) - p) : b[k] = s[p + k]
    BY <1>1, SubSeqProperties
  <1>4. RemoveAt(s, p) = a \o b
    BY DEF RemoveAt
  <1> HIDE DEF a, b
  <1>5. /\ a \o b \in Seq(S) /\ Len(a \o b) = Len(s) - 1
        /\ \A k \in 1 .. (Len(s) - 1) :
              (a \o b)[k] = IF k <= p - 1 THEN a[k] ELSE b[k - (p - 1)]
    <2>1. Len(a) + Len(b) = Len(s) - 1
      BY <1>1, <1>2, <1>3
    <2>2. /\ a \o b \in Seq(S) /\ Len(a \o b) = Len(a) + Len(b)
          /\ \A k \in 1 .. (Len(a) + Len(b)) :
                (a \o b)[k] = IF k <= Len(a) THEN a[k] ELSE b[k - Len(a)]
      BY <1>2, <1>3, ConcatProperties
    <2> QED BY <1>2, <2>1, <2>2
  <1>6. ASSUME NEW k \in 1 .. (Len(s) - 1)
        PROVE  (a \o b)[k] = s[IF k < p THEN k ELSE k + 1]
    <2>1. CASE k < p
      BY <2>1, <1>1, <1>2, <1>5
    <2>2. CASE ~(k < p)
      <3>1. k - (p - 1) \in 1 .. (Len(s) - p) /\ p + (k - (p - 1)) = k + 1
        BY <2>2, <1>1
      <3>2. (a \o b)[k] = b[k - (p - 1)]
        BY <2>2, <1>1, <1>5
      <3>3. b[k - (p - 1)] = s[k + 1]
        BY <3>1, <1>3
      <3> QED BY <2>2, <3>2, <3>3, <1>1
    <2> QED BY <2>1, <2>2
  <1> QED BY <1>4, <1>5, <1>6

LEMMA RemovedNowhere ==
  ASSUME NEW S, NEW s \in Seq(S)
  PROVE  RemoveAt(s, 0) = s
  <1>1. SubSeq(s, 1, 0 - 1) = <<>>
    BY SubSeqEmpty
  <1>2. SubSeq(s, 0 + 1, Len(s)) = s
    BY SubSeqFull
  <1> QED BY <1>1, <1>2, ConcatEmptySeq DEF RemoveAt

(* The order without item i: nobody else leaves it, and nobody is in it twice.        *)
Without(i, r) ==
    /\ r \in Seq(Item)
    /\ \A k \in 1 .. Len(r) : r[k] # i
    /\ \A k, l \in 1 .. Len(r) : r[k] = r[l] => k = l
    /\ \A k \in 1 .. Len(order) : order[k] # i => \E l \in 1 .. Len(r) : r[l] = order[k]

LEMMA WithoutItem ==
  ASSUME OrderOK, NEW i \in Item
  PROVE  Without(i, RemoveAt(order, lastChecked(i)))
  <1> DEFINE p == lastChecked(i)
             r == RemoveAt(order, p)
  <1>1. /\ order \in Seq(Item) /\ Len(order) \in Nat /\ DOMAIN order = 1 .. Len(order)
        /\ \A k, l \in 1 .. Len(order) : order[k] = order[l] => k = l
    BY DEF OrderOK, IsInjective
  <1>2. /\ p \in 0 .. Len(order)
        /\ p = 0 => \A k \in 1 .. Len(order) : order[k] # i
        /\ p # 0 => order[p] = i
    BY PlaceIs
  <1> HIDE DEF p
  <1>3. CASE p = 0
    <2>1. r = order
      BY <1>1, <1>3, RemovedNowhere
    <2> HIDE DEF r
    <2>2. Without(i, r)
      BY <1>1, <1>2, <1>3, <2>1 DEF Without
    <2> QED BY <2>2 DEF r, p
  <1>4. CASE p # 0
    <2>1. p \in 1 .. Len(order)
      BY <1>1, <1>2, <1>4
    <2>2. /\ r \in Seq(Item) /\ Len(r) = Len(order) - 1
          /\ \A k \in 1 .. (Len(order) - 1) : r[k] = order[IF k < p THEN k ELSE k + 1]
      BY <1>1, <2>1, RemovedAt
    <2> HIDE DEF r
    <2>3. \A k \in 1 .. Len(r) : r[k] # i
      <3> TAKE k \in 1 .. Len(r)
      <3>1. (IF k < p THEN k ELSE k + 1) \in 1 .. Len(order) /\ (IF k < p THEN k ELSE k + 1) # p
        BY <1>1, <2>1, <2>2
      <3> QED BY <1>1, <1>2, <1>4, <2>1, <2>2, <3>1
    <2>4. ASSUME NEW k \in 1 .. Len(r), NEW l \in 1 .. Len(r), r[k] = r[l] PROVE k = l
      <3>1. /\ (IF k < p THEN k ELSE k + 1) \in 1 .. Len(order)
            /\ (IF l < p THEN l ELSE l + 1) \in 1 .. Len(order)
        BY <1>1, <2>1, <2>2
      <3>2. (IF k < p THEN k ELSE k + 1) = (IF l < p THEN l ELSE l + 1)
        BY <1>1, <2>2, <2>4, <3>1
      <3> QED BY <1>1, <2>1, <2>2, <3>2
    <2>5. ASSUME NEW k \in 1 .. Len(order), order[k] # i
          PROVE  \E l \in 1 .. Len(r) : r[l] = order[k]
      <3>1. k # p
        BY <1>2, <1>4, <2>5
      <3>2. CASE k < p
        <4>1. k \in 1 .. Len(r) /\ r[k] = order[k]
          BY <1>1, <2>1, <2>2, <3>2
        <4> QED BY <4>1
      <3>3. CASE k > p
        <4>1. k - 1 \in 1 .. Len(r) /\ ~(k - 1 < p) /\ (k - 1) + 1 = k
          BY <1>1, <2>1, <2>2, <3>3
        <4>2. r[k - 1] = order[k]
          BY <2>2, <4>1
        <4> QED BY <4>1, <4>2
      <3> QED BY <1>1, <2>1, <3>1, <3>2, <3>3
    <2>6. Without(i, r)
      BY <2>2, <2>3, <2>4, <2>5 DEF Without
    <2> QED BY <2>6 DEF r, p
  <1> QED BY <1>2, <1>3, <1>4

LEMMA EvaluatedOK ==
  ASSUME OrderOK, NEW i \in Item, Evaluated(i)
  PROVE  OrderOK'
  <1> DEFINE r == RemoveAt(order, lastChecked(i))
  <1>1. /\ r \in Seq(Item) /\ Len(r) \in Nat
        /\ \A k \in 1 .. Len(r) : r[k] # i
        /\ \A k, l \in 1 .. Len(r) : r[k] = r[l] => k = l
        /\ \A k \in 1 .. Len(order) : order[k] # i => \E l \in 1 .. Len(r) : r[l] = order[k]
    <2>1. Without(i, r)
      BY WithoutItem
    <2> HIDE DEF r
    <2> QED BY <2>1 DEF Without
  <1>2. order' = Append(r, i) /\ recent' = recent \cup {i}
    BY DEF Evaluated
  <1> HIDE DEF r
  <1>3. /\ order' \in Seq(Item) /\ Len(order') = Len(r) + 1 /\ DOMAIN order' = 1 .. (Len(r) + 1)
        /\ order'[Len(r) + 1] = i /\ \A k \in 1 .. Len(r) : order'[k] = r[k]
    BY <1>1, <1>2
  <1>4. ASSUME NEW k \in DOMAIN order', NEW l \in DOMAIN order', order'[k] = order'[l]
        PROVE  k = l
    <2>1. CASE k \in 1 .. Len(r) /\ l \in 1 .. Len(r)
      BY <1>1, <1>3, <1>4, <2>1
    <2>2. CASE k \in 1 .. Len(r) /\ l = Len(r) + 1
      BY <1>1, <1>3, <1>4, <2>2
    <2>3. CASE k = Len(r) + 1 /\ l \in 1 .. Len(r)
      BY <1>1, <1>3, <1>4, <2>3
    <2> QED BY <1>1, <1>3, <2>1, <2>2, <2>3
  <1>5. recent' \subseteq ToSet(order')
    <2> SUFFICES ASSUME NEW j \in recent' PROVE \E l \in DOMAIN order' : order'[l] = j
      BY DEF ToSet
    <2>1. CASE j = i
      BY <1>1, <1>3, <2>1
    <2>2. CASE j # i
      <3>1. j \in ToSet(order)
        BY <1>2, <2>2 DEF OrderOK
      <3>2. PICK k \in 1 .. Len(order) : order[k] = j
        BY <3>1 DEF ToSet, OrderOK
      <3>3. PICK l \in 1 .. Len(r) : r[l] = j
        BY <1>1, <2>2, <3>2
      <3> QED BY <1>1, <1>3, <3>3
    <2> QED BY <2>1, <2>2
  <1> QED BY <1>3, <1>4, <1>5 DEF OrderOK, IsInjective

LEMMA RecordOK ==
  ASSUME OrderOK, NEW g \in Sweep, Current(g) \in Item, Record(g)
  PROVE  OrderOK'
  <1>1. CASE Evaluated(Current(g))
    BY <1>1, EvaluatedOK
  <1>2. CASE UNCHANGED <<order, recent>>
    BY <1>2 DEF OrderOK, ToSet, IsInjective
  <1> QED BY <1>1, <1>2 DEF Record

LEMMA CandidatesAreItems == \A c \in Candidates : c \in Seq(Item)
  <1> DEFINE due == {i \in Item : item[i].st = "REVIEW" /\ i \notin recent}
  <1>1. due \subseteq Item
    OBVIOUS
  <1>2. IsFiniteSet(due)
    BY <1>1, GateAssumption, FS_Subset
  <1> DEFINE n == Cardinality(due)
  <1>3. n \in Nat
    BY <1>2, FS_CardinalityType
  <1>4. \A c \in Candidates : c \in [1 .. n -> due]
    BY DEF Candidates, SetToSeqs
  <1> HIDE DEF n, due
  <1>5. ASSUME NEW c \in [1 .. n -> due] PROVE c \in Seq(Item)
    BY <1>1, <1>3
  <1> QED BY <1>4, <1>5

-----------------------------------------------------------------------------
(* The gate: one step *)

(* An item is written and the sweeps are left alone.                                 *)
LEMMA ItemWritten ==
  ASSUME GateInv, NEW i \in Item, NEW r \in ItemRecord,
         item' = [item EXCEPT ![i] = r], UNCHANGED <<order, recent, sweep>>,
         r.run <= MaxItemRuns[i], item[i].run <= r.run, r.theirs = item[i].theirs,
         r.run = item[i].run /\ item[i].done => r.done
  PROVE  GateInv'
  <1>1. item \in [Item -> ItemRecord]
    BY DEF GateInv, ItemsOK
  <1>2. /\ item' \in [Item -> ItemRecord] /\ item'[i] = r
        /\ \A j \in Item : j # i => item'[j] = item[j]
    BY <1>1
  <1>3. ItemsOK'
    <2>1. /\ \A j \in Item : item[j].run <= MaxItemRuns[j] /\ item[j].theirs \subseteq 1 .. item[j].run
          /\ item[i].run \in Nat /\ r.run \in Nat
      BY <1>1 DEF GateInv, ItemsOK, ItemRecord
    <2>2. r.theirs \subseteq 1 .. r.run
      BY <2>1
    <2>3. \A j \in Item : item'[j].run <= MaxItemRuns[j] /\ item'[j].theirs \subseteq 1 .. item'[j].run
      BY <1>2, <2>1, <2>2
    <2> QED BY <1>2, <2>3 DEF ItemsOK
  <1>4. OrderOK' /\ SweepsOK'
    BY DEF GateInv, OrderOK, ToSet, IsInjective, SweepsOK, SweepOK
  <1>5. LooksStand'
    <2> SUFFICES ASSUME NEW g \in Sweep PROVE LookStands(sweep[g])'
      BY DEF LooksStand
    <2> DEFINE s == sweep[g]
               j == Head(sweep[g].list).item
    <2> SUFFICES ASSUME s.pc = "asking"
                 PROVE  /\ 0 < s.run /\ s.run <= item'[j].run
                        /\ s.run = item'[j].run => item'[j].done
                        /\ s.run \in item'[j].theirs => s.late
      BY DEF LookStands
    <2>1. SweepOK(s) /\ LookStands(s)
      BY DEF GateInv, SweepsOK, LooksStand
    <2>2. j \in Item
      BY <2>1, CurrentIsItem
    <2>3. /\ 0 < s.run /\ s.run <= item[j].run
          /\ s.run = item[j].run => item[j].done
          /\ s.run \in item[j].theirs => s.late
      BY <2>1 DEF LookStands
    <2>4. s.run \in Nat /\ item[j].run \in Nat /\ r.run \in Nat
      BY <1>1, <2>1, <2>2 DEF SweepOK, SweepRecord, ItemRecord
    <2> HIDE DEF s, j
    <2>5. CASE j = i
      BY <1>2, <2>3, <2>4, <2>5
    <2>6. CASE j # i
      BY <1>2, <2>2, <2>3, <2>6
    <2> QED BY <2>5, <2>6
  <1> QED BY <1>3, <1>4, <1>5 DEF GateInv

(* A sweep goes on and the items are left alone.                                     *)
LEMMA SweepWritten ==
  ASSUME GateInv, NEW g \in Sweep, NEW n, SweepOK(n), LookStands(n),
         sweep' = [sweep EXCEPT ![g] = n], UNCHANGED item, OrderOK'
  PROVE  GateInv'
  <1>1. sweep \in [Sweep -> SweepRecord] /\ n \in SweepRecord
    BY DEF GateInv, SweepsOK, SweepOK
  <1>2. sweep' \in [Sweep -> SweepRecord] /\ \A h \in Sweep : sweep'[h] = IF h = g THEN n ELSE sweep[h]
    BY <1>1
  <1>3. \A h \in Sweep : SweepOK(sweep'[h]) /\ LookStands(sweep'[h])
    BY <1>2 DEF GateInv, SweepsOK, LooksStand
  <1>4. SweepsOK'
    BY <1>2, <1>3 DEF SweepsOK, SweepOK
  <1>5. LooksStand'
    BY <1>3 DEF LooksStand, LookStands
  <1>6. ItemsOK'
    BY DEF GateInv, ItemsOK
  <1> QED BY <1>4, <1>5, <1>6 DEF GateInv

LEMMA SweepsStand ==
  ASSUME GateInv, NEW g \in Sweep
  PROVE  /\ SweepOK(sweep[g]) /\ LookStands(sweep[g]) /\ OrderOK
         /\ sweep[g].pc # "idle" => Current(g) \in Item
  <1>1. SweepOK(sweep[g]) /\ LookStands(sweep[g]) /\ OrderOK
    BY DEF GateInv, SweepsOK, LooksStand
  <1>2. sweep[g].pc # "idle" => Current(g) \in Item
    BY <1>1, CurrentIsItem DEF Current
  <1> QED BY <1>1, <1>2

LEMMA OrderKept == ASSUME OrderOK, UNCHANGED <<order, recent>> PROVE OrderOK'
  BY DEF OrderOK, ToSet, IsInjective

LEMMA NotAskingStands == ASSUME NEW s, s.pc # "asking" PROVE LookStands(s)
  BY DEF LookStands

LEMMA GoesOnInv ==
  ASSUME GateInv, NEW g \in Sweep, sweep[g].pc # "idle", GoesOn(g), UNCHANGED item, OrderOK'
  PROVE  GateInv'
  <1>1. SweepOK(Next1(sweep[g])) /\ Next1(sweep[g]).pc # "asking"
    BY SweepsStand, NextSweepOK
  <1>2. sweep' = [sweep EXCEPT ![g] = Next1(sweep[g])]
    BY DEF GoesOn
  <1>3. LookStands(Next1(sweep[g]))
    BY <1>1, NotAskingStands
  <1> QED BY <1>1, <1>2, <1>3, SweepWritten

LEMMA SweepBeginsInv ==
  ASSUME GateInv, NEW g \in Sweep, SweepBegins(g)
  PROVE  GateInv'
  <1>1. PICK c \in Candidates : /\ c # <<>>
          /\ LET batch == SubSeq(c, 1, IF Len(c) < BUG_GATE_BATCH THEN Len(c) ELSE BUG_GATE_BATCH)
             IN  sweep' = [sweep EXCEPT ![g] = LooksAt([k \in DOMAIN batch |->
                     [item |-> batch[k], intermittent |-> item[batch[k]].intermittent]])]
    BY DEF SweepBegins
  <1> DEFINE m == IF Len(c) < BUG_GATE_BATCH THEN Len(c) ELSE BUG_GATE_BATCH
             batch == SubSeq(c, 1, m)
             l == [k \in DOMAIN batch |-> [item |-> batch[k], intermittent |-> item[batch[k]].intermittent]]
             n == LooksAt(l)
  <1>2. c \in Seq(Item) /\ Len(c) \in Nat /\ Len(c) > 0
    BY <1>1, CandidatesAreItems, EmptySeq
  <1>3. m \in Nat /\ m > 0 /\ m <= Len(c) /\ m <= BUG_GATE_BATCH
    BY <1>2, GateAssumption
  <1>4. sweep' = [sweep EXCEPT ![g] = n]
    BY <1>1, Zenon
  <1> HIDE DEF m
  <1>5. DOMAIN batch = 1 .. m /\ \A k \in 1 .. m : batch[k] \in Item
    BY <1>2, <1>3
  <1> HIDE DEF batch
  <1>6. \A k \in 1 .. m : [item |-> batch[k], intermittent |-> item[batch[k]].intermittent] \in Listed
    BY <1>5 DEF GateInv, ItemsOK, ItemRecord, Listed
  <1>7. l \in Seq(Listed) /\ Len(l) = m
    BY <1>3, <1>5, <1>6
  <1>8. l # <<>>
    BY <1>3, <1>7
  <1> HIDE DEF l
  <1>9. n \in SweepRecord
    BY <1>7 DEF LooksAt, SweepRecord, Listed
  <1>10. SweepOK(n) /\ LookStands(n)
    BY <1>3, <1>7, <1>8, <1>9 DEF LooksAt, SweepOK, LookStands
  <1>11. OrderOK' /\ UNCHANGED item
    BY SweepsStand, OrderKept DEF SweepBegins
  <1> HIDE DEF n
  <1> QED BY <1>4, <1>10, <1>11, SweepWritten

LEMMA AskInv ==
  ASSUME GateInv, NEW g \in Sweep, Ask(g)
  PROVE  GateInv'
  <1> DEFINE s == sweep[g]
             i == Current(g)
             n == [s EXCEPT !.pc = "asking", !.run = item[i].run]
  <1>1. /\ s \in SweepRecord /\ SweepOK(s) /\ sweep \in [Sweep -> SweepRecord]
        /\ s.pc = "look" /\ i \in Item /\ OrderOK
    BY SweepsStand DEF Ask, SweepOK, GateInv, SweepsOK
  <1>2. item[i] \in ItemRecord /\ item[i].run \in Nat
    BY <1>1 DEF GateInv, ItemsOK, ItemRecord
  <1>3. item[i].run # 0 /\ item[i].done /\ item[i].run \notin item[i].theirs
    BY DEF Ask, LeftToPeople
  <1>4. i = Head(s.list).item
    BY DEF Current
  <1>5. sweep' = [sweep EXCEPT ![g] = n] /\ UNCHANGED <<item, order, recent>>
    BY <1>1 DEF Ask, SweepRecord
  <1>6. n.pc = "asking" /\ n.list = s.list /\ n.run = item[i].run /\ n \in SweepRecord
    BY <1>1, <1>2 DEF SweepRecord
  <1> HIDE DEF s, i, n
  <1>7. SweepOK(n)
    BY <1>1, <1>6 DEF SweepOK
  <1>8. LookStands(n)
    BY <1>2, <1>3, <1>4, <1>6 DEF LookStands
  <1>9. OrderOK' /\ UNCHANGED item
    BY <1>1, <1>5, OrderKept
  <1> QED BY <1>5, <1>7, <1>8, <1>9, SweepWritten

LEMMA GateAcceptsInv ==
  ASSUME GateInv, NEW g \in Sweep, GateAccepts(g)
  PROVE  GateInv'
  <1> DEFINE i == Current(g)
             r == [item[i] EXCEPT !.st = "COMPLETED", !.theirs = @ \cup {sweep[g].run}]
             t == TakenOver(i, sweep)
             n == Next1(sweep[g])
  <1>1. /\ SweepOK(sweep[g]) /\ LookStands(sweep[g]) /\ OrderOK /\ SweepsOK
        /\ sweep[g].pc = "asking" /\ i \in Item
    BY SweepsStand DEF GateAccepts, GateInv
  <1>2. item \in [Item -> ItemRecord] /\ item[i] \in ItemRecord
    BY <1>1 DEF GateInv, ItemsOK
  <1>3. item' = [item EXCEPT ![i] = r] /\ sweep' = [t EXCEPT ![g] = n] /\ Evaluated(i)
    BY <1>1, <1>2 DEF GateAccepts, ItemRecord
  <1>4. OrderOK'
    BY <1>1, <1>3, EvaluatedOK
  <1>5. i = Head(sweep[g].list).item
    BY DEF Current
  <1>6. 0 < sweep[g].run /\ sweep[g].run <= item[i].run /\ sweep[g].run \in Nat /\ item[i].run \in Nat
    BY <1>1, <1>2, <1>5 DEF LookStands, SweepOK, SweepRecord, ItemRecord
  <1>7. /\ r \in ItemRecord /\ r.run = item[i].run /\ r.done = item[i].done
        /\ r.theirs = item[i].theirs \cup {sweep[g].run}
    BY <1>2, <1>6 DEF ItemRecord
  <1>8. t \in [Sweep -> SweepRecord]
    BY <1>1, TakenOverType
  <1>9. ASSUME NEW h \in Sweep
        PROVE  /\ SweepOK(t[h]) /\ t[h].pc = sweep[h].pc /\ t[h].list = sweep[h].list
               /\ t[h].run = sweep[h].run /\ (sweep[h].late => t[h].late)
               /\ (t[h].pc = "asking" /\ Head(t[h].list).item = i) => t[h].late
    BY <1>1, TakenOverOK
  <1>10. SweepOK(n) /\ n.pc # "asking"
    BY <1>1, NextSweepOK
  <1> HIDE DEF i, r, t, n
  <1>11. /\ item' \in [Item -> ItemRecord] /\ item'[i] = r
         /\ \A j \in Item : j # i => item'[j] = item[j]
    BY <1>1, <1>2, <1>3, <1>7
  <1>12. /\ sweep' \in [Sweep -> SweepRecord]
         /\ \A h \in Sweep : sweep'[h] = IF h = g THEN n ELSE t[h]
    BY <1>3, <1>8, <1>10 DEF SweepOK
  <1>13. ItemsOK'
    <2>1. \A j \in Item : item[j].run <= MaxItemRuns[j] /\ item[j].theirs \subseteq 1 .. item[j].run
      BY DEF GateInv, ItemsOK
    <2>2. r.theirs \subseteq 1 .. r.run
      BY <1>1, <1>6, <1>7, <2>1
    <2>3. \A j \in Item : item'[j].run <= MaxItemRuns[j] /\ item'[j].theirs \subseteq 1 .. item'[j].run
      BY <1>1, <1>7, <1>11, <2>1, <2>2
    <2> QED BY <1>11, <2>3 DEF ItemsOK
  <1>14. SweepsOK'
    <2>1. \A h \in Sweep : SweepOK(sweep'[h])
      BY <1>9, <1>10, <1>12
    <2> QED BY <1>12, <2>1 DEF SweepsOK, SweepOK
  <1>15. LooksStand'
    <2> SUFFICES ASSUME NEW h \in Sweep PROVE LookStands(sweep[h])'
      BY DEF LooksStand
    <2> DEFINE q == sweep'[h]
               j == Head(sweep'[h].list).item
    <2> SUFFICES ASSUME q.pc = "asking"
                 PROVE  /\ 0 < q.run /\ q.run <= item'[j].run
                        /\ q.run = item'[j].run => item'[j].done
                        /\ q.run \in item'[j].theirs => q.late
      BY DEF LookStands
    <2>1. h # g /\ q = t[h]
      BY <1>10, <1>12
    <2>2. /\ sweep[h].pc = "asking" /\ q.list = sweep[h].list /\ q.run = sweep[h].run
          /\ (sweep[h].late => q.late) /\ (j = i => q.late)
      BY <1>9, <2>1
    <2>3. SweepOK(sweep[h]) /\ LookStands(sweep[h])
      BY SweepsStand
    <2>4. j \in Item /\ j = Head(sweep[h].list).item
      BY <2>2, <2>3, CurrentIsItem
    <2>5. /\ 0 < q.run /\ q.run <= item[j].run
          /\ q.run = item[j].run => item[j].done
          /\ q.run \in item[j].theirs => q.late
      BY <2>2, <2>3, <2>4 DEF LookStands
    <2> HIDE DEF q, j
    <2>6. CASE j = i
      BY <1>7, <1>11, <2>2, <2>5, <2>6
    <2>7. CASE j # i
      BY <1>11, <2>4, <2>5, <2>7
    <2> QED BY <2>6, <2>7
  <1> QED BY <1>4, <1>13, <1>14, <1>15 DEF GateInv

LEMMA PersonReturnsInv ==
  ASSUME GateInv, NEW i \in Item, PersonReturns(i)
  PROVE  GateInv'
  <1> DEFINE r == [item[i] EXCEPT !.st = "open", !.theirs = @ \cup (1 .. item[i].run)]
             t == TakenOver(i, sweep)
  <1>1. SweepsOK /\ item \in [Item -> ItemRecord] /\ item[i] \in ItemRecord /\ item[i].run \in Nat
    BY DEF GateInv, ItemsOK, ItemRecord
  <1>2. item' = [item EXCEPT ![i] = r] /\ sweep' = t /\ UNCHANGED <<order, recent>>
    BY <1>1 DEF PersonReturns, ItemRecord
  <1>3. /\ r \in ItemRecord /\ r.run = item[i].run /\ r.done = item[i].done
        /\ r.theirs = item[i].theirs \cup (1 .. item[i].run)
    <2>1. item[i].theirs \cup (1 .. item[i].run) \in SUBSET Nat
      BY <1>1 DEF ItemRecord
    <2> QED BY <1>1, <2>1 DEF ItemRecord
  <1>4. t \in [Sweep -> SweepRecord]
    BY <1>1, TakenOverType
  <1>5. ASSUME NEW h \in Sweep
        PROVE  /\ SweepOK(t[h]) /\ t[h].pc = sweep[h].pc /\ t[h].list = sweep[h].list
               /\ t[h].run = sweep[h].run /\ (sweep[h].late => t[h].late)
               /\ (t[h].pc = "asking" /\ Head(t[h].list).item = i) => t[h].late
    BY <1>1, TakenOverOK
  <1> HIDE DEF r, t
  <1>6. /\ item' \in [Item -> ItemRecord] /\ item'[i] = r
        /\ \A j \in Item : j # i => item'[j] = item[j]
    BY <1>1, <1>2, <1>3
  <1>7. ItemsOK'
    <2>1. \A j \in Item : item[j].run <= MaxItemRuns[j] /\ item[j].theirs \subseteq 1 .. item[j].run
      BY DEF GateInv, ItemsOK
    <2>2. r.theirs \subseteq 1 .. r.run
      BY <1>3, <2>1
    <2>3. \A j \in Item : item'[j].run <= MaxItemRuns[j] /\ item'[j].theirs \subseteq 1 .. item'[j].run
      BY <1>3, <1>6, <2>1, <2>2
    <2> QED BY <1>6, <2>3 DEF ItemsOK
  <1>8. SweepsOK'
    BY <1>2, <1>4, <1>5 DEF SweepsOK, SweepOK
  <1>9. LooksStand'
    <2> SUFFICES ASSUME NEW h \in Sweep PROVE LookStands(sweep[h])'
      BY DEF LooksStand
    <2> DEFINE q == sweep'[h]
               j == Head(sweep'[h].list).item
    <2> SUFFICES ASSUME q.pc = "asking"
                 PROVE  /\ 0 < q.run /\ q.run <= item'[j].run
                        /\ q.run = item'[j].run => item'[j].done
                        /\ q.run \in item'[j].theirs => q.late
      BY DEF LookStands
    <2>1. /\ sweep[h].pc = "asking" /\ q.list = sweep[h].list /\ q.run = sweep[h].run
          /\ (sweep[h].late => q.late) /\ (j = i => q.late)
      BY <1>2, <1>5
    <2>2. SweepOK(sweep[h]) /\ LookStands(sweep[h])
      BY SweepsStand
    <2>3. j \in Item /\ j = Head(sweep[h].list).item
      BY <2>1, <2>2, CurrentIsItem
    <2>4. /\ 0 < q.run /\ q.run <= item[j].run
          /\ q.run = item[j].run => item[j].done
          /\ q.run \in item[j].theirs => q.late
      BY <2>1, <2>2, <2>3 DEF LookStands
    <2> HIDE DEF q, j
    <2>5. CASE j = i
      BY <1>3, <1>6, <2>1, <2>4, <2>5
    <2>6. CASE j # i
      BY <1>6, <2>3, <2>4, <2>6
    <2> QED BY <2>5, <2>6
  <1>10. OrderOK'
    BY <1>2, OrderKept DEF GateInv
  <1> QED BY <1>7, <1>8, <1>9, <1>10 DEF GateInv

LEMMA PeopleInv ==
  ASSUME GateInv, People
  PROVE  GateInv'
  <1>1. PICK i \in Item : \/ ReportStarted(i) \/ ReportCompleted(i) \/ PersonAccepts(i) \/ PersonReturns(i)
                          \/ \E s \in {"open", "REVIEW", "COMPLETED"} : PersonMoves(i, s)
                          \/ MarkIntermittent(i) \/ AddFollowUps(i)
    BY DEF People
  <1>2. /\ item \in [Item -> ItemRecord] /\ item[i] \in ItemRecord /\ item[i].run \in Nat
        /\ item[i].run <= MaxItemRuns[i] /\ MaxItemRuns[i] \in Nat
    BY GateAssumption DEF GateInv, ItemsOK, ItemRecord
  <1>3. CASE ReportStarted(i)
    <2> DEFINE r == [item[i] EXCEPT !.run = @ + 1, !.done = FALSE]
    <2>1. item' = [item EXCEPT ![i] = r] /\ UNCHANGED <<order, recent, sweep>>
      BY <1>2, <1>3 DEF ReportStarted, ItemRecord
    <2>2. r \in ItemRecord /\ r.run = item[i].run + 1 /\ r.theirs = item[i].theirs
      <3>1. item[i].run + 1 \in Nat
        BY <1>2
      <3> QED BY <1>2, <3>1 DEF ItemRecord
    <2>3. item[i].run < MaxItemRuns[i]
      BY <1>3 DEF ReportStarted
    <2> HIDE DEF r
    <2>4. r.run <= MaxItemRuns[i] /\ item[i].run <= r.run /\ r.run # item[i].run
      BY <1>2, <2>2, <2>3
    <2> QED BY <2>1, <2>2, <2>4, ItemWritten
  <1>4. CASE ReportCompleted(i)
    <2> DEFINE r == [item[i] EXCEPT !.done = TRUE, !.st = "REVIEW"]
    <2>1. item' = [item EXCEPT ![i] = r] /\ UNCHANGED <<order, recent, sweep>>
      BY <1>2, <1>4 DEF ReportCompleted, ItemRecord
    <2>2. r \in ItemRecord /\ r.run = item[i].run /\ r.theirs = item[i].theirs /\ r.done
      BY <1>2 DEF ItemRecord
    <2> HIDE DEF r
    <2>3. r.run <= MaxItemRuns[i] /\ item[i].run <= r.run
      BY <1>2, <2>2
    <2> QED BY <2>1, <2>2, <2>3, ItemWritten
  <1>5. CASE PersonAccepts(i)
    <2> DEFINE r == [item[i] EXCEPT !.st = "COMPLETED"]
    <2>1. item' = [item EXCEPT ![i] = r] /\ UNCHANGED <<order, recent, sweep>>
      BY <1>2, <1>5 DEF PersonAccepts, ItemRecord
    <2>2. r \in ItemRecord /\ r.run = item[i].run /\ r.theirs = item[i].theirs /\ r.done = item[i].done
      BY <1>2 DEF ItemRecord
    <2> HIDE DEF r
    <2>3. r.run <= MaxItemRuns[i] /\ item[i].run <= r.run
      BY <1>2, <2>2
    <2> QED BY <2>1, <2>2, <2>3, ItemWritten
  <1>6. CASE PersonReturns(i)
    BY <1>6, PersonReturnsInv
  <1>7. ASSUME NEW s \in {"open", "REVIEW", "COMPLETED"}, PersonMoves(i, s) PROVE GateInv'
    <2> DEFINE r == [item[i] EXCEPT !.st = s]
    <2>1. item' = [item EXCEPT ![i] = r] /\ UNCHANGED <<order, recent, sweep>>
      BY <1>2, <1>7 DEF PersonMoves, ItemRecord
    <2>2. r \in ItemRecord /\ r.run = item[i].run /\ r.theirs = item[i].theirs /\ r.done = item[i].done
      BY <1>2 DEF ItemRecord
    <2> HIDE DEF r
    <2>3. r.run <= MaxItemRuns[i] /\ item[i].run <= r.run
      BY <1>2, <2>2
    <2> QED BY <2>1, <2>2, <2>3, ItemWritten
  <1>8. CASE MarkIntermittent(i)
    <2> DEFINE r == [item[i] EXCEPT !.intermittent = TRUE]
    <2>1. item' = [item EXCEPT ![i] = r] /\ UNCHANGED <<order, recent, sweep>>
      BY <1>2, <1>8 DEF MarkIntermittent, ItemRecord
    <2>2. r \in ItemRecord /\ r.run = item[i].run /\ r.theirs = item[i].theirs /\ r.done = item[i].done
      BY <1>2 DEF ItemRecord
    <2> HIDE DEF r
    <2>3. r.run <= MaxItemRuns[i] /\ item[i].run <= r.run
      BY <1>2, <2>2
    <2> QED BY <2>1, <2>2, <2>3, ItemWritten
  <1>9. CASE AddFollowUps(i)
    <2> DEFINE r == [item[i] EXCEPT !.blocked = FALSE]
    <2>1. item' = [item EXCEPT ![i] = r] /\ UNCHANGED <<order, recent, sweep>>
      BY <1>2, <1>9 DEF AddFollowUps, ItemRecord
    <2>2. r \in ItemRecord /\ r.run = item[i].run /\ r.theirs = item[i].theirs /\ r.done = item[i].done
      BY <1>2 DEF ItemRecord
    <2> HIDE DEF r
    <2>3. r.run <= MaxItemRuns[i] /\ item[i].run <= r.run
      BY <1>2, <2>2
    <2> QED BY <2>1, <2>2, <2>3, ItemWritten
  <1> QED BY <1>1, <1>3, <1>4, <1>5, <1>6, <1>7, <1>8, <1>9

LEMMA GateStepInv ==
  ASSUME GateInv, NEW g \in Sweep, GateStep(g)
  PROVE  GateInv'
  <1>1. SweepOK(sweep[g]) /\ OrderOK /\ (sweep[g].pc # "idle" => Current(g) \in Item)
    BY SweepsStand
  <1>2. CASE SweepBegins(g)
    BY <1>2, SweepBeginsInv
  <1>3. CASE Skip(g)
    <2>1. sweep[g].pc # "idle" /\ Record(g) /\ GoesOn(g) /\ UNCHANGED item
      BY <1>3 DEF Skip
    <2> QED BY <1>1, <2>1, RecordOK, GoesOnInv
  <1>4. CASE Ask(g)
    BY <1>4, AskInv
  <1>5. CASE GitHubDeclines(g)
    <2>1. sweep[g].pc # "idle" /\ Record(g) /\ GoesOn(g) /\ UNCHANGED item
      BY <1>5 DEF GitHubDeclines
    <2> QED BY <1>1, <2>1, RecordOK, GoesOnInv
  <1>6. CASE GateAccepts(g)
    BY <1>6, GateAcceptsInv
  <1>7. CASE GateLeavesIt(g)
    <2>1. sweep[g].pc # "idle" /\ GoesOn(g) /\ UNCHANGED <<item, order, recent>>
      BY <1>7 DEF GateLeavesIt
    <2> QED BY <1>1, <2>1, OrderKept, GoesOnInv
  <1>8. CASE GateThrows(g)
    <2>1. sweep' = [sweep EXCEPT ![g] = NoSweep] /\ UNCHANGED <<item, order, recent>>
      BY <1>8 DEF GateThrows
    <2> QED BY <1>1, <2>1, OrderKept, NoSweepOK, NotAskingStands, SweepWritten
  <1> QED BY <1>2, <1>3, <1>4, <1>5, <1>6, <1>7, <1>8 DEF GateStep

LEMMA GateInitInv == GateInit => GateInv
  <1> SUFFICES ASSUME GateInit PROVE GateInv
    OBVIOUS
  <1>1. PICK b \in SUBSET Incident :
          item = [i \in Item |-> [st |-> "open", run |-> 0, done |-> FALSE,
                                  intermittent |-> FALSE, blocked |-> i \in b, theirs |-> {}]]
    BY DEF GateInit
  <1>2. ItemsOK
    BY <1>1, GateAssumption DEF ItemsOK, ItemRecord
  <1>3. OrderOK
    BY DEF GateInit, OrderOK, IsInjective, ToSet
  <1>4. \A g \in Sweep : sweep[g] = NoSweep
    BY DEF GateInit
  <1>5. SweepsOK
    BY <1>4, NoSweepOK DEF GateInit, SweepsOK, SweepOK
  <1>6. LooksStand
    BY <1>4, NoSweepOK, NotAskingStands DEF LooksStand
  <1> QED BY <1>2, <1>3, <1>5, <1>6 DEF GateInv

LEMMA GateNextInv == GateInv /\ [GateNext]_gateVars => GateInv'
  <1> SUFFICES ASSUME GateInv, [GateNext]_gateVars PROVE GateInv'
    OBVIOUS
  <1>1. CASE People
    BY <1>1, PeopleInv
  <1>2. CASE WindowPasses
    <2>1. recent' \subseteq recent /\ UNCHANGED <<item, order, sweep>>
      BY <1>2 DEF WindowPasses
    <2> QED BY <2>1 DEF GateInv, ItemsOK, OrderOK, ToSet, IsInjective, SweepsOK, SweepOK,
                        LooksStand, LookStands
  <1>3. ASSUME NEW g \in Sweep, GateStep(g) PROVE GateInv'
    BY <1>3, GateStepInv
  <1>4. CASE UNCHANGED gateVars
    BY <1>4 DEF gateVars, GateInv, ItemsOK, OrderOK, ToSet, IsInjective, SweepsOK, SweepOK,
                LooksStand, LookStands
  <1> QED BY <1>1, <1>2, <1>3, <1>4 DEF GateNext

LEMMA GateAlways == GateSpec => []GateInv
  BY GateInitInv, GateNextInv, PTL DEF GateSpec

(* The records of the gate keep their types; in particular no item has two places in *)
(* the order of evaluations, every recent one has a place, and no sweep exceeds its   *)
(* batch or stands without a candidate (bug-auto-accept.ts).                         *)
THEOREM TheGateIsWellFormed == GateSpec => []GateTypeOK
  <1>1. GateInv => GateTypeOK
    BY GateTypeParts DEF GateInv
  <1> QED BY GateAlways, <1>1, PTL

(* Only the gate's own acceptance closes an item while its sweep moves on.           *)
LEMMA AcceptedByGate ==
  ASSUME GateInv, [GateNext]_gateVars, NEW g \in Sweep, NEW i \in Item, AcceptedBy(g, i)
  PROVE  GateAccepts(g) /\ i = Current(g)
  <1>1. /\ item[i].st # "COMPLETED" /\ item'[i].st = "COMPLETED"
        /\ sweep[g].pc = "asking" /\ i = Current(g) /\ sweep'[g].pc # "asking"
    BY DEF AcceptedBy
  <1>2. SweepsOK
    BY DEF GateInv
  <1>3. CASE People
    <2>1. PICK j \in Item : \/ ReportStarted(j) \/ ReportCompleted(j) \/ PersonAccepts(j) \/ PersonReturns(j)
                            \/ \E s \in {"open", "REVIEW", "COMPLETED"} : PersonMoves(j, s)
                            \/ MarkIntermittent(j) \/ AddFollowUps(j)
      BY <1>3 DEF People
    <2>2. sweep' = sweep \/ sweep' = TakenOver(j, sweep)
      BY <2>1 DEF ReportStarted, ReportCompleted, PersonAccepts, PersonReturns, PersonMoves,
                  MarkIntermittent, AddFollowUps
    <2>3. sweep'[g].pc = sweep[g].pc
      BY <1>2, <2>2, TakenOverOK
    <2> QED BY <1>1, <2>3
  <1>4. CASE WindowPasses \/ UNCHANGED gateVars
    BY <1>1, <1>4 DEF WindowPasses, gateVars
  <1>5. ASSUME NEW h \in Sweep, GateStep(h) PROVE GateAccepts(g) /\ i = Current(g)
    <2>1. GateAccepts(h)
      BY <1>1, <1>5 DEF GateStep, SweepBegins, Skip, Ask, GitHubDeclines, GateLeavesIt, GateThrows
    <2>2. CASE h = g
      BY <1>1, <2>1, <2>2
    <2>3. CASE h # g
      <3> DEFINE t == TakenOver(Current(h), sweep)
      <3>1. Current(h) \in Item
        BY <2>1, SweepsStand DEF GateAccepts
      <3>2. sweep' = [t EXCEPT ![h] = Next1(sweep[h])] /\ t \in [Sweep -> SweepRecord]
        BY <1>2, <2>1, <3>1, TakenOverType DEF GateAccepts
      <3>3. t[g].pc = sweep[g].pc
        BY <1>2, <3>1, TakenOverOK
      <3> HIDE DEF t
      <3>4. sweep'[g] = t[g]
        BY <2>3, <3>2
      <3> QED BY <1>1, <3>3, <3>4
    <2> QED BY <2>2, <2>3
  <1> QED BY <1>3, <1>4, <1>5 DEF GateNext

(* What an acceptance by the gate finds and leaves.                                 *)
LEMMA WhatTheGateAccepts ==
  ASSUME GateInv, NEW g \in Sweep, GateAccepts(g)
  PROVE  LET i == Current(g)
         IN  /\ item[i].st = "REVIEW" /\ ~item[i].intermittent /\ item[i].done
             /\ item'[i].theirs = item[i].theirs \cup {item[i].run}
             /\ item[i].run \in item[i].theirs => sweep[g].late
  <1> DEFINE i == Current(g)
  <1>1. i \in Item /\ LookStands(sweep[g]) /\ sweep[g].pc = "asking"
    BY SweepsStand DEF GateAccepts
  <1>2. item[i].st = "REVIEW" /\ item[i].run = sweep[g].run /\ ~item[i].intermittent
    BY DEF GateAccepts, StillToAccept
  <1>3. item[i].done /\ (item[i].run \in item[i].theirs => sweep[g].late)
    BY <1>1, <1>2 DEF LookStands, Current
  <1>4. item'[i].theirs = item[i].theirs \cup {sweep[g].run}
    BY <1>1 DEF GateAccepts, GateInv, ItemsOK, ItemRecord
  <1> QED BY <1>2, <1>3, <1>4

(* What the gate accepts still stands, for any number of items, runs and overlapping *)
(* sweeps: the item is in Review, not intermittent, and the run accepted is its       *)
(* newest, a completed one (bug-auto-accept.ts, the re-read under the lock).         *)
THEOREM TheGateAcceptsWhatStands == GateSpec => AcceptsWhatStands
  <1>1. ASSUME GateInv, [GateNext]_gateVars
        PROVE  [\A g \in Sweep, i \in Item : AcceptedBy(g, i) =>
                  /\ item[i].st = "REVIEW" /\ ~item[i].intermittent /\ item[i].done
                  /\ item'[i].theirs = item[i].theirs \cup {item[i].run}]_gateVars
    <2> SUFFICES ASSUME NEW g \in Sweep, NEW i \in Item, AcceptedBy(g, i)
                 PROVE  /\ item[i].st = "REVIEW" /\ ~item[i].intermittent /\ item[i].done
                        /\ item'[i].theirs = item[i].theirs \cup {item[i].run}
      OBVIOUS
    <2>1. GateAccepts(g) /\ i = Current(g)
      BY <1>1, AcceptedByGate
    <2> QED BY <1>1, <2>1, WhatTheGateAccepts
  <1> QED BY GateAlways, <1>1, PTL DEF GateSpec, AcceptsWhatStands

(* A run people had taken back, or the gate had accepted, before a sweep looked at   *)
(* the item is not accepted by that sweep (bug-auto-accept.ts, the reasons to skip). *)
THEOREM WhatPeopleTookBackStays == GateSpec => TakenBackStaysWithPeople
  <1>1. ASSUME GateInv, [GateNext]_gateVars
        PROVE  [\A g \in Sweep, i \in Item :
                  AcceptedBy(g, i) /\ item[i].run \in item[i].theirs => sweep[g].late]_gateVars
    <2> SUFFICES ASSUME NEW g \in Sweep, NEW i \in Item, AcceptedBy(g, i),
                        item[i].run \in item[i].theirs
                 PROVE  sweep[g].late
      OBVIOUS
    <2>1. GateAccepts(g) /\ i = Current(g)
      BY <1>1, AcceptedByGate
    <2> QED BY <1>1, <2>1, WhatTheGateAccepts
  <1> QED BY GateAlways, <1>1, PTL DEF GateSpec, TakenBackStaysWithPeople

=============================================================================
