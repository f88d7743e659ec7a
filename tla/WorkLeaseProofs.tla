-------------------------- MODULE WorkLeaseProofs --------------------------
(***************************************************************************)
(* Proofs about WorkLease, for every set of sessions, people, claims and     *)
(* runs and every clock.  LeaseInv (in WorkLease) is the inductive           *)
(* invariant; the action properties follow from it.                         *)
(***************************************************************************)
EXTENDS WorkLease, TLAPS

RunTable == [Runs -> WorkRun \cup {None}]

(* Every caller acts as some account or person.                             *)
LEMMA ActorOfType == \A c \in Callers : ActorOf(c) \in Actors
  BY CallersAssumption DEF ActorOf, Callers, Actors

(* A session never acts as a person, and a person always as themselves.      *)
LEMMA ActorOfKind ==
  \A c \in Callers : /\ IsAgent(c) => ActorOf(c) \notin Humans
                     /\ ~IsAgent(c) => ActorOf(c) \in Humans
  BY CallersAssumption DEF ActorOf, Callers, IsAgent

-----------------------------------------------------------------------------
(* What the shared changes do to one row.                                   *)

(* Deleting a claim clears claimId on its runs and changes nothing else.     *)
LEMMA DetachFacts ==
  ASSUME NEW rs \in RunTable, NEW id
  PROVE  /\ Detach(rs, id) \in RunTable
         /\ \A r \in Runs :
              /\ rs[r] = None <=> Detach(rs, id)[r] = None
              /\ rs[r] # None =>
                   /\ Detach(rs, id)[r].actor = rs[r].actor
                   /\ Detach(rs, id)[r].by = rs[r].by
                   /\ Detach(rs, id)[r].token = rs[r].token
                   /\ Detach(rs, id)[r].status = rs[r].status
                   /\ Detach(rs, id)[r].revoked = rs[r].revoked
                   /\ Detach(rs, id)[r].claimSnapshotId = rs[r].claimSnapshotId
                   /\ Detach(rs, id)[r].claimId = IF rs[r].claimId = id THEN None ELSE rs[r].claimId
  <1>1. ASSUME NEW r \in Runs, rs[r] # None
        PROVE  /\ Detach(rs, id)[r] \in WorkRun
               /\ Detach(rs, id)[r].actor = rs[r].actor
               /\ Detach(rs, id)[r].by = rs[r].by
               /\ Detach(rs, id)[r].token = rs[r].token
               /\ Detach(rs, id)[r].status = rs[r].status
               /\ Detach(rs, id)[r].revoked = rs[r].revoked
               /\ Detach(rs, id)[r].claimSnapshotId = rs[r].claimSnapshotId
               /\ Detach(rs, id)[r].claimId = IF rs[r].claimId = id THEN None ELSE rs[r].claimId
    <2>1. rs[r] \in WorkRun
      BY <1>1 DEF RunTable
    <2> QED BY <1>1, <2>1 DEF Detach, WorkRun
  <1>2. ASSUME NEW r \in Runs, rs[r] = None
        PROVE  Detach(rs, id)[r] = None
    BY <1>2 DEF Detach
  <1>3. None \notin WorkRun
    BY NoneAssumption
  <1> QED BY <1>1, <1>2, <1>3 DEF Detach, RunTable

(* Release and expiry fail the open runs of the claim and revoke every run   *)
(* started under it; they touch nobody else's.                              *)
LEMMA CloseFacts ==
  ASSUME NEW rs \in RunTable, NEW id
  PROVE  /\ CloseRuns(rs, id) \in RunTable
         /\ \A r \in Runs :
              /\ rs[r] = None <=> CloseRuns(rs, id)[r] = None
              /\ rs[r] # None =>
                   /\ CloseRuns(rs, id)[r].actor = rs[r].actor
                   /\ CloseRuns(rs, id)[r].by = rs[r].by
                   /\ CloseRuns(rs, id)[r].token = rs[r].token
                   /\ CloseRuns(rs, id)[r].claimId \in {rs[r].claimId, None}
                   /\ CloseRuns(rs, id)[r].claimId # None => rs[r].claimId # id
                   /\ CloseRuns(rs, id)[r].status \in {rs[r].status, "FAILED"}
                   /\ rs[r].status \in TERMINAL_RUN_STATUSES
                        => CloseRuns(rs, id)[r].status = rs[r].status
                   /\ rs[r].revoked => CloseRuns(rs, id)[r].revoked
                   /\ ~rs[r].revoked /\ rs[r].claimSnapshotId # id
                        => ~CloseRuns(rs, id)[r].revoked
  <1> DEFINE revoked == [r \in Runs |->
                IF rs[r] # None /\ rs[r].claimSnapshotId = id
                THEN [rs[r] EXCEPT !.revoked = TRUE] ELSE rs[r]]
             failed == [r \in Runs |->
                IF Open(revoked[r]) /\ revoked[r].claimId = id
                THEN [revoked[r] EXCEPT !.status = "FAILED"] ELSE revoked[r]]
  <1>0. CloseRuns(rs, id) = Detach(failed, id)
    BY DEF CloseRuns
  <1>1. ASSUME NEW r \in Runs, rs[r] # None
        PROVE  /\ revoked[r] \in WorkRun
               /\ revoked[r].actor = rs[r].actor
               /\ revoked[r].by = rs[r].by
               /\ revoked[r].token = rs[r].token
               /\ revoked[r].claimId = rs[r].claimId
               /\ revoked[r].status = rs[r].status
               /\ rs[r].revoked => revoked[r].revoked
               /\ ~rs[r].revoked /\ rs[r].claimSnapshotId # id => ~revoked[r].revoked
    <2>1. rs[r] \in WorkRun
      BY <1>1 DEF RunTable
    <2> QED BY <1>1, <2>1 DEF WorkRun
  <1>2. \A r \in Runs : rs[r] = None => revoked[r] = None
    OBVIOUS
  <1> HIDE DEF revoked
  <1>3. ASSUME NEW r \in Runs, rs[r] # None
        PROVE  /\ failed[r] \in WorkRun
               /\ failed[r].actor = rs[r].actor
               /\ failed[r].by = rs[r].by
               /\ failed[r].token = rs[r].token
               /\ failed[r].claimId = rs[r].claimId
               /\ failed[r].status \in {rs[r].status, "FAILED"}
               /\ rs[r].status \in TERMINAL_RUN_STATUSES => failed[r].status = rs[r].status
               /\ failed[r].revoked = revoked[r].revoked
    <2>1. revoked[r] \in WorkRun
      BY <1>1, <1>3
    <2> QED BY <1>1, <1>3, <2>1
            DEF WorkRun, Open, OpenStatuses, TERMINAL_RUN_STATUSES, Statuses
  <1>4. ASSUME NEW r \in Runs, rs[r] = None
        PROVE  failed[r] = None
    BY <1>2, <1>4 DEF Open
  <1>5. failed \in RunTable
    BY <1>3, <1>4 DEF RunTable
  <1> HIDE DEF failed
  <1>6. None \notin WorkRun
    BY NoneAssumption
  <1> QED BY <1>0, <1>1, <1>3, <1>4, <1>5, <1>6, DetachFacts

(* A new claim leaves no run of the work open.                              *)
LEMMA SupersedeFacts ==
  ASSUME NEW rs \in RunTable
  PROVE  /\ Supersede(rs) \in RunTable
         /\ \A r \in Runs :
              /\ rs[r] = None <=> Supersede(rs)[r] = None
              /\ rs[r] # None =>
                   /\ Supersede(rs)[r].actor = rs[r].actor
                   /\ Supersede(rs)[r].by = rs[r].by
                   /\ Supersede(rs)[r].token = rs[r].token
                   /\ Supersede(rs)[r].claimId = rs[r].claimId
                   /\ Supersede(rs)[r].status \in {rs[r].status, "FAILED"}
                   /\ Supersede(rs)[r].status \in TERMINAL_RUN_STATUSES
                   /\ rs[r].status \in TERMINAL_RUN_STATUSES
                        => Supersede(rs)[r].status = rs[r].status
                   /\ Supersede(rs)[r].revoked
  <1>1. ASSUME NEW r \in Runs, rs[r] # None
        PROVE  /\ Supersede(rs)[r] \in WorkRun
               /\ Supersede(rs)[r].actor = rs[r].actor
               /\ Supersede(rs)[r].by = rs[r].by
               /\ Supersede(rs)[r].token = rs[r].token
               /\ Supersede(rs)[r].claimId = rs[r].claimId
               /\ Supersede(rs)[r].status =
                     IF rs[r].status \in OpenStatuses THEN "FAILED" ELSE rs[r].status
               /\ Supersede(rs)[r].revoked
    <2>1. rs[r] \in WorkRun
      BY <1>1 DEF RunTable
    <2> QED BY <1>1, <2>1 DEF Supersede, WorkRun, Statuses, TERMINAL_RUN_STATUSES
  <1>2. ASSUME NEW r \in Runs, rs[r] # None
        PROVE  /\ Supersede(rs)[r].status \in {rs[r].status, "FAILED"}
               /\ Supersede(rs)[r].status \in TERMINAL_RUN_STATUSES
               /\ rs[r].status \in TERMINAL_RUN_STATUSES
                     => Supersede(rs)[r].status = rs[r].status
    <2>1. rs[r].status \in Statuses
      BY <1>2 DEF RunTable, WorkRun
    <2> QED BY <1>1, <1>2, <2>1 DEF Statuses, OpenStatuses, TERMINAL_RUN_STATUSES
  <1>3. ASSUME NEW r \in Runs, rs[r] = None
        PROVE  Supersede(rs)[r] = None
    BY <1>3 DEF Supersede
  <1>4. None \notin WorkRun
    BY NoneAssumption
  <1>5. Supersede(rs) \in RunTable
    BY <1>1, <1>3 DEF Supersede, RunTable
  <1> QED BY <1>1, <1>2, <1>3, <1>4, <1>5

-----------------------------------------------------------------------------
(* The invariant, one lemma per kind of step.                               *)

(* The parts of LeaseInv that speak of a run table, about any run table.     *)
Executing(rs, c) ==
    \A r \in Runs : (Open(rs[r]) /\ rs[r].claimId # None) =>
        /\ c # None /\ c.id = rs[r].claimId
        /\ rs[r].actor = c.actor /\ rs[r].token = c.token
        /\ ~rs[r].revoked
        /\ \A o \in Runs \ {r} : ~(Open(rs[o]) /\ rs[o].claimId = c.id)
Tokens(rs, m) ==
    \A r \in Runs : rs[r] # None =>
        /\ rs[r].token # None => m[rs[r].token] = rs[r].by
        /\ rs[r].actor \in Humans => rs[r].token = None

(* LeaseInv splits into what it says of the rows and of the transaction.     *)
LEMMA InvParts ==
  LeaseInv <=> /\ TypeOK /\ IdsMinted /\ TxSound
               /\ claim # None /\ claim.actor \in Humans => claim.token = None
               /\ Executing(runs, claim)
               /\ Tokens(runs, minted)
  BY DEF LeaseInv, PeopleCarryNoToken, OneExecution, OnlyHolderReports, Executing, Tokens, Exists

(* The same after a step.                                                   *)
LEMMA InvPartsNext ==
  ASSUME TypeOK', IdsMinted', TxSound',
         claim' # None /\ claim'.actor \in Humans => claim'.token = None,
         Executing(runs', claim'), Tokens(runs', minted')
  PROVE  LeaseInv'
  BY DEF LeaseInv, PeopleCarryNoToken, OneExecution, OnlyHolderReports, Executing, Tokens, Exists, Open

(* Nothing is held and nothing was reported at the start.                   *)
LEMMA InitInv == Init => LeaseInv
  <1> SUFFICES ASSUME Init PROVE LeaseInv
    OBVIOUS
  <1>1. TypeOK
    BY DEF Init, TypeOK, StateTypes
  <1> QED BY <1>1 DEF Init, LeaseInv, IdsMinted, PeopleCarryNoToken, TxSound, OneExecution,
                      OnlyHolderReports, Exists, Open

(* A step that leaves claim, runs, tokens and transaction alone.             *)
LEMMA FrameStep ==
  ASSUME LeaseInv, TypeOK', UNCHANGED <<claim, minted, runs, tx>>
  PROVE  LeaseInv'
  BY DEF LeaseInv, IdsMinted, PeopleCarryNoToken, TxSound, OneExecution, OnlyHolderReports,
         Exists, Open

(* Deleting the claim, whatever happened to its runs before: no run points   *)
(* at a claim that is gone.                                                 *)
LEMMA ClaimEnds ==
  ASSUME LeaseInv, TypeOK', claim # None, tx = None, UNCHANGED <<minted, tx>>,
         claim' = None, Tokens(runs', minted),
         \A r \in Runs : (Open(runs'[r]) /\ runs'[r].claimId # None) =>
             Open(runs[r]) /\ runs[r].claimId # None /\ runs[r].claimId # claim.id
  PROVE  LeaseInv'
  <1>1. Executing(runs', claim')
    BY InvParts DEF Executing
  <1>2. IdsMinted' /\ TxSound'
    BY NoneAssumption DEF IdsMinted, TxSound
  <1> QED BY <1>1, <1>2, InvPartsNext

(* claimWork's checks take the lock; they write no row.                     *)
LEMMA ClaimCheckInv ==
  ASSUME LeaseInv, NEW c \in Callers, ClaimCheck(c)
  PROVE  LeaseInv'
  <1>1. tx' \in ClaimTx /\ tx'.row = None /\ (tx'.renewing => claim # None)
    BY DEF ClaimCheck, ClaimTx, Live
  <1>2. TypeOK'
    BY <1>1 DEF LeaseInv, TypeOK, ClaimCheck
  <1>3. TxSound' /\ UNCHANGED <<claim, minted, runs>>
    BY <1>1 DEF TxSound, ClaimCheck
  <1> QED BY <1>2, <1>3, InvParts, InvPartsNext DEF IdsMinted

(* upsertWorkClaim: the row has a fresh id, or keeps its holder and token.   *)
LEMMA ClaimWriteInv ==
  ASSUME LeaseInv, ClaimWrite
  PROVE  LeaseInv'
  <1>1. tx \in ClaimTx /\ tx.row = None /\ tx.by \in Callers /\ tx.renewing \in BOOLEAN
    BY DEF LeaseInv, TypeOK, ClaimWrite, ClaimTx
  <1>2. PICK d \in Leases : \E row \in UpsertRow(d) : tx' = [tx EXCEPT !.row = row]
    BY DEF ClaimWrite
  <1>3. PICK row \in UpsertRow(d) : tx' = [tx EXCEPT !.row = row]
    BY <1>2
  <1>4. now + d \in Nat
    BY TimeAssumption DEF LeaseInv, TypeOK
  <1>5. /\ row \in WorkClaim
        /\ row.actor \in Humans => row.token = None
        /\ claim # None /\ claim.id = row.id => row.actor = claim.actor /\ row.token = claim.token
    <2>1. CASE Live(claim)
      <3>1. claim # None /\ claim \in WorkClaim
        BY <2>1 DEF Live, LeaseInv, TypeOK
      <3>2. row = [claim EXCEPT !.leaseUntil = now + d]
        BY <1>3, <2>1 DEF UpsertRow
      <3>3. /\ row \in WorkClaim
            /\ row.actor = claim.actor /\ row.token = claim.token
        BY <1>4, <3>1, <3>2 DEF WorkClaim
      <3> QED BY <3>1, <3>3, InvParts
    <2>2. CASE ~Live(claim)
      <3>1. PICK id \in Claims :
               /\ minted[id] = None
               /\ row = [id |-> id,
                         token |-> IF ~IsAgent(tx.by) THEN None
                                   ELSE IF tx.renewing THEN claim.token ELSE id,
                         actor |-> ActorOf(tx.by),
                         leaseUntil |-> now + d]
        BY <1>3, <2>2 DEF UpsertRow
      <3>2. tx.renewing => claim \in WorkClaim
        BY <1>1 DEF LeaseInv, TxSound, TypeOK, ClaimWrite
      <3>3. row.token \in Claims \cup {None} /\ row.id = id /\ row.actor = ActorOf(tx.by)
        BY <3>1, <3>2 DEF WorkClaim
      <3>4. row \in WorkClaim
        BY <1>1, <1>4, <3>1, <3>3, ActorOfType DEF WorkClaim
      <3>5. claim # None => claim.id # id
        BY <3>1 DEF LeaseInv, IdsMinted
      <3>6. row.actor \in Humans => row.token = None
        BY <1>1, <3>1, ActorOfKind
      <3> QED BY <3>3, <3>4, <3>5, <3>6
    <2> QED BY <2>1, <2>2
  <1>6. tx' \in ClaimTx /\ tx'.row = row /\ tx'.renewing = tx.renewing
        /\ UNCHANGED <<claim, minted, runs>>
    BY <1>1, <1>3, <1>5 DEF ClaimTx, ClaimWrite
  <1>7. TypeOK'
    BY <1>6 DEF LeaseInv, TypeOK, ClaimWrite
  <1>8. TxSound'
    BY <1>5, <1>6 DEF TxSound, LeaseInv, ClaimWrite
  <1> QED BY <1>6, <1>7, <1>8, InvParts, InvPartsNext DEF IdsMinted

(* Rolling back the claim transaction leaves the rows as they were.          *)
LEMMA ClaimAbortInv ==
  ASSUME LeaseInv, ClaimAbort
  PROVE  LeaseInv'
  <1>1. TypeOK' /\ TxSound' /\ UNCHANGED <<claim, minted, runs>>
    BY DEF LeaseInv, TypeOK, TxSound, ClaimAbort
  <1> QED BY <1>1, InvParts, InvPartsNext DEF IdsMinted

(* Committing the claim: a renewal keeps the run under its own row; any      *)
(* other claim leaves no run open.                                          *)
LEMMA ClaimCommitInv ==
  ASSUME LeaseInv, ClaimCommit
  PROVE  LeaseInv'
  <1> DEFINE kept == IF tx.renewing THEN runs ELSE Supersede(runs)
  <1>1. /\ tx \in ClaimTx /\ tx.row \in WorkClaim /\ tx.by \in Callers
        /\ runs \in RunTable /\ minted \in [Claims -> Callers \cup {None}]
        /\ tx.row.id \in Claims /\ tx.row.actor \in Actors
    BY DEF LeaseInv, TypeOK, ClaimCommit, ClaimTx, WorkClaim, RunTable
  <1>2. kept \in RunTable
    BY <1>1, SupersedeFacts
  <1>3. runs' = IF claim # None /\ claim.id # tx.row.id THEN Detach(kept, claim.id) ELSE kept
    BY DEF ClaimCommit
  <1>4. \A r \in Runs : runs[r] # None =>
          /\ kept[r] # None
          /\ kept[r].actor = runs[r].actor /\ kept[r].by = runs[r].by
          /\ kept[r].token = runs[r].token /\ kept[r].claimId = runs[r].claimId
          /\ ~tx.renewing => kept[r].status \in TERMINAL_RUN_STATUSES
          /\ tx.renewing => kept[r] = runs[r]
    BY <1>1, SupersedeFacts
  <1>5. \A r \in Runs : runs[r] = None => kept[r] = None
    BY <1>1, SupersedeFacts
  <1> HIDE DEF kept
  <1>6. runs' \in RunTable
    BY <1>2, <1>3, DetachFacts
  <1>7. \A r \in Runs : runs'[r] # None =>
          /\ runs[r] # None
          /\ runs'[r].actor = runs[r].actor /\ runs'[r].by = runs[r].by
          /\ runs'[r].token = runs[r].token
          /\ runs'[r].status = kept[r].status /\ runs'[r].revoked = kept[r].revoked
          /\ runs'[r].claimId # None =>
               /\ runs'[r].claimId = runs[r].claimId
               /\ claim # None /\ claim.id # tx.row.id => runs[r].claimId # claim.id
    BY <1>2, <1>3, <1>4, <1>5, DetachFacts
  <1>8. minted' = [minted EXCEPT ![tx.row.id] = IF @ = None THEN tx.by ELSE @]
    BY DEF ClaimCommit
  <1>9. /\ minted' \in [Claims -> Callers \cup {None}]
        /\ minted'[tx.row.id] # None
        /\ \A t \in Claims : minted[t] # None => minted'[t] = minted[t]
    BY <1>1, <1>8, CallersAssumption DEF Callers
  <1>10. TypeOK'
    BY <1>1, <1>6, <1>9 DEF LeaseInv, TypeOK, ClaimCommit, RunTable, StateTypes
  <1>11. claim' = tx.row /\ tx' = None
    BY DEF ClaimCommit
  <1>12. IdsMinted' /\ TxSound'
    BY <1>9, <1>11 DEF IdsMinted, TxSound
  <1>13. claim'.actor \in Humans => claim'.token = None
    BY <1>11 DEF ClaimCommit, LeaseInv, TxSound
  <1>14. Tokens(runs', minted')
    <2> SUFFICES ASSUME NEW r \in Runs, runs'[r] # None
                 PROVE  /\ runs'[r].token # None => minted'[runs'[r].token] = runs'[r].by
                        /\ runs'[r].actor \in Humans => runs'[r].token = None
      BY DEF Tokens
    <2>1. runs[r] \in WorkRun /\ runs[r].token \in Claims \cup {None} /\ runs[r].by \in Callers
      BY <1>1, <1>7 DEF RunTable, WorkRun
    <2>2. /\ runs[r].token # None => minted[runs[r].token] = runs[r].by
          /\ runs[r].actor \in Humans => runs[r].token = None
      BY <1>7, InvParts DEF Tokens
    <2>3. runs[r].by # None
      BY <2>1, CallersAssumption DEF Callers
    <2> QED BY <1>7, <1>9, <2>1, <2>2, <2>3
  <1>15. Executing(runs', claim')
    <2>1. CASE ~tx.renewing
      <3>1. \A r \in Runs : ~Open(runs'[r])
        BY <1>4, <1>7, <2>1 DEF Open, OpenStatuses, TERMINAL_RUN_STATUSES
      <3> QED BY <3>1 DEF Executing
    <2>2. CASE tx.renewing
      <3>1. claim # None
        BY <2>2 DEF LeaseInv, TxSound, ClaimCommit
      <3>2. CASE claim.id = tx.row.id
        <4>1. runs' = runs
          BY <1>3, <2>2, <3>2 DEF kept
        <4>2. claim'.id = claim.id /\ claim'.actor = claim.actor /\ claim'.token = claim.token
          BY <1>11, <3>1, <3>2 DEF LeaseInv, TxSound, ClaimCommit
        <4>3. claim' # None
          BY <1>1, <1>11, NoneAssumption
        <4> QED BY <4>1, <4>2, <4>3, InvParts DEF Executing
      <3>3. CASE claim.id # tx.row.id
        <4>1. \A r \in Runs : ~(Open(runs'[r]) /\ runs'[r].claimId # None)
          BY <1>4, <1>7, <2>2, <3>1, <3>3, InvParts DEF Executing, Open
        <4> QED BY <4>1 DEF Executing
      <3> QED BY <3>2, <3>3
    <2> QED BY <2>1, <2>2
  <1> QED BY <1>10, <1>12, <1>13, <1>14, <1>15, InvPartsNext

(* The tail of a report: completion ends the claim, anything else keeps it. *)
LEMMA AfterReportInv ==
  ASSUME LeaseInv, tx = None, claim # None,
         NEW status \in Statuses, NEW scheduled \in BOOLEAN, NEW rs \in RunTable,
         AfterReport(status, scheduled, rs),
         Executing(rs, claim), Tokens(rs, minted)
  PROVE  LeaseInv'
  <1>1. UNCHANGED <<minted, tx>> /\ TxSound'
    BY DEF AfterReport, TxSound
  <1>2. state' \in StateTypes /\ commitAudit' \in StateTypes \cup {None}
    BY DEF AfterReport, LeaseInv, TypeOK, StateTypes, BumpRevision
  <1>3. undo' \in [Humans -> StateTypes \cup {None}]
    BY DEF AfterReport, LeaseInv, TypeOK, BumpRevision
  <1>4. CASE status = "COMPLETED"
    <2>1. claim' = None /\ runs' = Detach(rs, claim.id)
      BY <1>4 DEF AfterReport
    <2>2. runs' \in RunTable
      BY <2>1, DetachFacts
    <2>3. TypeOK'
      BY <1>2, <1>3, <2>1, <2>2 DEF AfterReport, LeaseInv, TypeOK, RunTable
    <2>4. Tokens(runs', minted')
      BY <1>1, <2>1, DetachFacts DEF Tokens
    <2>5. \A r \in Runs : ~(Open(runs'[r]) /\ runs'[r].claimId # None)
      BY <2>1, DetachFacts DEF Executing, Open
    <2>6. Executing(runs', claim')
      BY <2>5 DEF Executing
    <2>7. IdsMinted'
      BY <2>1 DEF IdsMinted
    <2> QED BY <1>1, <2>1, <2>3, <2>4, <2>6, <2>7, InvPartsNext
  <1>5. CASE status # "COMPLETED"
    <2>1. claim' = claim /\ runs' = rs
      BY <1>5 DEF AfterReport
    <2>2. TypeOK'
      BY <1>2, <1>3, <2>1 DEF AfterReport, LeaseInv, TypeOK, RunTable
    <2>3. IdsMinted'
      BY <1>1, <2>1, InvParts DEF IdsMinted
    <2> QED BY <1>1, <2>1, <2>2, <2>3, InvParts, InvPartsNext
  <1> QED BY <1>4, <1>5

(* A new run under the claim is the only open one, and carries its token.    *)
LEMMA StartRunInv ==
  ASSUME LeaseInv, NEW c \in Callers, NEW r \in Runs, NEW status \in Statuses,
         NEW scheduled \in BOOLEAN, StartRun(c, r, status, scheduled)
  PROVE  LeaseInv'
  <1> DEFINE new == [actor |-> ActorOf(c), by |-> c, claimId |-> claim.id,
                     claimSnapshotId |-> claim.id, token |-> claim.token,
                     status |-> status, revoked |-> FALSE]
             rs == [runs EXCEPT ![r] = new]
  <1>1. /\ claim # None /\ claim \in WorkClaim /\ claim.actor = ActorOf(c)
        /\ runs \in RunTable /\ runs[r] = None /\ tx = None
        /\ NoOpenRun
        /\ IsAgent(c) => claim.token # None /\ minted[claim.token] = c
        /\ AfterReport(status, scheduled, rs)
    BY DEF LeaseInv, TypeOK, StartRun, ActiveClaim, RunTable, HoldsToken
  <1>2. new \in WorkRun
    <2>1. /\ ActorOf(c) \in Actors /\ claim.id \in Claims
          /\ claim.token \in Claims \cup {None}
      BY <1>1, ActorOfType DEF WorkClaim
    <2> QED BY <2>1 DEF WorkRun
  <1>3. /\ new.actor = claim.actor /\ new.token = claim.token /\ new.claimId = claim.id
        /\ new.by = c /\ ~new.revoked
    BY <1>1
  <1> HIDE DEF new
  <1>4. /\ new # None /\ rs \in RunTable /\ rs[r] = new
        /\ \A o \in Runs \ {r} : rs[o] = runs[o]
    BY <1>1, <1>2, NoneAssumption DEF RunTable
  <1> HIDE DEF rs
  <1>5. claim.id # None
    BY <1>1, CallersAssumption DEF WorkClaim
  <1>6. Executing(rs, claim)
    BY <1>1, <1>3, <1>4, <1>5, InvParts DEF Executing, NoOpenRun
  <1>7. claim.actor \in Humans => claim.token = None
    BY <1>1, InvParts
  <1>8. claim.token # None => minted[claim.token] = c
    BY <1>1, <1>7, ActorOfKind
  <1>9. Tokens(rs, minted)
    BY <1>3, <1>4, <1>7, <1>8, InvParts DEF Tokens
  <1> QED BY <1>1, <1>4, <1>6, <1>9, AfterReportInv

(* A report on a run already there changes its status and its reporter.      *)
LEMMA UpdateRunInv ==
  ASSUME LeaseInv, NEW c \in Callers, NEW r \in Runs, NEW status \in Statuses,
         NEW scheduled \in BOOLEAN, UpdateRun(c, r, status, scheduled)
  PROVE  LeaseInv'
  <1> DEFINE rs == [runs EXCEPT ![r] = [@ EXCEPT !.status = status, !.by = c]]
  <1>1. /\ claim # None /\ runs[r].actor = ActorOf(c)
        /\ runs \in RunTable /\ runs[r] # None /\ tx = None
        /\ runs[r].status \notin TERMINAL_RUN_STATUSES
        /\ runs[r].claimId # None /\ runs[r].claimId = claim.id
        /\ IsAgent(c) => runs[r].token # None /\ minted[runs[r].token] = c
        /\ AfterReport(status, scheduled, rs)
    BY DEF LeaseInv, TypeOK, UpdateRun, MayUpdate, RunTable, HoldsToken, Exists
  <1>2. runs[r] \in WorkRun /\ runs[r].status \in Statuses
    BY <1>1 DEF RunTable, WorkRun
  <1>3. Open(runs[r])
    BY <1>1, <1>2 DEF Open, Statuses
  <1>4. /\ rs[r] \in WorkRun /\ rs[r] # None
        /\ rs[r].actor = runs[r].actor /\ rs[r].token = runs[r].token
        /\ rs[r].claimId = runs[r].claimId /\ rs[r].revoked = runs[r].revoked
        /\ rs[r].by = c
    BY <1>1, <1>2, NoneAssumption DEF RunTable, WorkRun
  <1>5. rs \in RunTable /\ \A o \in Runs \ {r} : rs[o] = runs[o]
    BY <1>1, <1>4 DEF RunTable
  <1> HIDE DEF rs
  <1>6. Executing(rs, claim)
    BY <1>1, <1>3, <1>4, <1>5, InvParts DEF Executing
  <1>7. runs[r].actor \in Humans => runs[r].token = None
    BY <1>1, InvParts DEF Tokens
  <1>8. runs[r].token # None => minted[runs[r].token] = c
    BY <1>1, <1>7, ActorOfKind
  <1>9. Tokens(rs, minted)
    BY <1>4, <1>5, <1>7, <1>8, InvParts DEF Tokens
  <1> QED BY <1>1, <1>5, <1>6, <1>9, AfterReportInv

(* A late run points at no claim and carries no token.                      *)
LEMMA LateRunInv ==
  ASSUME LeaseInv, NEW c \in Callers, NEW r \in Runs, LateRun(c, r)
  PROVE  LeaseInv'
  <1> DEFINE new == [actor |-> ActorOf(c), by |-> c, claimId |-> None, claimSnapshotId |-> None,
                     token |-> None, status |-> "COMPLETED", revoked |-> FALSE]
             filed == [runs EXCEPT ![r] = new]
  <1>1. /\ runs \in RunTable /\ tx = None /\ tx' = None /\ minted' = minted /\ claim' = None
        /\ runs' = IF claim = None THEN filed ELSE Detach(filed, claim.id)
    BY DEF LeaseInv, TypeOK, LateRun, RunTable
  <1>2. new \in WorkRun
    BY ActorOfType DEF WorkRun, Statuses, TERMINAL_RUN_STATUSES
  <1>20. new.token = None /\ ~Open(new)
    BY DEF Open, OpenStatuses
  <1> HIDE DEF new
  <1>3. filed \in RunTable /\ filed[r] = new /\ \A o \in Runs \ {r} : filed[o] = runs[o]
    BY <1>1, <1>2 DEF RunTable
  <1> HIDE DEF filed
  <1>4. runs' \in RunTable
    BY <1>1, <1>3, DetachFacts
  <1>5. Tokens(filed, minted)
    BY <1>20, <1>3, InvParts DEF Tokens
  <1>6. Tokens(runs', minted')
    BY <1>1, <1>3, <1>5, DetachFacts DEF Tokens
  <1>7. Executing(filed, claim)
    BY <1>20, <1>3, InvParts DEF Executing
  <1>8. \A o \in Runs : ~(Open(runs'[o]) /\ runs'[o].claimId # None)
    BY <1>1, <1>3, <1>7, DetachFacts DEF Executing, Open
  <1>9. Executing(runs', claim')
    BY <1>8 DEF Executing
  <1>10. TypeOK'
    BY <1>1, <1>4 DEF LateRun, LeaseInv, TypeOK, RunTable
  <1> QED BY <1>1, <1>6, <1>9, <1>10, InvPartsNext DEF IdsMinted, TxSound

(* Release and the sweep end the claim with its runs.                       *)
LEMMA ReleaseInv ==
  ASSUME LeaseInv, NEW c \in Callers, ReleaseClaim(c)
  PROVE  LeaseInv'
  <1>1. /\ runs \in RunTable /\ claim # None /\ tx = None /\ UNCHANGED <<minted, tx>>
        /\ claim' = None /\ runs' = CloseRuns(runs, claim.id)
    BY DEF ReleaseClaim, LeaseInv, TypeOK, RunTable
  <1>2. TypeOK'
    BY <1>1, CloseFacts DEF ReleaseClaim, BumpRevision, LeaseInv, TypeOK, RunTable
  <1>3. Tokens(runs', minted)
    BY <1>1, CloseFacts, InvParts DEF Tokens
  <1>4. \A r \in Runs : (Open(runs'[r]) /\ runs'[r].claimId # None) =>
             Open(runs[r]) /\ runs[r].claimId # None /\ runs[r].claimId # claim.id
    BY <1>1, CloseFacts DEF Open, OpenStatuses
  <1> QED BY <1>1, <1>2, <1>3, <1>4, ClaimEnds

(* The sweep does the same to the row it finds under the id it read.         *)
LEMMA SweepCloseInv ==
  ASSUME LeaseInv, SweepClose
  PROVE  LeaseInv'
  <1>1. /\ runs \in RunTable /\ claim # None /\ tx = None /\ UNCHANGED <<minted, tx>>
        /\ claim' = None /\ runs' = CloseRuns(runs, claim.id)
    BY DEF SweepClose, LeaseInv, TypeOK, RunTable
  <1>2. sweep \in WorkClaim
    BY DEF SweepClose, LeaseInv, TypeOK
  <1>3. expiry' \in [actor : Actors, leaseUntil : Nat] /\ state' \in StateTypes
    BY <1>2 DEF SweepClose, WorkClaim, LeaseInv, TypeOK, StateTypes
  <1>4. TypeOK'
    BY <1>1, <1>3, CloseFacts DEF SweepClose, BumpRevision, LeaseInv, TypeOK, RunTable
  <1>5. Tokens(runs', minted)
    BY <1>1, CloseFacts, InvParts DEF Tokens
  <1>6. \A r \in Runs : (Open(runs'[r]) /\ runs'[r].claimId # None) =>
             Open(runs[r]) /\ runs[r].claimId # None /\ runs[r].claimId # claim.id
    BY <1>1, CloseFacts DEF Open, OpenStatuses
  <1> QED BY <1>1, <1>4, <1>5, <1>6, ClaimEnds

(* Every step of the specification preserves the invariant.                 *)
LEMMA NextInv == LeaseInv /\ [Next]_vars => LeaseInv'
  <1> SUFFICES ASSUME LeaseInv, [Next]_vars PROVE LeaseInv'
    OBVIOUS
  <1>1. CASE UNCHANGED vars
    <2>1. TypeOK' /\ UNCHANGED <<claim, minted, runs, tx>>
      BY <1>1 DEF vars, LeaseInv, TypeOK
    <2> QED BY <2>1, FrameStep
  <1>2. CASE Tick
    <2>1. TypeOK' /\ UNCHANGED <<claim, minted, runs, tx>>
      BY <1>2 DEF Tick, LeaseInv, TypeOK
    <2> QED BY <2>1, FrameStep
  <1>3. CASE ClaimStep
    BY <1>3, ClaimCheckInv, ClaimWriteInv, ClaimCommitInv, ClaimAbortInv DEF ClaimStep
  <1>4. CASE ReportStep
    BY <1>4, StartRunInv, UpdateRunInv, LateRunInv, InputsAssumption DEF ReportStep
  <1>5. ASSUME SweepRead \/ SweepMiss PROVE LeaseInv'
    <2>1. TypeOK' /\ UNCHANGED <<claim, minted, runs, tx>>
      BY <1>5 DEF SweepRead, SweepMiss, LeaseInv, TypeOK
    <2> QED BY <2>1, FrameStep
  <1>6. CASE EndStep
    BY <1>5, <1>6, ReleaseInv, SweepCloseInv DEF EndStep
  <1>7. CASE WorkStep
    <2>1. UNCHANGED <<now, claim, minted, runs, tx, sweep, expiry>>
      BY <1>7 DEF WorkStep, ReviewWork, GithubMove, UpdateState, CommitWork, UncommitCheck,
                  UncommitWrite
    <2>2. /\ state' \in StateTypes /\ commitment' \in {"CANDIDATE", "COMMITTED"}
          /\ commitAudit' \in StateTypes \cup {None}
          /\ undo' \in [Humans -> StateTypes \cup {None}]
      <3>1. /\ state \in StateTypes /\ commitment \in {"CANDIDATE", "COMMITTED"}
            /\ commitAudit \in StateTypes \cup {None}
            /\ undo \in [Humans -> StateTypes \cup {None}]
        BY DEF LeaseInv, TypeOK
      <3>2. CASE \E accepted \in BOOLEAN : ReviewWork(accepted)
        BY <3>1, <3>2 DEF ReviewWork, BumpRevision, StateTypes
      <3>3. CASE \E s \in StateTypes : GithubMove(s)
        BY <3>1, <3>3 DEF GithubMove
      <3>4. CASE \E s \in MoveTargets : UpdateState(s)
        BY <3>1, <3>4, InputsAssumption DEF UpdateState, BumpRevision
      <3>5. CASE \E s \in StateTypes \ {"CANCELED"} : CommitWork(s)
        BY <3>1, <3>5 DEF CommitWork
      <3>6. ASSUME NEW h \in Humans, UncommitCheck(h)
            PROVE  /\ state' = state /\ commitment' = commitment /\ commitAudit' = commitAudit
                   /\ undo' \in [Humans -> StateTypes \cup {None}]
        BY <3>1, <3>6 DEF UncommitCheck
      <3>7. ASSUME NEW h \in Humans, UncommitWrite(h)
            PROVE  /\ state' \in StateTypes /\ commitment' = "CANDIDATE"
                   /\ commitAudit' = None /\ undo' = [g \in Humans |-> None]
        BY <3>1, <3>7 DEF UncommitWrite, BumpRevision
      <3> QED BY <1>7, <3>1, <3>2, <3>3, <3>4, <3>5, <3>6, <3>7 DEF WorkStep
    <2>3. TypeOK'
      BY <2>1, <2>2 DEF LeaseInv, TypeOK
    <2> QED BY <2>1, <2>3, FrameStep
  <1> QED BY <1>1, <1>2, <1>3, <1>4, <1>6, <1>7 DEF Next

(* LeaseInv holds in every reachable state, for any number of sessions,      *)
(* people, claims and runs.                                                 *)
THEOREM LeaseInvariant == Spec => []LeaseInv
  <1>1. Init => LeaseInv
    BY InitInv
  <1>2. LeaseInv /\ [Next]_vars => LeaseInv'
    BY NextInv
  <1> QED BY <1>1, <1>2, PTL DEF Spec

(* Every variable keeps its type.                                           *)
THEOREM TypeCorrect == Spec => []TypeOK
  <1>1. LeaseInv => TypeOK
    BY DEF LeaseInv
  <1> QED BY <1>1, LeaseInvariant, PTL

(* One execution is in progress, under the current claim and its token       *)
(* (claimWork, reportRun, releaseClaim, sweepExpiredClaims together).        *)
THEOREM ExecutionIsExclusive == Spec => []OneExecution
  <1>1. LeaseInv => OneExecution
    BY DEF LeaseInv
  <1> QED BY <1>1, LeaseInvariant, PTL

(* A run under an agent's lease is written only by the session that holds    *)
(* the lease's token (assertWorkToken).                                     *)
THEOREM OnlyTokenHolderReports == Spec => []OnlyHolderReports
  <1>1. LeaseInv => OnlyHolderReports
    BY DEF LeaseInv
  <1> QED BY <1>1, LeaseInvariant, PTL

-----------------------------------------------------------------------------
(* How one step changes the runs, from which the action properties follow.   *)

(* Unreported(r): the step writes no report to r; at most it fails, revokes   *)
(* or detaches it.                                                          *)
Unreported(r) ==
    /\ runs'[r] # None
    /\ runs'[r].by = runs[r].by
    /\ runs'[r].actor = runs[r].actor
    /\ runs'[r].status \in {runs[r].status, "FAILED"}
    /\ runs[r].status \in TERMINAL_RUN_STATUSES => runs'[r].status = runs[r].status
    /\ runs[r].revoked => runs'[r].revoked

(* ReportedTo(r): the step is a report by the holder on the open run of the   *)
(* current claim.                                                           *)
ReportedTo(r) ==
    /\ runs'[r] # None
    /\ runs'[r].actor = runs[r].actor
    /\ runs'[r].revoked = runs[r].revoked
    /\ claim # None
    /\ runs[r].actor = claim.actor
    /\ runs[r].token = claim.token
    /\ runs[r].status \notin TERMINAL_RUN_STATUSES

(* A run the step creates was filed by the holder of the claim, or late,     *)
(* while nobody held the work.                                              *)
Filed(r) == runs'[r] = None \/ ~Live(claim) \/ runs'[r].actor = claim.actor

(* What a whole report step does to any run, from what it does to its own.   *)
LEMMA ReportChanges ==
  ASSUME LeaseInv, claim # None, NEW r \in Runs, NEW rs \in RunTable,
         NEW status \in Statuses, NEW scheduled \in BOOLEAN,
         AfterReport(status, scheduled, rs),
         \A o \in Runs \ {r} : rs[o] = runs[o]
  PROVE  /\ \A o \in Runs \ {r} : IF Exists(o) THEN Unreported(o) ELSE runs'[o] = None
         /\ rs[r] # None => /\ runs'[r] # None /\ runs'[r].actor = rs[r].actor
                            /\ runs'[r].revoked = rs[r].revoked
  <1>1. runs' = rs \/ runs' = Detach(rs, claim.id)
    BY DEF AfterReport
  <1> QED BY <1>1, DetachFacts DEF Exists, Unreported

(* Every step either leaves a run unreported or is the holder's report.      *)
LEMMA StepOnRuns ==
  ASSUME LeaseInv, [Next]_vars
  PROVE  \A r \in Runs : IF Exists(r) THEN Unreported(r) \/ ReportedTo(r) ELSE Filed(r)
  <1>0. runs \in RunTable
    BY DEF LeaseInv, TypeOK, RunTable
  <1>1. ASSUME runs' = runs
        PROVE  \A r \in Runs : IF Exists(r) THEN Unreported(r) ELSE Filed(r)
    BY <1>1 DEF Exists, Unreported, Filed
  <1>2. CASE ClaimCommit
    <2>1. \E kept \in {runs, Supersede(runs)} :
             runs' = kept \/ (claim # None /\ runs' = Detach(kept, claim.id))
      BY <1>2 DEF ClaimCommit
    <2> QED BY <1>0, <2>1, SupersedeFacts, DetachFacts DEF Exists, Unreported, Filed
  <1>3. ASSUME runs' = CloseRuns(runs, claim.id)
        PROVE  \A r \in Runs : IF Exists(r) THEN Unreported(r) ELSE Filed(r)
    BY <1>0, <1>3, CloseFacts DEF Exists, Unreported, Filed
  <1>4. ASSUME NEW c \in Callers, NEW n \in Runs, NEW status \in Statuses,
               NEW scheduled \in BOOLEAN, StartRun(c, n, status, scheduled)
        PROVE  \A r \in Runs : IF Exists(r) THEN Unreported(r) ELSE Filed(r)
    <2> DEFINE new == [actor |-> ActorOf(c), by |-> c, claimId |-> claim.id,
                       claimSnapshotId |-> claim.id, token |-> claim.token,
                       status |-> status, revoked |-> FALSE]
               rs == [runs EXCEPT ![n] = new]
    <2>1. /\ claim # None /\ claim \in WorkClaim /\ claim.actor = ActorOf(c) /\ runs[n] = None
          /\ AfterReport(status, scheduled, rs)
      BY <1>4 DEF StartRun, ActiveClaim, LeaseInv, TypeOK
    <2>2. ActorOf(c) \in Actors /\ claim.id \in Claims /\ claim.token \in Claims \cup {None}
      BY <2>1, ActorOfType DEF WorkClaim
    <2>3. new \in WorkRun /\ new.actor = claim.actor
      BY <2>1, <2>2 DEF WorkRun
    <2> HIDE DEF new
    <2>4. rs \in RunTable /\ rs[n] = new /\ new # None /\ \A o \in Runs \ {n} : rs[o] = runs[o]
      BY <1>0, <2>3, NoneAssumption DEF RunTable
    <2> HIDE DEF rs
    <2>5. /\ \A o \in Runs \ {n} : IF Exists(o) THEN Unreported(o) ELSE runs'[o] = None
          /\ runs'[n].actor = new.actor
      BY <2>1, <2>4, ReportChanges
    <2> QED BY <2>1, <2>3, <2>5 DEF Exists, Filed
  <1>5. ASSUME NEW c \in Callers, NEW n \in Runs, NEW status \in Statuses,
               NEW scheduled \in BOOLEAN, UpdateRun(c, n, status, scheduled)
        PROVE  \A r \in Runs : IF Exists(r) THEN Unreported(r) \/ ReportedTo(r) ELSE Filed(r)
    <2> DEFINE rs == [runs EXCEPT ![n] = [@ EXCEPT !.status = status, !.by = c]]
    <2>1. /\ claim # None /\ runs[n] # None
          /\ runs[n].status \notin TERMINAL_RUN_STATUSES
          /\ runs[n].claimId # None /\ runs[n].claimId = claim.id
          /\ AfterReport(status, scheduled, rs)
      BY <1>5 DEF UpdateRun, MayUpdate, Exists
    <2>2. runs[n] \in WorkRun /\ runs[n].status \in Statuses
      BY <1>0, <2>1 DEF RunTable, WorkRun
    <2>3. Open(runs[n])
      BY <2>1, <2>2 DEF Open, Statuses
    <2>4. runs[n].actor = claim.actor /\ runs[n].token = claim.token
      BY <2>1, <2>3, InvParts DEF Executing
    <2>5. rs[n] \in WorkRun /\ rs[n].actor = runs[n].actor /\ rs[n].revoked = runs[n].revoked
      BY <1>0, <2>2 DEF RunTable, WorkRun
    <2>6. rs \in RunTable /\ rs[n] # None /\ \A o \in Runs \ {n} : rs[o] = runs[o]
      BY <1>0, <2>5, NoneAssumption DEF RunTable
    <2> HIDE DEF rs
    <2>7. /\ \A o \in Runs \ {n} : IF Exists(o) THEN Unreported(o) ELSE runs'[o] = None
          /\ ReportedTo(n)
      BY <2>1, <2>4, <2>5, <2>6, ReportChanges DEF ReportedTo
    <2> QED BY <2>1, <2>7 DEF Exists, Filed
  <1>6. ASSUME NEW c \in Callers, NEW n \in Runs, LateRun(c, n)
        PROVE  \A r \in Runs : IF Exists(r) THEN Unreported(r) ELSE Filed(r)
    <2> DEFINE new == [actor |-> ActorOf(c), by |-> c, claimId |-> None,
                       claimSnapshotId |-> None, token |-> None, status |-> "COMPLETED",
                       revoked |-> FALSE]
               filed == [runs EXCEPT ![n] = new]
    <2>1. /\ ~Live(claim) /\ runs[n] = None
          /\ runs' = filed \/ runs' = Detach(filed, claim.id)
      BY <1>6 DEF LateRun, lateRunAllowance
    <2>2. new \in WorkRun
      BY ActorOfType DEF WorkRun, Statuses, TERMINAL_RUN_STATUSES
    <2> HIDE DEF new
    <2>3. filed \in RunTable /\ \A o \in Runs \ {n} : filed[o] = runs[o]
      BY <1>0, <2>2 DEF RunTable
    <2> HIDE DEF filed
    <2>4. \A o \in Runs \ {n} : IF Exists(o) THEN Unreported(o) ELSE runs'[o] = None
      BY <2>1, <2>3, DetachFacts DEF Exists, Unreported
    <2> QED BY <2>1, <2>4 DEF Exists, Filed
  <1>7. CASE ReportStep
    BY <1>4, <1>5, <1>6, <1>7, InputsAssumption DEF ReportStep
  <1>8. CASE ClaimStep
    <2>1. ClaimCommit \/ runs' = runs
      BY <1>8 DEF ClaimStep, ClaimCheck, ClaimWrite, ClaimAbort
    <2> QED BY <1>1, <1>2, <2>1
  <1>9. CASE EndStep
    <2>1. runs' = CloseRuns(runs, claim.id) \/ runs' = runs
      BY <1>9 DEF EndStep, ReleaseClaim, SweepRead, SweepClose, SweepMiss
    <2> QED BY <1>1, <1>3, <2>1
  <1>10. CASE Tick \/ WorkStep \/ UNCHANGED vars
    <2>1. runs' = runs
      BY <1>10 DEF Tick, WorkStep, ReviewWork, GithubMove, UpdateState, CommitWork,
                   UncommitCheck, UncommitWrite, vars
    <2> QED BY <1>1, <2>1
  <1> QED BY <1>7, <1>8, <1>9, <1>10 DEF Next

(* Recorded outcomes and revocations are permanent.                         *)
THEOREM RunHistoryIsFrozen == Spec => RunHistoryFrozen
  <1>1. LeaseInv /\ [Next]_vars =>
          [\A r \in Runs : Exists(r) =>
              /\ runs'[r] # None
              /\ runs[r].status \in TERMINAL_RUN_STATUSES => runs'[r].status = runs[r].status
              /\ runs[r].revoked => runs'[r].revoked]_vars
    BY StepOnRuns DEF Unreported, ReportedTo
  <1> QED BY <1>1, LeaseInvariant, PTL DEF Spec, RunHistoryFrozen

(* A run left behind by a newer token neither progresses nor completes.      *)
THEOREM SupersededRunsStaySilent == Spec => SupersededSilenced
  <1>1. LeaseInv /\ [Next]_vars =>
          [\A r \in Runs :
              (Exists(r) /\ (claim = None \/ runs[r].token # claim.token))
              => runs'[r].by = runs[r].by /\ runs'[r].status \in {runs[r].status, "FAILED"}]_vars
    BY StepOnRuns DEF Unreported, ReportedTo
  <1> QED BY <1>1, LeaseInvariant, PTL DEF Spec, SupersededSilenced

(* No completion is filed over somebody else's live lease.                   *)
THEOREM LiveLeaseIsRespected == Spec => NoCompletionOverLiveLease
  <1>1. LeaseInv /\ [Next]_vars =>
          [\A r \in Runs :
              (runs'[r] # None /\ runs'[r].status = "COMPLETED" /\ runs'[r] # runs[r]
                 /\ (Exists(r) => runs[r].status # "COMPLETED"))
              => ~(Live(claim) /\ claim.actor # runs'[r].actor)]_vars
    BY StepOnRuns DEF Unreported, ReportedTo, Filed, Exists
  <1> QED BY <1>1, LeaseInvariant, PTL DEF Spec, NoCompletionOverLiveLease

-----------------------------------------------------------------------------
(* Refinement: the claim row, its ids and the run table implement Lease.      *)

(* What LeaseInv does not say of the row claimWork is about to commit: it has  *)
(* an id never used, or it renews the claim that stands, and a claim that is   *)
(* live while claimWork holds the row lock is being renewed.                  *)
TxRenews ==
    tx # None =>
        /\ Live(claim) => tx.renewing
        /\ tx.row # None =>
              \/ minted[tx.row.id] = None
              \/ tx.renewing /\ claim # None /\ tx.row.id = claim.id

LEMMA TxRenewsNext ==
  ASSUME LeaseInv, TxRenews, [Next]_vars
  PROVE  TxRenews'
  <1>0. TypeOK /\ IdsMinted
    BY DEF LeaseInv
  <1>1. CASE Tick
    BY <1>0, <1>1 DEF Tick, TxRenews, Live, TypeOK, WorkClaim
  <1>2. ASSUME NEW c \in Callers, ClaimCheck(c)
        PROVE  TxRenews'
    BY <1>2 DEF ClaimCheck, TxRenews, Live
  <1>3. CASE ClaimWrite
    <2>0. PICK d \in Leases : \E row \in UpsertRow(d) : tx' = [tx EXCEPT !.row = row]
      BY <1>3 DEF ClaimWrite
    <2>1. PICK row \in UpsertRow(d) : tx' = [tx EXCEPT !.row = row]
      BY <2>0
    <2>2. tx \in ClaimTx /\ UNCHANGED <<now, claim, minted>>
      BY <1>0, <1>3 DEF ClaimWrite, TypeOK
    <2>3. tx'.row = row /\ tx'.renewing = tx.renewing
      BY <2>1, <2>2 DEF ClaimTx
    <2>4. CASE Live(claim)
      <3>1. row.id = claim.id /\ tx.renewing
        <4>1. row = [claim EXCEPT !.leaseUntil = now + d] /\ claim \in WorkClaim
          BY <1>0, <2>1, <2>4 DEF UpsertRow, Live, TypeOK
        <4>2. tx.renewing
          BY <1>3, <2>4 DEF TxRenews, ClaimWrite
        <4> QED BY <4>1, <4>2 DEF WorkClaim
      <3> QED BY <2>2, <2>3, <2>4, <3>1 DEF TxRenews, Live
    <2>5. CASE ~Live(claim)
      <3>1. minted[row.id] = None
        BY <2>1, <2>5 DEF UpsertRow
      <3> QED BY <2>2, <2>3, <2>5, <3>1 DEF TxRenews, Live
    <2> QED BY <2>4, <2>5
  <1>4. CASE ClaimCommit \/ ClaimAbort
    BY <1>4 DEF ClaimCommit, ClaimAbort, TxRenews
  <1>5. CASE tx = None /\ UNCHANGED <<tx>>
    BY <1>5 DEF TxRenews
  <1>6. CASE UNCHANGED <<now, claim, minted, tx>>
    BY <1>6 DEF TxRenews, Live
  <1>7. ASSUME ReportStep PROVE tx = None /\ UNCHANGED <<tx>>
    <2>1. ASSUME NEW status, NEW scheduled, NEW rs, AfterReport(status, scheduled, rs)
          PROVE  UNCHANGED <<tx>>
      BY <2>1 DEF AfterReport
    <2> QED BY <1>7, <2>1 DEF ReportStep, StartRun, UpdateRun, LateRun
  <1>8. ASSUME EndStep PROVE (tx = None /\ UNCHANGED <<tx>>) \/ UNCHANGED <<now, claim, minted, tx>>
    BY <1>8 DEF EndStep, ReleaseClaim, SweepRead, SweepClose, SweepMiss
  <1>9. ASSUME WorkStep \/ UNCHANGED vars
        PROVE  (tx = None /\ UNCHANGED <<tx>>) \/ UNCHANGED <<now, claim, minted, tx>>
    BY <1>9 DEF WorkStep, ReviewWork, GithubMove, UpdateState, CommitWork, UncommitCheck,
                UncommitWrite, vars
  <1> QED BY <1>1, <1>2, <1>3, <1>4, <1>5, <1>6, <1>7, <1>8, <1>9 DEF Next, ClaimStep

LEMMA TxRenewsInvariant == Spec => []TxRenews
  <1>1. Init => TxRenews
    BY DEF Init, TxRenews
  <1>2. LeaseInv /\ TxRenews /\ [Next]_vars => TxRenews'
    BY TxRenewsNext
  <1> QED BY <1>1, <1>2, LeaseInvariant, PTL DEF Spec

(* How far each run has got, as the abstract lease sees it.                   *)
Progress == [r \in Runs |-> ExecutionOf(runs[r])]

(* A run whose status stays, or fails while open, stays or is dropped.         *)
LEMMA StatusDecides ==
  ASSUME NEW a \in WorkRun \cup {None}, NEW b \in WorkRun \cup {None},
         a = None <=> b = None,
         a # None => b.status \in {a.status, "FAILED"},
         a # None /\ a.status \in TERMINAL_RUN_STATUSES => b.status = a.status
  PROVE  \/ ExecutionOf(b) = ExecutionOf(a)
         \/ ExecutionOf(a) = "open" /\ ExecutionOf(b) = "FAILED"
  <1>1. CASE a = None
    BY <1>1 DEF ExecutionOf
  <1>2. CASE a # None
    <2>1. a.status \in Statuses /\ b # None
      BY <1>2 DEF WorkRun
    <2> QED BY <1>2, <2>1 DEF ExecutionOf, Statuses, OpenStatuses, TERMINAL_RUN_STATUSES
  <1> QED BY <1>1, <1>2

LEMMA DropsOpen ==
  ASSUME \A r \in Runs : \/ ExecutionOf(runs'[r]) = ExecutionOf(runs[r])
                         \/ ExecutionOf(runs[r]) = "open" /\ ExecutionOf(runs'[r]) = "FAILED"
  PROVE  Abstract!Dropped(Progress)
  <1> DEFINE F == {r \in Runs : ExecutionOf(runs'[r]) # ExecutionOf(runs[r])}
  <1>1. F \in SUBSET {r \in Runs : Progress[r] = "open"}
    BY DEF Progress
  <1>2. [r \in Runs |-> ExecutionOf(runs'[r])] = [r \in Runs |-> IF r \in F THEN "FAILED" ELSE Progress[r]]
    BY DEF Progress
  <1> QED BY <1>1, <1>2 DEF Abstract!Dropped, Progress

LEMMA RefinesInit == Init => Abstract!Init
  BY DEF Init, Abstract!Init, ExecutionOf

(* Committing a claim grants a lease never used, or renews the one there is.   *)
LEMMA RefinesClaimCommit ==
  ASSUME LeaseInv, TxRenews, ClaimCommit
  PROVE  [Abstract!Next]_Abstract!vars
  <1>0. /\ TypeOK /\ IdsMinted /\ runs \in RunTable /\ tx \in ClaimTx /\ tx # None /\ tx.row # None
        /\ tx.row \in WorkClaim /\ tx.by \in Callers
    BY DEF LeaseInv, ClaimCommit, TypeOK, RunTable, ClaimTx
  <1>1. PICK id \in Claims : id = tx.row.id
    BY <1>0 DEF WorkClaim
  <1>2. /\ claim' = tx.row /\ claim' # None
        /\ minted' = [minted EXCEPT ![id] = IF @ = None THEN tx.by ELSE @]
        /\ minted \in [Claims -> Callers \cup {None}] /\ tx.by # None
    BY <1>0, <1>1, CallersAssumption DEF ClaimCommit, TypeOK, Callers
  <1>3. CASE minted[id] = None
    <2>1. {x \in Claims : minted'[x] # None} = {x \in Claims : minted[x] # None} \cup {id}
      BY <1>2, <1>3
    <2>2. \A r \in Runs : \/ ExecutionOf(runs'[r]) = ExecutionOf(runs[r])
                          \/ ExecutionOf(runs[r]) = "open" /\ ExecutionOf(runs'[r]) = "FAILED"
      <3> DEFINE kept == IF tx.renewing THEN runs ELSE Supersede(runs)
      <3>1. /\ kept \in RunTable
            /\ \A r \in Runs : /\ runs[r] = None <=> kept[r] = None
                               /\ runs[r] # None => kept[r].status \in {runs[r].status, "FAILED"}
                               /\ runs[r] # None /\ runs[r].status \in TERMINAL_RUN_STATUSES
                                     => kept[r].status = runs[r].status
        BY <1>0, SupersedeFacts
      <3>2. runs' = kept \/ runs' = Detach(kept, claim.id)
        BY DEF ClaimCommit
      <3> HIDE DEF kept
      <3>3. /\ runs' \in RunTable
            /\ \A r \in Runs : /\ kept[r] = None <=> runs'[r] = None
                               /\ kept[r] # None => runs'[r].status = kept[r].status
        BY <3>1, <3>2, DetachFacts
      <3> TAKE r \in Runs
      <3>4. runs[r] \in WorkRun \cup {None} /\ runs'[r] \in WorkRun \cup {None}
        BY <1>0, <3>3 DEF RunTable
      <3>5. /\ runs[r] = None <=> runs'[r] = None
            /\ runs[r] # None => runs'[r].status \in {runs[r].status, "FAILED"}
            /\ runs[r] # None /\ runs[r].status \in TERMINAL_RUN_STATUSES
                 => runs'[r].status = runs[r].status
        BY <3>1, <3>3
      <3> QED BY <3>4, <3>5, StatusDecides
    <2>3. Abstract!Dropped(Progress)
      BY <2>2, DropsOpen
    <2>4. Abstract!Grant(id)
      BY <1>1, <1>2, <1>3, <2>1, <2>3 DEF Abstract!Grant, Progress
    <2> QED BY <2>4 DEF Abstract!Next
  <1>4. CASE minted[id] # None
    <2>1. tx.renewing /\ claim # None /\ id = claim.id
      BY <1>0, <1>1, <1>4 DEF TxRenews
    <2>2. runs' = runs /\ minted' = minted
      BY <1>1, <1>2, <1>4, <2>1 DEF ClaimCommit
    <2> QED BY <1>1, <1>2, <2>1, <2>2 DEF Abstract!vars
  <1> QED BY <1>3, <1>4

(* A report is an advance of its run under the standing lease.                *)
LEMMA RefinesReport ==
  ASSUME NEW r \in Runs, NEW status \in Statuses, NEW scheduled, NEW rs \in RunTable,
         LeaseInv, claim # None, ExecutionOf(runs[r]) \in {"none", "open"},
         rs[r] # None, rs[r].status = status, \A o \in Runs \ {r} : rs[o] = runs[o],
         AfterReport(status, scheduled, rs)
  PROVE  Abstract!Next
  <1> DEFINE s == IF status \in OpenStatuses THEN "open" ELSE status
  <1>1. s \in {"open", "COMPLETED", "FAILED"} /\ (s = "COMPLETED" <=> status = "COMPLETED")
    BY DEF Statuses, OpenStatuses, TERMINAL_RUN_STATUSES
  <1>2. runs' = IF status = "COMPLETED" THEN Detach(rs, claim.id) ELSE rs
    BY DEF AfterReport
  <1>3. \A o \in Runs : ExecutionOf(runs'[o]) = ExecutionOf(rs[o])
    BY <1>2, DetachFacts DEF ExecutionOf
  <1>4. [o \in Runs |-> ExecutionOf(runs'[o])] = [Progress EXCEPT ![r] = s]
    BY <1>3 DEF Progress, ExecutionOf
  <1>5. /\ claim' = IF status = "COMPLETED" THEN None ELSE claim
        /\ minted' = minted
    BY DEF AfterReport
  <1>6. claim.id \in Claims /\ None \notin Claims
    BY CallersAssumption DEF LeaseInv, TypeOK, WorkClaim
  <1> HIDE DEF s
  <1>7. Abstract!Advance(r, s)
    BY <1>1, <1>4, <1>5, <1>6 DEF Abstract!Advance, Progress
  <1> QED BY <1>1, <1>7 DEF Abstract!Next

LEMMA RefinesStep ==
  ASSUME LeaseInv, TxRenews, [Next]_vars
  PROVE  [Abstract!Next]_Abstract!vars
  <1>0. /\ runs \in RunTable /\ None \notin Claims /\ None \notin WorkRun
        /\ claim # None => claim.id \in Claims
    BY CallersAssumption, NoneAssumption DEF LeaseInv, TypeOK, RunTable, WorkClaim
  <1>1. ASSUME NEW c \in Callers, NEW r \in Runs, NEW status \in Reported, NEW scheduled \in BOOLEAN,
               StartRun(c, r, status, scheduled)
        PROVE  Abstract!Next
    <2> DEFINE new == [actor |-> ActorOf(c), by |-> c, claimId |-> claim.id,
                       claimSnapshotId |-> claim.id, token |-> claim.token,
                       status |-> status, revoked |-> FALSE]
               rs == [runs EXCEPT ![r] = new]
    <2>1. status \in Statuses /\ claim # None /\ runs[r] = None /\ AfterReport(status, scheduled, rs)
      BY <1>1, InputsAssumption DEF StartRun, ActiveClaim
    <2>2. new \in WorkRun /\ new.status = status
      BY <1>0, <2>1, ActorOfType DEF LeaseInv, TypeOK, WorkClaim, WorkRun
    <2> HIDE DEF new
    <2>3. rs \in RunTable /\ rs[r] = new /\ \A o \in Runs \ {r} : rs[o] = runs[o]
      BY <1>0, <2>2 DEF RunTable
    <2> HIDE DEF rs
    <2>4. ExecutionOf(runs[r]) \in {"none", "open"}
      BY <2>1 DEF ExecutionOf
    <2> QED BY <1>0, <2>1, <2>2, <2>3, <2>4, RefinesReport
  <1>2. ASSUME NEW c \in Callers, NEW r \in Runs, NEW status \in Reported, NEW scheduled \in BOOLEAN,
               UpdateRun(c, r, status, scheduled)
        PROVE  Abstract!Next
    <2> DEFINE new == [runs[r] EXCEPT !.status = status, !.by = c]
               rs == [runs EXCEPT ![r] = new]
    <2>1. /\ status \in Statuses /\ claim # None /\ runs[r] # None /\ AfterReport(status, scheduled, rs)
          /\ runs[r].status \notin TERMINAL_RUN_STATUSES
      BY <1>2, InputsAssumption DEF UpdateRun, MayUpdate, Exists
    <2>2. new \in WorkRun /\ new.status = status /\ runs[r].status \in Statuses
      BY <1>0, <2>1 DEF RunTable, WorkRun
    <2> HIDE DEF new
    <2>3. rs \in RunTable /\ rs[r] = new /\ \A o \in Runs \ {r} : rs[o] = runs[o]
      BY <1>0, <2>2 DEF RunTable
    <2> HIDE DEF rs
    <2>4. ExecutionOf(runs[r]) \in {"none", "open"}
      BY <2>1, <2>2 DEF ExecutionOf, Statuses, TERMINAL_RUN_STATUSES
    <2> QED BY <1>0, <2>1, <2>2, <2>3, <2>4, RefinesReport
  <1>3. ASSUME NEW c \in Callers, NEW r \in Runs, LateRun(c, r)
        PROVE  Abstract!Next
    <2> DEFINE new == [actor |-> ActorOf(c), by |-> c, claimId |-> None, claimSnapshotId |-> None,
                       token |-> None, status |-> "COMPLETED", revoked |-> FALSE]
               filed == [runs EXCEPT ![r] = new]
    <2>1. /\ runs[r] = None /\ claim' = None /\ minted' = minted
          /\ runs' = filed \/ runs' = Detach(filed, claim.id)
      BY <1>3 DEF LateRun
    <2>2. new \in WorkRun /\ new.status = "COMPLETED"
      BY ActorOfType DEF WorkRun, Statuses, TERMINAL_RUN_STATUSES
    <2> HIDE DEF new
    <2>3. filed \in RunTable /\ filed[r] = new /\ \A o \in Runs \ {r} : filed[o] = runs[o]
      BY <1>0, <2>2 DEF RunTable
    <2> HIDE DEF filed
    <2>4. \A o \in Runs : ExecutionOf(runs'[o]) = ExecutionOf(filed[o])
      BY <2>1, <2>3, DetachFacts DEF ExecutionOf
    <2>5. ExecutionOf(filed[r]) = "COMPLETED" /\ ExecutionOf(runs[r]) = "none"
      BY <1>0, <2>1, <2>2, <2>3 DEF ExecutionOf, OpenStatuses
    <2>6. [o \in Runs |-> ExecutionOf(runs'[o])] = [Progress EXCEPT ![r] = "COMPLETED"]
      <3>1. \A o \in Runs \ {r} : ExecutionOf(runs'[o]) = ExecutionOf(runs[o])
        BY <2>3, <2>4
      <3>2. ExecutionOf(runs'[r]) = "COMPLETED"
        BY <2>4, <2>5
      <3> QED BY <3>1, <3>2 DEF Progress
    <2>7. Abstract!FileLate(r)
      BY <2>1, <2>5, <2>6 DEF Abstract!FileLate, Progress
    <2> QED BY <2>7 DEF Abstract!Next
  <1>4. ASSUME claim # None, claim' = None, runs' = CloseRuns(runs, claim.id), minted' = minted
        PROVE  Abstract!Next
    <2>1. CloseRuns(runs, claim.id) \in RunTable
      BY <1>0, CloseFacts
    <2>2. \A r \in Runs : \/ ExecutionOf(runs'[r]) = ExecutionOf(runs[r])
                          \/ ExecutionOf(runs[r]) = "open" /\ ExecutionOf(runs'[r]) = "FAILED"
      <3> TAKE r \in Runs
      <3>1. runs[r] \in WorkRun \cup {None} /\ runs'[r] \in WorkRun \cup {None}
        BY <1>0, <1>4, <2>1 DEF RunTable
      <3>2. /\ runs[r] = None <=> runs'[r] = None
            /\ runs[r] # None => runs'[r].status \in {runs[r].status, "FAILED"}
            /\ runs[r] # None /\ runs[r].status \in TERMINAL_RUN_STATUSES
                 => runs'[r].status = runs[r].status
        BY <1>0, <1>4, CloseFacts
      <3> QED BY <3>1, <3>2, StatusDecides
    <2>3. Abstract!Dropped(Progress)
      BY <2>2, DropsOpen
    <2>4. Abstract!End
      BY <1>0, <1>4, <2>3 DEF Abstract!End, Progress
    <2> QED BY <2>4 DEF Abstract!Next
  <1>5. ASSUME UNCHANGED <<claim, minted, runs>>
        PROVE  UNCHANGED Abstract!vars
    BY <1>5 DEF Abstract!vars
  <1>6. CASE ReportStep
    BY <1>1, <1>2, <1>3, <1>6 DEF ReportStep
  <1>7. CASE EndStep
    <2>1. \/ /\ claim # None /\ claim' = None /\ runs' = CloseRuns(runs, claim.id) /\ minted' = minted
          \/ UNCHANGED <<claim, minted, runs>>
      BY <1>7 DEF EndStep, ReleaseClaim, SweepRead, SweepClose, SweepMiss
    <2> QED BY <1>4, <1>5, <2>1
  <1>8. CASE ClaimStep
    <2>1. ClaimCommit \/ UNCHANGED <<claim, minted, runs>>
      BY <1>8 DEF ClaimStep, ClaimCheck, ClaimWrite, ClaimAbort
    <2> QED BY <1>5, <2>1, RefinesClaimCommit
  <1>9. CASE Tick \/ WorkStep \/ UNCHANGED vars
    <2>1. UNCHANGED <<claim, minted, runs>>
      BY <1>9 DEF Tick, WorkStep, ReviewWork, GithubMove, UpdateState, CommitWork,
                  UncommitCheck, UncommitWrite, vars
    <2> QED BY <1>5, <2>1
  <1> QED BY <1>6, <1>7, <1>8, <1>9 DEF Next

(* Claims, runs, releases and sweeps implement the abstract lease: a lease     *)
(* that ended never stands again, work advances only under a standing lease,   *)
(* a completion ends it, and what is finished stays as it is.                 *)
THEOREM ClaimsImplementTheLease == Spec => ImplementsLease
  <1>1. LeaseInv /\ TxRenews /\ [Next]_vars => [Abstract!Next]_Abstract!vars
    BY RefinesStep
  <1> QED BY <1>1, RefinesInit, LeaseInvariant, TxRenewsInvariant, PTL
          DEF Spec, ImplementsLease, Abstract!Spec
=============================================================================
