-------------------------- MODULE ContractAmendment --------------------------
(***************************************************************************)
(* The contract of a committed item and the amendments agents propose to   *)
(* it: proposals, the Autonomy Gate's decision, a person's decision, and a *)
(* person taking an automatic acceptance back (contract-amendment.ts and   *)
(* tryAutoAcceptAmendment in autonomy-gate.ts), beside the edits people    *)
(* make on the Contract form.                                              *)
(*                                                                         *)
(* Every operation is one transaction under the team's lock and so one     *)
(* step; the proposal and the gate's acceptance are two transactions of    *)
(* one call, and anything may happen between them.  What the policy and    *)
(* the agent's trust say when the gate asks is left open.                  *)
(***************************************************************************)
EXTENDS Integers, Sequences, FiniteSets

CONSTANTS Field,          \* fields of the contract
          AutoField,      \* those a policy may let the gate amend
          Value,          \* their values
          MaxAmendments   \* bound: amendments

ASSUME AmendmentAssumption == AutoField \subseteq Field /\ MaxAmendments \in Nat

VARIABLES contract,    \* contract[f]: the value of field f
          amendments   \* amendments[n]: the n-th amendment

amendmentVars == <<contract, amendments>>

Values == UNION {[S -> Value] : S \in (SUBSET Field) \ {{}}}

\* gate: the call that proposed it has yet to hear the Autonomy Gate.  What a settled
\* amendment said is read again only when the gate accepted it.
Amendment == [status : {"PENDING"}, before : Values, changes : Values, gate : BOOLEAN] \cup
             [status : {"AUTO"}, before : Values, changes : Values] \cup
             [status : {"SUPERSEDED", "ACCEPTED", "REJECTED"}]

AmendmentTypeOK ==
    /\ contract \in [Field -> Value]
    /\ amendments \in Seq(Amendment) /\ Len(amendments) <= MaxAmendments
    /\ \A n \in DOMAIN amendments : amendments[n].status \in {"PENDING", "AUTO"} =>
          DOMAIN amendments[n].before = DOMAIN amendments[n].changes

Pending == {n \in DOMAIN amendments : amendments[n].status = "PENDING"}

AmendmentInit == contract \in [Field -> Value] /\ amendments = <<>>

-----------------------------------------------------------------------------
(* Operations *)

\* The fields written with the values v.
Written(v) == [f \in Field |-> IF f \in DOMAIN v THEN v[f] ELSE contract[f]]

\* True when a touched field no longer holds the value it was proposed against.
isAmendmentStale(a) == \E f \in DOMAIN a.before : contract[f] # a.before[f]

\* The open amendment is superseded, a new one is filed.
Filed(before, changes, gate) ==
    amendments' = Append([n \in DOMAIN amendments |->
                              IF n \in Pending THEN [status |-> "SUPERSEDED"] ELSE amendments[n]],
                         [before |-> before, changes |-> changes, gate |-> gate,
                          status |-> "PENDING"])

\* Only the requested fields that differ are kept, and there must be one.
proposeContractAmendment(requested) ==
    LET changed == {f \in DOMAIN requested : requested[f] # contract[f]}
    IN  /\ Len(amendments) < MaxAmendments /\ changed # {}
        /\ Filed([f \in changed |-> contract[f]], [f \in changed |-> requested[f]], TRUE)
        /\ UNCHANGED contract

\* Mutant of accept: staleness is not looked at.
acceptAnyway(n, settled) ==
    /\ n \in Pending
    /\ amendments' = [amendments EXCEPT ![n] = settled]
    /\ contract' = Written(amendments[n].changes)

\* An amendment still pending and not stale is settled, and its changes are written
\* in the same transaction.
accept(n, settled) ==
    /\ n \in Pending /\ ~isAmendmentStale(amendments[n])
    /\ amendments' = [amendments EXCEPT ![n] = settled]
    /\ contract' = Written(amendments[n].changes)

acceptContractAmendment(n) == accept(n, [status |-> "ACCEPTED"])

rejectContractAmendment(n) ==
    /\ n \in Pending
    /\ amendments' = [amendments EXCEPT ![n] = [status |-> "REJECTED"]]
    /\ UNCHANGED contract

\* tryAutoAcceptAmendment: the policy may let the gate accept an amendment that
\* touches no other field than the automatic ones.
GateAcceptsAmendment(n) ==
    /\ n \in Pending /\ amendments[n].gate /\ DOMAIN amendments[n].changes \subseteq AutoField
    /\ accept(n, [status |-> "AUTO", before |-> amendments[n].before,
                                    changes |-> amendments[n].changes])

\* The policy leaves it, the acceptance is refused, or the call ends before it.
GateLeavesAmendment(n) ==
    /\ n \in Pending /\ amendments[n].gate
    /\ amendments' = [amendments EXCEPT ![n].gate = FALSE]
    /\ UNCHANGED contract

\* A person takes back what the gate accepted: the fields get their old values,
\* whatever they hold now, and a copy waits for a person.
reopenContractAmendment(n) ==
    LET a == amendments[n]
    IN  /\ Len(amendments) < MaxAmendments
        /\ a.status = "AUTO"
        /\ contract' = Written(a.before)
        /\ Filed(a.before, a.changes, FALSE)

\* A person saves the Contract form.
EditContract(f, v) ==
    /\ contract[f] # v
    /\ contract' = [contract EXCEPT ![f] = v]
    /\ UNCHANGED amendments

AmendmentNext ==
    \/ \E requested \in Values : proposeContractAmendment(requested)
    \/ \E f \in Field, v \in Value : EditContract(f, v)
    \/ \E n \in DOMAIN amendments :
          \/ acceptContractAmendment(n) \/ rejectContractAmendment(n)
          \/ GateAcceptsAmendment(n) \/ GateLeavesAmendment(n) \/ reopenContractAmendment(n)

-----------------------------------------------------------------------------
(* Properties *)

\* At most one amendment of an item waits for a decision, whoever proposes, decides
\* and takes back in whatever order.
OnePending == Cardinality(Pending) <= 1

\* No acceptance, by a person or by the gate, writes over a value the amendment was
\* not proposed against.
NothingOverwrittenUnseen ==
    [][\A n \in Pending : amendments'[n].status \in {"ACCEPTED", "AUTO"} =>
          \A f \in DOMAIN amendments[n].before : contract[f] = amendments[n].before[f]]_amendmentVars
=============================================================================
