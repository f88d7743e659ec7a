------------------------------ MODULE ReviewGate ------------------------------
(***************************************************************************)
(* The Auto-Accept Gate: the sweep of bug-auto-accept.ts over the items in *)
(* Review, with GitHub's slow answer between its checks and its            *)
(* acceptance, beside the people and executors who review, return, move    *)
(* and rework the same items meanwhile.                                    *)
(*                                                                         *)
(* A sweep reads its candidates once, then takes them one after the other: *)
(* look at the newest run, ask GitHub, accept in a transaction that holds  *)
(* the team's lock and re-reads the item.  Sweeps of two replicas overlap; *)
(* nothing keeps two sweeps of one process apart either.                   *)
(*                                                                         *)
(* GitHub may answer anything.  The time of an item's newest evaluation is *)
(* its place in `order`, and `recent` holds those evaluated within         *)
(* BUG_GATE_RETRY_MS.  The team has an active policy, so that every item   *)
(* in Review is a candidate; whether it lets the gate decide one is left   *)
(* open at every look.                                                     *)
(***************************************************************************)
EXTENDS Integers, Sequences, FiniteSets, SequencesExt

CONSTANTS Item,      \* items of kind ISSUE with a repository, outside packages
          Bug,       \* those labelled bug, of a PROJECT with autoAcceptBugs on
          Incident,  \* those labelled Incident
          Sweep,     \* sweeps that may run at the same time
          MaxItemRuns,   \* bound: runs of item i, as a function
          BUG_GATE_BATCH

ASSUME GateAssumption == /\ IsFiniteSet(Item) /\ Bug \subseteq Item /\ Incident \subseteq Item
                         /\ MaxItemRuns \in [Item -> Nat] /\ BUG_GATE_BATCH \in Nat \ {0}

VARIABLES item,    \* item[i]: the item, its newest run and its reviews
          order,   \* evaluated items, the longest-unchecked first
          recent,  \* items evaluated within BUG_GATE_RETRY_MS
          sweep    \* sweep[g]: where sweep g is

gateVars == <<item, order, recent, sweep>>

\* run: the newest run, 0 for none; done: it is COMPLETED.
\* blocked: an incident without the follow-ups assertIncidentMayClose asks for.
\* theirs: runs the gate accepted, or that ran before a person's return.
ItemRecord == [st : {"open", "REVIEW", "COMPLETED"}, run : Nat, done : BOOLEAN,
               intermittent : BOOLEAN, blocked : BOOLEAN, theirs : SUBSET Nat]

\* list: the candidates left, each with the reproducibility read with it; run: the
\* run looked at.  late is history: people took the item over after the look.
SweepRecord == [pc : {"idle", "look", "asking"},
                list : Seq([item : Item, intermittent : BOOLEAN]),
                run : Nat, late : BOOLEAN]

NoSweep == [pc |-> "idle", list |-> <<>>, run |-> 0, late |-> FALSE]
LooksAt(list) == [pc |-> "look", list |-> list, run |-> 0, late |-> FALSE]

GateTypeOK ==
    /\ item \in [Item -> ItemRecord]
    /\ \A i \in Item : item[i].run <= MaxItemRuns[i] /\ item[i].theirs \subseteq 1 .. item[i].run
    /\ order \in Seq(Item) /\ IsInjective(order)
    /\ recent \subseteq ToSet(order)
    /\ sweep \in [Sweep -> SweepRecord]
    /\ \A g \in Sweep : (sweep[g].pc = "idle") <=> (sweep[g].list = <<>>)
    /\ \A g \in Sweep : Len(sweep[g].list) <= BUG_GATE_BATCH

GateInit ==
    /\ \E b \in SUBSET Incident :
          item = [i \in Item |-> [st |-> "open", run |-> 0, done |-> FALSE,
                                  intermittent |-> FALSE, blocked |-> i \in b, theirs |-> {}]]
    /\ order = <<>> /\ recent = {}
    /\ sweep = [g \in Sweep |-> NoSweep]

-----------------------------------------------------------------------------
(* The sweep *)

Current(g) == Head(sweep[g].list).item

\* lastChecked: the place of item i among the evaluated ones, 0 for never.
lastChecked(i) == IF i \in ToSet(order) THEN CHOOSE k \in DOMAIN order : order[k] = i ELSE 0

\* Mutant of Candidates: the newest evaluation first.
NewestFirst ==
    LET due == {i \in Item : item[i].st = "REVIEW" /\ i \notin recent}
    IN  {c \in SetToSeqs(due) : \A m, n \in DOMAIN c :
            m < n => lastChecked(c[m]) >= lastChecked(c[n])}

\* The items in Review not evaluated lately, the longest-unchecked first; those never
\* evaluated, in any order (the one the database returned), before all others.
Candidates ==
    LET due == {i \in Item : item[i].st = "REVIEW" /\ i \notin recent}
    IN  {c \in SetToSeqs(due) : \A m, n \in DOMAIN c :
            m < n => lastChecked(c[m]) <= lastChecked(c[n])}

SweepBegins(g) ==
    /\ sweep[g].pc = "idle"
    /\ \E c \in Candidates :
          /\ c # <<>>
          /\ LET batch == SubSeq(c, 1, IF Len(c) < BUG_GATE_BATCH THEN Len(c) ELSE BUG_GATE_BATCH)
             IN  sweep' = [sweep EXCEPT ![g] = LooksAt([k \in DOMAIN batch |->
                     [item |-> batch[k], intermittent |-> item[batch[k]].intermittent]])]
    /\ UNCHANGED <<item, order, recent>>

\* The sweep goes on to its next candidate, or ends.
Next1(s) == IF Len(s.list) = 1 THEN NoSweep ELSE LooksAt(Tail(s.list))
GoesOn(g) == sweep' = [sweep EXCEPT ![g] = Next1(@)]

\* Mutant of Evaluated: every evaluation counts, not the newest of its item.
EvaluatedAgain(i) == order' = Append(order, i) /\ recent' = recent \cup {i}

\* An evaluation is written: i leaves its place, if it has one, for the last.
Evaluated(i) ==
    /\ order' = Append(RemoveAt(order, lastChecked(i)), i)
    /\ recent' = recent \cup {i}

\* record: a skip is written down, unless it repeats an evaluation still recent.
Record(g) == \/ Evaluated(Current(g))
             \/ /\ Current(g) \in recent
                /\ UNCHANGED <<order, recent>>

\* Mutant of LeftToPeople: the runs people took back are not left out.
LeftUnlessReviewed(g) ==
    LET i == Current(g)
    IN  \/ Head(sweep[g].list).intermittent
        \/ item[i].run = 0 \/ ~item[i].done

\* The reasons to skip a candidate without asking GitHub: it was intermittent when
\* listed, its newest run is not a completed one, or the gate accepted that run before
\* or a person returned it.
LeftToPeople(g) ==
    LET i == Current(g)
    IN  \/ Head(sweep[g].list).intermittent
        \/ item[i].run = 0 \/ ~item[i].done
        \/ item[i].run \in item[i].theirs

\* policyCheck: whatever the policy, the delivering agent's trust and the locks say
\* now of an item the switch does not cover.
PolicyMayKeep(i) == i \notin Bug

Skip(g) ==
    /\ sweep[g].pc = "look" /\ (PolicyMayKeep(Current(g)) \/ LeftToPeople(g))
    /\ Record(g) /\ GoesOn(g)
    /\ UNCHANGED item

Ask(g) ==
    /\ sweep[g].pc = "look" /\ ~LeftToPeople(g)
    /\ sweep' = [sweep EXCEPT ![g].pc = "asking", ![g].run = item[Current(g)].run]
    /\ UNCHANGED <<item, order, recent>>

\* verifyBugFix answers.  Anything but VERIFIED, or a policy condition the facts do
\* not meet (decided on the view loaded at the look), is recorded and skipped.  After
\* VERIFIED one of the three steps below follows.
GitHubDeclines(g) ==
    /\ sweep[g].pc = "asking"
    /\ Record(g) /\ GoesOn(g)
    /\ UNCHANGED item

\* Mutant of StillToAccept: the runs are not read again.
StillInReview(g) ==
    LET i == Current(g) IN item[i].st = "REVIEW" /\ ~item[i].intermittent

\* What the acceptance re-reads under the lock.
StillToAccept(g) ==
    LET i == Current(g)
    IN  item[i].st = "REVIEW" /\ item[i].run = sweep[g].run /\ ~item[i].intermittent

\* People take run r of item i over: sweeps already past their look do not know.
TakenOver(i, s) ==
    [g \in Sweep |-> IF s[g].pc = "asking" /\ Head(s[g].list).item = i
                     THEN [s[g] EXCEPT !.late = TRUE] ELSE s[g]]

GateAccepts(g) ==
    LET i == Current(g)
    IN  /\ sweep[g].pc = "asking" /\ StillToAccept(g) /\ ~item[i].blocked
        /\ item' = [item EXCEPT ![i].st = "COMPLETED", ![i].theirs = @ \cup {sweep[g].run}]
        /\ Evaluated(i)
        /\ sweep' = [TakenOver(i, sweep) EXCEPT ![g] = Next1(sweep[g])]

\* A person or a new run got there first: nothing is written, not even an evaluation.
GateLeavesIt(g) ==
    /\ sweep[g].pc = "asking" /\ ~StillToAccept(g)
    /\ GoesOn(g)
    /\ UNCHANGED <<item, order, recent>>

\* assertIncidentMayClose throws out of the transaction, and nothing in the sweep
\* catches it: the rest of the batch is dropped.
GateThrows(g) ==
    /\ sweep[g].pc = "asking" /\ StillToAccept(g) /\ item[Current(g)].blocked
    /\ sweep' = [sweep EXCEPT ![g] = NoSweep]
    /\ UNCHANGED <<item, order, recent>>

\* BUG_GATE_RETRY_MS after the evaluation made longest ago.
WindowPasses ==
    /\ recent # {}
    /\ LET oldest == CHOOSE i \in recent :
               \A j \in recent : \A m, n \in DOMAIN order : (order[m] = i /\ order[n] = j) => m <= n
       IN  recent' = recent \ {oldest}
    /\ UNCHANGED <<item, order, sweep>>

-----------------------------------------------------------------------------
(* People and executors *)

ReportStarted(i) ==
    /\ item[i].st = "open" /\ item[i].run < MaxItemRuns[i]
    /\ item' = [item EXCEPT ![i].run = @ + 1, ![i].done = FALSE]
    /\ UNCHANGED <<order, recent, sweep>>

\* A person may have moved the item to Review before its run is completed.
ReportCompleted(i) ==
    /\ item[i].st \in {"open", "REVIEW"} /\ item[i].run > 0 /\ ~item[i].done
    /\ item' = [item EXCEPT ![i].done = TRUE, ![i].st = "REVIEW"]
    /\ UNCHANGED <<order, recent, sweep>>

\* A person's review; an incident is accepted only with its follow-ups.
PersonAccepts(i) ==
    /\ item[i].st = "REVIEW" /\ ~item[i].blocked
    /\ item' = [item EXCEPT ![i].st = "COMPLETED"]
    /\ UNCHANGED <<order, recent, sweep>>
PersonReturns(i) ==
    /\ item[i].st = "REVIEW"
    /\ item' = [item EXCEPT ![i].st = "open", ![i].theirs = @ \cup (1 .. item[i].run)]
    /\ sweep' = TakenOver(i, sweep)
    /\ UNCHANGED <<order, recent>>

\* A person moves the item, by hand or with Reopen.
PersonMoves(i, s) ==
    /\ item[i].st # s /\ (s = "COMPLETED" => ~item[i].blocked)
    /\ item' = [item EXCEPT ![i].st = s]
    /\ UNCHANGED <<order, recent, sweep>>

\* A person corrects the reproducibility, or adds the follow-ups of an incident.
MarkIntermittent(i) ==
    /\ i \in Bug /\ ~item[i].intermittent
    /\ item' = [item EXCEPT ![i].intermittent = TRUE]
    /\ UNCHANGED <<order, recent, sweep>>
AddFollowUps(i) ==
    /\ item[i].blocked
    /\ item' = [item EXCEPT ![i].blocked = FALSE]
    /\ UNCHANGED <<order, recent, sweep>>

GateStep(g) == \/ SweepBegins(g) \/ Skip(g) \/ Ask(g) \/ GitHubDeclines(g)
               \/ GateAccepts(g) \/ GateLeavesIt(g) \/ GateThrows(g)

People == \E i \in Item : \/ ReportStarted(i) \/ ReportCompleted(i) \/ PersonAccepts(i) \/ PersonReturns(i)
                          \/ \E s \in {"open", "REVIEW", "COMPLETED"} : PersonMoves(i, s)
                          \/ MarkIntermittent(i) \/ AddFollowUps(i)

GateNext == People \/ WindowPasses \/ \E g \in Sweep : GateStep(g)

GateSpec == GateInit /\ [][GateNext]_gateVars

\* The five-minute timer of every replica fires, a sweep under way goes on (GitHub's
\* answer has a timeout), and time passes.
GateFairSpec == GateSpec /\ WF_gateVars(WindowPasses) /\ \A g \in Sweep : WF_gateVars(GateStep(g))

-----------------------------------------------------------------------------
(* Properties *)

\* Sweep g, waiting for GitHub's answer on item i, goes on and i is closed.
AcceptedBy(g, i) == /\ item[i].st # "COMPLETED" /\ item'[i].st = "COMPLETED"
                    /\ sweep[g].pc = "asking" /\ Current(g) = i /\ sweep'[g].pc # "asking"

\* The gate never closes an item over what people and executors did while GitHub was
\* answering: what it accepts is in Review, not intermittent, and the run it accepts
\* is the newest one (bug-auto-accept.ts, the re-read under the lock).
AcceptsWhatStands ==
    [][\A g \in Sweep, i \in Item : AcceptedBy(g, i) =>
          /\ item[i].st = "REVIEW" /\ ~item[i].intermittent /\ item[i].done
          /\ item'[i].theirs = item[i].theirs \cup {item[i].run}]_gateVars

\* A run people had taken back before a sweep looked at it is not accepted by that
\* sweep: the gate decides a run once, as far as its look reaches.
TakenBackStaysWithPeople ==
    [][\A g \in Sweep, i \in Item :
          AcceptedBy(g, i) /\ item[i].run \in item[i].theirs => sweep[g].late]_gateVars

Quiet == <>[][~People]_gateVars

\* Items that wait for a person never crowd out the rest: once people leave the items
\* alone and no unfinished incident is in Review, every item that rests in Review is
\* evaluated again and again, however small the batch.
NobodyCrowdedOut ==
    (Quiet /\ <>[](\A i \in Item : item[i].st = "REVIEW" => ~item[i].blocked)) =>
        \A i \in Item : <>[](item[i].st = "REVIEW") => []<>(i \in recent)
=============================================================================
