-------------------------- MODULE EventOutboxProofs --------------------------
(***************************************************************************)
(* Proofs about EventOutbox, for any number of events, of flushes that       *)
(* overlap, crash and stall, and of targets.  OutboxSound below is the       *)
(* inductive invariant; PromiseSound, further down, is what the refinement   *)
(* of AtLeastOnce needs beside it.                                           *)
(***************************************************************************)
EXTENDS EventOutbox, FiniteSetTheorems, SequenceTheorems, NaturalsInduction,
        WellFoundedInduction, TLAPS

-----------------------------------------------------------------------------
(* The inductive invariant *)

Tried(e, t) == rows[e][t] # None
Done(e, t) == Tried(e, t) /\ rows[e][t].delivered

(* What a flush remembers of its event is in the delivery rows: an answer it  *)
(* has still to record is of a row it wrote, an outcome it holds was          *)
(* recorded, and a success stays one.                                        *)
HandlesOne(w) == flush[w].step \in {"deliver", "close", "account"} => flush[w].todo # <<>>
Unstarted(w) ==
    flush[w].step \in {"idle", "next"} =>
        \A t \in Targets : flush[w].posted[t] = None /\ flush[w].outcome[t] = None
PostsPending(w) ==
    \A t \in Targets : flush[w].posted[t] # None =>
        /\ flush[w].step = "deliver" /\ flush[w].outcome[t] = None
        /\ t \in TargetsOf(w) /\ Tried(Current(w), t)
OutcomesRecorded(w) ==
    \A t \in Targets :
        /\ flush[w].outcome[t] # None => Tried(Current(w), t)
        /\ flush[w].outcome[t] = "ok" => Done(Current(w), t)

(* The verdict a flush is about to write still holds: for a success, always;  *)
(* for a dead letter, unless the claim was stolen meanwhile.                  *)
VerdictHolds(w) ==
    flush[w].step = "close" =>
        /\ flush[w].verdict = "delivered" => \A t \in TargetsOf(w) : Done(Current(w), t)
        /\ flush[w].verdict = "dead" =>
              \/ stolen[Current(w)]
              \/ \A t \in TargetsOf(w) : Tried(Current(w), t) /\ Resolved(rows[Current(w)][t])

FlushSound(w) ==
    HandlesOne(w) /\ Unstarted(w) /\ PostsPending(w) /\ OutcomesRecorded(w) /\ VerdictHolds(w)

(* Only an open event is claimed, and unless its claim was stolen the flush   *)
(* that delivers it is the one that holds the claim.                         *)
ClaimedIsOpen(e) == claimedBy[e] # None => status[e] = "open"
HolderDelivers(e) == \A w \in Workers : Delivering(w, e) /\ ~stolen[e] => claimedBy[e] = w

(* Without an excuse, a POST that a receiver took is the only one, and is     *)
(* recorded or about to be.                                                 *)
InFlight(e, t) ==
    \E w \in Workers :
        Delivering(w, e) /\ flush[w].posted[t] # None /\ flush[w].posted[t].answer = "ok"
TakenOnce(e) ==
    ~stolen[e] /\ ~excused[e] =>
        \A t \in Targets : /\ accepted[e][t] <= 1
                           /\ accepted[e][t] = 1 => Done(e, t) \/ InFlight(e, t)

EventSound(e) == ClaimedIsOpen(e) /\ HolderDelivers(e) /\ TakenOnce(e)

OutboxSound ==
    /\ TypeOK
    /\ \A w \in Workers : FlushSound(w)
    /\ \A e \in Events : EventSound(e)

-----------------------------------------------------------------------------
(* Helpers *)

Below == {p \in Nat \X Nat : p[1] < p[2]}

LEMMA BelowIsWellFounded == IsWellFoundedOn(Below, Nat)
  <1>1. Below = OpToRel(<, Nat)
    BY Zenon DEF Below, OpToRel
  <1> QED BY <1>1, NatLessThanWellFounded, Zenon

(* A nonempty set of numbers has a least element.                            *)
LEMMA LeastExists ==
  ASSUME NEW T \in SUBSET Nat, T # {}
  PROVE  \E x \in T : \A y \in T : x <= y
  <1>1. PICK x \in T : \A y \in T : ~(<<y, x>> \in Below)
    BY BelowIsWellFounded, WFMin, Zenon
  <1>2. \A a, b \in Nat : a < b => <<a, b>> \in Below
    BY DEF Below
  <1>3. \A y \in T : ~(y < x)
    BY <1>1, <1>2
  <1>4. x \in Nat /\ T \subseteq Nat
    OBVIOUS
  <1> QED BY <1>3, <1>4

(* A bounded nonempty set of numbers has a greatest element.                  *)
LEMMA GreatestExists ==
  ASSUME NEW T \in SUBSET Nat, T # {}, NEW n \in Nat, \A x \in T : x <= n
  PROVE  \E x \in T : \A y \in T : y <= x
  <1> DEFINE U == {m \in Nat : \A y \in T : y <= m}
  <1>1. U \in SUBSET Nat /\ U # {}
    BY DEF U
  <1>2. PICK m \in U : \A k \in U : m <= k
    BY <1>1, LeastExists
  <1>3. m \in T
    <2> SUFFICES ASSUME m \notin T PROVE FALSE
      OBVIOUS
    <2>1. \A y \in T : y \in Nat /\ y <= m /\ y # m
      BY <1>2 DEF U
    <2>2. m \in Nat /\ m > 0
      <3>1. PICK y \in T : TRUE
        OBVIOUS
      <3> QED BY <1>2, <2>1, <3>1 DEF U
    <2>3. m - 1 \in U
      BY <2>1, <2>2 DEF U
    <2> QED BY <1>2, <2>2, <2>3
  <1> QED BY <1>2, <1>3 DEF U

LEMMA EventsFinite ==
  ASSUME NEW S \in SUBSET Events
  PROVE  IsFiniteSet(S) /\ Cardinality(S) \in Nat
  <1>1. MaxEvents \in Int /\ 1 \in Int
    BY OutboxAssumption
  <1>2. IsFiniteSet(1 .. MaxEvents)
    BY <1>1, FS_Interval
  <1> QED BY <1>2, FS_Subset, FS_CardinalityType DEF Events

Increasing(s) == \A i, j \in DOMAIN s : i < j => s[i] < s[j]
Listings(S) == {s \in [1 .. Cardinality(S) -> S] : Increasing(s)}

(* Any set of events can be listed by age: take the smallest set that could   *)
(* not, and list all of it but its youngest event first.                     *)
LEMMA ListingExists ==
  ASSUME NEW S \in SUBSET Events
  PROVE  Listings(S) # {}
  <1> DEFINE Bad == {n \in Nat : \E R \in SUBSET Events : Cardinality(R) = n /\ Listings(R) = {}}
  <1> SUFFICES ASSUME Bad # {} PROVE FALSE
    BY EventsFinite DEF Bad
  <1>1. PICK n \in Bad : \A k \in Bad : n <= k
    <2>1. Bad \in SUBSET Nat
      OBVIOUS
    <2> QED BY <2>1, LeastExists
  <1>2. PICK R \in SUBSET Events : Cardinality(R) = n /\ Listings(R) = {}
    BY <1>1
  <1>3. n \in Nat
    BY <1>1
  <1>4. R # {}
    <2> SUFFICES ASSUME R = {} PROVE FALSE
      OBVIOUS
    <2>1. Cardinality(R) = 0
      BY FS_EmptySet
    <2>2. [i \in 1 .. 0 |-> i] \in [1 .. 0 -> R]
      OBVIOUS
    <2>3. Increasing([i \in 1 .. 0 |-> i])
      BY DEF Increasing
    <2> QED BY <1>2, <2>1, <2>2, <2>3 DEF Listings
  <1>5. R \in SUBSET Nat /\ \A x \in R : x <= MaxEvents
    BY OutboxAssumption DEF Events
  <1>6. PICK m \in R : \A y \in R : y <= m
    BY <1>4, <1>5, OutboxAssumption, GreatestExists
  <1> DEFINE Q == R \ {m}
  <1>7. Cardinality(Q) = n - 1 /\ n - 1 \in Nat /\ Q \in SUBSET Events
    <2>1. IsFiniteSet(R)
      BY EventsFinite
    <2>2. Cardinality(Q) = Cardinality(R) - 1
      BY <2>1, <1>6, FS_RemoveElement
    <2>3. Cardinality(Q) \in Nat
      BY EventsFinite
    <2> QED BY <1>2, <1>3, <2>2, <2>3
  <1>8. n - 1 \notin Bad
    BY <1>1, <1>3
  <1>9. PICK s \in [1 .. n - 1 -> Q] : Increasing(s)
    BY <1>7, <1>8 DEF Listings
  <1> DEFINE u == [i \in 1 .. n |-> IF i = n THEN m ELSE s[i]]
  <1>10. \A i \in 1 .. n : i # n => i \in 1 .. n - 1
    BY <1>3
  <1>11. u \in [1 .. n -> R]
    BY <1>6, <1>9, <1>10
  <1>12. ASSUME NEW i \in 1 .. n, NEW j \in 1 .. n, i < j
         PROVE  u[i] < u[j]
    <2>1. i \in 1 .. n - 1 /\ u[i] = s[i] /\ s[i] \in Q
      BY <1>3, <1>9, <1>10, <1>12
    <2>2. CASE j = n
      <3>1. s[i] \in Nat /\ m \in Nat /\ s[i] <= m /\ s[i] # m /\ u[j] = m
        BY <1>5, <1>6, <2>1, <2>2
      <3> QED BY <2>1, <3>1
    <2>3. CASE j # n
      <3>1. j \in 1 .. n - 1 /\ u[j] = s[j]
        BY <1>10, <2>3
      <3> QED BY <1>9, <1>12, <2>1, <3>1 DEF Increasing
    <2> QED BY <2>2, <2>3
  <1>13. Increasing(u)
    BY <1>11, <1>12 DEF Increasing
  <1> QED BY <1>2, <1>11, <1>13 DEF Listings

LEMMA InOrderType ==
  ASSUME NEW S \in SUBSET Events, S # {}
  PROVE  InOrder(S) \in Seq(Events) /\ InOrder(S) \in Seq(S) /\ InOrder(S) # <<>>
  <1>1. PICK s \in [1 .. Cardinality(S) -> S] : \A i, j \in DOMAIN s : i < j => s[i] < s[j]
    BY ListingExists DEF Listings, Increasing
  <1>2. InOrder(S) \in [1 .. Cardinality(S) -> S]
    BY <1>1 DEF InOrder
  <1>3. Cardinality(S) \in Nat /\ Cardinality(S) # 0
    BY EventsFinite, FS_EmptySet
  <1>4. InOrder(S) \in Seq(S) /\ Len(InOrder(S)) = Cardinality(S)
    BY <1>2, <1>3
  <1> QED BY <1>3, <1>4

-----------------------------------------------------------------------------
(* Types *)

LEMMA FlushFields ==
  ASSUME NEW f \in Flush
  PROVE  /\ f.step \in {"idle", "next", "deliver", "close", "account"}
         /\ f.todo \in Seq(Events) /\ f.reclaimable \in SUBSET Events
         /\ f.targets \in SUBSET Targets
         /\ f.posted \in [Targets -> Posted \cup {None}]
         /\ f.outcome \in [Targets -> Outcomes \cup {None}]
         /\ f.verdict \in {"open", "delivered", "dead"}
  BY DEF Flush

LEMMA IdleIsFlush == Idle \in Flush
  <1>1. <<>> \in Seq(Events)
    OBVIOUS
  <1> QED BY <1>1 DEF Idle, Flush

(* A flush that holds an event holds one of the outbox.                       *)
LEMMA CurrentType ==
  ASSUME TypeOK, NEW w \in Workers, flush[w].todo # <<>>
  PROVE  /\ Current(w) \in Events /\ Tail(flush[w].todo) \in Seq(Events)
         /\ flush[w] \in Flush /\ TargetsOf(w) \subseteq Targets
  <1>1. flush[w] \in Flush
    BY DEF TypeOK
  <1>2. flush[w].todo \in Seq(Events) /\ flush[w].targets \subseteq Targets
    BY <1>1, FlushFields
  <1>3. TargetsOf(w) \subseteq Targets
    BY <1>2 DEF TargetsOf
  <1> QED BY <1>1, <1>2, <1>3, HeadTailProperties DEF Current

LEMMA NextEventType ==
  ASSUME TypeOK, NEW w \in Workers, flush[w].todo # <<>>
  PROVE  /\ NextEvent(w) \in Flush /\ NextEvent(w).step = "next"
         /\ NextEvent(w).posted = [t \in Targets |-> None]
         /\ NextEvent(w).outcome = [t \in Targets |-> None]
  <1>1. /\ Tail(flush[w].todo) \in Seq(Events) /\ flush[w].reclaimable \in SUBSET Events
        /\ flush[w].targets \in SUBSET Targets
    BY CurrentType, FlushFields
  <1> QED BY <1>1 DEF NextEvent, Idle, Flush

LEMMA RecordedType ==
  ASSUME NEW row \in Delivery, NEW p \in Posted
  PROVE  /\ RecordedRow(row, p) \in Delivery /\ RecordedRow(row, p) # None
         /\ RecordedOutcome(p) \in Outcomes /\ RecordedOutcome(p) # None
         /\ row.delivered => RecordedRow(row, p).delivered
         /\ RecordedOutcome(p) = "ok" => RecordedRow(row, p).delivered
         /\ p.answer = "ok" => RecordedRow(row, p).delivered
  <1>1. /\ p.attempt \in 0 .. MAX_DELIVERY_ATTEMPTS
        /\ MAX_DELIVERY_ATTEMPTS \in 0 .. MAX_DELIVERY_ATTEMPTS
        /\ p.answer \in Answers
    BY OutboxAssumption DEF Posted
  <1>2. RecordedRow(row, p) \in Delivery
    BY <1>1 DEF RecordedRow, Delivery
  <1>3. RecordedOutcome(p) \in Outcomes
    BY DEF RecordedOutcome, Outcomes
  <1>4. row.delivered => RecordedRow(row, p).delivered
    BY DEF RecordedRow, Delivery
  <1>5. p.answer = "ok" => RecordedRow(row, p).delivered
    BY DEF RecordedRow
  <1>6. RecordedOutcome(p) = "ok" => p.answer = "ok"
    BY DEF RecordedOutcome
  <1> QED BY <1>2, <1>3, <1>4, <1>5, <1>6, OutboxAssumption

-----------------------------------------------------------------------------
(* What a step leaves alone *)

(* The flush goes on with the same event; its list of aged claims may shrink. *)
SameWork(v) ==
    /\ flush'[v].step = flush[v].step /\ flush'[v].todo = flush[v].todo
    /\ flush'[v].targets = flush[v].targets /\ flush'[v].posted = flush[v].posted
    /\ flush'[v].outcome = flush[v].outcome /\ flush'[v].verdict = flush[v].verdict

(* Delivery rows are never removed, and a success is never taken back.        *)
RowsStay ==
    \A e \in Events, t \in Targets : (Tried(e, t) => Tried(e, t)') /\ (Done(e, t) => Done(e, t)')

ResolvedStays(e) ==
    \A t \in Targets : Tried(e, t) /\ Resolved(rows[e][t]) => Resolved(rows'[e][t])

LEMMA FlushFrame ==
  ASSUME TypeOK, NEW v \in Workers, FlushSound(v), SameWork(v), RowsStay,
         \A e \in Events : stolen[e] => stolen'[e],
         flush[v].step = "close" => stolen'[Current(v)] \/ ResolvedStays(Current(v))
  PROVE  FlushSound(v)'
  <1>1. Current(v)' = Current(v) /\ TargetsOf(v)' = TargetsOf(v)
    BY DEF SameWork, Current, TargetsOf
  <1>2. HandlesOne(v)' /\ Unstarted(v)'
    BY DEF SameWork, FlushSound, HandlesOne, Unstarted
  <1>3. CASE flush[v].step \in {"idle", "next"}
    <2>1. \A t \in Targets : flush'[v].posted[t] = None /\ flush'[v].outcome[t] = None
      BY <1>3 DEF SameWork, FlushSound, Unstarted
    <2>2. None # "ok"
      BY OutboxAssumption DEF Outcomes
    <2>3. PostsPending(v)' /\ OutcomesRecorded(v)'
      BY <2>1, <2>2 DEF PostsPending, OutcomesRecorded
    <2>4. VerdictHolds(v)'
      BY <1>3 DEF SameWork, VerdictHolds
    <2> QED BY <1>2, <2>3, <2>4 DEF FlushSound
  <1>4. CASE flush[v].step \in {"deliver", "close", "account"}
    <2>1. Current(v) \in Events /\ TargetsOf(v) \subseteq Targets
      BY <1>4, CurrentType DEF FlushSound, HandlesOne
    <2>2. PostsPending(v)'
      BY <1>1, <2>1 DEF SameWork, RowsStay, FlushSound, PostsPending, Tried
    <2>3. OutcomesRecorded(v)'
      BY <1>1, <2>1 DEF SameWork, RowsStay, FlushSound, OutcomesRecorded, Tried, Done
    <2>4. VerdictHolds(v)'
      <3> SUFFICES ASSUME flush[v].step = "close" PROVE VerdictHolds(v)'
        BY DEF SameWork, VerdictHolds
      <3>1. flush'[v].verdict = "delivered" => \A t \in TargetsOf(v)' : Done(Current(v), t)'
        BY <1>1, <2>1 DEF SameWork, RowsStay, FlushSound, VerdictHolds, Done, Tried
      <3>2. flush'[v].verdict = "dead" =>
              \/ stolen'[Current(v)]
              \/ \A t \in TargetsOf(v) : rows'[Current(v)][t] # None /\ Resolved(rows'[Current(v)][t])
        BY <1>1, <2>1 DEF SameWork, RowsStay, ResolvedStays, FlushSound, VerdictHolds, Tried
      <3> QED BY <1>1, <3>1, <3>2 DEF VerdictHolds, Done, Tried, Resolved, Exhausted
    <2> QED BY <1>2, <2>2, <2>3, <2>4 DEF FlushSound
  <1> QED BY <1>3, <1>4, FlushFields DEF TypeOK

(* An event whose claim and whose count of POSTs a step leaves alone, the     *)
(* step being one of flush w (or of none, when w is no worker).               *)
LEMMA EventFrame ==
  ASSUME NEW e \in Events, EventSound(e), NEW w,
         \A v \in Workers \ {w} : SameWork(v), RowsStay,
         status'[e] = status[e], claimedBy'[e] = claimedBy[e], accepted'[e] = accepted[e],
         stolen'[e] = stolen[e], excused[e] => excused'[e],
         Delivering(w, e)' => Delivering(w, e),
         \A t \in Targets :
             (/\ w \in Workers /\ Delivering(w, e)
              /\ flush[w].posted[t] # None /\ flush[w].posted[t].answer = "ok") =>
             \/ excused'[e] \/ Done(e, t)'
             \/ Delivering(w, e)' /\ flush'[w].posted[t] = flush[w].posted[t]
  PROVE  EventSound(e)'
  <1>1. \A v \in Workers \ {w} : Delivering(v, e)' = Delivering(v, e)
    BY DEF SameWork, Delivering, Current
  <1>2. ClaimedIsOpen(e)'
    BY DEF EventSound, ClaimedIsOpen
  <1>3. HolderDelivers(e)'
    BY <1>1 DEF EventSound, HolderDelivers
  <1>4. TakenOnce(e)'
    <2> SUFFICES ASSUME ~stolen[e], ~excused'[e], NEW t \in Targets
                 PROVE  /\ accepted[e][t] <= 1
                        /\ accepted[e][t] = 1 => Done(e, t)' \/ InFlight(e, t)'
      BY DEF TakenOnce
    <2>1. /\ accepted[e][t] <= 1
          /\ accepted[e][t] = 1 => Done(e, t) \/ InFlight(e, t)
      BY DEF EventSound, TakenOnce
    <2>2. ASSUME InFlight(e, t) PROVE Done(e, t)' \/ InFlight(e, t)'
      <3>1. PICK v \in Workers : /\ Delivering(v, e) /\ flush[v].posted[t] # None
                                 /\ flush[v].posted[t].answer = "ok"
        BY <2>2 DEF InFlight
      <3>2. CASE v = w
        BY <3>1, <3>2 DEF InFlight
      <3>3. CASE v # w
        BY <1>1, <3>1, <3>3 DEF InFlight, SameWork
      <3> QED BY <3>2, <3>3
    <2> QED BY <2>1, <2>2 DEF RowsStay
  <1> QED BY <1>2, <1>3, <1>4 DEF EventSound

(* A step that leaves every claim and every count alone.                      *)
LEMMA WorkKeeps ==
  ASSUME OutboxSound, TypeOK', NEW w,
         \A v \in Workers \ {w} : SameWork(v),
         w \in Workers => FlushSound(w)',
         RowsStay, UNCHANGED <<claimedBy, status, accepted, stolen>>,
         \A e \in Events : excused[e] => excused'[e],
         \A e \in Events : Delivering(w, e)' => Delivering(w, e),
         \A e \in Events, t \in Targets :
             (/\ w \in Workers /\ Delivering(w, e)
              /\ flush[w].posted[t] # None /\ flush[w].posted[t].answer = "ok") =>
             \/ excused'[e] \/ Done(e, t)'
             \/ Delivering(w, e)' /\ flush'[w].posted[t] = flush[w].posted[t],
         \A v \in Workers \ {w} :
             flush[v].step = "close" => stolen[Current(v)] \/ ResolvedStays(Current(v))
  PROVE  OutboxSound'
  <1>0. TypeOK /\ (\A v \in Workers : FlushSound(v)) /\ (\A e \in Events : EventSound(e))
    BY DEF OutboxSound
  <1>1. \A v \in Workers : FlushSound(v)'
    BY <1>0, FlushFrame
  <1>2. ASSUME NEW e \in Events PROVE EventSound(e)'
    <2>1. EventSound(e)
      BY <1>0
    <2> QED BY <2>1, EventFrame
  <1> QED BY <1>1, <1>2 DEF OutboxSound

(* The same, when the delivery rows stay as they are too.                     *)
LEMMA SameRows ==
  ASSUME rows' = rows
  PROVE  RowsStay /\ \A e : ResolvedStays(e)
  BY DEF RowsStay, ResolvedStays, Tried, Done

(* A flush with nothing under way has nothing to keep.                        *)
LEMMA UnstartedIsSound ==
  ASSUME NEW w \in Workers, flush'[w].step \in {"idle", "next"},
         flush'[w].posted = [t \in Targets |-> None],
         flush'[w].outcome = [t \in Targets |-> None]
  PROVE  FlushSound(w)' /\ \A e : ~Delivering(w, e)'
  <1>1. None # "ok"
    BY OutboxAssumption DEF Outcomes
  <1>2. \A t \in Targets : flush'[w].posted[t] = None /\ flush'[w].outcome[t] = None
    OBVIOUS
  <1>3. HandlesOne(w)' /\ Unstarted(w)' /\ PostsPending(w)' /\ OutcomesRecorded(w)' /\ VerdictHolds(w)'
    BY <1>1, <1>2 DEF HandlesOne, Unstarted, PostsPending, OutcomesRecorded, VerdictHolds
  <1> QED BY <1>3 DEF FlushSound, Delivering

-----------------------------------------------------------------------------
(* Steps of a flush that write no delivery row *)

(* A flush that starts an event, gives it up or ends keeps nothing of it.     *)
LEMMA ResetKeeps ==
  ASSUME OutboxSound, NEW w \in Workers, NEW g \in Flush,
         flush' = [flush EXCEPT ![w] = g], g.step \in {"idle", "next"},
         g.posted = [t \in Targets |-> None], g.outcome = [t \in Targets |-> None],
         UNCHANGED <<enqueued, status, claimedBy, aged, rows, accepted, stolen>>,
         failures' \in [Targets -> 0 .. Threshold], enabled' \in [Targets -> BOOLEAN],
         excused' \in [Events -> BOOLEAN],
         \A e \in Events : excused[e] => excused'[e],
         \A e \in Events, t \in Targets :
             Delivering(w, e) /\ flush[w].posted[t] # None => excused'[e]
  PROVE  OutboxSound'
  <1>1. TypeOK /\ TypeOK'
    BY DEF OutboxSound, TypeOK
  <1>2. flush'[w] = g /\ \A v \in Workers \ {w} : flush'[v] = flush[v]
    BY <1>1 DEF TypeOK
  <1>3. \A v \in Workers \ {w} : SameWork(v)
    BY <1>2 DEF SameWork
  <1>4. FlushSound(w)' /\ \A e \in Events : ~Delivering(w, e)'
    BY <1>2, UnstartedIsSound
  <1>5. RowsStay /\ \A e : ResolvedStays(e)
    BY SameRows
  <1> QED BY <1>1, <1>3, <1>4, <1>5, WorkKeeps

LEMMA FlushStartKeeps ==
  ASSUME OutboxSound, NEW w \in Workers, FlushStart(w)
  PROVE  OutboxSound'
  <1> DEFINE due == {e \in Batch : Due(e)}
             g == [Idle EXCEPT !.step = "next", !.todo = InOrder(due),
                               !.reclaimable = {e \in Batch : claimedBy[e] # None},
                               !.targets = {t \in Targets : enabled[t]}]
  <1>0. TypeOK
    BY DEF OutboxSound
  <1>1. Batch \subseteq Events
    BY <1>0, OutboxAssumption DEF Batch, Pending, Events, TypeOK
  <1>2. due \in SUBSET Events /\ due # {}
    BY <1>1 DEF FlushStart
  <1>3. InOrder(due) \in Seq(Events)
    BY <1>2, InOrderType
  <1>4. flush' = [flush EXCEPT ![w] = g]
    BY DEF FlushStart
  <1>5. {e \in Batch : claimedBy[e] # None} \in SUBSET Events
    BY <1>1
  <1> HIDE DEF due
  <1>6. g \in Flush /\ g.step = "next" /\ g.posted = [t \in Targets |-> None]
        /\ g.outcome = [t \in Targets |-> None]
    BY <1>3, <1>5 DEF Flush, Idle
  <1>7. \A e : ~Delivering(w, e)
    BY DEF FlushStart, Delivering
  <1>8. UNCHANGED <<enqueued, status, claimedBy, aged, rows, failures, enabled, accepted, stolen, excused>>
    BY DEF FlushStart
  <1>9. /\ failures' \in [Targets -> 0 .. Threshold] /\ enabled' \in [Targets -> BOOLEAN]
        /\ excused' \in [Events -> BOOLEAN]
    BY <1>0, <1>8 DEF TypeOK
  <1> HIDE DEF g
  <1> QED BY <1>4, <1>6, <1>7, <1>8, <1>9, ResetKeeps

LEMMA SkipKeeps ==
  ASSUME OutboxSound, NEW w \in Workers, Skip(w)
  PROVE  OutboxSound'
  <1> DEFINE g == [flush[w] EXCEPT !.todo = Tail(@)]
  <1>0. TypeOK /\ flush[w] \in Flush /\ flush[w].todo # <<>> /\ flush[w].step = "next"
    BY DEF OutboxSound, TypeOK, Skip
  <1>1. Tail(flush[w].todo) \in Seq(Events)
    BY <1>0, CurrentType
  <1>2. /\ flush[w].posted \in [Targets -> Posted \cup {None}]
        /\ flush[w].outcome \in [Targets -> Outcomes \cup {None}]
    BY <1>0, FlushFields
  <1>3. \A t \in Targets : flush[w].posted[t] = None /\ flush[w].outcome[t] = None
    BY <1>0 DEF OutboxSound, FlushSound, Unstarted
  <1>4. flush[w].posted = [t \in Targets |-> None] /\ flush[w].outcome = [t \in Targets |-> None]
    BY <1>2, <1>3
  <1>5. g \in Flush /\ g.step = "next" /\ g.posted = flush[w].posted /\ g.outcome = flush[w].outcome
    BY <1>0, <1>1 DEF Flush
  <1>6. flush' = [flush EXCEPT ![w] = g]
    BY DEF Skip
  <1>7. UNCHANGED <<enqueued, status, claimedBy, aged, rows, failures, enabled, accepted, stolen, excused>>
    BY DEF Skip
  <1>8. /\ failures' \in [Targets -> 0 .. Threshold] /\ enabled' \in [Targets -> BOOLEAN]
        /\ excused' \in [Events -> BOOLEAN]
    BY <1>0, <1>7 DEF TypeOK
  <1>9. \A e : ~Delivering(w, e)
    BY <1>0 DEF Delivering
  <1> HIDE DEF g
  <1> QED BY <1>4, <1>5, <1>6, <1>7, <1>8, <1>9, ResetKeeps

LEMMA FlushEndKeeps ==
  ASSUME OutboxSound, NEW w \in Workers, FlushEnd(w)
  PROVE  OutboxSound'
  <1>1. /\ flush' = [flush EXCEPT ![w] = Idle] /\ TypeOK
        /\ UNCHANGED <<enqueued, status, claimedBy, aged, rows, failures, enabled, accepted, stolen, excused>>
    BY DEF FlushEnd, OutboxSound
  <1>2. /\ failures' \in [Targets -> 0 .. Threshold] /\ enabled' \in [Targets -> BOOLEAN]
        /\ excused' \in [Events -> BOOLEAN]
    BY <1>1 DEF TypeOK
  <1>3. \A e : ~Delivering(w, e)
    BY DEF FlushEnd, Delivering
  <1>4. /\ Idle.step = "idle" /\ Idle.posted = [t \in Targets |-> None]
        /\ Idle.outcome = [t \in Targets |-> None]
    BY DEF Idle
  <1> QED BY <1>1, <1>2, <1>3, <1>4, IdleIsFlush, ResetKeeps

(* The flush that crashes loses the answers it had not recorded.              *)
LEMMA CrashKeeps ==
  ASSUME OutboxSound, NEW w \in Workers, Crash(w)
  PROVE  OutboxSound'
  <1>1. /\ flush' = [flush EXCEPT ![w] = Idle] /\ TypeOK
        /\ UNCHANGED <<enqueued, status, claimedBy, aged, rows, failures, enabled, accepted, stolen>>
        /\ excused' = [e \in Events |-> excused[e] \/
                     (Delivering(w, e) /\ \E t \in Targets : flush[w].posted[t] # None)]
    BY DEF Crash, OutboxSound
  <1>2. /\ failures' \in [Targets -> 0 .. Threshold] /\ enabled' \in [Targets -> BOOLEAN]
    BY <1>1 DEF TypeOK
  <1>3. excused' \in [Events -> BOOLEAN]
    BY <1>1, Zenon
  <1>4. \A e \in Events : excused[e] => excused'[e]
    BY <1>1
  <1>5. \A e \in Events, t \in Targets : Delivering(w, e) /\ flush[w].posted[t] # None => excused'[e]
    BY <1>1
  <1>6. /\ Idle.step = "idle" /\ Idle.posted = [t \in Targets |-> None]
        /\ Idle.outcome = [t \in Targets |-> None]
    BY DEF Idle
  <1> QED BY <1>1, <1>2, <1>3, <1>4, <1>5, <1>6, IdleIsFlush, ResetKeeps

(* A flush that is about to close its event has recorded every answer.        *)
LEMMA NothingPosted ==
  ASSUME OutboxSound, NEW w \in Workers, flush[w].step # "deliver"
  PROVE  \A t \in Targets : flush[w].posted[t] = None
  BY DEF OutboxSound, FlushSound, PostsPending

LEMMA CloseLostKeeps ==
  ASSUME OutboxSound, NEW w \in Workers, CloseLost(w)
  PROVE  OutboxSound'
  <1>1. /\ flush' = [flush EXCEPT ![w] = NextEvent(w)] /\ TypeOK
        /\ flush[w].step = "close" /\ flush[w].todo # <<>>
        /\ UNCHANGED <<enqueued, status, claimedBy, aged, rows, failures, enabled, accepted, stolen, excused>>
    BY DEF CloseLost, OutboxSound, FlushSound, HandlesOne
  <1>2. /\ failures' \in [Targets -> 0 .. Threshold] /\ enabled' \in [Targets -> BOOLEAN]
        /\ excused' \in [Events -> BOOLEAN]
    BY <1>1 DEF TypeOK
  <1>3. \A t \in Targets : flush[w].posted[t] = None
    BY <1>1, NothingPosted
  <1> QED BY <1>1, <1>2, <1>3, NextEventType, ResetKeeps

LEMMA AccountKeeps ==
  ASSUME OutboxSound, NEW w \in Workers, Account(w)
  PROVE  OutboxSound'
  <1>1. /\ flush' = [flush EXCEPT ![w] = NextEvent(w)] /\ TypeOK
        /\ flush[w].step = "account" /\ flush[w].todo # <<>>
        /\ UNCHANGED <<enqueued, status, claimedBy, aged, rows, accepted, stolen, excused>>
    BY DEF Account, OutboxSound, FlushSound, HandlesOne
  <1>2. \A t \in Targets : Counted(w, t) \in 0 .. Threshold
    BY <1>1, OutboxAssumption DEF TypeOK, Counted
  <1>3. failures' \in [Targets -> 0 .. Threshold]
    BY <1>2 DEF Account
  <1>4. enabled' \in [Targets -> BOOLEAN]
    BY Zenon DEF Account
  <1>5. excused' \in [Events -> BOOLEAN]
    BY <1>1 DEF TypeOK
  <1>6. \A t \in Targets : flush[w].posted[t] = None
    BY <1>1, NothingPosted
  <1> QED BY <1>1, <1>3, <1>4, <1>5, <1>6, NextEventType, ResetKeeps

LEMMA EvaluateKeeps ==
  ASSUME OutboxSound, NEW w \in Workers, Evaluate(w)
  PROVE  OutboxSound'
  <1> DEFINE e == Current(w)
             g == [flush[w] EXCEPT !.step = "close", !.verdict = Verdict(w)]
  <1>0. /\ TypeOK /\ flush[w] \in Flush /\ flush[w].step = "deliver" /\ flush[w].todo # <<>>
        /\ FlushSound(w) /\ Answered(w)
    BY DEF OutboxSound, TypeOK, Evaluate, FlushSound, HandlesOne
  <1>1. e \in Events /\ TargetsOf(w) \subseteq Targets
    BY <1>0, CurrentType
  <1>2. Verdict(w) \in {"open", "delivered", "dead"}
    BY DEF Verdict
  <1>3. /\ g \in Flush /\ g.step = "close" /\ g.verdict = Verdict(w) /\ g.todo = flush[w].todo
        /\ g.targets = flush[w].targets /\ g.posted = flush[w].posted
        /\ g.outcome = flush[w].outcome
    BY <1>0, <1>2 DEF Flush
  <1>4. /\ flush' = [flush EXCEPT ![w] = g]
        /\ UNCHANGED <<enqueued, status, claimedBy, aged, rows, failures, enabled, accepted, stolen, excused>>
    BY DEF Evaluate
  <1> HIDE DEF g
  <1>5. flush'[w] = g /\ \A v \in Workers \ {w} : flush'[v] = flush[v]
    BY <1>0, <1>4 DEF TypeOK
  <1>6. \A t \in Targets : flush[w].posted[t] = None
    BY <1>0 DEF Answered, FlushSound, PostsPending
  <1>7. TypeOK'
    BY <1>0, <1>3, <1>4 DEF TypeOK
  <1>8. Current(w)' = e /\ TargetsOf(w)' = TargetsOf(w)
    BY <1>3, <1>5 DEF Current, TargetsOf
  <1>9. FlushSound(w)'
    <2>1. HandlesOne(w)' /\ Unstarted(w)' /\ PostsPending(w)'
      BY <1>0, <1>3, <1>5, <1>6 DEF HandlesOne, Unstarted, PostsPending
    <2>2. OutcomesRecorded(w)'
      BY <1>0, <1>3, <1>4, <1>5, <1>8 DEF FlushSound, OutcomesRecorded, Tried, Done
    <2>3. VerdictHolds(w)'
      <3>1. Verdict(w) = "delivered" => \A t \in TargetsOf(w) : Done(e, t)
        BY <1>0, <1>1 DEF Verdict, AllOk, FlushSound, OutcomesRecorded
      <3>2. Verdict(w) = "dead" => \A t \in TargetsOf(w) : Tried(e, t) /\ Resolved(rows[e][t])
        BY <1>0, <1>1 DEF Verdict, AllResolved, Answered, FlushSound, OutcomesRecorded
      <3>3. rows' = rows /\ flush'[w].verdict = Verdict(w)
        BY <1>3, <1>4, <1>5
      <3> HIDE DEF e
      <3> QED BY <1>8, <3>1, <3>2, <3>3 DEF VerdictHolds, Tried, Done, Resolved, Exhausted
    <2> QED BY <2>1, <2>2, <2>3 DEF FlushSound
  <1>10. \A v \in Workers \ {w} : SameWork(v)
    BY <1>5 DEF SameWork
  <1>11. RowsStay /\ \A x : ResolvedStays(x)
    BY <1>4, SameRows
  <1>12. \A x \in Events : Delivering(w, x)' => Delivering(w, x)
    BY <1>0, <1>8 DEF Delivering
  <1> QED BY <1>4, <1>6, <1>7, <1>9, <1>10, <1>11, <1>12, WorkKeeps

-----------------------------------------------------------------------------
(* Steps outside the flushes *)

LEMMA QuietKeeps ==
  ASSUME OutboxSound, TypeOK', RowsStay, \A e \in Events : ResolvedStays(e),
         UNCHANGED <<claimedBy, status, flush, accepted, stolen, excused>>
  PROVE  OutboxSound'
  <1>1. None \notin Workers /\ \A v \in Workers : SameWork(v)
    BY OutboxAssumption DEF SameWork
  <1>2. \A e \in Events : Delivering(None, e)' => Delivering(None, e)
    BY DEF Delivering, Current
  <1>3. \A v \in Workers : flush[v].step = "close" => Current(v) \in Events
    BY CurrentType DEF OutboxSound, FlushSound, HandlesOne
  <1> QED BY <1>1, <1>2, <1>3, WorkKeeps

LEMMA EnqueueKeeps ==
  ASSUME OutboxSound, EnqueueWorkEvent
  PROVE  OutboxSound'
  <1>1. TypeOK'
    BY OutboxAssumption DEF OutboxSound, TypeOK, EnqueueWorkEvent
  <1> QED BY <1>1, SameRows, QuietKeeps DEF EnqueueWorkEvent

LEMMA WebhookUpdateKeeps ==
  ASSUME OutboxSound, NEW t \in Targets, NEW on \in Switches, WebhookUpdate(t, on)
  PROVE  OutboxSound'
  <1>0. on \in BOOLEAN /\ 0 \in 0 .. Threshold /\ TypeOK
    BY OutboxAssumption DEF OutboxSound
  <1>1. TypeOK'
    BY <1>0 DEF TypeOK, WebhookUpdate
  <1> QED BY <1>1, SameRows, QuietKeeps DEF WebhookUpdate

LEMMA ClaimAgesKeeps ==
  ASSUME OutboxSound, NEW e \in Events, ClaimAges(e)
  PROVE  OutboxSound'
  <1>1. TypeOK'
    BY DEF OutboxSound, TypeOK, ClaimAges
  <1> QED BY <1>1, SameRows, QuietKeeps DEF ClaimAges

(* The row of one event and target takes the value x.                         *)
LEMMA RowWritten ==
  ASSUME TypeOK, NEW e \in Events, NEW t \in Targets, NEW x \in Delivery,
         rows' = [rows EXCEPT ![e][t] = x]
  PROVE  /\ rows' \in [Events -> [Targets -> Delivery \cup {None}]]
         /\ rows'[e][t] = x /\ x # None
         /\ \A f \in Events, u \in Targets : f # e \/ u # t => rows'[f][u] = rows[f][u]
  BY OutboxAssumption DEF TypeOK

LEMMA BackoffElapsesKeeps ==
  ASSUME OutboxSound, NEW e \in Events, NEW t \in Targets, BackoffElapses(e, t)
  PROVE  OutboxSound'
  <1>0. TypeOK /\ rows[e][t] \in Delivery
    BY DEF OutboxSound, BackoffElapses, TypeOK
  <1> DEFINE x == [rows[e][t] EXCEPT !.waiting = FALSE]
  <1>1. x \in Delivery /\ x.attempts = rows[e][t].attempts /\ x.delivered = rows[e][t].delivered
    BY <1>0 DEF Delivery
  <1>2. rows' = [rows EXCEPT ![e][t] = x]
    BY DEF BackoffElapses
  <1> HIDE DEF x
  <1>3. /\ rows' \in [Events -> [Targets -> Delivery \cup {None}]]
        /\ rows'[e][t] = x /\ x # None
        /\ \A f \in Events, u \in Targets : f # e \/ u # t => rows'[f][u] = rows[f][u]
    <2>1. TypeOK /\ x \in Delivery
      BY <1>0, <1>1
    <2> QED BY <1>2, <2>1, RowWritten
  <1>4. TypeOK'
    BY <1>0, <1>3 DEF TypeOK, BackoffElapses
  <1>5. RowsStay
    BY <1>1, <1>3 DEF RowsStay, Tried, Done
  <1>6. \A f \in Events : ResolvedStays(f)
    BY <1>1, <1>3 DEF ResolvedStays, Tried, Resolved, Exhausted
  <1> QED BY <1>4, <1>5, <1>6, QuietKeeps DEF BackoffElapses

-----------------------------------------------------------------------------
(* Delivering to a target *)

(* A flush that delivers holds an event; without a theft nobody else does.    *)
LEMMA DeliveringAlone ==
  ASSUME OutboxSound, NEW w \in Workers, flush[w].step \in {"deliver", "close"}
  PROVE  /\ TypeOK /\ FlushSound(w) /\ flush[w] \in Flush /\ flush[w].todo # <<>>
         /\ Current(w) \in Events /\ TargetsOf(w) \subseteq Targets
         /\ Delivering(w, Current(w))
         /\ ~stolen[Current(w)] =>
               /\ claimedBy[Current(w)] = w
               /\ \A v \in Workers : Delivering(v, Current(w)) => v = w
  <1>1. TypeOK /\ FlushSound(w) /\ flush[w].todo # <<>>
    BY DEF OutboxSound, FlushSound, HandlesOne
  <1>2. flush[w] \in Flush /\ Current(w) \in Events /\ TargetsOf(w) \subseteq Targets
    BY <1>1, CurrentType
  <1>3. Delivering(w, Current(w))
    BY DEF Delivering
  <1> QED BY <1>1, <1>2, <1>3 DEF OutboxSound, EventSound, HolderDelivers

(* Without a theft, nobody else is about to close the event.                  *)
LEMMA OthersResolved ==
  ASSUME OutboxSound, NEW w \in Workers, flush[w].step = "deliver",
         \A f \in Events \ {Current(w)} : ResolvedStays(f), NEW v \in Workers \ {w},
         flush[v].step = "close"
  PROVE  stolen[Current(v)] \/ ResolvedStays(Current(v))
  <1>1. Current(v) \in Events
    BY DeliveringAlone
  <1>2. CASE Current(v) # Current(w)
    BY <1>1, <1>2
  <1>3. CASE Current(v) = Current(w)
    <2>1. Delivering(v, Current(w))
      BY <1>3 DEF Delivering
    <2> QED BY <1>3, <2>1, DeliveringAlone
  <1> QED BY <1>2, <1>3

LEMMA RecordKeeps ==
  ASSUME OutboxSound, NEW w \in Workers, NEW t \in Targets, Record(w, t)
  PROVE  OutboxSound'
  <1>0. flush[w].step = "deliver" /\ flush[w].posted[t] # None
    BY DEF Record
  <1>1. PICK e \in Events : e = Current(w)
    BY <1>0, DeliveringAlone
  <1>2. /\ TypeOK /\ FlushSound(w) /\ flush[w] \in Flush /\ flush[w].todo # <<>>
        /\ TargetsOf(w) \subseteq Targets /\ Delivering(w, e)
    BY <1>0, <1>1, DeliveringAlone
  <1>3. /\ flush[w].posted \in [Targets -> Posted \cup {None}]
        /\ flush[w].outcome \in [Targets -> Outcomes \cup {None}]
    BY <1>2, FlushFields
  <1>4. PICK p \in Posted : p = flush[w].posted[t]
    BY <1>0, <1>3
  <1>5. Tried(e, t)
    BY <1>0, <1>1, <1>2 DEF FlushSound, PostsPending
  <1>6. PICK row \in Delivery : row = rows[e][t]
    BY <1>2, <1>5 DEF Tried, TypeOK
  <1> DEFINE x == RecordedRow(row, p)
             o == RecordedOutcome(p)
             g == [flush[w] EXCEPT !.posted = [@ EXCEPT ![t] = None],
                                   !.outcome = [@ EXCEPT ![t] = o]]
  <1>7. /\ x \in Delivery /\ x # None /\ o \in Outcomes /\ o # None
        /\ row.delivered => x.delivered
        /\ o = "ok" => x.delivered
        /\ p.answer = "ok" => x.delivered
    BY RecordedType
  <1>8. rows' = [rows EXCEPT ![e][t] = x]
    BY <1>1, <1>4, <1>6 DEF Record
  <1>9. flush' = [flush EXCEPT ![w] = g]
    BY <1>4 DEF Record
  <1>10. UNCHANGED <<enqueued, status, claimedBy, aged, failures, enabled, accepted, stolen, excused>>
    BY DEF Record
  <1> HIDE DEF x, o
  <1>11. /\ g \in Flush /\ g.step = "deliver" /\ g.todo = flush[w].todo
         /\ g.targets = flush[w].targets /\ g.verdict = flush[w].verdict
         /\ g.posted = [flush[w].posted EXCEPT ![t] = None]
         /\ g.outcome = [flush[w].outcome EXCEPT ![t] = o]
    BY <1>0, <1>2, <1>3, <1>7 DEF Flush
  <1> HIDE DEF g
  <1>12. flush'[w] = g /\ \A v \in Workers \ {w} : flush'[v] = flush[v]
    BY <1>2, <1>9 DEF TypeOK
  <1>13. /\ rows' \in [Events -> [Targets -> Delivery \cup {None}]]
         /\ rows'[e][t] = x /\ x # None
         /\ \A f \in Events, u \in Targets : f # e \/ u # t => rows'[f][u] = rows[f][u]
    <2>1. TypeOK /\ x \in Delivery
      BY <1>2, <1>7
    <2> QED BY <1>8, <2>1, RowWritten
  <1>14. TypeOK'
    BY <1>2, <1>9, <1>10, <1>11, <1>13 DEF TypeOK
  <1>15. RowsStay
    BY <1>6, <1>7, <1>13 DEF RowsStay, Tried, Done
  <1>16. Current(w)' = e /\ TargetsOf(w)' = TargetsOf(w)
    BY <1>1, <1>11, <1>12 DEF Current, TargetsOf
  <1>17. /\ \A u \in Targets : u # t => /\ flush'[w].posted[u] = flush[w].posted[u]
                                       /\ flush'[w].outcome[u] = flush[w].outcome[u]
         /\ flush'[w].posted[t] = None /\ flush'[w].outcome[t] = o
    BY <1>3, <1>11, <1>12
  <1>18. FlushSound(w)'
    <2>1. HandlesOne(w)' /\ Unstarted(w)' /\ VerdictHolds(w)'
      BY <1>2, <1>11, <1>12 DEF HandlesOne, Unstarted, VerdictHolds
    <2>2. PostsPending(w)'
      <3> SUFFICES ASSUME NEW u \in Targets, flush'[w].posted[u] # None
                   PROVE  /\ flush'[w].step = "deliver" /\ flush'[w].outcome[u] = None
                          /\ u \in TargetsOf(w)' /\ Tried(e, u)'
        BY <1>16 DEF PostsPending, Tried
      <3>1. u # t /\ flush[w].posted[u] # None
        BY <1>17
      <3>2. flush[w].outcome[u] = None /\ u \in TargetsOf(w) /\ Tried(e, u)
        BY <1>1, <1>2, <3>1 DEF FlushSound, PostsPending
      <3> QED BY <1>11, <1>12, <1>15, <1>16, <1>17, <3>1, <3>2 DEF RowsStay
    <2>3. OutcomesRecorded(w)'
      <3> SUFFICES ASSUME NEW u \in Targets
                   PROVE  /\ flush'[w].outcome[u] # None => Tried(e, u)'
                          /\ flush'[w].outcome[u] = "ok" => Done(e, u)'
        BY <1>16 DEF OutcomesRecorded, Tried, Done
      <3>1. CASE u = t
        BY <1>7, <1>13, <1>17, <3>1 DEF Tried, Done
      <3>2. CASE u # t
        BY <1>1, <1>2, <1>15, <1>17, <3>2 DEF FlushSound, OutcomesRecorded, RowsStay
      <3> QED BY <3>1, <3>2
    <2> QED BY <2>1, <2>2, <2>3 DEF FlushSound
  <1>19. \A v \in Workers \ {w} : SameWork(v)
    BY <1>12 DEF SameWork
  <1>20. \A f \in Events : Delivering(w, f) <=> f = e
    BY <1>0, <1>1 DEF Delivering
  <1>21. \A f \in Events : Delivering(w, f)' <=> f = e
    BY <1>11, <1>12, <1>16 DEF Delivering
  <1>22. ASSUME NEW f \in Events, NEW u \in Targets, Delivering(w, f),
                flush[w].posted[u] # None, flush[w].posted[u].answer = "ok"
         PROVE  Done(f, u)' \/ (Delivering(w, f)' /\ flush'[w].posted[u] = flush[w].posted[u])
    <2>1. CASE u = t
      <3>1. f = e /\ p.answer = "ok"
        BY <1>4, <1>20, <1>22, <2>1
      <3>2. x.delivered
        BY <1>7, <3>1
      <3> QED BY <1>13, <2>1, <3>1, <3>2 DEF Done, Tried
    <2>2. CASE u # t
      BY <1>17, <1>20, <1>21, <1>22, <2>2
    <2> QED BY <2>1, <2>2
  <1>23. \A f \in Events \ {Current(w)} : ResolvedStays(f)
    BY <1>1, <1>13 DEF ResolvedStays
  <1>24. \A v \in Workers \ {w} :
            flush[v].step = "close" => stolen[Current(v)] \/ ResolvedStays(Current(v))
    BY <1>0, <1>23, OthersResolved
  <1> QED BY <1>10, <1>14, <1>15, <1>18, <1>19, <1>20, <1>21, <1>22, <1>24, WorkKeeps

(* What both branches of deliverToTarget do to the delivery rows: the upsert  *)
(* writes a row only where there was none.                                   *)
LEMMA Upsert ==
  ASSUME OutboxSound, NEW w \in Workers, NEW t \in Targets, Post(w, t)
  PROVE  \E e \in Events, row \in Delivery :
            /\ e = Current(w) /\ row = (IF rows[e][t] = None THEN NewRow ELSE rows[e][t])
            /\ rows' \in [Events -> [Targets -> Delivery \cup {None}]]
            /\ Tried(e, t)' /\ rows'[e][t] = row
            /\ RowsStay /\ \A f \in Events : ResolvedStays(f)
            /\ ~Tried(e, t) => ~EarlyReturn(row) /\ ~row.delivered
            /\ ~EarlyReturn(row) => ~Done(e, t) /\ row.attempts + 1 \in 1 .. MAX_DELIVERY_ATTEMPTS
  <1>0. flush[w].step = "deliver"
    BY DEF Post
  <1>1. PICK e \in Events : e = Current(w)
    BY <1>0, DeliveringAlone
  <1>2. TypeOK
    BY DEF OutboxSound
  <1>3. NewRow \in Delivery /\ ~EarlyReturn(NewRow) /\ ~NewRow.delivered
    BY OutboxAssumption DEF NewRow, Delivery, EarlyReturn, Resolved, Exhausted
  <1>4. PICK row \in Delivery : row = IF rows[e][t] = None THEN NewRow ELSE rows[e][t]
    BY <1>2, <1>3 DEF TypeOK
  <1>5. rows' = [rows EXCEPT ![e][t] = row]
    BY <1>1, <1>4 DEF Post
  <1>6. /\ rows' \in [Events -> [Targets -> Delivery \cup {None}]]
        /\ rows'[e][t] = row /\ row # None
        /\ \A f \in Events, u \in Targets : f # e \/ u # t => rows'[f][u] = rows[f][u]
    BY <1>2, <1>5, RowWritten
  <1>7. \A f \in Events, u \in Targets : Tried(f, u) => rows'[f][u] = rows[f][u]
    BY <1>4, <1>6 DEF Tried
  <1>8. RowsStay /\ \A f \in Events : ResolvedStays(f)
    BY <1>7 DEF RowsStay, ResolvedStays, Tried, Done
  <1>9. ~Tried(e, t) => ~EarlyReturn(row) /\ ~row.delivered
    BY <1>3, <1>4 DEF Tried
  <1>10. ~EarlyReturn(row) => ~Done(e, t) /\ row.attempts + 1 \in 1 .. MAX_DELIVERY_ATTEMPTS
    BY <1>4, OutboxAssumption DEF EarlyReturn, Resolved, Exhausted, Done, Tried, Delivery
  <1> QED BY <1>1, <1>4, <1>6, <1>8, <1>9, <1>10 DEF Tried

(* The early return: the outcome is read from a row that was there.           *)
LEMMA PostSkipsKeeps ==
  ASSUME OutboxSound, NEW w \in Workers, NEW t \in Targets, Post(w, t),
         EarlyReturn(IF rows[Current(w)][t] = None THEN NewRow ELSE rows[Current(w)][t])
  PROVE  OutboxSound'
  <1>0. flush[w].step = "deliver" /\ t \in TargetsOf(w) /\ flush[w].posted[t] = None
    BY DEF Post
  <1>1. PICK e \in Events, row \in Delivery :
            /\ e = Current(w) /\ row = (IF rows[e][t] = None THEN NewRow ELSE rows[e][t])
            /\ rows' \in [Events -> [Targets -> Delivery \cup {None}]]
            /\ Tried(e, t)' /\ rows'[e][t] = row
            /\ RowsStay /\ \A f \in Events : ResolvedStays(f)
            /\ ~Tried(e, t) => ~EarlyReturn(row) /\ ~row.delivered
    BY Upsert
  <1>2. /\ TypeOK /\ FlushSound(w) /\ flush[w] \in Flush /\ flush[w].todo # <<>>
        /\ Delivering(w, e)
    BY <1>0, <1>1, DeliveringAlone
  <1>3. flush[w].outcome \in [Targets -> Outcomes \cup {None}]
    BY <1>2, FlushFields
  <1> DEFINE o == IF row.delivered THEN "ok" ELSE IF Exhausted(row) THEN "exhausted" ELSE "pending"
             g == [flush[w] EXCEPT !.outcome = [@ EXCEPT ![t] = o]]
  <1>4. o \in Outcomes /\ o # None /\ (o = "ok" => row.delivered)
    BY OutboxAssumption DEF Outcomes
  <1>5. /\ flush' = [flush EXCEPT ![w] = g]
        /\ UNCHANGED <<enqueued, status, claimedBy, aged, failures, enabled, accepted, stolen, excused>>
    BY <1>1 DEF Post
  <1> HIDE DEF o
  <1>6. /\ g \in Flush /\ g.step = "deliver" /\ g.todo = flush[w].todo
        /\ g.targets = flush[w].targets /\ g.posted = flush[w].posted
        /\ g.outcome = [flush[w].outcome EXCEPT ![t] = o]
    BY <1>0, <1>2, <1>3, <1>4 DEF Flush
  <1> HIDE DEF g
  <1>7. flush'[w] = g /\ \A v \in Workers \ {w} : flush'[v] = flush[v]
    BY <1>2, <1>5 DEF TypeOK
  <1>8. TypeOK'
    BY <1>1, <1>2, <1>5, <1>6 DEF TypeOK
  <1>9. Current(w)' = e /\ TargetsOf(w)' = TargetsOf(w)
    BY <1>1, <1>6, <1>7 DEF Current, TargetsOf
  <1>10. /\ \A u \in Targets : u # t => flush'[w].outcome[u] = flush[w].outcome[u]
         /\ flush'[w].outcome[t] = o /\ flush'[w].posted = flush[w].posted
    BY <1>3, <1>6, <1>7
  <1>11. FlushSound(w)'
    <2>1. HandlesOne(w)' /\ Unstarted(w)' /\ VerdictHolds(w)'
      BY <1>2, <1>6, <1>7 DEF HandlesOne, Unstarted, VerdictHolds
    <2>2. PostsPending(w)'
      <3> SUFFICES ASSUME NEW u \in Targets, flush'[w].posted[u] # None
                   PROVE  /\ flush'[w].step = "deliver" /\ flush'[w].outcome[u] = None
                          /\ u \in TargetsOf(w)' /\ Tried(e, u)'
        BY <1>9 DEF PostsPending, Tried
      <3>1. u # t /\ flush[w].posted[u] # None
        BY <1>0, <1>10
      <3>2. flush[w].outcome[u] = None /\ u \in TargetsOf(w) /\ Tried(e, u)
        BY <1>1, <1>2, <3>1 DEF FlushSound, PostsPending
      <3> QED BY <1>1, <1>6, <1>7, <1>9, <1>10, <3>1, <3>2 DEF RowsStay
    <2>3. OutcomesRecorded(w)'
      <3> SUFFICES ASSUME NEW u \in Targets
                   PROVE  /\ flush'[w].outcome[u] # None => Tried(e, u)'
                          /\ flush'[w].outcome[u] = "ok" => Done(e, u)'
        BY <1>9 DEF OutcomesRecorded, Tried, Done
      <3>1. CASE u = t
        BY <1>1, <1>4, <1>10, <3>1 DEF Tried, Done
      <3>2. CASE u # t
        BY <1>1, <1>2, <1>10, <3>2 DEF FlushSound, OutcomesRecorded, RowsStay
      <3> QED BY <3>1, <3>2
    <2> QED BY <2>1, <2>2, <2>3 DEF FlushSound
  <1>12. \A v \in Workers \ {w} : SameWork(v)
    BY <1>7 DEF SameWork
  <1>13. \A f \in Events : Delivering(w, f)' <=> Delivering(w, f)
    BY <1>0, <1>1, <1>6, <1>7, <1>9 DEF Delivering
  <1>14. \A v \in Workers \ {w} :
            flush[v].step = "close" => stolen[Current(v)] \/ ResolvedStays(Current(v))
    BY <1>0, <1>1, OthersResolved
  <1> QED BY <1>1, <1>5, <1>8, <1>10, <1>11, <1>12, <1>13, <1>14, WorkKeeps

(* The POST: no other flush has one under way and the row is not delivered,   *)
(* so without an excuse the receiver takes it for the first time.             *)
LEMMA PostSendsKeeps ==
  ASSUME OutboxSound, NEW w \in Workers, NEW t \in Targets, Post(w, t),
         ~EarlyReturn(IF rows[Current(w)][t] = None THEN NewRow ELSE rows[Current(w)][t])
  PROVE  OutboxSound'
  <1>0. /\ flush[w].step = "deliver" /\ t \in TargetsOf(w)
        /\ flush[w].posted[t] = None /\ flush[w].outcome[t] = None
    BY DEF Post
  <1>1. PICK e \in Events, row \in Delivery :
            /\ e = Current(w) /\ row = (IF rows[e][t] = None THEN NewRow ELSE rows[e][t])
            /\ rows' \in [Events -> [Targets -> Delivery \cup {None}]]
            /\ Tried(e, t)' /\ rows'[e][t] = row
            /\ RowsStay /\ \A f \in Events : ResolvedStays(f)
            /\ ~EarlyReturn(row) => ~Done(e, t) /\ row.attempts + 1 \in 1 .. MAX_DELIVERY_ATTEMPTS
    BY Upsert
  <1>2. ~EarlyReturn(row)
    BY <1>1
  <1>3. /\ TypeOK /\ FlushSound(w) /\ flush[w] \in Flush /\ flush[w].todo # <<>>
        /\ Delivering(w, e)
        /\ ~stolen[e] => \A v \in Workers : Delivering(v, e) => v = w
    BY <1>0, <1>1, DeliveringAlone
  <1>4. PICK a \in Answers :
            /\ flush' = [flush EXCEPT ![w].posted[t] = [answer |-> a, attempt |-> row.attempts + 1]]
            /\ accepted' = [accepted EXCEPT ![e][t] =
                               IF a \in {"ok", "lost"} /\ @ < 2 THEN @ + 1 ELSE @]
            /\ excused' = [excused EXCEPT ![e] = @ \/ a = "lost"]
    BY <1>1, <1>2 DEF Post
  <1> DEFINE p == [answer |-> a, attempt |-> row.attempts + 1]
             g == [flush[w] EXCEPT !.posted = [@ EXCEPT ![t] = p]]
  <1>5. p \in Posted /\ p.answer = a
    BY <1>1, <1>2 DEF Posted
  <1>6. p # None
    BY <1>5, OutboxAssumption
  <1>7. /\ flush' = [flush EXCEPT ![w] = g]
        /\ UNCHANGED <<enqueued, status, claimedBy, aged, failures, enabled, stolen>>
    BY <1>4 DEF Post
  <1> HIDE DEF p
  <1>8. flush[w].posted \in [Targets -> Posted \cup {None}]
    BY <1>3, FlushFields
  <1>9. /\ g \in Flush /\ g.step = "deliver" /\ g.todo = flush[w].todo
        /\ g.targets = flush[w].targets /\ g.outcome = flush[w].outcome
        /\ g.posted = [flush[w].posted EXCEPT ![t] = p]
    BY <1>0, <1>3, <1>5, <1>8 DEF Flush
  <1> HIDE DEF g
  <1>10. flush'[w] = g /\ \A v \in Workers \ {w} : flush'[v] = flush[v]
    BY <1>3, <1>7 DEF TypeOK
  <1>11. /\ accepted' \in [Events -> [Targets -> 0 .. 2]]
         /\ \A f \in Events \ {e} : accepted'[f] = accepted[f]
         /\ \A u \in Targets \ {t} : accepted'[e][u] = accepted[e][u]
         /\ accepted[e][t] = 0 => accepted'[e][t] <= 1 /\ (accepted'[e][t] = 1 => a \in {"ok", "lost"})
    BY <1>3, <1>4 DEF TypeOK
  <1>12. /\ excused' \in [Events -> BOOLEAN] /\ \A f \in Events : excused[f] => excused'[f]
         /\ a = "lost" => excused'[e]
    BY <1>3, <1>4 DEF TypeOK
  <1>13. TypeOK'
    BY <1>1, <1>3, <1>7, <1>9, <1>11, <1>12 DEF TypeOK
  <1>14. Current(w)' = e /\ TargetsOf(w)' = TargetsOf(w)
    BY <1>1, <1>9, <1>10 DEF Current, TargetsOf
  <1>15. /\ \A u \in Targets : u # t => flush'[w].posted[u] = flush[w].posted[u]
         /\ flush'[w].posted[t] = p /\ flush'[w].outcome = flush[w].outcome
    BY <1>8, <1>9, <1>10
  <1>16. FlushSound(w)'
    <2>1. HandlesOne(w)' /\ Unstarted(w)' /\ VerdictHolds(w)'
      BY <1>3, <1>9, <1>10 DEF HandlesOne, Unstarted, VerdictHolds
    <2>2. PostsPending(w)'
      <3> SUFFICES ASSUME NEW u \in Targets, flush'[w].posted[u] # None
                   PROVE  /\ flush'[w].step = "deliver" /\ flush'[w].outcome[u] = None
                          /\ u \in TargetsOf(w)' /\ Tried(e, u)'
        BY <1>14 DEF PostsPending, Tried
      <3>1. CASE u = t
        BY <1>0, <1>1, <1>9, <1>10, <1>14, <1>15, <3>1
      <3>2. CASE u # t
        <4>1. flush[w].outcome[u] = None /\ u \in TargetsOf(w) /\ Tried(e, u)
          BY <1>1, <1>3, <1>15, <3>2 DEF FlushSound, PostsPending
        <4> QED BY <1>1, <1>9, <1>10, <1>14, <1>15, <4>1 DEF RowsStay
      <3> QED BY <3>1, <3>2
    <2>3. OutcomesRecorded(w)'
      <3> SUFFICES ASSUME NEW u \in Targets
                   PROVE  /\ flush'[w].outcome[u] # None => Tried(e, u)'
                          /\ flush'[w].outcome[u] = "ok" => Done(e, u)'
        BY <1>14 DEF OutcomesRecorded, Tried, Done
      <3> QED BY <1>1, <1>3, <1>15 DEF FlushSound, OutcomesRecorded, RowsStay
    <2> QED BY <2>1, <2>2, <2>3 DEF FlushSound
  <1>17. \A v \in Workers \ {w} : SameWork(v)
    BY <1>10 DEF SameWork
  <1>18. \A v \in Workers : FlushSound(v)'
    <2> SUFFICES ASSUME NEW v \in Workers \ {w} PROVE FlushSound(v)'
      BY <1>16
    <2>1. FlushSound(v) /\ SameWork(v) /\ \A f \in Events : stolen[f] => stolen'[f]
      BY <1>7, <1>17 DEF OutboxSound
    <2>2. flush[v].step = "close" => Current(v) \in Events
      BY DeliveringAlone
    <2> QED BY <1>1, <1>3, <2>1, <2>2, FlushFrame
  <1>19. \A v \in Workers, f \in Events : Delivering(v, f)' <=> Delivering(v, f)
    <2>1. \A f \in Events : Delivering(w, f)' <=> Delivering(w, f)
      BY <1>0, <1>1, <1>9, <1>10, <1>14 DEF Delivering
    <2>2. \A v \in Workers \ {w}, f \in Events : Delivering(v, f)' <=> Delivering(v, f)
      BY <1>17 DEF SameWork, Delivering, Current
    <2> QED BY <2>1, <2>2
  <1>20. ASSUME NEW f \in Events PROVE EventSound(f)'
    <2>0. EventSound(f)
      BY DEF OutboxSound
    <2>1. CASE f # e
      <3>1. ~Delivering(w, f)
        BY <1>1, <2>1 DEF Delivering
      <3> QED BY <1>1, <1>7, <1>11, <1>12, <1>17, <1>19, <2>0, <2>1, <3>1, EventFrame
    <2>2. CASE f = e
      <3>1. ClaimedIsOpen(e)' /\ HolderDelivers(e)'
        BY <1>7, <1>19, <2>0, <2>2 DEF EventSound, ClaimedIsOpen, HolderDelivers
      <3>2. TakenOnce(e)'
        <4> SUFFICES ASSUME ~stolen[e], ~excused'[e], NEW u \in Targets
                     PROVE  /\ accepted'[e][u] <= 1
                            /\ accepted'[e][u] = 1 => Done(e, u)' \/ InFlight(e, u)'
          BY <1>7 DEF TakenOnce
        <4>1. /\ accepted[e][u] <= 1
              /\ accepted[e][u] = 1 => Done(e, u) \/ InFlight(e, u)
          BY <1>12, <2>0, <2>2 DEF EventSound, TakenOnce
        <4>2. ASSUME InFlight(e, u) PROVE flush[w].posted[u] # None /\ flush[w].posted[u].answer = "ok"
          BY <1>3, <4>2 DEF InFlight
        <4>3. CASE u = t
          <5>1. ~Done(e, u) /\ ~InFlight(e, u)
            BY <1>0, <1>1, <1>2, <4>2, <4>3
          <5>2. accepted[e][u] = 0
            BY <1>3, <4>1, <5>1 DEF TypeOK
          <5>3. accepted'[e][u] <= 1 /\ (accepted'[e][u] = 1 => a \in {"ok", "lost"})
            BY <1>11, <4>3, <5>2
          <5>4. a # "lost"
            BY <1>12
          <5>5. a = "ok" => InFlight(e, u)'
            BY <1>3, <1>5, <1>6, <1>15, <1>19, <4>3 DEF InFlight
          <5> QED BY <5>3, <5>4, <5>5
        <4>4. CASE u # t
          <5>1. InFlight(e, u) => InFlight(e, u)'
            BY <1>3, <1>15, <1>19, <4>2, <4>4 DEF InFlight
          <5> QED BY <1>1, <1>11, <4>1, <4>4, <5>1 DEF RowsStay
        <4> QED BY <4>3, <4>4
      <3> QED BY <2>2, <3>1, <3>2 DEF EventSound
    <2> QED BY <2>1, <2>2
  <1> QED BY <1>13, <1>18, <1>20 DEF OutboxSound

-----------------------------------------------------------------------------
(* Taking and giving up the claim *)

LEMMA ClaimKeeps ==
  ASSUME OutboxSound, NEW w \in Workers, Claim(w)
  PROVE  OutboxSound'
  <1>0. /\ TypeOK /\ flush[w].step = "next" /\ flush[w].todo # <<>>
    BY DEF OutboxSound, Claim
  <1>1. PICK e \in Events : e = Current(w)
    BY <1>0, CurrentType
  <1>2. /\ status[e] = "open" /\ (claimedBy[e] = None \/ aged[e])
        /\ claimedBy' = [claimedBy EXCEPT ![e] = w]
        /\ aged' = [aged EXCEPT ![e] = FALSE]
        /\ stolen' = [stolen EXCEPT ![e] =
                         @ \/ (aged[e] /\ \E v \in Workers \ {w} : Delivering(v, e))]
        /\ flush' = [v \in Workers |->
                        IF v = w THEN [flush[v] EXCEPT !.step = "deliver"]
                        ELSE [flush[v] EXCEPT !.reclaimable = @ \ {e}]]
        /\ UNCHANGED <<enqueued, status, rows, failures, enabled, accepted, excused>>
    BY <1>1 DEF Claim, MayClaim
  <1>3. \A v \in Workers : flush[v] \in Flush
    BY <1>0 DEF TypeOK
  <1>4. ASSUME NEW v \in Workers \ {w} PROVE flush'[v] \in Flush /\ SameWork(v)
    <2>1. flush'[v] = [flush[v] EXCEPT !.reclaimable = @ \ {e}]
      BY <1>2
    <2> QED BY <1>3, <2>1 DEF Flush, SameWork
  <1>5. /\ flush'[w] \in Flush /\ flush'[w].step = "deliver" /\ flush'[w].todo = flush[w].todo
        /\ flush'[w].posted = flush[w].posted /\ flush'[w].outcome = flush[w].outcome
    <2>1. flush'[w] = [flush[w] EXCEPT !.step = "deliver"]
      BY <1>2
    <2> QED BY <1>3, <2>1 DEF Flush
  <1>6. flush' \in [Workers -> Flush]
    <2>1. \A v \in Workers : flush'[v] \in Flush
      BY <1>4, <1>5
    <2> QED BY <1>2, <2>1
  <1>7. /\ stolen' \in [Events -> BOOLEAN] /\ \A f \in Events : stolen[f] => stolen'[f]
        /\ \A f \in Events \ {e} : stolen'[f] = stolen[f] /\ claimedBy'[f] = claimedBy[f]
        /\ claimedBy'[e] = w
    BY <1>0, <1>2 DEF TypeOK
  <1>8. \A v \in Workers \ {w} : aged[e] /\ Delivering(v, e) => stolen'[e]
    BY <1>0, <1>2 DEF TypeOK
  <1>9. TypeOK'
    BY <1>0, <1>2, <1>6, <1>7 DEF TypeOK
  <1>10. \A t \in Targets : flush[w].posted[t] = None /\ flush[w].outcome[t] = None
    BY <1>0 DEF OutboxSound, FlushSound, Unstarted
  <1>11. FlushSound(w)'
    <2>1. None # "ok"
      BY OutboxAssumption DEF Outcomes
    <2> QED BY <1>0, <1>5, <1>10, <2>1 DEF FlushSound, HandlesOne, Unstarted, PostsPending,
                                         OutcomesRecorded, VerdictHolds
  <1>12. RowsStay /\ \A f : ResolvedStays(f)
    BY <1>2, SameRows
  <1>13. \A v \in Workers : FlushSound(v)'
    <2> SUFFICES ASSUME NEW v \in Workers \ {w} PROVE FlushSound(v)'
      BY <1>11
    <2>1. FlushSound(v) /\ SameWork(v)
      BY <1>4 DEF OutboxSound
    <2> QED BY <1>0, <1>7, <1>12, <2>1, FlushFrame
  <1>14. /\ \A v \in Workers \ {w}, f \in Events : Delivering(v, f)' <=> Delivering(v, f)
         /\ \A f \in Events : ~Delivering(w, f)
         /\ \A f \in Events : Delivering(w, f)' => f = e
    BY <1>0, <1>1, <1>4, <1>5 DEF SameWork, Delivering, Current
  <1>15. ASSUME NEW f \in Events PROVE EventSound(f)'
    <2>0. EventSound(f)
      BY DEF OutboxSound
    <2>1. CASE f # e
      <3>1. \A v \in Workers \ {w} : SameWork(v)
        BY <1>4
      <3> QED BY <1>2, <1>7, <1>12, <1>14, <2>0, <2>1, <3>1, EventFrame
    <2>2. CASE f = e
      <3>1. ClaimedIsOpen(e)'
        BY <1>2 DEF ClaimedIsOpen
      <3>2. HolderDelivers(e)'
        <4> SUFFICES ASSUME NEW v \in Workers \ {w}, Delivering(v, e), ~stolen'[e] PROVE FALSE
          BY <1>7, <1>14 DEF HolderDelivers
        <4>1. ~stolen[e] /\ ~aged[e]
          BY <1>7, <1>8
        <4>2. claimedBy[e] = v
          BY <2>0, <2>2, <4>1 DEF EventSound, HolderDelivers
        <4> QED BY <1>2, <4>1, <4>2, OutboxAssumption
      <3>3. TakenOnce(e)'
        <4> SUFFICES ASSUME ~stolen'[e], ~excused[e], NEW t \in Targets
                     PROVE  /\ accepted[e][t] <= 1
                            /\ accepted[e][t] = 1 => Done(e, t)' \/ InFlight(e, t)'
          BY <1>2 DEF TakenOnce
        <4>1. /\ accepted[e][t] <= 1
              /\ accepted[e][t] = 1 => Done(e, t) \/ InFlight(e, t)
          BY <1>7, <2>0, <2>2 DEF EventSound, TakenOnce
        <4>2. InFlight(e, t) => InFlight(e, t)'
          BY <1>4, <1>14 DEF InFlight, SameWork
        <4> QED BY <1>12, <4>1, <4>2 DEF RowsStay
      <3> QED BY <2>2, <3>1, <3>2, <3>3 DEF EventSound
    <2> QED BY <2>1, <2>2
  <1> QED BY <1>9, <1>13, <1>15 DEF OutboxSound

LEMMA CloseKeeps ==
  ASSUME OutboxSound, NEW w \in Workers, Close(w)
  PROVE  OutboxSound'
  <1>0. flush[w].step = "close" /\ claimedBy[Current(w)] = w
    BY DEF Close, Fenced
  <1>1. PICK e \in Events : e = Current(w)
    BY <1>0, DeliveringAlone
  <1>2. /\ TypeOK /\ FlushSound(w) /\ flush[w] \in Flush /\ flush[w].todo # <<>>
        /\ ~stolen[e] => \A v \in Workers : Delivering(v, e) => v = w
    BY <1>0, <1>1, DeliveringAlone
  <1> DEFINE g == [flush[w] EXCEPT !.step = "account"]
  <1>3. /\ status' = [status EXCEPT ![e] = flush[w].verdict]
        /\ claimedBy' = [claimedBy EXCEPT ![e] = None]
        /\ aged' = [aged EXCEPT ![e] = FALSE]
        /\ flush' = [flush EXCEPT ![w] = g]
        /\ UNCHANGED <<enqueued, rows, failures, enabled, accepted, stolen, excused>>
    BY <1>1 DEF Close
  <1>4. /\ g \in Flush /\ g.step = "account" /\ g.todo = flush[w].todo
        /\ g.targets = flush[w].targets /\ g.posted = flush[w].posted /\ g.outcome = flush[w].outcome
    BY <1>2 DEF Flush
  <1> HIDE DEF g
  <1>5. flush[w].verdict \in {"open", "delivered", "dead"}
    BY <1>2, FlushFields
  <1>6. TypeOK'
    BY <1>2, <1>3, <1>4, <1>5 DEF TypeOK
  <1>7. flush'[w] = g /\ \A v \in Workers \ {w} : flush'[v] = flush[v]
    BY <1>2, <1>3 DEF TypeOK
  <1>8. /\ claimedBy'[e] = None
        /\ \A f \in Events \ {e} : status'[f] = status[f] /\ claimedBy'[f] = claimedBy[f]
    BY <1>2, <1>3 DEF TypeOK
  <1>9. \A t \in Targets : flush[w].posted[t] = None
    BY <1>0, NothingPosted
  <1>10. Current(w)' = e /\ TargetsOf(w)' = TargetsOf(w)
    BY <1>1, <1>4, <1>7 DEF Current, TargetsOf
  <1>11. FlushSound(w)'
    <2>1. HandlesOne(w)' /\ Unstarted(w)' /\ PostsPending(w)' /\ VerdictHolds(w)'
      BY <1>2, <1>4, <1>7, <1>9 DEF HandlesOne, Unstarted, PostsPending, VerdictHolds
    <2>2. OutcomesRecorded(w)'
      BY <1>1, <1>2, <1>3, <1>4, <1>7, <1>10 DEF FlushSound, OutcomesRecorded, Tried, Done
    <2> QED BY <2>1, <2>2 DEF FlushSound
  <1>12. RowsStay /\ \A f : ResolvedStays(f)
    BY <1>3, SameRows
  <1>13. \A v \in Workers \ {w} : SameWork(v)
    BY <1>7 DEF SameWork
  <1>14. \A v \in Workers : FlushSound(v)'
    <2> SUFFICES ASSUME NEW v \in Workers \ {w} PROVE FlushSound(v)'
      BY <1>11
    <2>1. FlushSound(v) /\ SameWork(v)
      BY <1>13 DEF OutboxSound
    <2> QED BY <1>2, <1>3, <1>12, <2>1, FlushFrame
  <1>15. /\ \A v \in Workers \ {w}, f \in Events : Delivering(v, f)' <=> Delivering(v, f)
         /\ \A f \in Events : ~Delivering(w, f)'
    BY <1>4, <1>7 DEF Delivering, Current
  <1>16. ASSUME NEW f \in Events PROVE EventSound(f)'
    <2>0. EventSound(f)
      BY DEF OutboxSound
    <2>1. CASE f # e
      BY <1>3, <1>8, <1>9, <1>12, <1>13, <1>15, <2>0, <2>1, EventFrame
    <2>2. CASE f = e
      <3>1. ClaimedIsOpen(e)'
        BY <1>8 DEF ClaimedIsOpen
      <3>2. HolderDelivers(e)'
        BY <1>2, <1>3, <1>15 DEF HolderDelivers
      <3>3. TakenOnce(e)'
        <4> SUFFICES ASSUME ~stolen[e], ~excused[e], NEW t \in Targets
                     PROVE  /\ accepted[e][t] <= 1
                            /\ accepted[e][t] = 1 => Done(e, t)' \/ InFlight(e, t)'
          BY <1>3 DEF TakenOnce
        <4>1. /\ accepted[e][t] <= 1
              /\ accepted[e][t] = 1 => Done(e, t) \/ InFlight(e, t)
          BY <2>0, <2>2 DEF EventSound, TakenOnce
        <4>2. ~InFlight(e, t)
          BY <1>2, <1>9 DEF InFlight
        <4> QED BY <1>12, <4>1, <4>2 DEF RowsStay
      <3> QED BY <2>2, <3>1, <3>2, <3>3 DEF EventSound
    <2> QED BY <2>1, <2>2
  <1> QED BY <1>6, <1>14, <1>16 DEF OutboxSound

-----------------------------------------------------------------------------
(* The invariant *)

LEMMA InitSound == Init => OutboxSound
  <1> SUFFICES ASSUME Init PROVE OutboxSound
    OBVIOUS
  <1>1. TypeOK
    BY IdleIsFlush, OutboxAssumption DEF Init, TypeOK
  <1>2. ASSUME NEW w \in Workers PROVE FlushSound(w) /\ \A e : ~Delivering(w, e)
    <2>1. flush[w] = Idle
      BY DEF Init
    <2>2. /\ flush[w].step = "idle" /\ \A t \in Targets : flush[w].posted[t] = None
          /\ \A t \in Targets : flush[w].outcome[t] = None
      BY <2>1 DEF Idle
    <2>3. None # "ok"
      BY OutboxAssumption DEF Outcomes
    <2> QED BY <2>2, <2>3 DEF FlushSound, HandlesOne, Unstarted, PostsPending, OutcomesRecorded,
                              VerdictHolds, Delivering
  <1>3. ASSUME NEW e \in Events PROVE EventSound(e)
    BY <1>2 DEF Init, EventSound, ClaimedIsOpen, HolderDelivers, TakenOnce
  <1> QED BY <1>1, <1>2, <1>3 DEF OutboxSound

LEMMA StepKeeps == OutboxSound /\ [Next]_vars => OutboxSound'
  <1> SUFFICES ASSUME OutboxSound, [Next]_vars PROVE OutboxSound'
    OBVIOUS
  <1>1. CASE UNCHANGED vars
    <2>1. TypeOK'
      BY <1>1 DEF OutboxSound, TypeOK, vars
    <2> QED BY <1>1, <2>1, SameRows, QuietKeeps DEF vars
  <1>2. ASSUME NEW w \in Workers, FlushStart(w) \/ FlushStep(w) \/ Crash(w) PROVE OutboxSound'
    <2>1. ASSUME NEW t \in Targets, Post(w, t) PROVE OutboxSound'
      BY <2>1, PostSkipsKeeps, PostSendsKeeps
    <2> QED BY <1>2, <2>1, FlushStartKeeps, ClaimKeeps, SkipKeeps, FlushEndKeeps, EvaluateKeeps,
               CloseKeeps, CloseLostKeeps, AccountKeeps, RecordKeeps, CrashKeeps DEF FlushStep
  <1> QED BY <1>1, <1>2, EnqueueKeeps, WebhookUpdateKeeps, ClaimAgesKeeps, BackoffElapsesKeeps DEF Next

LEMMA OutboxInvariant == Spec => []OutboxSound
  <1>1. Init => OutboxSound
    BY InitSound
  <1>2. OutboxSound /\ [Next]_vars => OutboxSound'
    BY StepKeeps
  <1> QED BY <1>1, <1>2, PTL DEF Spec

-----------------------------------------------------------------------------
(* What the outbox guarantees *)

(* However flushes overlap, a receiver takes an event again only after its    *)
(* claim was stolen, a flush crashed before its bookkeeping, or an answer was *)
(* lost.                                                                    *)
THEOREM NoRepeatWithoutExcuse == Spec => []OutboxInv
  <1>1. OutboxSound => OutboxInv
    <2> SUFFICES ASSUME OutboxSound PROVE TypeOK /\ NoNeedlessRepeat
      BY DEF OutboxInv
    <2>1. TypeOK /\ \A e \in Events, t \in Targets : accepted[e][t] \in 0 .. 2
      BY DEF OutboxSound, TypeOK
    <2>2. \A e \in Events : TakenOnce(e)
      BY DEF OutboxSound, EventSound
    <2> QED BY <2>1, <2>2 DEF NoNeedlessRepeat, TakenOnce
  <1> QED BY <1>1, OutboxInvariant, PTL

(* Only Close moves an event's status or gives up its claim, and only Claim   *)
(* takes one.                                                               *)
LEMMA StatusStep ==
  ASSUME OutboxSound, [Next]_vars
  PROVE  \/ UNCHANGED <<status, claimedBy>>
         \/ \E w \in Workers : Close(w)
         \/ status' = status /\ \E w \in Workers : Claim(w)
  <1>1. CASE UNCHANGED vars
    BY <1>1 DEF vars
  <1>2. ASSUME NEW w \in Workers, FlushStart(w) \/ FlushStep(w) \/ Crash(w)
        PROVE  \/ UNCHANGED <<status, claimedBy>> \/ Close(w) \/ (status' = status /\ Claim(w))
    <2>1. CASE FlushStep(w)
      BY <2>1 DEF FlushStep, Claim, Skip, FlushEnd, Evaluate, CloseLost, Account, Post, Record
    <2>2. CASE FlushStart(w) \/ Crash(w)
      BY <2>2 DEF FlushStart, Crash
    <2> QED BY <1>2, <2>1, <2>2
  <1>3. CASE \/ EnqueueWorkEvent \/ \E t \in Targets, on \in Switches : WebhookUpdate(t, on)
             \/ \E e \in Events : ClaimAges(e) \/ \E t \in Targets : BackoffElapses(e, t)
    BY <1>3 DEF EnqueueWorkEvent, WebhookUpdate, ClaimAges, BackoffElapses
  <1> QED BY <1>1, <1>2, <1>3 DEF Next

(* An event is counted as delivered or dead on what the delivery rows say     *)
(* when the count is written, not only when it was decided.                   *)
THEOREM AnEventClosesOnEvidence == Spec => ClosedOnEvidence
  <1>1. ASSUME OutboxSound, [Next]_vars, NEW e \in Events, status'[e] # status[e]
        PROVE  \E w \in Workers :
                   /\ Delivering(w, e)
                   /\ \A t \in TargetsOf(w) :
                         /\ status'[e] = "delivered" => rows[e][t] # None /\ rows[e][t].delivered
                         /\ status'[e] = "dead" =>
                               stolen[e] \/ (rows[e][t] # None /\ Resolved(rows[e][t]))
    <2>1. PICK w \in Workers : Close(w)
      BY <1>1, StatusStep
    <2>2. flush[w].step = "close" /\ status' = [status EXCEPT ![Current(w)] = flush[w].verdict]
      BY <2>1 DEF Close
    <2>3. TypeOK /\ Current(w) \in Events /\ VerdictHolds(w) /\ Delivering(w, Current(w))
      BY <1>1, <2>2, DeliveringAlone DEF FlushSound
    <2>4. Current(w) = e /\ status'[e] = flush[w].verdict
      BY <1>1, <2>2, <2>3 DEF TypeOK
    <2> QED BY <2>2, <2>3, <2>4 DEF VerdictHolds, Done, Tried
  <1>2. OutboxSound /\ [Next]_vars =>
          [\A e \in Events : status'[e] # status[e] =>
              \E w \in Workers :
                  /\ Delivering(w, e)
                  /\ \A t \in TargetsOf(w) :
                        /\ status'[e] = "delivered" => rows[e][t] # None /\ rows[e][t].delivered
                        /\ status'[e] = "dead" =>
                              stolen[e] \/ (rows[e][t] # None /\ Resolved(rows[e][t]))]_vars
    BY <1>1
  <1> QED BY <1>2, OutboxInvariant, PTL DEF Spec, ClosedOnEvidence

-----------------------------------------------------------------------------
(* The promise kept: the second inductive invariant *)

(* A delivery recorded as a success was taken by its receiver.                *)
RowsTrue == \A e \in Events, t \in Targets : Done(e, t) => accepted[e][t] > 0

(* A flush only works on events that were enqueued, knows its subscriptions   *)
(* while it runs, calls an event dead only on account of some target, and has *)
(* an answer of success only from a receiver that took the POST.              *)
FlushTrue(w) ==
    /\ flush[w].todo \in Seq(1 .. enqueued)
    /\ flush[w].step = "idle" <=> flush[w].targets = {}
    /\ flush[w].step = "close" /\ flush[w].verdict = "dead" => TargetsOf(w) # {}
    /\ \A t \in Targets : flush[w].posted[t] # None /\ flush[w].posted[t].answer = "ok" =>
          accepted[Current(w)][t] > 0

PromiseSound ==
    /\ RowsTrue
    /\ \A e \in Events : e > enqueued => status[e] = "open"
    /\ \A w \in Workers : FlushTrue(w)

(* Events are only added and POSTs only counted up.                           *)
Forward ==
    /\ enqueued <= enqueued'
    /\ \A e \in Events, t \in Targets : accepted[e][t] <= accepted'[e][t]

LEMMA CountType ==
  ASSUME NEW counts \in [Events -> [Targets -> 0 .. 2]]
  PROVE  \A e \in Events, t \in Targets : counts[e][t] \in Nat
  OBVIOUS

LEMMA LongerSeq ==
  ASSUME NEW S, NEW T, S \subseteq T, NEW s \in Seq(S)
  PROVE  s \in Seq(T)
  <1>1. Len(s) \in Nat /\ s \in [1 .. Len(s) -> S]
    OBVIOUS
  <1>2. s \in [1 .. Len(s) -> T]
    BY <1>1
  <1> QED BY <1>1, <1>2

LEMMA Still ==
  ASSUME OutboxSound, OutboxSound', UNCHANGED <<enqueued, accepted>>
  PROVE  Forward
  <1>1. enqueued \in Nat
    BY OutboxAssumption DEF OutboxSound, TypeOK
  <1>2. \A e \in Events, t \in Targets : accepted[e][t] \in Nat
    BY CountType DEF OutboxSound, TypeOK
  <1> QED BY <1>1, <1>2 DEF Forward

LEMMA TrueFrame ==
  ASSUME OutboxSound, OutboxSound', PromiseSound, Forward, NEW v \in Workers, SameWork(v)
  PROVE  FlushTrue(v)'
  <1>0. FlushTrue(v) /\ TypeOK /\ TypeOK'
    BY DEF PromiseSound, OutboxSound
  <1>1. Current(v)' = Current(v) /\ TargetsOf(v)' = TargetsOf(v)
    BY DEF SameWork, Current, TargetsOf
  <1>2. flush'[v].todo \in Seq(1 .. enqueued')
    <2>1. enqueued \in Nat /\ enqueued' \in Nat /\ enqueued <= enqueued'
      BY <1>0, OutboxAssumption DEF TypeOK, Forward
    <2>2. 1 .. enqueued \subseteq 1 .. enqueued'
      BY <2>1
    <2>3. flush'[v].todo = flush[v].todo /\ flush[v].todo \in Seq(1 .. enqueued)
      BY <1>0 DEF SameWork, FlushTrue
    <2> QED BY <2>2, <2>3, LongerSeq
  <1>3. ASSUME NEW t \in Targets, flush[v].posted[t] # None, flush[v].posted[t].answer = "ok"
        PROVE  accepted'[Current(v)][t] > 0
    <2>1. flush[v].step = "deliver"
      BY <1>3 DEF OutboxSound, FlushSound, PostsPending
    <2>2. Current(v) \in Events
      BY <2>1, DeliveringAlone
    <2>3. accepted[Current(v)][t] > 0
      BY <1>0, <1>3 DEF FlushTrue
    <2>4. accepted[Current(v)][t] \in Nat /\ accepted'[Current(v)][t] \in Nat
      BY <1>0, <2>2, CountType DEF TypeOK
    <2> QED BY <2>2, <2>3, <2>4 DEF Forward
  <1> QED BY <1>0, <1>1, <1>2, <1>3 DEF FlushTrue, SameWork

(* A step of flush w (or of none, when w is no worker) that closes nothing.    *)
LEMMA PromiseFrame ==
  ASSUME OutboxSound, OutboxSound', PromiseSound, Forward, NEW w,
         \A v \in Workers \ {w} : SameWork(v), w \in Workers => FlushTrue(w)',
         status' = status,
         \A e \in Events, t \in Targets : Done(e, t)' => Done(e, t) \/ accepted[e][t] > 0
  PROVE  PromiseSound'
  <1>1. \A v \in Workers : FlushTrue(v)'
    BY TrueFrame
  <1>2. RowsTrue'
    <2> SUFFICES ASSUME NEW e \in Events, NEW t \in Targets, Done(e, t)' PROVE accepted'[e][t] > 0
      BY DEF RowsTrue
    <2>1. accepted[e][t] > 0
      BY DEF PromiseSound, RowsTrue
    <2>2. accepted[e][t] \in Nat /\ accepted'[e][t] \in Nat
      BY CountType DEF OutboxSound, TypeOK
    <2> QED BY <2>1, <2>2 DEF Forward
  <1>3. ASSUME NEW e \in Events, e > enqueued' PROVE status'[e] = "open"
    <2>1. enqueued \in Nat /\ enqueued' \in Nat /\ e \in Nat /\ enqueued <= enqueued'
      BY OutboxAssumption DEF OutboxSound, TypeOK, Events, Forward
    <2> QED BY <1>3, <2>1 DEF PromiseSound
  <1> QED BY <1>1, <1>2, <1>3 DEF PromiseSound

(* What a step that moves nothing of the abstract state looks like.           *)
LEMMA Unseen ==
  ASSUME UNCHANGED <<enqueued, status, claimedBy, accepted, enabled>>,
         \A v \in Workers : flush'[v].targets = flush[v].targets
  PROVE  UNCHANGED Abstract!vars
  BY DEF Abstract!vars, EventState, Held, TakenBy, SwitchedOn, SeenOn

(* No delivery becomes a success when no row is written.                      *)
LEMMA SameDone ==
  ASSUME rows' = rows
  PROVE  \A e \in Events, t \in Targets : Done(e, t)' => Done(e, t)
  BY DEF Done, Tried

-----------------------------------------------------------------------------
(* Each step keeps the promise and is a step of it *)

Promised == PromiseSound' /\ [Abstract!Next]_Abstract!vars

LEMMA EnqueuePromised ==
  ASSUME OutboxSound, OutboxSound', PromiseSound, EnqueueWorkEvent
  PROVE  Promised
  <1>0. /\ enqueued < MaxEvents /\ enqueued' = enqueued + 1 /\ TypeOK
        /\ UNCHANGED <<status, claimedBy, aged, rows, flush, failures, enabled, accepted, stolen, excused>>
    BY DEF EnqueueWorkEvent, OutboxSound
  <1>1. enqueued \in Nat /\ enqueued + 1 \in Events
    BY <1>0, OutboxAssumption DEF TypeOK, Events
  <1>2. \A e \in Events, t \in Targets : accepted[e][t] \in Nat
    BY <1>0 DEF TypeOK
  <1>3. Forward
    BY <1>0, <1>1, <1>2 DEF Forward
  <1>4. PromiseSound'
    <2>1. None \notin Workers /\ \A v \in Workers : SameWork(v)
      BY <1>0, OutboxAssumption DEF SameWork
    <2> QED BY <1>0, <1>3, <2>1, SameDone, PromiseFrame
  <1>5. status[enqueued + 1] = "open"
    BY <1>1 DEF PromiseSound
  <1>6. EventState' = [EventState EXCEPT ![enqueued + 1] = "open"]
    <2>1. \A e \in Events : e \in Nat
      BY DEF Events
    <2>2. \A e \in Events : e <= enqueued + 1 <=> (e <= enqueued \/ e = enqueued + 1)
      BY <1>1, <2>1
    <2> QED BY <1>0, <1>1, <1>5, <2>2 DEF EventState
  <1>7. EventState[enqueued + 1] = "none"
    BY <1>1 DEF EventState
  <1>8. UNCHANGED <<Held, TakenBy, SwitchedOn, SeenOn>>
    BY <1>0 DEF Held, TakenBy, SwitchedOn, SeenOn
  <1>9. Abstract!Enqueue(enqueued + 1)
    BY <1>6, <1>7, <1>8 DEF Abstract!Enqueue
  <1> QED BY <1>1, <1>4, <1>9 DEF Promised, Abstract!Next

LEMMA WebhookUpdatePromised ==
  ASSUME OutboxSound, OutboxSound', PromiseSound,
         NEW t \in Targets, NEW on \in Switches, WebhookUpdate(t, on)
  PROVE  Promised
  <1>0. UNCHANGED <<enqueued, status, claimedBy, aged, rows, flush, accepted, stolen, excused>>
    BY DEF WebhookUpdate
  <1>1. None \notin Workers /\ \A v \in Workers : SameWork(v)
    BY <1>0, OutboxAssumption DEF SameWork
  <1>2. PromiseSound'
    BY <1>0, <1>1, Still, SameDone, PromiseFrame
  <1>3. UNCHANGED <<EventState, Held, TakenBy, SeenOn>>
    BY <1>0 DEF EventState, Held, TakenBy, SeenOn
  <1>4. SwitchedOn' \in SUBSET Targets
    BY DEF SwitchedOn
  <1>5. Abstract!Switch
    BY <1>3, <1>4 DEF Abstract!Switch
  <1> QED BY <1>2, <1>5 DEF Promised, Abstract!Next

(* Time passes: a claim ages, a delivery may be tried again.                   *)
LEMMA TimePromised ==
  ASSUME OutboxSound, OutboxSound', PromiseSound,
         UNCHANGED <<enqueued, status, claimedBy, flush, enabled, accepted>>,
         \A e \in Events, t \in Targets : Done(e, t)' => Done(e, t)
  PROVE  Promised
  <1>1. None \notin Workers /\ \A v \in Workers : SameWork(v)
    BY OutboxAssumption DEF SameWork
  <1>2. PromiseSound'
    BY <1>1, Still, PromiseFrame
  <1>3. UNCHANGED Abstract!vars
    BY Unseen
  <1> QED BY <1>2, <1>3 DEF Promised

LEMMA BackoffElapsesPromised ==
  ASSUME OutboxSound, OutboxSound', PromiseSound,
         NEW e \in Events, NEW t \in Targets, BackoffElapses(e, t)
  PROVE  Promised
  <1>0. TypeOK /\ rows[e][t] \in Delivery
    BY DEF OutboxSound, BackoffElapses, TypeOK
  <1> DEFINE x == [rows[e][t] EXCEPT !.waiting = FALSE]
  <1>1. x \in Delivery /\ x.delivered = rows[e][t].delivered /\ Tried(e, t)
    BY <1>0 DEF Delivery, BackoffElapses, Tried
  <1>2. /\ rows' = [rows EXCEPT ![e][t] = x]
        /\ UNCHANGED <<enqueued, status, claimedBy, aged, flush, failures, enabled, accepted, stolen, excused>>
    BY DEF BackoffElapses
  <1> HIDE DEF x
  <1>3. /\ rows' \in [Events -> [Targets -> Delivery \cup {None}]]
        /\ rows'[e][t] = x /\ x # None
        /\ \A f \in Events, u \in Targets : f # e \/ u # t => rows'[f][u] = rows[f][u]
    <2>1. TypeOK /\ x \in Delivery
      BY <1>0, <1>1
    <2> QED BY <1>2, <2>1, RowWritten
  <1>4. \A f \in Events, u \in Targets : Done(f, u)' => Done(f, u)
    BY <1>1, <1>3 DEF Tried, Done
  <1> QED BY <1>2, <1>4, TimePromised

(* A step of flush w, which comes to be g, that closes no event and in which   *)
(* no receiver takes a POST.                                                 *)
LEMMA FlushPromised ==
  ASSUME OutboxSound, OutboxSound', PromiseSound, NEW w \in Workers, NEW g \in Flush,
         flush' = [flush EXCEPT ![w] = g],
         g.todo \in Seq(1 .. enqueued), g.step = "idle" <=> g.targets = {},
         g.step = "close" /\ g.verdict = "dead" => Routed[Head(g.todo)] \cap g.targets # {},
         \A t \in Targets : g.posted[t] # None =>
             Head(g.todo) = Current(w) /\ g.posted[t] = flush[w].posted[t],
         UNCHANGED <<enqueued, status, accepted>>,
         \A e \in Events, t \in Targets : Done(e, t)' => Done(e, t) \/ accepted[e][t] > 0
  PROVE  /\ PromiseSound'
         /\ flush'[w] = g /\ \A v \in Workers \ {w} : flush'[v] = flush[v]
  <1>1. flush'[w] = g /\ \A v \in Workers \ {w} : flush'[v] = flush[v]
    BY DEF OutboxSound, TypeOK
  <1>2. \A v \in Workers \ {w} : SameWork(v)
    BY <1>1 DEF SameWork
  <1>3. Current(w)' = Head(g.todo) /\ TargetsOf(w)' = Routed[Head(g.todo)] \cap g.targets
    BY <1>1 DEF Current, TargetsOf
  <1>4. \A t \in Targets : g.posted[t] # None /\ g.posted[t].answer = "ok" =>
           accepted'[Head(g.todo)][t] > 0
    BY DEF PromiseSound, FlushTrue
  <1>5. FlushTrue(w)'
    BY <1>1, <1>3, <1>4 DEF FlushTrue
  <1> QED BY <1>1, <1>2, <1>5, Still, PromiseFrame

(* The same, of a flush that comes to hold no event.                          *)
LEMMA ResetPromised ==
  ASSUME OutboxSound, OutboxSound', PromiseSound, NEW w \in Workers, NEW g \in Flush,
         flush' = [flush EXCEPT ![w] = g], g.todo \in Seq(1 .. enqueued),
         \/ g.step = "idle" /\ g.targets = {}
         \/ g.step = "next" /\ g.targets # {},
         \A t \in Targets : g.posted[t] = None,
         UNCHANGED <<enqueued, status, rows, accepted>>
  PROVE  /\ PromiseSound'
         /\ flush'[w] = g /\ \A v \in Workers \ {w} : flush'[v] = flush[v]
  <1>1. g.step = "idle" <=> g.targets = {}
    OBVIOUS
  <1>2. g.step = "close" /\ g.verdict = "dead" => Routed[Head(g.todo)] \cap g.targets # {}
    OBVIOUS
  <1>3. \A t \in Targets : g.posted[t] # None =>
            Head(g.todo) = Current(w) /\ g.posted[t] = flush[w].posted[t]
    OBVIOUS
  <1>4. \A e \in Events, t \in Targets : Done(e, t)' => Done(e, t) \/ accepted[e][t] > 0
    BY SameDone
  <1>5. UNCHANGED <<enqueued, status, accepted>>
    OBVIOUS
  <1> QED BY <1>1, <1>2, <1>3, <1>4, <1>5, FlushPromised

(* The same, when nothing of the abstract state moves.                        *)
LEMMA FlushStutters ==
  ASSUME OutboxSound, OutboxSound', PromiseSound, NEW w \in Workers, NEW g \in Flush,
         flush' = [flush EXCEPT ![w] = g], g.targets = flush[w].targets,
         g.todo \in Seq(1 .. enqueued), g.step # "idle", flush[w].step # "idle",
         g.step = "close" /\ g.verdict = "dead" => Routed[Head(g.todo)] \cap g.targets # {},
         \A t \in Targets : g.posted[t] # None =>
             Head(g.todo) = Current(w) /\ g.posted[t] = flush[w].posted[t],
         UNCHANGED <<enqueued, status, claimedBy, enabled, accepted>>,
         \A e \in Events, t \in Targets : Done(e, t)' => Done(e, t) \/ accepted[e][t] > 0
  PROVE  Promised
  <1>1. g.step = "idle" <=> g.targets = {}
    BY DEF PromiseSound, FlushTrue
  <1>2. PromiseSound' /\ flush'[w] = g /\ \A v \in Workers \ {w} : flush'[v] = flush[v]
    BY <1>1, FlushPromised
  <1>3. UNCHANGED Abstract!vars
    BY <1>2, Unseen
  <1> QED BY <1>2, <1>3 DEF Promised

(* What is left of a list of enqueued events.                                 *)
LEMMA RestType ==
  ASSUME OutboxSound, PromiseSound, NEW w \in Workers, flush[w].todo # <<>>
  PROVE  /\ flush[w].todo \in Seq(1 .. enqueued) /\ Tail(flush[w].todo) \in Seq(1 .. enqueued)
         /\ Current(w) \in 1 .. enqueued
  <1>1. flush[w].todo \in Seq(1 .. enqueued)
    BY DEF PromiseSound, FlushTrue
  <1> QED BY <1>1, HeadTailProperties DEF Current

LEMMA SkipPromised ==
  ASSUME OutboxSound, OutboxSound', PromiseSound, NEW w \in Workers, Skip(w)
  PROVE  Promised
  <1> DEFINE g == [flush[w] EXCEPT !.todo = Tail(@)]
  <1>0. TypeOK /\ flush[w] \in Flush /\ flush[w].todo # <<>> /\ flush[w].step = "next"
    BY DEF OutboxSound, TypeOK, Skip
  <1>1. Tail(flush[w].todo) \in Seq(Events) /\ Tail(flush[w].todo) \in Seq(1 .. enqueued)
    BY <1>0, CurrentType, RestType
  <1>2. \A t \in Targets : flush[w].posted[t] = None
    BY <1>0, NothingPosted
  <1>3. /\ g \in Flush /\ g.step = "next" /\ g.posted = flush[w].posted
        /\ g.targets = flush[w].targets /\ g.todo = Tail(flush[w].todo)
    BY <1>0, <1>1 DEF Flush
  <1>4. /\ flush' = [flush EXCEPT ![w] = g]
        /\ UNCHANGED <<enqueued, status, claimedBy, aged, rows, failures, enabled, accepted, stolen, excused>>
    BY DEF Skip
  <1> HIDE DEF g
  <1> QED BY <1>0, <1>1, <1>2, <1>3, <1>4, SameDone, FlushStutters

LEMMA EvaluatePromised ==
  ASSUME OutboxSound, OutboxSound', PromiseSound, NEW w \in Workers, Evaluate(w)
  PROVE  Promised
  <1> DEFINE g == [flush[w] EXCEPT !.step = "close", !.verdict = Verdict(w)]
  <1>0. /\ TypeOK /\ flush[w] \in Flush /\ flush[w].step = "deliver" /\ flush[w].todo # <<>>
    BY DEF OutboxSound, TypeOK, Evaluate, FlushSound, HandlesOne
  <1>1. Verdict(w) \in {"open", "delivered", "dead"} /\ (Verdict(w) = "dead" => TargetsOf(w) # {})
    BY DEF Verdict, AnyExhausted
  <1>2. /\ g \in Flush /\ g.step = "close" /\ g.verdict = Verdict(w) /\ g.todo = flush[w].todo
        /\ g.targets = flush[w].targets /\ g.posted = flush[w].posted
    BY <1>0, <1>1 DEF Flush
  <1>3. /\ flush' = [flush EXCEPT ![w] = g]
        /\ UNCHANGED <<enqueued, status, claimedBy, aged, rows, failures, enabled, accepted, stolen, excused>>
    BY DEF Evaluate
  <1> HIDE DEF g
  <1>4. g.todo \in Seq(1 .. enqueued) /\ Head(g.todo) = Current(w)
    BY <1>0, <1>2, RestType DEF Current
  <1>5. g.verdict = "dead" => Routed[Head(g.todo)] \cap g.targets # {}
    BY <1>1, <1>2 DEF TargetsOf, Current
  <1> QED BY <1>0, <1>2, <1>3, <1>4, <1>5, SameDone, FlushStutters

LEMMA RecordPromised ==
  ASSUME OutboxSound, OutboxSound', PromiseSound, NEW w \in Workers, NEW t \in Targets, Record(w, t)
  PROVE  Promised
  <1>0. flush[w].step = "deliver" /\ flush[w].posted[t] # None
    BY DEF Record
  <1>1. PICK e \in Events : e = Current(w)
    BY <1>0, DeliveringAlone
  <1>2. /\ TypeOK /\ FlushSound(w) /\ flush[w] \in Flush /\ flush[w].todo # <<>>
    BY <1>0, <1>1, DeliveringAlone
  <1>3. /\ flush[w].posted \in [Targets -> Posted \cup {None}]
        /\ flush[w].outcome \in [Targets -> Outcomes \cup {None}]
    BY <1>2, FlushFields
  <1>4. PICK p \in Posted : p = flush[w].posted[t]
    BY <1>0, <1>3
  <1>5. Tried(e, t)
    BY <1>0, <1>1, <1>2 DEF FlushSound, PostsPending
  <1>6. PICK row \in Delivery : row = rows[e][t]
    BY <1>2, <1>5 DEF Tried, TypeOK
  <1> DEFINE x == RecordedRow(row, p)
             o == RecordedOutcome(p)
             g == [flush[w] EXCEPT !.posted = [@ EXCEPT ![t] = None],
                                   !.outcome = [@ EXCEPT ![t] = o]]
  <1>7. x \in Delivery /\ o \in Outcomes
    BY RecordedType
  <1>8. x.delivered => row.delivered \/ p.answer = "ok"
    BY DEF RecordedRow, Delivery
  <1>9. rows' = [rows EXCEPT ![e][t] = x]
    BY <1>1, <1>4, <1>6 DEF Record
  <1>10. /\ flush' = [flush EXCEPT ![w] = g]
         /\ UNCHANGED <<enqueued, status, claimedBy, aged, failures, enabled, accepted, stolen, excused>>
    BY <1>4 DEF Record
  <1> HIDE DEF x, o
  <1>11. /\ g \in Flush /\ g.step = "deliver" /\ g.todo = flush[w].todo
         /\ g.targets = flush[w].targets
         /\ g.posted = [flush[w].posted EXCEPT ![t] = None]
    BY <1>0, <1>2, <1>3, <1>7 DEF Flush
  <1> HIDE DEF g
  <1>12. /\ rows' \in [Events -> [Targets -> Delivery \cup {None}]]
         /\ rows'[e][t] = x /\ x # None
         /\ \A f \in Events, u \in Targets : f # e \/ u # t => rows'[f][u] = rows[f][u]
    <2>1. TypeOK /\ x \in Delivery
      BY <1>2, <1>7
    <2> QED BY <1>9, <2>1, RowWritten
  <1>13. p.answer = "ok" => accepted[e][t] > 0
    BY <1>0, <1>1, <1>4 DEF PromiseSound, FlushTrue
  <1>14. \A f \in Events, u \in Targets : Done(f, u)' => Done(f, u) \/ accepted[f][u] > 0
    BY <1>5, <1>6, <1>8, <1>12, <1>13 DEF Done, Tried
  <1>15. g.todo \in Seq(1 .. enqueued) /\ Head(g.todo) = Current(w)
    BY <1>2, <1>11, RestType DEF Current
  <1>16. \A u \in Targets : g.posted[u] # None => g.posted[u] = flush[w].posted[u]
    BY <1>3, <1>11
  <1>17. g \in Flush /\ g.step = "deliver" /\ g.targets = flush[w].targets
    BY <1>11
  <1>18. \A u \in Targets : g.posted[u] # None =>
            Head(g.todo) = Current(w) /\ g.posted[u] = flush[w].posted[u]
    BY <1>15, <1>16
  <1> QED BY <1>0, <1>10, <1>14, <1>15, <1>17, <1>18, FlushStutters

LEMMA NextEventTrue ==
  ASSUME OutboxSound, PromiseSound, NEW w \in Workers, flush[w].todo # <<>>, flush[w].step # "idle"
  PROVE  /\ NextEvent(w) \in Flush /\ NextEvent(w).step = "next"
         /\ NextEvent(w).targets = flush[w].targets /\ NextEvent(w).targets # {}
         /\ NextEvent(w).todo \in Seq(1 .. enqueued)
         /\ \A t \in Targets : NextEvent(w).posted[t] = None
  <1>1. TypeOK /\ Tail(flush[w].todo) \in Seq(1 .. enqueued) /\ flush[w].targets # {}
    BY RestType DEF OutboxSound, PromiseSound, FlushTrue
  <1>2. NextEvent(w).targets = flush[w].targets /\ NextEvent(w).todo = Tail(flush[w].todo)
    BY DEF NextEvent, Idle
  <1> QED BY <1>1, <1>2, NextEventType

LEMMA CloseLostPromised ==
  ASSUME OutboxSound, OutboxSound', PromiseSound, NEW w \in Workers, CloseLost(w)
  PROVE  Promised
  <1>1. /\ flush' = [flush EXCEPT ![w] = NextEvent(w)]
        /\ flush[w].step = "close" /\ flush[w].todo # <<>>
        /\ UNCHANGED <<enqueued, status, claimedBy, aged, rows, failures, enabled, accepted, stolen, excused>>
    BY DEF CloseLost, OutboxSound, FlushSound, HandlesOne
  <1> QED BY <1>1, NextEventTrue, SameDone, FlushStutters

LEMMA AccountPromised ==
  ASSUME OutboxSound, OutboxSound', PromiseSound, NEW w \in Workers, Account(w)
  PROVE  Promised
  <1>1. /\ flush' = [flush EXCEPT ![w] = NextEvent(w)]
        /\ flush[w].step = "account" /\ flush[w].todo # <<>>
        /\ UNCHANGED <<enqueued, status, claimedBy, aged, rows, accepted, stolen, excused>>
    BY DEF Account, OutboxSound, FlushSound, HandlesOne
  <1>2. /\ PromiseSound' /\ flush'[w] = NextEvent(w)
        /\ \A v \in Workers \ {w} : flush'[v] = flush[v]
    <2>1. PICK g \in Flush :
              /\ g = NextEvent(w) /\ g.step = "next" /\ g.targets # {}
              /\ g.todo \in Seq(1 .. enqueued) /\ \A t \in Targets : g.posted[t] = None
      BY <1>1, NextEventTrue
    <2>2. flush' = [flush EXCEPT ![w] = g] /\ UNCHANGED <<enqueued, status, rows, accepted>>
      BY <1>1, <2>1
    <2>3. PromiseSound' /\ flush'[w] = g /\ \A v \in Workers \ {w} : flush'[v] = flush[v]
      BY <2>1, <2>2, ResetPromised
    <2> QED BY <2>1, <2>3
  <1>3. \A v \in Workers : flush'[v].targets = flush[v].targets
    BY <1>1, <1>2, NextEventTrue
  <1>4. UNCHANGED <<EventState, Held, TakenBy, SeenOn>>
    BY <1>1, <1>3 DEF EventState, Held, TakenBy, SeenOn
  <1>5. SwitchedOn' \in SUBSET Targets
    BY DEF SwitchedOn
  <1>6. Abstract!Switch
    BY <1>4, <1>5 DEF Abstract!Switch
  <1> QED BY <1>2, <1>6 DEF Promised, Abstract!Next

(* A flush ends, by itself or in a crash: the sender is gone.                  *)
LEMMA EndsPromised ==
  ASSUME OutboxSound, OutboxSound', PromiseSound, NEW w \in Workers,
         flush' = [flush EXCEPT ![w] = Idle],
         UNCHANGED <<enqueued, status, claimedBy, rows, enabled, accepted>>
  PROVE  Promised
  <1>1. /\ Idle.step = "idle" /\ Idle.targets = {} /\ Idle.todo \in Seq(1 .. enqueued)
        /\ \A t \in Targets : Idle.posted[t] = None
    BY DEF Idle
  <1>2. PICK g \in Flush : /\ g = Idle /\ g.step = "idle" /\ g.targets = {}
                           /\ g.todo \in Seq(1 .. enqueued) /\ \A t \in Targets : g.posted[t] = None
    BY <1>1, IdleIsFlush
  <1>3. PromiseSound' /\ flush'[w] = g /\ \A v \in Workers \ {w} : flush'[v] = flush[v]
    <2>1. flush' = [flush EXCEPT ![w] = g]
      BY <1>2
    <2> QED BY <1>2, <2>1, ResetPromised
  <1>4. SeenOn' = [SeenOn EXCEPT ![w] = {}]
    <2>1. flush'[w].targets = {} /\ \A v \in Workers \ {w} : flush'[v].targets = flush[v].targets
      BY <1>2, <1>3
    <2> QED BY <2>1 DEF SeenOn
  <1>5. UNCHANGED <<EventState, Held, TakenBy, SwitchedOn>>
    BY DEF EventState, Held, TakenBy, SwitchedOn
  <1>6. Abstract!End(w)
    BY <1>4, <1>5 DEF Abstract!End
  <1> QED BY <1>3, <1>6 DEF Promised, Abstract!Next

LEMMA FlushStartPromised ==
  ASSUME OutboxSound, OutboxSound', PromiseSound, NEW w \in Workers, FlushStart(w)
  PROVE  Promised
  <1> DEFINE due == {e \in Batch : Due(e)}
             g == [Idle EXCEPT !.step = "next", !.todo = InOrder(due),
                               !.reclaimable = {e \in Batch : claimedBy[e] # None},
                               !.targets = {t \in Targets : enabled[t]}]
  <1>0. TypeOK /\ flush[w].step = "idle" /\ SwitchedOn # {}
    BY DEF OutboxSound, FlushStart, SwitchedOn
  <1>1. Batch \subseteq 1 .. enqueued /\ Batch \subseteq Events
    BY <1>0, OutboxAssumption DEF Batch, Pending, Events, TypeOK
  <1>2. due \in SUBSET Events /\ due # {} /\ due \subseteq 1 .. enqueued
    BY <1>1 DEF FlushStart
  <1>3. InOrder(due) \in Seq(Events) /\ InOrder(due) \in Seq(1 .. enqueued)
    BY <1>2, InOrderType, LongerSeq
  <1>4. /\ flush' = [flush EXCEPT ![w] = g]
        /\ UNCHANGED <<enqueued, status, claimedBy, aged, rows, failures, enabled, accepted, stolen, excused>>
    BY DEF FlushStart
  <1>5. {e \in Batch : claimedBy[e] # None} \in SUBSET Events
    BY <1>1
  <1> HIDE DEF due
  <1>6. /\ g \in Flush /\ g.step = "next" /\ \A t \in Targets : g.posted[t] = None
        /\ g.targets = SwitchedOn /\ g.todo \in Seq(1 .. enqueued)
    BY <1>3, <1>5 DEF Flush, Idle, SwitchedOn
  <1> HIDE DEF g
  <1>7. PromiseSound' /\ flush'[w] = g /\ \A v \in Workers \ {w} : flush'[v] = flush[v]
    BY <1>0, <1>4, <1>6, ResetPromised
  <1>8. SeenOn[w] = {}
    BY <1>0 DEF SeenOn, PromiseSound, FlushTrue
  <1>9. SeenOn' = [SeenOn EXCEPT ![w] = SwitchedOn]
    BY <1>6, <1>7 DEF SeenOn
  <1>10. UNCHANGED <<EventState, Held, TakenBy, SwitchedOn>>
    BY <1>4 DEF EventState, Held, TakenBy, SwitchedOn
  <1>11. Abstract!Begin(w)
    BY <1>0, <1>8, <1>9, <1>10 DEF Abstract!Begin
  <1> QED BY <1>7, <1>11 DEF Promised, Abstract!Next

LEMMA ClaimPromised ==
  ASSUME OutboxSound, OutboxSound', PromiseSound, NEW w \in Workers, Claim(w)
  PROVE  Promised
  <1>0. /\ TypeOK /\ flush[w].step = "next" /\ flush[w].todo # <<>> /\ FlushTrue(w)
    BY DEF OutboxSound, PromiseSound, Claim
  <1>1. PICK e \in Events : e = Current(w)
    BY <1>0, CurrentType
  <1>2. /\ status[e] = "open" /\ claimedBy' = [claimedBy EXCEPT ![e] = w]
        /\ flush' = [v \in Workers |->
                        IF v = w THEN [flush[v] EXCEPT !.step = "deliver"]
                        ELSE [flush[v] EXCEPT !.reclaimable = @ \ {e}]]
        /\ UNCHANGED <<enqueued, status, rows, failures, enabled, accepted, excused>>
    BY <1>1 DEF Claim, MayClaim
  <1>3. \A v \in Workers : flush[v] \in Flush
    BY <1>0 DEF TypeOK
  <1>4. ASSUME NEW v \in Workers \ {w} PROVE SameWork(v)
    <2>1. flush'[v] = [flush[v] EXCEPT !.reclaimable = @ \ {e}]
      BY <1>2
    <2> QED BY <1>3, <2>1 DEF Flush, SameWork
  <1>5. /\ flush'[w].step = "deliver" /\ flush'[w].todo = flush[w].todo
        /\ flush'[w].posted = flush[w].posted /\ flush'[w].targets = flush[w].targets
    <2>1. flush'[w] = [flush[w] EXCEPT !.step = "deliver"]
      BY <1>2
    <2> QED BY <1>3, <2>1 DEF Flush
  <1>6. FlushTrue(w)'
    <2>1. \A t \in Targets : flush[w].posted[t] = None
      BY <1>0, NothingPosted
    <2> QED BY <1>0, <1>2, <1>5, <2>1 DEF FlushTrue
  <1>7. PromiseSound'
    BY <1>2, <1>4, <1>6, SameDone, Still, PromiseFrame
  <1>8. \A v \in Workers : flush'[v].targets = flush[v].targets
    BY <1>4, <1>5 DEF SameWork
  <1>9. UNCHANGED <<EventState, TakenBy, SwitchedOn, SeenOn>>
    BY <1>2, <1>8 DEF EventState, TakenBy, SwitchedOn, SeenOn
  <1>10. Held' = Held \cup {e}
    <2>1. w # None
      BY OutboxAssumption
    <2> QED BY <1>0, <1>2, <2>1 DEF Held, TypeOK
  <1>11. EventState[e] = "open"
    <2>1. e \in 1 .. enqueued
      BY <1>0, <1>1, RestType
    <2>2. enqueued \in Nat
      BY <1>0, OutboxAssumption DEF TypeOK
    <2> QED BY <1>2, <2>1, <2>2 DEF EventState
  <1>12. Abstract!Hold(e)
    BY <1>9, <1>10, <1>11 DEF Abstract!Hold
  <1> QED BY <1>7, <1>12 DEF Promised, Abstract!Next

(* The fenced write: the event is open and held, and was taken wherever the    *)
(* flush found it delivered.                                                 *)
LEMMA ClosePromised ==
  ASSUME OutboxSound, OutboxSound', PromiseSound, NEW w \in Workers, Close(w)
  PROVE  Promised
  <1>0. flush[w].step = "close" /\ claimedBy[Current(w)] = w
    BY DEF Close, Fenced
  <1>1. PICK e \in Events : e = Current(w)
    BY <1>0, DeliveringAlone
  <1>2. /\ TypeOK /\ FlushSound(w) /\ flush[w] \in Flush /\ flush[w].todo # <<>>
        /\ TargetsOf(w) \subseteq Targets /\ FlushTrue(w)
    BY <1>0, <1>1, DeliveringAlone DEF PromiseSound
  <1> DEFINE g == [flush[w] EXCEPT !.step = "account"]
             verdict == flush[w].verdict
  <1>3. /\ status' = [status EXCEPT ![e] = verdict]
        /\ claimedBy' = [claimedBy EXCEPT ![e] = None]
        /\ flush' = [flush EXCEPT ![w] = g]
        /\ UNCHANGED <<enqueued, rows, failures, enabled, accepted, stolen, excused>>
    BY <1>1 DEF Close
  <1>4. /\ g.step = "account" /\ g.todo = flush[w].todo
        /\ g.targets = flush[w].targets /\ g.posted = flush[w].posted
    BY <1>2 DEF Flush
  <1> HIDE DEF g
  <1>5. verdict \in {"open", "delivered", "dead"}
    BY <1>2, FlushFields
  <1> HIDE DEF verdict
  <1>6. flush'[w] = g /\ \A v \in Workers \ {w} : flush'[v] = flush[v]
    BY <1>2, <1>3 DEF TypeOK
  <1>7. e \in 1 .. enqueued /\ enqueued \in Nat
    BY <1>1, <1>2, RestType, OutboxAssumption DEF TypeOK
  <1>8. status[e] = "open" /\ claimedBy[e] # None
    BY <1>0, <1>1, OutboxAssumption DEF OutboxSound, EventSound, ClaimedIsOpen
  <1>9. PromiseSound'
    <2>1. FlushTrue(w)'
      <3>1. \A t \in Targets : flush[w].posted[t] = None
        BY <1>0, NothingPosted
      <3>2. flush[w].targets # {}
        BY <1>0, <1>2 DEF FlushTrue
      <3> QED BY <1>2, <1>3, <1>4, <1>6, <3>1, <3>2 DEF FlushTrue
    <2>2. \A v \in Workers \ {w} : SameWork(v)
      BY <1>6 DEF SameWork
    <2>3. Forward
      BY <1>3, Still
    <2>4. \A v \in Workers : FlushTrue(v)'
      BY <2>1, <2>2, <2>3, TrueFrame
    <2>5. RowsTrue'
      BY <1>3 DEF PromiseSound, RowsTrue, Done, Tried
    <2>6. ASSUME NEW f \in Events, f > enqueued' PROVE status'[f] = "open"
      <3>1. f # e /\ f > enqueued
        BY <1>3, <1>7, <2>6
      <3> QED BY <1>2, <1>3, <3>1 DEF PromiseSound, TypeOK
    <2> QED BY <2>4, <2>5, <2>6 DEF PromiseSound
  <1>10. UNCHANGED <<TakenBy, SwitchedOn, SeenOn>>
    <2>1. \A v \in Workers : flush'[v].targets = flush[v].targets
      BY <1>4, <1>6
    <2> QED BY <1>3, <2>1 DEF TakenBy, SwitchedOn, SeenOn
  <1>11. EventState' = [EventState EXCEPT ![e] = verdict]
    <2>1. status'[e] = verdict /\ \A f \in Events \ {e} : status'[f] = status[f]
      BY <1>2, <1>3 DEF TypeOK
    <2>2. e <= enqueued /\ enqueued' = enqueued
      BY <1>3, <1>7
    <2> QED BY <2>1, <2>2 DEF EventState
  <1>12. Held' = Held \ {e} /\ e \in Held
    BY <1>2, <1>3, <1>8 DEF Held, TypeOK
  <1>13. EventState[e] = "open" /\ SeenOn[w] # {} /\ Routed[e] \cap SeenOn[w] = TargetsOf(w)
    BY <1>0, <1>1, <1>2, <1>7, <1>8 DEF EventState, SeenOn, FlushTrue, TargetsOf
  <1>14. verdict = "delivered" => TargetsOf(w) \subseteq TakenBy[e]
    <2>1. verdict = "delivered" => \A t \in TargetsOf(w) : Done(e, t)
      BY <1>0, <1>1, <1>2 DEF FlushSound, VerdictHolds, verdict
    <2> QED BY <1>2, <2>1 DEF PromiseSound, RowsTrue, TakenBy
  <1>15. verdict = "dead" => TargetsOf(w) # {}
    BY <1>0, <1>2 DEF FlushTrue, verdict
  <1>16. Abstract!Settle(w, e, verdict)
    BY <1>10, <1>11, <1>12, <1>13, <1>14, <1>15 DEF Abstract!Settle
  <1> QED BY <1>5, <1>9, <1>16 DEF Promised, Abstract!Next

(* The upsert makes no delivery a success.                                    *)
LEMMA DoneAfterUpsert ==
  ASSUME TypeOK, NEW e \in Events, NEW t \in Targets, NEW row \in Delivery,
         rows' = [rows EXCEPT ![e][t] = row],
         Tried(e, t) => row = rows[e][t], ~Tried(e, t) => ~row.delivered
  PROVE  \A f \in Events, u \in Targets : Done(f, u)' => Done(f, u)
  <1>1. /\ rows' \in [Events -> [Targets -> Delivery \cup {None}]]
        /\ rows'[e][t] = row /\ row # None
        /\ \A f \in Events, u \in Targets : f # e \/ u # t => rows'[f][u] = rows[f][u]
    BY RowWritten
  <1>2. Tried(e, t) => rows'[e][t] = rows[e][t]
    BY <1>1 DEF Tried
  <1> QED BY <1>1, <1>2 DEF Done, Tried

LEMMA PostSkipsPromised ==
  ASSUME OutboxSound, OutboxSound', PromiseSound, NEW w \in Workers, NEW t \in Targets, Post(w, t),
         EarlyReturn(IF rows[Current(w)][t] = None THEN NewRow ELSE rows[Current(w)][t])
  PROVE  Promised
  <1>0. flush[w].step = "deliver"
    BY DEF Post
  <1>1. PICK e \in Events, row \in Delivery :
            /\ e = Current(w) /\ row = (IF rows[e][t] = None THEN NewRow ELSE rows[e][t])
            /\ rows' \in [Events -> [Targets -> Delivery \cup {None}]]
            /\ ~Tried(e, t) => ~EarlyReturn(row) /\ ~row.delivered
    BY Upsert
  <1>2. TypeOK /\ flush[w] \in Flush /\ flush[w].todo # <<>>
    BY <1>0, <1>1, DeliveringAlone
  <1>3. flush[w].outcome \in [Targets -> Outcomes \cup {None}]
    BY <1>2, FlushFields
  <1> DEFINE o == IF row.delivered THEN "ok" ELSE IF Exhausted(row) THEN "exhausted" ELSE "pending"
             g == [flush[w] EXCEPT !.outcome = [@ EXCEPT ![t] = o]]
  <1>4. o \in Outcomes
    BY DEF Outcomes
  <1>5. /\ flush' = [flush EXCEPT ![w] = g] /\ rows' = [rows EXCEPT ![e][t] = row]
        /\ UNCHANGED <<enqueued, status, claimedBy, aged, failures, enabled, accepted, stolen, excused>>
    BY <1>1 DEF Post
  <1> HIDE DEF o
  <1>6. /\ g \in Flush /\ g.step = "deliver" /\ g.todo = flush[w].todo
        /\ g.targets = flush[w].targets /\ g.posted = flush[w].posted
    BY <1>0, <1>2, <1>3, <1>4 DEF Flush
  <1> HIDE DEF g
  <1>7. \A f \in Events, u \in Targets : Done(f, u)' => Done(f, u)
    <2>1. TypeOK /\ (Tried(e, t) => row = rows[e][t]) /\ (~Tried(e, t) => ~row.delivered)
      BY <1>1, <1>2 DEF Tried
    <2> QED BY <1>5, <2>1, DoneAfterUpsert
  <1>8. g.todo \in Seq(1 .. enqueued) /\ Head(g.todo) = Current(w)
    BY <1>2, <1>6, RestType DEF Current
  <1>9. g.step # "idle" /\ g.step # "close"
    BY <1>6
  <1> QED BY <1>0, <1>5, <1>6, <1>7, <1>8, <1>9, FlushStutters

(* A POST that the receiver takes arrives; any other is not seen.              *)
LEMMA PostSendsPromised ==
  ASSUME OutboxSound, OutboxSound', PromiseSound, NEW w \in Workers, NEW t \in Targets, Post(w, t),
         ~EarlyReturn(IF rows[Current(w)][t] = None THEN NewRow ELSE rows[Current(w)][t])
  PROVE  Promised
  <1>0. flush[w].step = "deliver" /\ t \in TargetsOf(w)
    BY DEF Post
  <1>1. PICK e \in Events, row \in Delivery :
            /\ e = Current(w) /\ row = (IF rows[e][t] = None THEN NewRow ELSE rows[e][t])
            /\ rows' \in [Events -> [Targets -> Delivery \cup {None}]]
            /\ ~Tried(e, t) => ~EarlyReturn(row) /\ ~row.delivered
            /\ ~EarlyReturn(row) => ~Done(e, t) /\ row.attempts + 1 \in 1 .. MAX_DELIVERY_ATTEMPTS
    BY Upsert
  <1>2. /\ TypeOK /\ flush[w] \in Flush /\ flush[w].todo # <<>> /\ FlushTrue(w)
    BY <1>0, <1>1, DeliveringAlone DEF PromiseSound
  <1>3. ~EarlyReturn(row)
    BY <1>1
  <1>4. PICK a \in Answers :
            /\ flush' = [flush EXCEPT ![w].posted[t] = [answer |-> a, attempt |-> row.attempts + 1]]
            /\ accepted' = [accepted EXCEPT ![e][t] =
                               IF a \in {"ok", "lost"} /\ @ < 2 THEN @ + 1 ELSE @]
    BY <1>1, <1>3 DEF Post
  <1> DEFINE p == [answer |-> a, attempt |-> row.attempts + 1]
             g == [flush[w] EXCEPT !.posted = [@ EXCEPT ![t] = p]]
  <1>5. p \in Posted /\ p.answer = a
    BY <1>1, <1>3 DEF Posted
  <1>6. /\ flush' = [flush EXCEPT ![w] = g] /\ rows' = [rows EXCEPT ![e][t] = row]
        /\ UNCHANGED <<enqueued, status, claimedBy, aged, failures, enabled, stolen>>
    BY <1>1, <1>4 DEF Post
  <1> HIDE DEF p
  <1>7. flush[w].posted \in [Targets -> Posted \cup {None}]
    BY <1>2, FlushFields
  <1>8. /\ g.step = "deliver" /\ g.todo = flush[w].todo /\ g.targets = flush[w].targets
        /\ g.posted = [flush[w].posted EXCEPT ![t] = p]
    BY <1>0, <1>2, <1>5, <1>7 DEF Flush
  <1> HIDE DEF g
  <1>9. flush'[w] = g /\ \A v \in Workers \ {w} : flush'[v] = flush[v]
    BY <1>2, <1>6 DEF TypeOK
  <1>10. /\ \A f \in Events, u \in Targets : f # e \/ u # t => accepted'[f][u] = accepted[f][u]
         /\ a \in {"ok", "lost"} => accepted'[e][t] > 0
         /\ a \notin {"ok", "lost"} => accepted'[e][t] = accepted[e][t]
         /\ accepted[e][t] <= accepted'[e][t]
    <2>1. accepted[e][t] \in 0 .. 2
      BY <1>2 DEF TypeOK
    <2> QED BY <1>2, <1>4, <2>1 DEF TypeOK
  <1>11. Forward
    <2>1. \A f \in Events, u \in Targets : accepted[f][u] \in Nat
      BY <1>2, CountType DEF TypeOK
    <2>2. enqueued' = enqueued /\ enqueued \in Nat
      BY <1>2, <1>6, OutboxAssumption DEF TypeOK
    <2> QED BY <1>10, <2>1, <2>2 DEF Forward
  <1>12. FlushTrue(w)'
    <2>1. Current(w)' = e /\ TargetsOf(w)' = TargetsOf(w)
      BY <1>1, <1>8, <1>9 DEF Current, TargetsOf
    <2>2. ASSUME NEW u \in Targets, g.posted[u] # None, g.posted[u].answer = "ok"
          PROVE  accepted'[e][u] > 0
      <3>1. CASE u = t
        BY <1>5, <1>7, <1>8, <1>10, <2>2, <3>1
      <3>2. CASE u # t
        <4>1. g.posted[u] = flush[w].posted[u]
          BY <1>7, <1>8, <3>2
        <4>2. accepted[e][u] > 0
          BY <1>1, <1>2, <2>2, <4>1 DEF FlushTrue
        <4> QED BY <1>10, <3>2, <4>2
      <3> QED BY <3>1, <3>2
    <2>3. g.todo \in Seq(1 .. enqueued') /\ g.targets # {}
      BY <1>0, <1>2, <1>6, <1>8 DEF FlushTrue
    <2> QED BY <1>8, <1>9, <2>1, <2>2, <2>3 DEF FlushTrue
  <1>13. PromiseSound'
    <2>1. \A v \in Workers \ {w} : SameWork(v)
      BY <1>9 DEF SameWork
    <2>2. \A f \in Events, u \in Targets : Done(f, u)' => Done(f, u)
      <3>1. TypeOK /\ (Tried(e, t) => row = rows[e][t]) /\ (~Tried(e, t) => ~row.delivered)
        BY <1>1, <1>2 DEF Tried
      <3> QED BY <1>6, <3>1, DoneAfterUpsert
    <2> QED BY <1>6, <1>11, <1>12, <2>1, <2>2, PromiseFrame
  <1>14. \A v \in Workers : flush'[v].targets = flush[v].targets
    BY <1>8, <1>9
  <1>15. CASE a \notin {"ok", "lost"}
    <2>1. \A f \in Events, u \in Targets : accepted'[f][u] = accepted[f][u]
      BY <1>10, <1>15
    <2>2. TakenBy' = TakenBy
      BY <2>1 DEF TakenBy
    <2>3. UNCHANGED Abstract!vars
      BY <1>6, <1>14, <2>2 DEF Abstract!vars, EventState, Held, SwitchedOn, SeenOn
    <2> QED BY <1>13, <2>3 DEF Promised
  <1>16. CASE a \in {"ok", "lost"}
    <2>1. TakenBy' = [TakenBy EXCEPT ![e] = @ \cup {t}]
      <3>1. \A f \in Events : TakenBy'[f] = {u \in Targets : accepted'[f][u] > 0}
        BY DEF TakenBy
      <3>2. \A f \in Events : TakenBy[f] = {u \in Targets : accepted[f][u] > 0}
        BY DEF TakenBy
      <3>3. ASSUME NEW f \in Events \ {e} PROVE TakenBy'[f] = TakenBy[f]
        <4>1. \A u \in Targets : accepted'[f][u] = accepted[f][u]
          BY <1>10
        <4>2. {u \in Targets : accepted'[f][u] > 0} = {u \in Targets : accepted[f][u] > 0}
          BY <4>1
        <4> QED BY <3>1, <3>2, <4>2, Zenon
      <3>4. TakenBy'[e] = TakenBy[e] \cup {t}
        BY <1>10, <1>16, <3>1, <3>2
      <3> QED BY <3>3, <3>4 DEF TakenBy
    <2>2. EventState[e] # "none"
      <3>1. e \in 1 .. enqueued /\ enqueued \in Nat
        BY <1>1, <1>2, RestType, OutboxAssumption DEF TypeOK
      <3>2. EventState[e] = status[e] /\ status[e] \in {"open", "delivered", "dead"}
        BY <1>2, <3>1 DEF EventState, TypeOK
      <3> QED BY <3>2
    <2>3. t \in Routed[e] \cap SeenOn[w]
      BY <1>0, <1>1 DEF TargetsOf, SeenOn
    <2>4. UNCHANGED <<EventState, Held, SwitchedOn, SeenOn>>
      BY <1>6, <1>14 DEF EventState, Held, SwitchedOn, SeenOn
    <2>5. Abstract!Arrive(w, e, t)
      BY <2>1, <2>2, <2>3, <2>4 DEF Abstract!Arrive
    <2> QED BY <1>13, <2>5 DEF Promised, Abstract!Next
  <1> QED BY <1>15, <1>16

LEMMA PromiseInit == Init => PromiseSound /\ Abstract!Init
  <1> SUFFICES ASSUME Init PROVE PromiseSound /\ Abstract!Init
    OBVIOUS
  <1>1. \A w \in Workers : FlushTrue(w)
    <2> SUFFICES ASSUME NEW w \in Workers PROVE FlushTrue(w)
      OBVIOUS
    <2>1. flush[w] = Idle
      BY DEF Init
    <2>2. /\ flush[w].step = "idle" /\ flush[w].todo = <<>> /\ flush[w].targets = {}
          /\ \A t \in Targets : flush[w].posted[t] = None
      BY <2>1 DEF Idle
    <2>3. <<>> \in Seq(1 .. enqueued)
      OBVIOUS
    <2> QED BY <2>2, <2>3 DEF FlushTrue
  <1>2. RowsTrue /\ \A e \in Events : status[e] = "open"
    BY DEF Init, RowsTrue, Done, Tried
  <1>3. EventState = [e \in Events |-> "none"]
    <2>1. enqueued = 0 /\ \A e \in Events : ~(e <= 0)
      BY DEF Init, Events
    <2> QED BY <2>1 DEF EventState
  <1>4. Held = {} /\ TakenBy = [e \in Events |-> {}] /\ SwitchedOn = Targets
    BY DEF Init, Held, TakenBy, SwitchedOn
  <1>5. SeenOn = [w \in Workers |-> {}]
    BY DEF Init, SeenOn, Idle
  <1> QED BY <1>1, <1>2, <1>3, <1>4, <1>5 DEF PromiseSound, Abstract!Init

LEMMA PromiseStep ==
  ASSUME OutboxSound, PromiseSound, [Next]_vars
  PROVE  Promised
  <1>0. OutboxSound'
    BY StepKeeps
  <1>1. CASE UNCHANGED vars
    <2>1. \A e \in Events, t \in Targets : Done(e, t)' => Done(e, t)
      BY <1>1, SameDone DEF vars
    <2> QED BY <1>0, <1>1, <2>1, TimePromised DEF vars
  <1>2. ASSUME NEW w \in Workers, FlushStart(w) \/ FlushStep(w) \/ Crash(w) PROVE Promised
    <2>1. ASSUME NEW t \in Targets, Post(w, t) PROVE Promised
      BY <1>0, <2>1, PostSkipsPromised, PostSendsPromised
    <2>2. CASE FlushEnd(w) \/ Crash(w)
      BY <1>0, <2>2, EndsPromised DEF FlushEnd, Crash
    <2> QED BY <1>0, <1>2, <2>1, <2>2, FlushStartPromised, ClaimPromised, SkipPromised,
               EvaluatePromised, ClosePromised, CloseLostPromised, AccountPromised,
               RecordPromised DEF FlushStep
  <1>3. ASSUME NEW e \in Events, ClaimAges(e) PROVE Promised
    <2>1. UNCHANGED <<enqueued, status, claimedBy, rows, flush, enabled, accepted>>
      BY <1>3 DEF ClaimAges
    <2> QED BY <1>0, <2>1, SameDone, TimePromised
  <1> QED BY <1>0, <1>1, <1>2, <1>3, EnqueuePromised, WebhookUpdatePromised,
             BackoffElapsesPromised DEF Next

(* The outbox implements at-least-once delivery: whatever overlaps, stalls or  *)
(* crashes, a closed event stays as it was closed, and one counted as          *)
(* delivered was taken by every matching subscription its flush found enabled. *)
THEOREM FlushesDeliverAtLeastOnce == Spec => ImplementsAtLeastOnce
  <1>1. OutboxSound /\ PromiseSound /\ [Next]_vars => PromiseSound' /\ [Abstract!Next]_Abstract!vars
    BY PromiseStep DEF Promised
  <1> QED BY <1>1, PromiseInit, OutboxInvariant, PTL DEF Spec, ImplementsAtLeastOnce, Abstract!Spec
==============================================================================
