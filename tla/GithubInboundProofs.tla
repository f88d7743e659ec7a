------------------------ MODULE GithubInboundProofs ------------------------
(***************************************************************************)
(* Proofs about GithubInbound, for every set of pull requests and workers,  *)
(* every history and any number of receipts and faults.  InboundSound below *)
(* is the inductive invariant.                                             *)
(***************************************************************************)
EXTENDS GithubInbound, SequenceTheorems, NaturalsInduction, WellFoundedInduction, TLAPS

-----------------------------------------------------------------------------
(* The inductive invariant *)

(* A receipt carries an event that happened.  Each claim of it after the      *)
(* first was paid for by a fault; only a claimed receipt is leased; and a     *)
(* receipt that is not dead may fail once more.                              *)
ReceiptSound(r) ==
    /\ r.event \in DOMAIN events
    /\ r.attempts <= faults + 1
    /\ r.status # "PROCESSED" /\ ~(r.status = "PROCESSING" /\ r.leased) => r.attempts <= faults
    /\ r.status = "PROCESSING" => r.leaseOwner = r.attempts
    /\ r.leased => r.status = "PROCESSING"
    /\ r.status # "DEAD" => r.failureCount < MAX_FAILURES
ReceiptsSound == \A i \in DOMAIN receipts : ReceiptSound(receipts[i])

(* A worker's token is no newer than its receipt's, and while it is the       *)
(* receipt's the failures the worker read are the receipt's too.             *)
WorkerSound(w) ==
    worker[w].step # "idle" =>
        /\ worker[w].receipt \in DOMAIN receipts
        /\ worker[w].step # "picked" =>
              /\ worker[w].leaseOwner <= receipts[worker[w].receipt].attempts
              /\ Holds(w) => worker[w].failureCount = receipts[worker[w].receipt].failureCount
        /\ worker[w].step = "fence" =>
              events[receipts[worker[w].receipt].event].kind = "merged"
WorkersSound == \A w \in Workers : WorkerSound(w)

(* What moved the item is in the log, and no newer than the item's watermark. *)
AppliedLogged == \A key \in Keys : applied[key] > 0 => key \in log
AppliedNotNewer == \A u \in DOMAIN events : applied[<<u, 0>>] > 0 => u <= lastAppliedEventTime

(* The pull request the item is in Review for put it there, by the newest     *)
(* event that was applied.                                                  *)
SourceMoved ==
    stateSourcePrId # None =>
        /\ lastAppliedEventTime \in DOMAIN events
        /\ events[lastAppliedEventTime].kind \in {"opened", "reopened"}
        /\ events[lastAppliedEventTime].pr = stateSourcePrId
        /\ applied[<<lastAppliedEventTime, 0>>] > 0

(* The watermark is past the merge of a fenced pull request.                  *)
FencedPast ==
    \A p \in fenced : \E m \in DOMAIN events :
        events[m].kind = "merged" /\ events[m].pr = p /\ m <= lastAppliedEventTime

TypeDeliveries ==
    /\ events \in Histories
    /\ receipts \in Seq(Receipt) /\ Len(receipts) <= MaxReceipts
    /\ worker \in [Workers -> Worker]
    /\ faults \in 0 .. MaxFaults
TypeItem ==
    /\ state \in StateTypes
    /\ stateSourcePrId \in PRs \cup {None}
    /\ lastAppliedEventTime \in 0 .. MaxEvents
    /\ log \subseteq Keys
    /\ fenced \subseteq PRs
    /\ applied \in [Keys -> 0 .. 2]

(* The part about receipts and workers, and the part about the item.          *)
DeliveriesSound == TypeDeliveries /\ ReceiptsSound /\ WorkersSound
ItemSound ==
    /\ TypeItem /\ AppliedLogged /\ AppliedOnce /\ AppliedNotNewer /\ SourceMoved /\ FencedPast
InboundSound == DeliveriesSound /\ ItemSound

(* They imply what the run checks.                                           *)
LEMMA SoundImpliesInv == InboundSound => InboundInv
  BY DEF InboundSound, DeliveriesSound, ItemSound, TypeDeliveries, TypeItem, InboundInv, TypeOK

-----------------------------------------------------------------------------
(* Least numbers and histories *)

Below == {p \in Nat \X Nat : p[1] < p[2]}

LEMMA BelowIsWellFounded == IsWellFoundedOn(Below, Nat)
  <1>1. Below = OpToRel(<, Nat)
    BY Zenon DEF Below, OpToRel
  <1> QED BY <1>1, NatLessThanWellFounded, Zenon

(* A nonempty set of numbers has a least element.                            *)
LEMMA LeastExists ==
  ASSUME NEW T \in SUBSET Nat, T # {}
  PROVE  \E x \in T : \A y \in T : x <= y
  <1>1. PICK x \in T : \A y \in T : ~(<<y, x>> \in Below)
    BY BelowIsWellFounded, WFMin, Zenon
  <1>2. \A a, b \in Nat : a < b => <<a, b>> \in Below
    BY DEF Below
  <1>3. \A y \in T : ~(y < x)
    BY <1>1, <1>2
  <1>4. x \in Nat /\ T \subseteq Nat
    OBVIOUS
  <1> QED BY <1>3, <1>4

(* A merge ends its pull request: no event of it comes later.                 *)
LEMMA MergeIsLast ==
  ASSUME NEW h \in Histories, NEW m \in DOMAIN h, h[m].kind = "merged",
         NEW t \in DOMAIN h, h[t].kind # "branch", h[t].pr = h[m].pr
  PROVE  t <= m
  <1>0. h \in Seq(Event) /\ History(h)
    BY InboundAssumption
  <1>1. DOMAIN h = 1 .. Len(h) /\ Len(h) \in Nat
    BY <1>0
  <1> SUFFICES ASSUME t > m PROVE FALSE
    BY <1>1
  <1> DEFINE Later == {u \in DOMAIN h : u > m /\ h[u].kind # "branch" /\ h[u].pr = h[m].pr}
  <1>2. Later \in SUBSET Nat /\ Later # {}
    BY <1>1 DEF Later
  <1>3. PICK v \in Later : \A u \in Later : v <= u
    BY <1>2, LeastExists
  <1>4. v \in DOMAIN h /\ v > m /\ h[v].kind # "branch" /\ h[v].pr = h[m].pr
    BY <1>3 DEF Later
  <1> DEFINE before == Earlier(h, v)
             newest == CHOOSE u \in before : \A x \in before : x <= u
  <1>5. m \in before /\ \A u \in before : u \in Nat /\ u <= m
    <2>1. m \in before
      BY <1>1, <1>4 DEF Earlier
    <2>2. ASSUME NEW u \in before, u > m
          PROVE  FALSE
      <3>1. u \in Later /\ u < v
        BY <1>1, <1>4, <2>2 DEF Earlier, Later
      <3> QED BY <1>1, <1>3, <1>4, <3>1
    <2>3. \A u \in before : u \in Nat
      BY <1>1, <1>4 DEF Earlier
    <2> QED BY <1>1, <2>1, <2>2, <2>3
  <1>6. newest = m
    <2> HIDE DEF before
    <2>1. newest \in before /\ \A x \in before : x <= newest
      BY <1>5
    <2> QED BY <1>1, <1>5, <2>1
  <1>7. MayFollow(h, v)
    BY <1>0, <1>4 DEF History
  <1>8. h[v].kind \in Kinds
    BY <1>0, <1>4 DEF Event
  <1> QED BY <1>5, <1>6, <1>7, <1>8 DEF MayFollow, Kinds

-----------------------------------------------------------------------------
(* Receipts and workers *)

(* One receipt of the table is replaced.                                     *)
LEMMA PutReceipt ==
  ASSUME NEW s \in Seq(Receipt), NEW i \in DOMAIN s, NEW x \in Receipt
  PROVE  /\ [s EXCEPT ![i] = x] \in Seq(Receipt)
         /\ Len([s EXCEPT ![i] = x]) = Len(s)
         /\ [s EXCEPT ![i] = x][i] = x
         /\ \A j \in DOMAIN s : j # i => [s EXCEPT ![i] = x][j] = s[j]
  OBVIOUS

(* Receipts have numbers and the types of their columns.                      *)
LEMMA ReceiptType ==
  ASSUME TypeDeliveries
  PROVE  /\ DOMAIN receipts = 1 .. Len(receipts) /\ Len(receipts) \in 0 .. MaxReceipts
         /\ \A i \in DOMAIN receipts : i \in 1 .. MaxReceipts /\ receipts[i] \in Receipt
         /\ DOMAIN events = 1 .. Len(events) /\ Len(events) \in 0 .. MaxEvents
         /\ \A t \in DOMAIN events : events[t] \in Event /\ t \in 1 .. MaxEvents
         /\ \A w \in Workers : worker[w] \in Worker
  <1>1. events \in Seq(Event) /\ Len(events) <= MaxEvents
    BY InboundAssumption DEF TypeDeliveries
  <1> QED BY <1>1, InboundAssumption DEF TypeDeliveries

LEMMA ReceiptFields ==
  ASSUME NEW r \in Receipt
  PROVE  /\ r.event \in 1 .. MaxEvents /\ r.attempts \in Nat /\ r.leaseOwner \in Nat
         /\ r.failureCount \in Nat /\ r.leased \in BOOLEAN
  <1>1. r.attempts \in 0 .. MaxFaults + 1 /\ r.leaseOwner \in 0 .. MaxFaults + 1
        /\ r.failureCount \in 0 .. MAX_FAILURES
    BY DEF Receipt
  <1>2. r.event \in 1 .. MaxEvents /\ r.leased \in BOOLEAN
    BY DEF Receipt
  <1> QED BY <1>1, <1>2

LEMMA WorkerFields ==
  ASSUME NEW x \in Worker
  PROVE  x.receipt \in Nat /\ x.leaseOwner \in Nat /\ x.failureCount \in Nat
  <1>1. x.receipt \in 0 .. MaxReceipts /\ x.leaseOwner \in 0 .. MaxFaults + 1
        /\ x.failureCount \in 0 .. MAX_FAILURES
    BY DEF Worker
  <1> QED BY <1>1

LEMMA FaultsNat ==
  ASSUME TypeDeliveries PROVE faults \in Nat
  BY DEF TypeDeliveries

(* How a receipt may change under workers that hold an older token of it.     *)
GoesOn(i) ==
    /\ receipts'[i].event = receipts[i].event
    /\ receipts'[i].attempts >= receipts[i].attempts
    /\ receipts'[i].status = "PROCESSING" =>
          \/ receipts'[i].leaseOwner > receipts[i].attempts
          \/ /\ receipts[i].status = "PROCESSING"
             /\ receipts'[i].leaseOwner = receipts[i].leaseOwner
             /\ receipts'[i].failureCount = receipts[i].failureCount

(* A step that changes receipts only so, and is right about those and the     *)
(* workers it changes, keeps the whole.                                      *)
LEMMA DeliveriesStep ==
  ASSUME DeliveriesSound, events' = events,
         faults' \in 0 .. MaxFaults, faults' >= faults,
         worker' \in [Workers -> Worker],
         receipts' \in Seq(Receipt), Len(receipts') = Len(receipts),
         \A i \in DOMAIN receipts : \/ receipts'[i] = receipts[i]
                                    \/ GoesOn(i) /\ ReceiptSound(receipts[i])',
         \A w \in Workers : worker'[w] = worker[w] \/ WorkerSound(w)'
  PROVE  DeliveriesSound'
  <1>1. TypeDeliveries'
    BY DEF DeliveriesSound, TypeDeliveries
  <1>2. DOMAIN receipts' = DOMAIN receipts
    BY DEF DeliveriesSound, TypeDeliveries
  <1>3. ReceiptsSound'
    <2>1. ASSUME NEW i \in DOMAIN receipts, receipts'[i] = receipts[i]
          PROVE  ReceiptSound(receipts[i])'
      <3>1. ReceiptSound(receipts[i]) /\ receipts[i].attempts \in Nat /\ faults \in Nat
            /\ faults' \in Nat
        BY ReceiptType, ReceiptFields, FaultsNat DEF DeliveriesSound, ReceiptsSound
      <3> QED BY <2>1, <3>1 DEF ReceiptSound
    <2> QED BY <1>2, <2>1 DEF ReceiptsSound
  <1>4. WorkersSound'
    <2>1. ASSUME NEW w \in Workers, worker'[w] = worker[w], worker[w].step # "idle"
          PROVE  WorkerSound(w)'
      <3>1. PICK i \in DOMAIN receipts : i = worker[w].receipt /\ WorkerSound(w) /\ worker[w] \in Worker
        BY <2>1, ReceiptType DEF DeliveriesSound, WorkersSound, WorkerSound
      <3>2. receipts'[i].event = receipts[i].event /\ receipts'[i].attempts >= receipts[i].attempts
        <4>1. receipts[i].attempts \in Nat
          BY ReceiptType, ReceiptFields DEF DeliveriesSound
        <4> QED BY <4>1 DEF GoesOn
      <3>3. /\ receipts[i].attempts \in Nat /\ receipts'[i].attempts \in Nat
            /\ worker[w].leaseOwner \in Nat /\ receipts'[i].leaseOwner \in Nat
        <4>1. receipts[i] \in Receipt /\ receipts'[i] \in Receipt
          BY <1>2, <3>1, ReceiptType DEF DeliveriesSound
        <4> QED BY <3>1, <4>1, ReceiptFields, WorkerFields
      <3>4. worker[w].leaseOwner <= receipts[i].attempts /\ Holds(w)'
               => Holds(w) /\ receipts'[i].failureCount = receipts[i].failureCount
        BY <2>1, <3>1, <3>3 DEF Holds, GoesOn
      <3> QED BY <1>2, <2>1, <3>1, <3>2, <3>3, <3>4 DEF WorkerSound
    <2> QED BY <2>1 DEF WorkersSound, WorkerSound
  <1> QED BY <1>1, <1>3, <1>4 DEF DeliveriesSound

(* A worker becomes idle, or picks an eligible receipt.                       *)
LEMMA WorkerOnly ==
  ASSUME DeliveriesSound, NEW w \in Workers, NEW x \in Worker,
         worker' = [worker EXCEPT ![w] = x], x.step = "idle" \/ x.step = "picked",
         x.step = "picked" => x.receipt \in DOMAIN receipts,
         events' = events, receipts' = receipts, faults' \in 0 .. MaxFaults, faults' >= faults
  PROVE  DeliveriesSound'
  <1>1. worker' \in [Workers -> Worker] /\ \A v \in Workers : v # w => worker'[v] = worker[v]
    BY DEF DeliveriesSound, TypeDeliveries
  <1>2. WorkerSound(w)'
    BY DEF DeliveriesSound, TypeDeliveries, WorkerSound
  <1> QED BY <1>1, <1>2, DeliveriesStep DEF DeliveriesSound, TypeDeliveries

LEMMA IdleIsWorker == IdleWorker \in Worker
  BY InboundAssumption DEF IdleWorker, Worker

(* The row after each write: the columns it sets, and the others as they were. *)
LEMMA RowClaimed ==
  ASSUME NEW r \in Receipt, NEW n \in 0 .. MaxFaults + 1
  PROVE  \E x \in Receipt :
             /\ x = [r EXCEPT !.status = "PROCESSING", !.leased = TRUE, !.attempts = n, !.leaseOwner = n]
             /\ x.event = r.event /\ x.status = "PROCESSING" /\ x.attempts = n
             /\ x.leaseOwner = n /\ x.leased = TRUE /\ x.failureCount = r.failureCount
  <1> DEFINE x == [r EXCEPT !.status = "PROCESSING", !.leased = TRUE, !.attempts = n, !.leaseOwner = n]
  <1>1. /\ x \in Receipt
        /\ x.event = r.event /\ x.status = "PROCESSING" /\ x.attempts = n
        /\ x.leaseOwner = n /\ x.leased = TRUE /\ x.failureCount = r.failureCount
    BY DEF Receipt
  <1>2. x = [r EXCEPT !.status = "PROCESSING", !.leased = TRUE, !.attempts = n, !.leaseOwner = n]
    OBVIOUS
  <1> HIDE DEF x
  <1> QED BY <1>1, <1>2

LEMMA RowCompleted ==
  ASSUME NEW r \in Receipt
  PROVE  \E x \in Receipt :
             /\ x = [r EXCEPT !.status = "PROCESSED", !.leaseOwner = 0, !.leased = FALSE]
             /\ x.event = r.event /\ x.status = "PROCESSED" /\ x.attempts = r.attempts
             /\ x.leased = FALSE /\ x.failureCount = r.failureCount
  <1> DEFINE x == [r EXCEPT !.status = "PROCESSED", !.leaseOwner = 0, !.leased = FALSE]
  <1>1. 0 \in 0 .. MaxFaults + 1
    BY InboundAssumption
  <1>2. /\ x \in Receipt
        /\ x.event = r.event /\ x.status = "PROCESSED" /\ x.attempts = r.attempts
        /\ x.leased = FALSE /\ x.failureCount = r.failureCount
    BY <1>1 DEF Receipt
  <1>3. x = [r EXCEPT !.status = "PROCESSED", !.leaseOwner = 0, !.leased = FALSE]
    OBVIOUS
  <1> HIDE DEF x
  <1> QED BY <1>2, <1>3

LEMMA RowReplayed ==
  ASSUME NEW r \in Receipt
  PROVE  \E x \in Receipt :
             /\ x = [r EXCEPT !.status = "PENDING", !.failureCount = 0, !.due = TRUE]
             /\ x.event = r.event /\ x.status = "PENDING" /\ x.attempts = r.attempts
             /\ x.leaseOwner = r.leaseOwner /\ x.leased = r.leased /\ x.failureCount = 0
  <1> DEFINE x == [r EXCEPT !.status = "PENDING", !.failureCount = 0, !.due = TRUE]
  <1>1. 0 \in 0 .. MAX_FAILURES
    BY InboundAssumption
  <1>2. /\ x \in Receipt
        /\ x.event = r.event /\ x.status = "PENDING" /\ x.attempts = r.attempts
        /\ x.leaseOwner = r.leaseOwner /\ x.leased = r.leased /\ x.failureCount = 0
    BY <1>1 DEF Receipt
  <1>3. x = [r EXCEPT !.status = "PENDING", !.failureCount = 0, !.due = TRUE]
    OBVIOUS
  <1> HIDE DEF x
  <1> QED BY <1>2, <1>3

LEMMA RowTimed ==
  ASSUME NEW r \in Receipt, NEW x, x = [r EXCEPT !.leased = FALSE] \/ x = [r EXCEPT !.due = TRUE]
  PROVE  /\ x \in Receipt /\ x.event = r.event /\ x.status = r.status /\ x.attempts = r.attempts
         /\ x.leaseOwner = r.leaseOwner /\ x.failureCount = r.failureCount
         /\ x.leased => r.leased
  BY DEF Receipt

LEMMA RowPicked ==
  ASSUME NEW x \in Worker, NEW i \in 0 .. MaxReceipts
  PROVE  \E y \in Worker :
             /\ y = [x EXCEPT !.step = "picked", !.receipt = i]
             /\ y.step = "picked" /\ y.receipt = i
  <1> DEFINE y == [x EXCEPT !.step = "picked", !.receipt = i]
  <1>1. /\ y \in Worker
        /\ y.step = "picked" /\ y.receipt = i
    BY DEF Worker
  <1>2. y = [x EXCEPT !.step = "picked", !.receipt = i]
    OBVIOUS
  <1> HIDE DEF y
  <1> QED BY <1>1, <1>2

(* Reading, losing and giving up a claim, and crashing, change one worker.    *)
LEMMA PickKeeps ==
  ASSUME DeliveriesSound, NEW w \in Workers,
         Pick(w) \/ ClaimLost(w) \/ Stale(w) \/ Crash(w)
  PROVE  DeliveriesSound'
  <1>1. faults \in 0 .. MaxFaults
    BY DEF DeliveriesSound, TypeDeliveries
  <1>2. CASE Pick(w)
    <2>1. PICK i \in DOMAIN receipts :
             worker' = [worker EXCEPT ![w] = [IdleWorker EXCEPT !.step = "picked", !.receipt = i]]
      BY <1>2 DEF Pick
    <2>2. i \in 0 .. MaxReceipts
      BY ReceiptType DEF DeliveriesSound
    <2>3. PICK x \in Worker : /\ x = [IdleWorker EXCEPT !.step = "picked", !.receipt = i]
                              /\ x.step = "picked" /\ x.receipt = i
      BY <2>2, IdleIsWorker, RowPicked
    <2>4. events' = events /\ receipts' = receipts /\ faults' = faults
      BY <1>2 DEF Pick
    <2>5. faults' \in 0 .. MaxFaults /\ faults' >= faults
      BY <1>1, <2>4
    <2>6. worker' = [worker EXCEPT ![w] = x]
      BY <2>1, <2>3
    <2> QED BY <2>3, <2>4, <2>5, <2>6, WorkerOnly
  <1>3. CASE ClaimLost(w) \/ Stale(w) \/ Crash(w)
    <2>1. IdleWorker.step = "idle"
      BY DEF IdleWorker
    <2>2. faults' \in 0 .. MaxFaults /\ faults' >= faults
      BY <1>1, <1>3, InboundAssumption DEF ClaimLost, Stale, Crash, Fault
    <2>3. UNCHANGED <<events, receipts>> /\ worker' = [worker EXCEPT ![w] = IdleWorker]
      BY <1>3 DEF ClaimLost, Stale, Crash, Idle
    <2> QED BY <2>1, <2>2, <2>3, IdleIsWorker, WorkerOnly
  <1> QED BY <1>2, <1>3

(* A row is written, and workers stay, become idle or claim that row.          *)
LEMMA RowWritten ==
  ASSUME DeliveriesSound, NEW i \in DOMAIN receipts, NEW x \in Receipt,
         events' = events, faults' \in 0 .. MaxFaults, faults' >= faults,
         receipts' = [receipts EXCEPT ![i] = x], worker' \in [Workers -> Worker],
         x.event = receipts[i].event, x.attempts >= receipts[i].attempts,
         x.status = "PROCESSING" =>
            \/ x.leaseOwner > receipts[i].attempts
            \/ /\ receipts[i].status = "PROCESSING" /\ x.leaseOwner = receipts[i].leaseOwner
               /\ x.failureCount = receipts[i].failureCount,
         x.attempts <= faults' + 1,
         x.status # "PROCESSED" /\ ~(x.status = "PROCESSING" /\ x.leased) => x.attempts <= faults',
         x.status = "PROCESSING" => x.leaseOwner = x.attempts,
         x.leased => x.status = "PROCESSING",
         x.status # "DEAD" => x.failureCount < MAX_FAILURES,
         \A v \in Workers :
            \/ worker'[v] = worker[v]
            \/ worker'[v].step = "idle"
            \/ /\ worker'[v].step = "claimed" /\ worker'[v].receipt = i
               /\ worker'[v].leaseOwner <= x.attempts /\ worker'[v].failureCount = x.failureCount
  PROVE  DeliveriesSound'
  <1>1. /\ receipts' \in Seq(Receipt) /\ Len(receipts') = Len(receipts) /\ receipts'[i] = x
        /\ \A j \in DOMAIN receipts : j # i => receipts'[j] = receipts[j]
    BY PutReceipt DEF DeliveriesSound, TypeDeliveries
  <1>2. DOMAIN receipts' = DOMAIN receipts
    BY <1>1 DEF DeliveriesSound, TypeDeliveries
  <1>3. GoesOn(i)
    BY <1>1 DEF GoesOn
  <1>4. ReceiptSound(receipts[i])'
    <2>1. x.event \in DOMAIN events
      BY DEF DeliveriesSound, ReceiptsSound, ReceiptSound
    <2> QED BY <1>1, <2>1 DEF ReceiptSound
  <1>5. \A j \in DOMAIN receipts : receipts'[j] = receipts[j] \/ (GoesOn(j) /\ ReceiptSound(receipts[j])')
    <2> TAKE j \in DOMAIN receipts
    <2>1. CASE j = i
      BY <1>3, <1>4, <2>1 DEF GoesOn, ReceiptSound
    <2>2. CASE j # i
      BY <1>1, <2>2
    <2> QED BY <2>1, <2>2
  <1>6. \A v \in Workers : worker'[v] = worker[v] \/ WorkerSound(v)'
    BY <1>1, <1>2 DEF WorkerSound, Holds
  <1> QED BY <1>1, <1>5, <1>6, DeliveriesStep

LEMMA RowAndWorker ==
  ASSUME DeliveriesSound, NEW w \in Workers, NEW i \in DOMAIN receipts,
         NEW x \in Receipt, NEW y \in Worker,
         events' = events, faults' \in 0 .. MaxFaults, faults' >= faults,
         receipts' = [receipts EXCEPT ![i] = x], worker' = [worker EXCEPT ![w] = y],
         x.event = receipts[i].event, x.attempts >= receipts[i].attempts,
         x.status = "PROCESSING" =>
            \/ x.leaseOwner > receipts[i].attempts
            \/ /\ receipts[i].status = "PROCESSING" /\ x.leaseOwner = receipts[i].leaseOwner
               /\ x.failureCount = receipts[i].failureCount,
         x.attempts <= faults' + 1,
         x.status # "PROCESSED" /\ ~(x.status = "PROCESSING" /\ x.leased) => x.attempts <= faults',
         x.status = "PROCESSING" => x.leaseOwner = x.attempts,
         x.leased => x.status = "PROCESSING",
         x.status # "DEAD" => x.failureCount < MAX_FAILURES,
         \/ y.step = "idle"
         \/ /\ y.step = "claimed" /\ y.receipt = i /\ y.leaseOwner <= x.attempts
            /\ y.failureCount = x.failureCount
  PROVE  DeliveriesSound'
  <1>1. /\ worker' \in [Workers -> Worker] /\ worker'[w] = y
        /\ \A v \in Workers : v # w => worker'[v] = worker[v]
    BY DEF DeliveriesSound, TypeDeliveries
  <1>2. \A v \in Workers :
            \/ worker'[v] = worker[v]
            \/ worker'[v].step = "idle"
            \/ /\ worker'[v].step = "claimed" /\ worker'[v].receipt = i
               /\ worker'[v].leaseOwner <= x.attempts /\ worker'[v].failureCount = x.failureCount
    BY <1>1
  <1> QED BY <1>1, <1>2, RowWritten

(* What the invariant says of the receipt of a worker that is not idle.       *)
LEMMA Working ==
  ASSUME DeliveriesSound, NEW w \in Workers, worker[w].step # "idle"
  PROVE  \E i \in DOMAIN receipts :
            /\ i = worker[w].receipt /\ receipts[i] \in Receipt /\ ReceiptSound(receipts[i])
            /\ worker[w] \in Worker /\ WorkerSound(w)
  BY ReceiptType DEF DeliveriesSound, WorkersSound, WorkerSound, ReceiptsSound

(* A claim is a new token, newer than every one before it.                    *)
LEMMA ClaimKeeps ==
  ASSUME DeliveriesSound, NEW w \in Workers, Claim(w)
  PROVE  DeliveriesSound'
  <1>1. PICK i \in DOMAIN receipts :
            /\ i = worker[w].receipt /\ receipts[i] \in Receipt /\ ReceiptSound(receipts[i])
            /\ worker[w] \in Worker
    BY Working DEF Claim
  <1>2. PICK n \in Nat : n = receipts[i].attempts
    BY <1>1, ReceiptFields
  <1>3. PICK r \in Receipt : r = receipts[i]
    BY <1>1
  <1>4. n = r.attempts /\ n <= faults /\ r.failureCount < MAX_FAILURES /\ r.event = receipts[i].event
    <2>1. r.status # "DEAD" /\ r.status # "PROCESSED" /\ ~(r.status = "PROCESSING" /\ r.leased)
      BY <1>1, <1>3 DEF Claim, Eligible
    <2> QED BY <1>1, <1>2, <1>3, <2>1 DEF ReceiptSound
  <1>5. faults \in 0 .. MaxFaults /\ faults' = faults /\ events' = events
    BY DEF DeliveriesSound, TypeDeliveries, Claim
  <1>6. n + 1 \in 0 .. MaxFaults + 1
    BY <1>4, <1>5, InboundAssumption
  <1>7. PICK x \in Receipt :
            /\ x = [r EXCEPT !.status = "PROCESSING", !.leased = TRUE,
                             !.attempts = n + 1, !.leaseOwner = n + 1]
            /\ x.event = r.event /\ x.status = "PROCESSING" /\ x.attempts = n + 1
            /\ x.leaseOwner = n + 1 /\ x.leased = TRUE /\ x.failureCount = r.failureCount
    BY <1>6, RowClaimed
  <1>8. PICK y \in Worker :
            /\ y = [worker[w] EXCEPT !.step = "claimed", !.leaseOwner = n + 1,
                                     !.failureCount = r.failureCount]
            /\ y.step = "claimed" /\ y.receipt = i /\ y.leaseOwner = n + 1
            /\ y.failureCount = r.failureCount
    <2>1. r.failureCount \in 0 .. MAX_FAILURES
      BY DEF Receipt
    <2>2. PICK m \in 0 .. MaxFaults + 1 : m = n + 1
      BY <1>6
    <2>3. PICK f \in 0 .. MAX_FAILURES : f = r.failureCount
      BY <2>1
    <2>4. PICK z \in Worker : z = worker[w]
      BY <1>1
    <2>5. \E y \in Worker :
             /\ y = [z EXCEPT !.step = "claimed", !.leaseOwner = m, !.failureCount = f]
             /\ y.step = "claimed" /\ y.receipt = z.receipt /\ y.leaseOwner = m /\ y.failureCount = f
      <3> DEFINE y == [z EXCEPT !.step = "claimed", !.leaseOwner = m, !.failureCount = f]
      <3>1. /\ y \in Worker
            /\ y.step = "claimed" /\ y.receipt = z.receipt /\ y.leaseOwner = m /\ y.failureCount = f
        BY DEF Worker
      <3>2. y = [z EXCEPT !.step = "claimed", !.leaseOwner = m, !.failureCount = f]
        OBVIOUS
      <3> HIDE DEF y
      <3> QED BY <3>1, <3>2
    <2> QED BY <1>1, <2>2, <2>3, <2>4, <2>5
  <1>9. receipts' = [receipts EXCEPT ![i] = x] /\ worker' = [worker EXCEPT ![w] = y]
    BY <1>1, <1>2, <1>3, <1>7, <1>8 DEF Claim
  <1>10. /\ faults' \in 0 .. MaxFaults /\ faults' >= faults /\ x.attempts <= faults' + 1
         /\ x.event = receipts[i].event /\ x.attempts >= receipts[i].attempts
         /\ x.leaseOwner > receipts[i].attempts /\ x.failureCount < MAX_FAILURES
         /\ y.leaseOwner <= x.attempts
    BY <1>2, <1>4, <1>5, <1>7, <1>8
  <1> QED BY <1>1, <1>5, <1>7, <1>8, <1>9, <1>10, RowAndWorker

(* An error is counted only while the worker's token is the receipt's.        *)
LEMMA FailKeeps ==
  ASSUME DeliveriesSound, NEW w \in Workers, Fail(w)
  PROVE  DeliveriesSound'
  <1>1. PICK i \in DOMAIN receipts :
            /\ i = worker[w].receipt /\ receipts[i] \in Receipt /\ ReceiptSound(receipts[i])
            /\ worker[w] \in Worker /\ WorkerSound(w)
    BY Working DEF Fail
  <1>2. /\ faults \in 0 .. MaxFaults /\ faults' = faults + 1 /\ faults < MaxFaults
        /\ worker' = [worker EXCEPT ![w] = IdleWorker] /\ events' = events
    BY DEF DeliveriesSound, TypeDeliveries, Fail, Fault, Idle
  <1>3. faults' \in 0 .. MaxFaults /\ faults' >= faults
    BY <1>2, InboundAssumption
  <1>4. IdleWorker.step = "idle"
    BY DEF IdleWorker
  <1>5. CASE ~FailureCounts(w)
    <2>1. receipts' = receipts
      BY <1>5 DEF Fail
    <2> QED BY <1>2, <1>3, <1>4, <2>1, IdleIsWorker, WorkerOnly
  <1>6. CASE FailureCounts(w)
    <2>1. PICK r \in Receipt : r = receipts[i]
      BY <1>1
    <2>2. r.status = "PROCESSING" /\ worker[w].failureCount = r.failureCount
      BY <1>1, <1>6, <2>1 DEF FailureCounts, Holds, WorkerSound, Fail
    <2>3. r.failureCount \in Nat /\ r.failureCount < MAX_FAILURES /\ r.attempts <= faults + 1
      BY <1>1, <2>1, <2>2, ReceiptFields DEF ReceiptSound
    <2>4. PICK st \in {"DEAD", "RETRY"} :
             /\ st = IF IsDead(r.failureCount) THEN "DEAD" ELSE "RETRY"
             /\ st # "DEAD" => r.failureCount + 1 < MAX_FAILURES
      <3>1. CASE IsDead(r.failureCount)
        BY <3>1
      <3>2. CASE ~IsDead(r.failureCount)
        BY <2>3, <3>2, InboundAssumption DEF IsDead
      <3> QED BY <3>1, <3>2
    <2>5. PICK n \in 0 .. MAX_FAILURES : n = r.failureCount + 1
      BY <2>3, InboundAssumption
    <2>6. PICK x \in Receipt :
             /\ x = [r EXCEPT !.status = st, !.failureCount = n, !.due = FALSE,
                              !.leaseOwner = 0, !.leased = FALSE]
             /\ x.event = r.event /\ x.status = st /\ x.attempts = r.attempts
             /\ x.leased = FALSE /\ x.failureCount = n
      <3> DEFINE x == [r EXCEPT !.status = st, !.failureCount = n, !.due = FALSE,
                                !.leaseOwner = 0, !.leased = FALSE]
      <3>1. 0 \in 0 .. MaxFaults + 1
        BY InboundAssumption
      <3>2. /\ x \in Receipt /\ x.event = r.event /\ x.status = st /\ x.attempts = r.attempts
            /\ x.leased = FALSE /\ x.failureCount = n
        BY <3>1 DEF Receipt
      <3>3. x = [r EXCEPT !.status = st, !.failureCount = n, !.due = FALSE,
                          !.leaseOwner = 0, !.leased = FALSE]
        OBVIOUS
      <3> HIDE DEF x
      <3> QED BY <3>2, <3>3
    <2>7. receipts' = [receipts EXCEPT ![i] = x]
      BY <1>1, <1>6, <2>1, <2>2, <2>4, <2>5, <2>6 DEF Fail
    <2>8. x.attempts \in Nat /\ x.attempts >= r.attempts /\ x.attempts <= faults'
          /\ x.attempts <= faults' + 1
      BY <1>2, <2>3, <2>6, ReceiptFields
    <2>9. x.status # "PROCESSING" /\ (x.status # "DEAD" => x.failureCount < MAX_FAILURES)
      BY <2>4, <2>5, <2>6
    <2> QED BY <1>2, <1>3, <1>4, <2>1, <2>6, <2>7, <2>8, <2>9, IdleIsWorker, RowAndWorker
  <1> QED BY <1>5, <1>6

(* A replay, a lapsed lease and a passed delay touch one receipt.             *)
LEMMA ReceiptTimeKeeps ==
  ASSUME DeliveriesSound, NEW i \in DOMAIN receipts,
         ReplayGitHubDelivery(i) \/ LeaseLapses(i) \/ RetryDelayPasses(i)
  PROVE  DeliveriesSound'
  <1>1. PICK r \in Receipt : r = receipts[i]
    BY ReceiptType DEF DeliveriesSound
  <1>2. ReceiptSound(r)
    BY <1>1 DEF DeliveriesSound, ReceiptsSound
  <1>3. /\ worker' \in [Workers -> Worker] /\ \A v \in Workers : worker'[v] = worker[v]
        /\ events' = events
    BY DEF DeliveriesSound, TypeDeliveries, ReplayGitHubDelivery, LeaseLapses, RetryDelayPasses
  <1>4. faults' \in 0 .. MaxFaults /\ faults' >= faults /\ faults \in Nat /\ faults' \in Nat
    BY InboundAssumption
       DEF DeliveriesSound, TypeDeliveries, ReplayGitHubDelivery, LeaseLapses, RetryDelayPasses, Fault
  <1>5. PICK x \in Receipt :
            /\ receipts' = [receipts EXCEPT ![i] = x]
            /\ x.event = r.event /\ x.attempts = r.attempts
            /\ x.leaseOwner = r.leaseOwner /\ (x.leased => r.leased)
            /\ \/ /\ x.status = r.status /\ x.failureCount = r.failureCount
                  /\ (r.leased /\ ~x.leased => faults' = faults + 1)
               \/ r.status = "DEAD" /\ x.status = "PENDING" /\ x.failureCount = 0
    <2>1. CASE ReplayGitHubDelivery(i)
      <3>1. PICK x \in Receipt :
               /\ x = [r EXCEPT !.status = "PENDING", !.failureCount = 0, !.due = TRUE]
               /\ x.event = r.event /\ x.status = "PENDING" /\ x.attempts = r.attempts
               /\ x.leaseOwner = r.leaseOwner /\ x.leased = r.leased /\ x.failureCount = 0
        BY RowReplayed
      <3>2. receipts' = [receipts EXCEPT ![i] = x] /\ r.status = "DEAD"
        BY <1>1, <2>1, <3>1 DEF ReplayGitHubDelivery
      <3> QED BY <3>1, <3>2
    <2>2. CASE LeaseLapses(i)
      <3> DEFINE x == [r EXCEPT !.leased = FALSE]
      <3>1. receipts' = [receipts EXCEPT ![i] = x] /\ faults' = faults + 1
        BY <1>1, <2>2 DEF LeaseLapses, Fault
      <3> HIDE DEF x
      <3>2. /\ x \in Receipt /\ x.event = r.event /\ x.status = r.status /\ x.attempts = r.attempts
            /\ x.leaseOwner = r.leaseOwner /\ x.failureCount = r.failureCount
            /\ x.leased => r.leased
        BY RowTimed DEF x
      <3> QED BY <3>1, <3>2
    <2>3. CASE RetryDelayPasses(i)
      <3> DEFINE x == [r EXCEPT !.due = TRUE]
      <3>1. receipts' = [receipts EXCEPT ![i] = x] /\ x.leased = r.leased
        BY <1>1, <2>3 DEF RetryDelayPasses, Receipt
      <3> HIDE DEF x
      <3>2. /\ x \in Receipt /\ x.event = r.event /\ x.status = r.status /\ x.attempts = r.attempts
            /\ x.leaseOwner = r.leaseOwner /\ x.failureCount = r.failureCount
            /\ x.leased => r.leased
        BY RowTimed DEF x
      <3> QED BY <3>1, <3>2
    <2> QED BY <2>1, <2>2, <2>3
  <1>6. r.attempts \in Nat /\ r.failureCount \in Nat /\ r.leased \in BOOLEAN /\ x.leased \in BOOLEAN
    BY ReceiptFields
  <1>7. /\ x.attempts >= r.attempts /\ x.attempts <= faults' + 1
        /\ x.status # "PROCESSED" /\ ~(x.status = "PROCESSING" /\ x.leased) => x.attempts <= faults'
        /\ x.status = "PROCESSING" => x.leaseOwner = x.attempts
        /\ x.leased => x.status = "PROCESSING"
        /\ x.status # "DEAD" => x.failureCount < MAX_FAILURES
    BY <1>2, <1>4, <1>5, <1>6, InboundAssumption DEF ReceiptSound
  <1>8. x.status = "PROCESSING" =>
           r.status = "PROCESSING" /\ x.leaseOwner = r.leaseOwner /\ x.failureCount = r.failureCount
    BY <1>5
  <1> QED BY <1>1, <1>3, <1>4, <1>5, <1>7, <1>8, RowWritten

(* A new receipt is behind all others.                                       *)
LEMMA AcceptKeeps ==
  ASSUME DeliveriesSound, NEW t \in DOMAIN events, AcceptGitHubDelivery(t)
  PROVE  DeliveriesSound'
  <1> DEFINE x == [event |-> t, status |-> "PENDING", attempts |-> 0, leaseOwner |-> 0,
                   leased |-> FALSE, due |-> TRUE, failureCount |-> 0]
  <1>1. x \in Receipt
    BY ReceiptType, InboundAssumption DEF DeliveriesSound, Receipt
  <1>2. receipts' = Append(receipts, x) /\ UNCHANGED <<events, worker, faults>>
        /\ Len(receipts) < MaxReceipts
    BY DEF AcceptGitHubDelivery
  <1>3. receipts \in Seq(Receipt) /\ faults \in Nat
    BY InboundAssumption DEF DeliveriesSound, TypeDeliveries
  <1>4. ReceiptSound(x)
    BY <1>3, InboundAssumption DEF ReceiptSound
  <1> HIDE DEF x
  <1>5. /\ receipts' \in Seq(Receipt) /\ Len(receipts') = Len(receipts) + 1
        /\ \A i \in DOMAIN receipts : i \in DOMAIN receipts' /\ receipts'[i] = receipts[i]
        /\ \A i \in DOMAIN receipts' : i \in DOMAIN receipts \/ receipts'[i] = x
    BY <1>1, <1>2, <1>3
  <1>6. TypeDeliveries'
    BY <1>2, <1>5, InboundAssumption, ReceiptType DEF DeliveriesSound, TypeDeliveries
  <1>7. ReceiptsSound'
    BY <1>2, <1>4, <1>5 DEF DeliveriesSound, ReceiptsSound, ReceiptSound
  <1>8. WorkersSound'
    BY <1>2, <1>5 DEF DeliveriesSound, WorkersSound, WorkerSound, Holds
  <1> QED BY <1>6, <1>7, <1>8 DEF DeliveriesSound

(* The write that completes a receipt ends its worker's work on it.           *)
LEMMA FinishKeeps ==
  ASSUME DeliveriesSound, NEW w \in Workers, NEW t \in DOMAIN events, Finish(w, t),
         worker[w].step # "idle", receipts[worker[w].receipt].leased
  PROVE  DeliveriesSound'
  <1>1. PICK i \in DOMAIN receipts :
            i = worker[w].receipt /\ receipts[i] \in Receipt /\ ReceiptSound(receipts[i])
    BY Working
  <1>2. PICK r \in Receipt : r = receipts[i]
    BY <1>1
  <1>3. PICK x \in Receipt :
            /\ x = [r EXCEPT !.status = "PROCESSED", !.leaseOwner = 0, !.leased = FALSE]
            /\ x.event = r.event /\ x.status = "PROCESSED" /\ x.attempts = r.attempts
            /\ x.leased = FALSE /\ x.failureCount = r.failureCount
    BY RowCompleted
  <1>4. /\ receipts' = [receipts EXCEPT ![i] = x] /\ events' = events /\ faults' = faults
        /\ worker' = [worker EXCEPT ![w] = IdleWorker]
    BY <1>1, <1>2, <1>3 DEF Finish, Completed, Idle
  <1>5. faults' \in 0 .. MaxFaults /\ faults' >= faults
    BY <1>4, InboundAssumption DEF DeliveriesSound, TypeDeliveries
  <1>6. IdleWorker.step = "idle"
    BY DEF IdleWorker
  <1>7. x.attempts \in Nat /\ x.attempts >= r.attempts /\ x.attempts <= faults' + 1
        /\ x.failureCount < MAX_FAILURES
    BY <1>1, <1>2, <1>3, <1>4, ReceiptFields DEF ReceiptSound
  <1> QED BY <1>2, <1>3, <1>4, <1>5, <1>6, <1>7, IdleIsWorker, RowAndWorker

(* A merge that finds the item past Review goes on to its second write.       *)
LEMMA FenceStarts ==
  ASSUME DeliveriesSound, NEW w \in Workers, NEW t \in DOMAIN events, Applying(w, t),
         events[t].kind = "merged", worker' = [worker EXCEPT ![w].step = "fence"],
         events' = events, receipts' = receipts, faults' = faults
  PROVE  DeliveriesSound'
  <1>1. worker[w] \in Worker /\ WorkerSound(w) /\ worker[w].step = "claimed"
    BY DEF DeliveriesSound, TypeDeliveries, WorkersSound, Applying
  <1>2. PICK x \in Worker : x = worker[w]
    BY <1>1
  <1>3. PICK y \in Worker :
            /\ y = [x EXCEPT !.step = "fence"] /\ y.step = "fence" /\ y.receipt = x.receipt
            /\ y.leaseOwner = x.leaseOwner /\ y.failureCount = x.failureCount
    <2> DEFINE y == [x EXCEPT !.step = "fence"]
    <2>1. /\ y \in Worker /\ y.step = "fence" /\ y.receipt = x.receipt
          /\ y.leaseOwner = x.leaseOwner /\ y.failureCount = x.failureCount
      BY DEF Worker
    <2>2. y = [x EXCEPT !.step = "fence"]
      OBVIOUS
    <2> HIDE DEF y
    <2> QED BY <2>1, <2>2
  <1>4. worker' = [worker EXCEPT ![w] = y]
    BY <1>2, <1>3
  <1>5. /\ worker' \in [Workers -> Worker] /\ worker'[w] = y
        /\ \A v \in Workers : v # w => worker'[v] = worker[v]
    BY <1>4 DEF DeliveriesSound, TypeDeliveries
  <1>6. WorkerSound(w)'
    BY <1>1, <1>2, <1>3, <1>5 DEF WorkerSound, Holds, Applying
  <1>7. \A v \in Workers : worker'[v] = worker[v] \/ WorkerSound(v)'
    BY <1>5, <1>6
  <1>8. faults' \in 0 .. MaxFaults /\ faults' >= faults
    BY InboundAssumption DEF DeliveriesSound, TypeDeliveries
  <1> QED BY <1>5, <1>7, <1>8, DeliveriesStep DEF DeliveriesSound, TypeDeliveries

-----------------------------------------------------------------------------
(* The item *)

LEMMA EventPr ==
  ASSUME TypeDeliveries, NEW t \in DOMAIN events, events[t].kind # "branch"
  PROVE  events[t].pr \in PRs /\ events[t].pr # None /\ events[t].kind \in Kinds
  <1>1. events[t] \in Event
    BY ReceiptType
  <1> QED BY <1>1, InboundAssumption DEF Event

(* The key of an event is the event's own; that of a branch is the delivery's. *)
LEMMA KeyType ==
  ASSUME TypeDeliveries, NEW t \in DOMAIN events, NEW i \in DOMAIN receipts
  PROVE  /\ EventSourceKey(t, i) \in Keys
         /\ \A u \in DOMAIN events : <<u, 0>> \in Keys
         /\ \A u \in DOMAIN events : EventSourceKey(t, i) = <<u, 0>> =>
               u = t /\ events[t].kind # "branch"
  <1>1. t \in 1 .. MaxEvents /\ i \in 1 .. MaxReceipts /\ \A u \in DOMAIN events : u \in 1 .. MaxEvents
    BY ReceiptType
  <1>2. i \in 0 .. MaxReceipts /\ 0 \in 0 .. MaxReceipts /\ i # 0
    BY <1>1, InboundAssumption
  <1> QED BY <1>1, <1>2 DEF EventSourceKey, Keys

(* Steps that move nothing: the log may grow, and people may move the item.    *)
LEMMA NoMoveKeeps ==
  ASSUME ItemSound, events' = events, state' \in StateTypes,
         UNCHANGED <<stateSourcePrId, lastAppliedEventTime, applied, fenced>>,
         log \subseteq log', log' \subseteq Keys
  PROVE  ItemSound'
  <1>1. TypeItem' /\ AppliedLogged' /\ AppliedOnce'
    BY DEF ItemSound, TypeItem, AppliedLogged, AppliedOnce
  <1>2. AppliedNotNewer' /\ SourceMoved' /\ FencedPast'
    BY DEF ItemSound, AppliedNotNewer, SourceMoved, FencedPast
  <1> QED BY <1>1, <1>2 DEF ItemSound

(* A move: the first of its key, by an event no older than the watermark,     *)
(* which the move brings up to the event.                                    *)
LEMMA MoveKeeps ==
  ASSUME DeliveriesSound, ItemSound, events' = events, NEW t \in DOMAIN events,
         NEW i \in DOMAIN receipts,
         EventSourceKey(t, i) \notin log, log' = log \cup {EventSourceKey(t, i)},
         state' \in StateTypes, Moved(EventSourceKey(t, i)),
         events[t].kind = "branch" \/ NotOlder(t),
         lastAppliedEventTime' = IF events[t].kind = "branch" THEN lastAppliedEventTime ELSE t,
         \/ stateSourcePrId' = None
         \/ events[t].kind \in {"opened", "reopened"} /\ stateSourcePrId' = events[t].pr,
         \/ fenced' = fenced
         \/ events[t].kind = "merged" /\ fenced' = fenced \cup {events[t].pr}
  PROVE  ItemSound'
  <1>1. PICK k \in Keys : k = EventSourceKey(t, i)
    BY KeyType DEF DeliveriesSound
  <1>2. applied \in [Keys -> 0 .. 2] /\ applied[k] = 0
    BY <1>1 DEF ItemSound, TypeItem, AppliedLogged
  <1>3. applied' = [applied EXCEPT ![k] = 1]
    BY <1>1, <1>2 DEF Moved
  <1>4. /\ applied' \in [Keys -> 0 .. 2] /\ applied'[k] = 1
        /\ \A x \in Keys : x # k => applied'[x] = applied[x]
    BY <1>2, <1>3
  <1>5. t \in 1 .. MaxEvents /\ lastAppliedEventTime \in 0 .. MaxEvents
        /\ lastAppliedEventTime' \in 0 .. MaxEvents
    BY ReceiptType, InboundAssumption DEF DeliveriesSound, ItemSound, TypeItem
  <1>6. lastAppliedEventTime' >= lastAppliedEventTime
    BY <1>5 DEF NotOlder
  <1>7. \A u \in DOMAIN events : u \in Nat
    BY ReceiptType DEF DeliveriesSound
  <1>8. \A u \in DOMAIN events : <<u, 0>> \in Keys
    BY KeyType DEF DeliveriesSound
  <1>9. TypeItem'
    <2>1. stateSourcePrId' \in PRs \cup {None} /\ fenced' \subseteq PRs
      BY EventPr DEF DeliveriesSound, ItemSound, TypeItem
    <2> QED BY <1>1, <1>4, <1>5, <2>1 DEF ItemSound, TypeItem
  <1>10. AppliedLogged' /\ AppliedOnce'
    BY <1>1, <1>4 DEF ItemSound, AppliedLogged, AppliedOnce
  <1>11. AppliedNotNewer'
    <2> SUFFICES ASSUME NEW u \in DOMAIN events, applied'[<<u, 0>>] > 0
                 PROVE  u <= lastAppliedEventTime'
      BY DEF AppliedNotNewer
    <2>1. CASE k = <<u, 0>>
      <3>1. u = t /\ events[t].kind # "branch"
        BY <1>1, <2>1, KeyType DEF DeliveriesSound
      <3> QED BY <1>7, <3>1
    <2>2. CASE k # <<u, 0>>
      <3>1. u <= lastAppliedEventTime
        BY <1>4, <1>8, <2>2 DEF ItemSound, AppliedNotNewer
      <3> QED BY <1>5, <1>6, <1>7, <3>1
    <2> QED BY <2>1, <2>2
  <1>12. SourceMoved'
    <2> SUFFICES ASSUME stateSourcePrId' # None PROVE SourceMoved'
      BY DEF SourceMoved
    <2>1. events[t].kind \in {"opened", "reopened"} /\ stateSourcePrId' = events[t].pr
      OBVIOUS
    <2>2. lastAppliedEventTime' = t /\ k = <<t, 0>>
      BY <1>1, <2>1 DEF EventSourceKey
    <2> QED BY <1>4, <2>1, <2>2 DEF SourceMoved
  <1>13. FencedPast'
    <2> SUFFICES ASSUME NEW p \in fenced'
                 PROVE  \E m \in DOMAIN events :
                           events[m].kind = "merged" /\ events[m].pr = p /\ m <= lastAppliedEventTime'
      BY DEF FencedPast
    <2>1. CASE p \in fenced
      <3>1. PICK m \in DOMAIN events :
               events[m].kind = "merged" /\ events[m].pr = p /\ m <= lastAppliedEventTime
        BY <2>1 DEF ItemSound, FencedPast
      <3> QED BY <1>5, <1>6, <1>7, <3>1
    <2>2. CASE p \notin fenced
      <3>1. events[t].kind = "merged" /\ p = events[t].pr /\ lastAppliedEventTime' = t
        BY <2>2
      <3> QED BY <1>7, <3>1
    <2> QED BY <2>1, <2>2
  <1> QED BY <1>9, <1>10, <1>11, <1>12, <1>13 DEF ItemSound

(* The second write of a merge takes the item from the pull request that put   *)
(* it in Review, and leaves the watermark past the merge either way.           *)
LEMMA FenceKeeps ==
  ASSUME DeliveriesSound, ItemSound, NEW w \in Workers, MergeFence(w)
  PROVE  ItemSound'
  <1>1. PICK i \in DOMAIN receipts :
            /\ i = worker[w].receipt /\ ReceiptSound(receipts[i]) /\ WorkerSound(w)
    BY Working DEF MergeFence
  <1>2. PICK t \in DOMAIN events : t = receipts[i].event /\ events[t].kind = "merged"
    BY <1>1 DEF ReceiptSound, WorkerSound, MergeFence
  <1>3. /\ events' = events /\ log' = log \cup {EventSourceKey(t, i)}
        /\ UNCHANGED <<state, applied>>
        /\ IF FenceApplies(t)
           THEN stateSourcePrId' = None /\ lastAppliedEventTime' = t
           ELSE UNCHANGED <<stateSourcePrId, lastAppliedEventTime>>
        /\ fenced' = IF state = "REVIEW" THEN fenced \cup {events[t].pr} ELSE fenced
    BY <1>1, <1>2 DEF MergeFence, Finish
  <1>4. t \in 1 .. MaxEvents /\ lastAppliedEventTime \in 0 .. MaxEvents
    BY ReceiptType DEF DeliveriesSound, ItemSound, TypeItem
  <1>5. lastAppliedEventTime' \in 0 .. MaxEvents /\ lastAppliedEventTime' >= lastAppliedEventTime
    BY <1>3, <1>4, InboundAssumption DEF FenceApplies, NotOlder
  <1>6. \A u \in DOMAIN events : u \in Nat
    BY ReceiptType DEF DeliveriesSound
  <1>7. TypeItem'
    <2>1. EventSourceKey(t, i) \in Keys /\ events[t].pr \in PRs
      BY <1>2, KeyType, EventPr DEF DeliveriesSound
    <2>2. stateSourcePrId' \in PRs \cup {None} /\ fenced' \subseteq PRs /\ log' \subseteq Keys
      BY <1>3, <2>1 DEF ItemSound, TypeItem
    <2> QED BY <1>3, <1>5, <2>2 DEF ItemSound, TypeItem
  <1>8. AppliedLogged' /\ AppliedOnce'
    BY <1>3 DEF ItemSound, AppliedLogged, AppliedOnce
  <1>9. AppliedNotNewer'
    <2> SUFFICES ASSUME NEW u \in DOMAIN events, applied[<<u, 0>>] > 0
                 PROVE  u <= lastAppliedEventTime'
      BY <1>3 DEF AppliedNotNewer
    <2>1. u <= lastAppliedEventTime
      BY DEF ItemSound, AppliedNotNewer
    <2> QED BY <1>4, <1>5, <1>6, <2>1
  <1>10. SourceMoved'
    BY <1>3 DEF ItemSound, SourceMoved
  <1>11. FencedPast'
    <2> SUFFICES ASSUME NEW p \in fenced'
                 PROVE  \E m \in DOMAIN events :
                           events[m].kind = "merged" /\ events[m].pr = p /\ m <= lastAppliedEventTime'
      BY <1>3 DEF FencedPast
    <2>1. CASE p \in fenced
      <3>1. PICK m \in DOMAIN events :
               events[m].kind = "merged" /\ events[m].pr = p /\ m <= lastAppliedEventTime
        BY <2>1 DEF ItemSound, FencedPast
      <3> QED BY <1>4, <1>5, <1>6, <3>1
    <2>2. CASE p \notin fenced
      <3>1. state = "REVIEW" /\ p = events[t].pr
        BY <1>3, <2>2
      <3>2. t <= lastAppliedEventTime'
        BY <1>3, <1>4, <3>1 DEF FenceApplies, NotOlder
      <3> QED BY <1>2, <3>1, <3>2
    <2> QED BY <2>1, <2>2
  <1> QED BY <1>7, <1>8, <1>9, <1>10, <1>11 DEF ItemSound

-----------------------------------------------------------------------------
(* Every step *)

(* A worker that applies an event works on a live receipt of it.              *)
LEMMA ApplyingIs ==
  ASSUME DeliveriesSound, NEW w \in Workers, NEW t \in DOMAIN events, Applying(w, t)
  PROVE  /\ worker[w].step # "idle" /\ worker[w].receipt \in DOMAIN receipts
         /\ receipts[worker[w].receipt].leased
         /\ EventSourceKey(t, worker[w].receipt) \in Keys
  <1>1. worker[w].step # "idle" /\ receipts[worker[w].receipt].leased
    BY DEF Applying
  <1>2. worker[w].receipt \in DOMAIN receipts
    BY <1>1, Working
  <1> QED BY <1>1, <1>2, KeyType DEF DeliveriesSound

LEMMA DuplicateKeeps ==
  ASSUME InboundSound, NEW w \in Workers, Duplicate(w)
  PROVE  InboundSound'
  <1>1. DeliveriesSound /\ ItemSound
    BY DEF InboundSound
  <1>2. PICK t \in DOMAIN events : Applying(w, t) /\ Finish(w, t) /\ NoMove /\ UNCHANGED fenced
    BY DEF Duplicate
  <1>3. DeliveriesSound'
    BY <1>1, <1>2, ApplyingIs, FinishKeeps
  <1>4. /\ events' = events /\ log \subseteq log' /\ log' \subseteq Keys /\ state' \in StateTypes
        /\ UNCHANGED <<stateSourcePrId, lastAppliedEventTime, applied, fenced>>
    <2>1. EventSourceKey(t, worker[w].receipt) \in Keys
      BY <1>1, <1>2, ApplyingIs
    <2> QED BY <1>1, <1>2, <2>1 DEF Finish, NoMove, ItemSound, TypeItem
  <1>5. ItemSound'
    BY <1>1, <1>4, NoMoveKeeps
  <1> QED BY <1>3, <1>5 DEF InboundSound

(* The event moves the item, or finds it where it moves nothing.              *)
LEMMA EventKeeps ==
  ASSUME InboundSound, NEW w \in Workers, NEW t \in DOMAIN events, Applying(w, t), Finish(w, t),
         EventSourceKey(t, worker[w].receipt) \notin log,
         \/ NoMove /\ fenced' = fenced
         \/ /\ state' \in StateTypes /\ Moved(EventSourceKey(t, worker[w].receipt))
            /\ events[t].kind = "branch" \/ NotOlder(t)
            /\ lastAppliedEventTime' = IF events[t].kind = "branch" THEN lastAppliedEventTime ELSE t
            /\ \/ stateSourcePrId' = None
               \/ events[t].kind \in {"opened", "reopened"} /\ stateSourcePrId' = events[t].pr
            /\ \/ fenced' = fenced
               \/ events[t].kind = "merged" /\ fenced' = fenced \cup {events[t].pr}
  PROVE  InboundSound'
  <1>1. DeliveriesSound /\ ItemSound
    BY DEF InboundSound
  <1>2. DeliveriesSound'
    BY <1>1, ApplyingIs, FinishKeeps
  <1>3. PICK i \in DOMAIN receipts : i = worker[w].receipt
    BY <1>1, ApplyingIs
  <1>4. EventSourceKey(t, i) \in Keys
    BY <1>1, <1>3, ApplyingIs
  <1>5. events' = events /\ log' = log \cup {EventSourceKey(t, i)}
    BY <1>3 DEF Finish
  <1>6. ItemSound'
    <2>1. CASE NoMove /\ fenced' = fenced
      <3>1. /\ log \subseteq log' /\ log' \subseteq Keys /\ state' \in StateTypes
            /\ UNCHANGED <<stateSourcePrId, lastAppliedEventTime, applied, fenced>>
        BY <1>1, <1>4, <1>5, <2>1 DEF NoMove, ItemSound, TypeItem
      <3> QED BY <1>1, <1>5, <3>1, NoMoveKeeps
    <2>2. CASE ~(NoMove /\ fenced' = fenced)
      BY <1>1, <1>3, <1>5, <2>2, MoveKeeps
    <2> QED BY <2>1, <2>2
  <1> QED BY <1>2, <1>6 DEF InboundSound

LEMMA PrEventKeeps ==
  ASSUME InboundSound, NEW w \in Workers, ProcessGitHubPrEvent(w)
  PROVE  InboundSound'
  <1>1. PICK t \in DOMAIN events :
           /\ Applying(w, t) /\ IsNewEvent(EventSourceKey(t, worker[w].receipt))
           /\ \/ /\ events[t].kind \in {"opened", "reopened"}
                 /\ ApplyForward(t, worker[w].receipt, "REVIEW", events[t].pr)
              \/ /\ events[t].kind = "unmerged"
                 /\ ApplyRollback(t)
           /\ UNCHANGED fenced
           /\ Finish(w, t)
    BY DEF ProcessGitHubPrEvent
  <1>2. CASE events[t].kind \in {"opened", "reopened"}
    BY <1>1, <1>2, EventKeeps
       DEF IsNewEvent, ApplyForward, ForwardApplies, Forward, StateTypes
  <1>3. CASE events[t].kind = "unmerged"
    <2>1. EventSourceKey(t, 0) = EventSourceKey(t, worker[w].receipt)
      BY <1>3 DEF EventSourceKey
    <2> QED BY <1>1, <1>3, <2>1, EventKeeps DEF IsNewEvent, ApplyRollback, RollbackApplies, StateTypes
  <1> QED BY <1>1, <1>2, <1>3

LEMMA CreateEventKeeps ==
  ASSUME InboundSound, NEW w \in Workers, ProcessGitHubCreateEvent(w)
  PROVE  InboundSound'
  <1>1. PICK t \in DOMAIN events :
           /\ Applying(w, t) /\ IsNewEvent(EventSourceKey(t, worker[w].receipt))
           /\ events[t].kind = "branch"
           /\ ApplyForward(t, worker[w].receipt, "STARTED", None)
           /\ UNCHANGED fenced
           /\ Finish(w, t)
    BY DEF ProcessGitHubCreateEvent
  <1> QED BY <1>1, EventKeeps DEF IsNewEvent, ApplyForward, ForwardApplies, Forward, StateTypes

LEMMA MergeKeeps ==
  ASSUME InboundSound, NEW w \in Workers, MergeForward(w)
  PROVE  InboundSound'
  <1>1. PICK t \in DOMAIN events :
           /\ Applying(w, t) /\ IsNewEvent(EventSourceKey(t, worker[w].receipt))
           /\ events[t].kind = "merged"
           /\ \/ /\ ForwardApplies(t, "REVIEW")
                 /\ Forward(t, worker[w].receipt, "REVIEW", None)
                 /\ fenced' = fenced \cup {events[t].pr}
                 /\ Finish(w, t)
              \/ /\ ~ForwardApplies(t, "REVIEW")
                 /\ worker' = [worker EXCEPT ![w].step = "fence"]
                 /\ UNCHANGED <<events, receipts, faults, item>>
    BY DEF MergeForward
  <1>2. CASE ForwardApplies(t, "REVIEW")
    BY <1>1, <1>2, EventKeeps DEF IsNewEvent, ForwardApplies, Forward, StateTypes
  <1>3. CASE ~ForwardApplies(t, "REVIEW")
    <2>1. DeliveriesSound'
      BY <1>1, <1>3, FenceStarts DEF InboundSound
    <2>2. ItemSound'
      BY <1>1, <1>3, NoMoveKeeps DEF InboundSound, ItemSound, TypeItem, item
    <2> QED BY <2>1, <2>2 DEF InboundSound
  <1> QED BY <1>2, <1>3

LEMMA MergeFenceKeeps ==
  ASSUME InboundSound, NEW w \in Workers, MergeFence(w)
  PROVE  InboundSound'
  <1>1. DeliveriesSound /\ ItemSound
    BY DEF InboundSound
  <1>2. PICK i \in DOMAIN receipts : i = worker[w].receipt /\ ReceiptSound(receipts[i])
    BY <1>1, Working DEF MergeFence
  <1>3. PICK t \in DOMAIN events : t = receipts[i].event
    BY <1>2 DEF ReceiptSound
  <1>4. Finish(w, t) /\ worker[w].step # "idle" /\ receipts[worker[w].receipt].leased
    BY <1>2, <1>3 DEF MergeFence
  <1>5. DeliveriesSound'
    BY <1>1, <1>4, FinishKeeps
  <1>6. ItemSound'
    BY <1>1, FenceKeeps
  <1> QED BY <1>5, <1>6 DEF InboundSound

(* Steps that leave the item alone.                                          *)
LEMMA ItemStays ==
  ASSUME InboundSound, events' = events, UNCHANGED item, DeliveriesSound'
  PROVE  InboundSound'
  <1>1. ItemSound'
    BY NoMoveKeeps DEF InboundSound, ItemSound, TypeItem, item
  <1> QED BY <1>1 DEF InboundSound

LEMMA MoveItemKeeps ==
  ASSUME InboundSound, NEW to \in MoveTargets, MoveItem(to)
  PROVE  InboundSound'
  <1>1. ItemSound'
    BY NoMoveKeeps, InboundAssumption DEF InboundSound, ItemSound, TypeItem, MoveItem
  <1>2. DeliveriesSound'
    BY DEF InboundSound, DeliveriesSound, TypeDeliveries, ReceiptsSound, ReceiptSound, WorkersSound,
           WorkerSound, Holds, MoveItem
  <1> QED BY <1>1, <1>2 DEF InboundSound

LEMMA ReceiptTimeStep ==
  ASSUME InboundSound, NEW i \in DOMAIN receipts,
         ReplayGitHubDelivery(i) \/ LeaseLapses(i) \/ RetryDelayPasses(i)
  PROVE  InboundSound'
  <1>1. DeliveriesSound'
    BY ReceiptTimeKeeps DEF InboundSound
  <1>2. events' = events /\ UNCHANGED item
    BY DEF ReplayGitHubDelivery, LeaseLapses, RetryDelayPasses
  <1> QED BY <1>1, <1>2, ItemStays

LEMMA StepKeeps ==
  ASSUME InboundSound, [Next]_vars
  PROVE  InboundSound'
  <1>0. DeliveriesSound
    BY DEF InboundSound
  <1>1. ASSUME NEW t \in DOMAIN events, AcceptGitHubDelivery(t)
        PROVE  InboundSound'
    <2>1. DeliveriesSound'
      BY <1>0, <1>1, AcceptKeeps
    <2>2. events' = events /\ UNCHANGED item
      BY <1>1 DEF AcceptGitHubDelivery
    <2> QED BY <2>1, <2>2, ItemStays
  <1>2. ASSUME NEW w \in Workers, Pick(w) \/ ClaimLost(w) \/ Stale(w) \/ Crash(w)
        PROVE  InboundSound'
    <2>1. DeliveriesSound'
      BY <1>0, <1>2, PickKeeps
    <2>2. events' = events /\ UNCHANGED item
      BY <1>2 DEF Pick, ClaimLost, Stale, Crash
    <2> QED BY <2>1, <2>2, ItemStays
  <1>3. ASSUME NEW w \in Workers, Claim(w)
        PROVE  InboundSound'
    <2>1. DeliveriesSound'
      BY <1>0, <1>3, ClaimKeeps
    <2>2. events' = events /\ UNCHANGED item
      BY <1>3 DEF Claim
    <2> QED BY <2>1, <2>2, ItemStays
  <1>4. ASSUME NEW w \in Workers, Fail(w)
        PROVE  InboundSound'
    <2>1. DeliveriesSound'
      BY <1>0, <1>4, FailKeeps
    <2>2. events' = events /\ UNCHANGED item
      BY <1>4 DEF Fail
    <2> QED BY <2>1, <2>2, ItemStays
  <1>5. ASSUME NEW w \in Workers, Process(w)
        PROVE  InboundSound'
    BY <1>5, DuplicateKeeps, PrEventKeeps, CreateEventKeeps, MergeKeeps, MergeFenceKeeps DEF Process
  <1>6. CASE UNCHANGED vars
    BY <1>6 DEF vars, InboundSound, DeliveriesSound, TypeDeliveries, ReceiptsSound, ReceiptSound,
               WorkersSound, WorkerSound, Holds, ItemSound, TypeItem, AppliedLogged, AppliedOnce,
               AppliedNotNewer, SourceMoved, FencedPast
  <1>7. CASE Next
    <2>1. CASE \E t \in DOMAIN events : AcceptGitHubDelivery(t)
      BY <1>1, <2>1
    <2>2. CASE \E w \in Workers : \/ Pick(w) \/ Claim(w) \/ ClaimLost(w) \/ Process(w)
                                  \/ Stale(w) \/ Fail(w) \/ Crash(w)
      BY <1>2, <1>3, <1>4, <1>5, <2>2
    <2>3. CASE \E i \in DOMAIN receipts : ReplayGitHubDelivery(i) \/ LeaseLapses(i) \/ RetryDelayPasses(i)
      BY <2>3, ReceiptTimeStep
    <2>4. CASE \E to \in MoveTargets : MoveItem(to)
      BY <2>4, MoveItemKeeps
    <2> QED BY <1>7, <2>1, <2>2, <2>3, <2>4 DEF Next
  <1> QED BY <1>6, <1>7

LEMMA InitSound ==
  ASSUME Init PROVE InboundSound
  <1>1. TypeDeliveries
    BY IdleIsWorker, InboundAssumption DEF Init, TypeDeliveries
  <1>2. ReceiptsSound /\ WorkersSound
    BY DEF Init, ReceiptsSound, WorkersSound, WorkerSound, IdleWorker
  <1>3. TypeItem
    BY InboundAssumption DEF Init, TypeItem, StateTypes
  <1>4. DOMAIN events \subseteq 1 .. MaxEvents /\ \A u \in DOMAIN events : <<u, 0>> \in Keys
    BY <1>1, ReceiptType, InboundAssumption DEF Keys
  <1>5. AppliedLogged /\ AppliedOnce /\ AppliedNotNewer /\ SourceMoved /\ FencedPast
    BY <1>4 DEF Init, AppliedLogged, AppliedOnce, AppliedNotNewer, SourceMoved, FencedPast
  <1> QED BY <1>1, <1>2, <1>3, <1>5 DEF InboundSound, DeliveriesSound, ItemSound

LEMMA InboundInvariant == Spec => []InboundSound
  <1>1. Init => InboundSound
    BY InitSound
  <1>2. InboundSound /\ [Next]_vars => InboundSound'
    BY StepKeeps
  <1> QED BY <1>1, <1>2, PTL DEF Spec

(* No event is applied twice, whatever is redelivered, retried, replayed or    *)
(* taken over (recordEventLog and the receipt's one transaction).             *)
THEOREM NoEventTwice == Spec => []InboundInv
  BY InboundInvariant, SoundImpliesInv, PTL

-----------------------------------------------------------------------------
(* What a step may never do *)

LEMMA ProcessedStep ==
  ASSUME InboundSound, [Next]_vars, NEW i \in DOMAIN receipts, receipts[i].status = "PROCESSED"
  PROVE  receipts'[i] = receipts[i]
  <1>0. DeliveriesSound /\ ReceiptSound(receipts[i]) /\ receipts \in Seq(Receipt)
    BY DEF InboundSound, DeliveriesSound, ReceiptsSound, TypeDeliveries
  <1>1. ASSUME NEW w \in Workers, NEW t \in DOMAIN events, Finish(w, t),
               worker[w].step # "idle", receipts[worker[w].receipt].leased
        PROVE  receipts'[i] = receipts[i]
    <2>1. worker[w].receipt # i
      BY <1>0, <1>1 DEF ReceiptSound
    <2> QED BY <2>1, <1>0, <1>1 DEF Finish, Completed
  <1>2. ASSUME NEW w \in Workers, Process(w)
        PROVE  receipts'[i] = receipts[i]
    <2>1. CASE Duplicate(w)
      BY <1>0, <1>1, <2>1, ApplyingIs DEF Duplicate
    <2>2. CASE ProcessGitHubPrEvent(w)
      BY <1>0, <1>1, <2>2, ApplyingIs DEF ProcessGitHubPrEvent
    <2>3. CASE ProcessGitHubCreateEvent(w)
      BY <1>0, <1>1, <2>3, ApplyingIs DEF ProcessGitHubCreateEvent
    <2>4. CASE MergeForward(w)
      BY <1>0, <1>1, <2>4, ApplyingIs DEF MergeForward
    <2>5. CASE MergeFence(w)
      <3>1. PICK t \in DOMAIN events : Finish(w, t)
        BY <1>0, <2>5, Working DEF MergeFence, ReceiptSound
      <3> QED BY <1>1, <2>5, <3>1 DEF MergeFence
    <2> QED BY <1>2, <2>1, <2>2, <2>3, <2>4, <2>5 DEF Process
  <1>3. ASSUME NEW w \in Workers, Claim(w)
        PROVE  receipts'[i] = receipts[i]
    BY <1>0, <1>3 DEF Claim, Eligible
  <1>4. ASSUME NEW w \in Workers, Fail(w)
        PROVE  receipts'[i] = receipts[i]
    BY <1>0, <1>4 DEF Fail, FailureCounts, Holds
  <1>5. ASSUME NEW w \in Workers, Pick(w) \/ ClaimLost(w) \/ Stale(w) \/ Crash(w)
        PROVE  receipts'[i] = receipts[i]
    BY <1>5 DEF Pick, ClaimLost, Stale, Crash
  <1>6. ASSUME NEW j \in DOMAIN receipts,
               ReplayGitHubDelivery(j) \/ LeaseLapses(j) \/ RetryDelayPasses(j)
        PROVE  receipts'[i] = receipts[i]
    BY <1>0, <1>6 DEF ReplayGitHubDelivery, LeaseLapses, RetryDelayPasses, ReceiptSound
  <1>7. ASSUME NEW t \in DOMAIN events, AcceptGitHubDelivery(t)
        PROVE  receipts'[i] = receipts[i]
    BY <1>0, <1>7 DEF AcceptGitHubDelivery
  <1>8. ASSUME NEW to \in MoveTargets, MoveItem(to)
        PROVE  receipts'[i] = receipts[i]
    BY <1>8 DEF MoveItem
  <1>9. CASE UNCHANGED vars
    BY <1>9 DEF vars
  <1> QED BY <1>2, <1>3, <1>4, <1>5, <1>6, <1>7, <1>8, <1>9 DEF Next

(* A processed receipt stays as it is: nobody claims, fails or replays it      *)
(* again (processClaimedGitHubDelivery).                                      *)
THEOREM AProcessedReceiptStays == Spec => ProcessedForGood
  <1>1. InboundSound /\ [Next]_vars =>
           [\A i \in DOMAIN receipts :
               receipts[i].status = "PROCESSED" => receipts'[i] = receipts[i]]_vars
    BY ProcessedStep
  <1> QED BY <1>1, InboundInvariant, PTL DEF Spec, ProcessedForGood

(* A step that applies a close is the rollback of that close.                  *)
LEMMA CloseIsRollback ==
  ASSUME InboundSound, Next, NEW t \in DOMAIN events, events[t].kind = "unmerged",
         applied'[<<t, 0>>] > applied[<<t, 0>>]
  PROVE  RollbackApplies(t)
  <1>0. DeliveriesSound /\ applied \in [Keys -> 0 .. 2] /\ <<t, 0>> \in Keys
    <2>1. DeliveriesSound /\ applied \in [Keys -> 0 .. 2]
      BY DEF InboundSound, ItemSound, TypeItem
    <2>2. t \in 1 .. MaxEvents
      BY <2>1, ReceiptType DEF DeliveriesSound
    <2> QED BY <2>1, <2>2, InboundAssumption DEF Keys
  <1>1. applied' # applied
    BY <1>0
  <1>2. ASSUME NEW w \in Workers, NEW u \in DOMAIN events, Applying(w, u),
               Moved(EventSourceKey(u, worker[w].receipt))
        PROVE  u = t
    <2>1. PICK i \in DOMAIN receipts : i = worker[w].receipt
      BY <1>0, <1>2, ApplyingIs
    <2>2. EventSourceKey(u, i) = <<t, 0>>
      <3>1. PICK k \in Keys : k = EventSourceKey(u, i)
        BY <1>0, <2>1, KeyType DEF DeliveriesSound
      <3>2. applied' = [applied EXCEPT ![k] = IF @ < 2 THEN @ + 1 ELSE @]
        BY <1>2, <2>1, <3>1 DEF Moved
      <3> QED BY <1>0, <3>1, <3>2
    <2> QED BY <1>0, <2>1, <2>2, KeyType DEF DeliveriesSound
  <1>3. ASSUME NEW w \in Workers, Process(w)
        PROVE  RollbackApplies(t)
    <2>1. CASE Duplicate(w)
      BY <1>1, <2>1 DEF Duplicate, NoMove
    <2>2. CASE ProcessGitHubPrEvent(w)
      <3>1. PICK u \in DOMAIN events :
               /\ Applying(w, u)
               /\ \/ /\ events[u].kind \in {"opened", "reopened"}
                     /\ ApplyForward(u, worker[w].receipt, "REVIEW", events[u].pr)
                  \/ /\ events[u].kind = "unmerged"
                     /\ ApplyRollback(u)
        BY <2>2 DEF ProcessGitHubPrEvent
      <3>2. CASE events[u].kind \in {"opened", "reopened"}
        BY <1>1, <1>2, <3>1, <3>2 DEF ApplyForward, Forward, NoMove
      <3>3. CASE events[u].kind = "unmerged"
        <4>1. EventSourceKey(u, 0) = EventSourceKey(u, worker[w].receipt)
          BY <3>3 DEF EventSourceKey
        <4>2. RollbackApplies(u) /\ Moved(EventSourceKey(u, worker[w].receipt))
          BY <1>1, <3>1, <3>3, <4>1 DEF ApplyRollback, NoMove
        <4> QED BY <1>2, <3>1, <4>2
      <3> QED BY <3>1, <3>2, <3>3
    <2>3. CASE ProcessGitHubCreateEvent(w)
      BY <1>1, <1>2, <2>3 DEF ProcessGitHubCreateEvent, ApplyForward, Forward, NoMove
    <2>4. CASE MergeForward(w)
      BY <1>1, <1>2, <2>4 DEF MergeForward, Forward, item
    <2>5. CASE MergeFence(w)
      BY <1>1, <2>5 DEF MergeFence
    <2> QED BY <1>3, <2>1, <2>2, <2>3, <2>4, <2>5 DEF Process
  <1>4. ASSUME NEW w \in Workers,
               Pick(w) \/ Claim(w) \/ ClaimLost(w) \/ Stale(w) \/ Fail(w) \/ Crash(w)
        PROVE  FALSE
    BY <1>1, <1>4 DEF Pick, Claim, ClaimLost, Stale, Fail, Crash, item
  <1>5. ASSUME NEW j \in DOMAIN receipts,
               ReplayGitHubDelivery(j) \/ LeaseLapses(j) \/ RetryDelayPasses(j)
        PROVE  FALSE
    BY <1>1, <1>5 DEF ReplayGitHubDelivery, LeaseLapses, RetryDelayPasses, item
  <1>6. ASSUME NEW u \in DOMAIN events, AcceptGitHubDelivery(u)
        PROVE  FALSE
    BY <1>1, <1>6 DEF AcceptGitHubDelivery, item
  <1>7. ASSUME NEW to \in MoveTargets, MoveItem(to)
        PROVE  FALSE
    BY <1>1, <1>7 DEF MoveItem
  <1> QED BY <1>3, <1>4, <1>5, <1>6, <1>7 DEF Next

LEMMA LateCloseStep ==
  ASSUME InboundSound, NEW t \in DOMAIN events, events[t].kind = "unmerged", RollbackApplies(t)
  PROVE  /\ events[t].pr \notin fenced
         /\ \A u \in DOMAIN events : u > t => applied[<<u, 0>>] = 0
  <1>1. TypeDeliveries /\ ItemSound
    BY DEF InboundSound, DeliveriesSound
  <1>2. /\ \A u \in DOMAIN events : u \in Nat
        /\ lastAppliedEventTime \in Nat /\ lastAppliedEventTime <= t
    BY <1>1, ReceiptType DEF ItemSound, TypeItem, RollbackApplies, NotOlder
  <1>3. ASSUME events[t].pr \in fenced PROVE FALSE
    <2>1. PICK m \in DOMAIN events :
             events[m].kind = "merged" /\ events[m].pr = events[t].pr /\ m <= lastAppliedEventTime
      BY <1>1, <1>3 DEF ItemSound, FencedPast
    <2>2. t <= m
      BY <1>1, <2>1, MergeIsLast DEF TypeDeliveries
    <2> QED BY <1>2, <2>1, <2>2
  <1>4. ASSUME NEW u \in DOMAIN events, u > t PROVE applied[<<u, 0>>] = 0
    <2>1. ~(applied[<<u, 0>>] > 0)
      BY <1>1, <1>2, <1>4 DEF ItemSound, AppliedNotNewer
    <2>2. <<u, 0>> \in Keys
      BY <1>1, ReceiptType, InboundAssumption DEF Keys
    <2>3. applied[<<u, 0>>] \in 0 .. 2
      BY <1>1, <2>2 DEF ItemSound, TypeItem
    <2> QED BY <2>1, <2>3
  <1> QED BY <1>3, <1>4

(* A delayed close moves nothing newer than it, and nothing once the merge of  *)
(* its pull request was processed in Review (the LWW guard and the fence).     *)
THEOREM ALateCloseMovesNothing == Spec => LateCloseMovesNothing
  <1>1. InboundSound /\ [Next]_vars =>
           [\A w \in Workers, t \in DOMAIN events :
              (events[t].kind = "unmerged" /\ Applying(w, t) /\ applied'[<<t, 0>>] > applied[<<t, 0>>])
              => /\ events[t].pr \notin fenced
                 /\ \A u \in DOMAIN events : u > t => applied[<<u, 0>>] = 0]_vars
    BY CloseIsRollback, LateCloseStep
  <1> QED BY <1>1, InboundInvariant, PTL DEF Spec, LateCloseMovesNothing

LEMMA MoverStep ==
  ASSUME InboundSound, NEW t \in DOMAIN events, events[t].kind = "unmerged", RollbackApplies(t)
  PROVE  \E u \in DOMAIN events : /\ events[u].kind \in {"opened", "reopened"}
                                  /\ events[u].pr = events[t].pr
                                  /\ applied[<<u, 0>>] > 0
  <1>1. stateSourcePrId = events[t].pr /\ events[t].pr # None
    BY EventPr DEF InboundSound, DeliveriesSound, RollbackApplies
  <1> QED BY <1>1 DEF InboundSound, ItemSound, SourceMoved

(* A closed pull request moves the item out of Review only if its own opening  *)
(* had moved the item in (the restricted provenance rollback).                 *)
THEOREM ARollbackHasAMover == Spec => RolledBackByAMover
  <1>1. InboundSound /\ [Next]_vars =>
           [\A w \in Workers, t \in DOMAIN events :
              (events[t].kind = "unmerged" /\ Applying(w, t) /\ applied'[<<t, 0>>] > applied[<<t, 0>>])
              => \E u \in DOMAIN events : /\ events[u].kind \in {"opened", "reopened"}
                                          /\ events[u].pr = events[t].pr
                                          /\ applied[<<u, 0>>] > 0]_vars
    BY CloseIsRollback, MoverStep
  <1> QED BY <1>1, InboundInvariant, PTL DEF Spec, RolledBackByAMover
=============================================================================
