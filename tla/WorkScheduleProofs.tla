------------------------- MODULE WorkScheduleProofs -------------------------
(***************************************************************************)
(* Proofs about WorkSchedule, for every calendar, every horizon, all rules   *)
(* and zones, and any number of timers, runs, rounds and schedules.          *)
(***************************************************************************)
EXTENDS WorkSchedule, NaturalsInduction, WellFoundedInduction, TLAPS

-----------------------------------------------------------------------------
(* Numbers *)

Below == {p \in Nat \X Nat : p[1] < p[2]}

LEMMA BelowIsWellFounded == IsWellFoundedOn(Below, Nat)
  <1>1. Below = OpToRel(<, Nat)
    BY Zenon DEF Below, OpToRel
  <1> QED BY <1>1, NatLessThanWellFounded, Zenon

(* A nonempty set of numbers has a least element.                            *)
LEMMA LeastExists ==
  ASSUME NEW T \in SUBSET Nat, T # {}
  PROVE  \E x \in T : \A y \in T : x <= y
  <1>1. PICK x \in T : \A y \in T : ~(<<y, x>> \in Below)
    BY BelowIsWellFounded, WFMin, Zenon
  <1>2. \A a, b \in Nat : a < b => <<a, b>> \in Below
    BY DEF Below
  <1>3. \A y \in T : ~(y < x)
    BY <1>1, <1>2
  <1>4. x \in Nat /\ T \subseteq Nat
    OBVIOUS
  <1> QED BY <1>3, <1>4

LEMMA Division ==
  ASSUME NEW x \in Int, NEW m \in Nat \ {0}
  PROVE  /\ x \div m \in Int /\ x % m \in 0 .. m - 1
         /\ x = m * (x \div m) + (x % m)
  OBVIOUS

(* Numbers that lie between two neighbouring multiples have one quotient.      *)
LEMMA SameQuotient ==
  ASSUME NEW m \in Nat \ {0}, NEW q \in Int, NEW y \in Int, m * q <= y, y < m * q + m
  PROVE  y \div m = q
  <1> DEFINE r == y \div m
  <1>1. r \in Int /\ m * r <= y /\ y < m * r + m
    BY Division
  <1> HIDE DEF r
  <1>2. ~(r < q)
    <2> SUFFICES ASSUME r < q PROVE FALSE
      OBVIOUS
    <2>1. q = r + 1 + (q - r - 1) /\ q - r - 1 >= 0 /\ q - r - 1 \in Int
      BY <1>1
    <2>2. m * q = m * r + m + m * (q - r - 1) /\ m * (q - r - 1) >= 0
      BY <1>1, <2>1
    <2> QED BY <1>1, <2>2
  <1>3. ~(q < r)
    <2> SUFFICES ASSUME q < r PROVE FALSE
      OBVIOUS
    <2>1. r = q + 1 + (r - q - 1) /\ r - q - 1 >= 0 /\ r - q - 1 \in Int
      BY <1>1
    <2>2. m * r = m * q + m + m * (r - q - 1) /\ m * (r - q - 1) >= 0
      BY <1>1, <2>1
    <2> QED BY <1>1, <2>2
  <1>4. r = q
    BY <1>1, <1>2, <1>3
  <1> QED BY <1>4 DEF r

(* A multiple of m above x is at least as far as the next one.                 *)
LEMMA NextMultiple ==
  ASSUME NEW m \in Nat \ {0}, NEW x \in Int, NEW y \in Int, x < y, y % m = 0
  PROVE  x + (m - (x % m)) <= y
  <1> DEFINE q == x \div m
             r == y \div m
  <1>1. q \in Int /\ r \in Int /\ x = m * q + (x % m) /\ y = m * r /\ x % m \in 0 .. m - 1
    BY Division
  <1> HIDE DEF q, r
  <1>2. q < r
    <2> SUFFICES ASSUME r <= q PROVE FALSE
      BY <1>1
    <2>1. q - r \in Nat /\ m * q = m * r + m * (q - r) /\ m * (q - r) >= 0
      BY <1>1
    <2> QED BY <1>1, <2>1
  <1>3. r - q - 1 \in Nat /\ m * r = m * q + m + m * (r - q - 1) /\ m * (r - q - 1) >= 0
    BY <1>1, <1>2
  <1> QED BY <1>1, <1>3

-----------------------------------------------------------------------------
(* The clock *)

LocalTime(t, zone) == t + zone[t]

LEMMA ZoneFacts == ASSUME NEW zone \in Zones, NEW t \in Instants PROVE zone[t] \in Int
  BY ZoneAssumption

LEMMA InstantFacts ==
  /\ Instants \subseteq Nat
  /\ \A t \in Nat, after \in 0 .. MaxTime : t <= after + 1 + Horizon => t \in Instants
  BY CalendarAssumption, RuleAssumption DEF Instants

LEMMA CalendarFacts == MinutesPerHour \in Nat \ {0} /\ Horizon \in Nat \ {0}
  BY CalendarAssumption

LEMMA LocalIsInt == ASSUME NEW zone \in Zones, NEW t \in Instants PROVE LocalTime(t, zone) \in Int
  BY ZoneFacts, InstantFacts DEF LocalTime

LEMMA MinuteIs ==
  ASSUME NEW zone, NEW t
  PROVE  wallClock(t, zone).minute = LocalTime(t, zone) % MinutesPerHour
  BY DEF wallClock, LocalTime

(* The jump of the search is at most an hour.                                 *)
LEMMA JumpIsForward ==
  ASSUME NEW zone \in Zones, NEW t \in Instants
  PROVE  NextHour(t, wallClock(t, zone)) \in t + 1 .. t + MinutesPerHour
  <1>1. LocalTime(t, zone) % MinutesPerHour \in 0 .. MinutesPerHour - 1
    BY Division, LocalIsInt, CalendarFacts
  <1> QED BY <1>1, MinuteIs, CalendarFacts, InstantFacts DEF NextHour

(* The day, the month and the hour of the wall clock.                         *)
SameDayAndHour(c, d) ==
    c.hour = d.hour /\ c.dayOfMonth = d.dayOfMonth /\ c.dayOfWeek = d.dayOfWeek /\ c.month = d.month

LEMMA HourDecides ==
  ASSUME NEW zone, NEW t, NEW u,
         LocalTime(t, zone) \div MinutesPerHour = LocalTime(u, zone) \div MinutesPerHour
  PROVE  SameDayAndHour(wallClock(t, zone), wallClock(u, zone))
  BY DEF SameDayAndHour, wallClock, LocalTime

(* The jump stays within the hour the wall clock shows, as long as the zone    *)
(* has the offset it had.                                                   *)
LEMMA JumpStaysInTheHour ==
  ASSUME NEW zone \in Zones, NEW t \in Instants, NEW u \in Instants,
         u \in t .. NextHour(t, wallClock(t, zone)) - 1, zone[u] = zone[t]
  PROVE  SameDayAndHour(wallClock(t, zone), wallClock(u, zone))
  <1> DEFINE m == MinutesPerHour
             lt == LocalTime(t, zone)
             lu == LocalTime(u, zone)
             far == NextHour(t, wallClock(t, zone))
  <1>1. /\ far = t + (m - (lt % m)) /\ t \in Nat /\ u \in Nat /\ t <= u /\ u < far
        /\ m \in Nat \ {0}
    BY JumpIsForward, MinuteIs, CalendarFacts, InstantFacts DEF NextHour
  <1>2. lt \in Int /\ lu \in Int /\ lt \div m \in Int /\ lt % m \in 0 .. m - 1
        /\ lt = m * (lt \div m) + (lt % m)
    BY <1>1, LocalIsInt, Division
  <1>3. lu - lt = u - t
    BY <1>1, ZoneFacts DEF LocalTime
  <1> HIDE DEF lt, lu, far, m
  <1>4. lu = lt + (u - t) /\ u - t >= 0 /\ u - t < m - (lt % m)
    BY <1>1, <1>2, <1>3
  <1>5. m * (lt \div m) \in Int
    BY <1>1, <1>2
  <1>6. m * (lt \div m) <= lu /\ lu < m * (lt \div m) + m
    BY <1>1, <1>2, <1>4, <1>5
  <1>7. lu \div m = lt \div m
    BY <1>1, <1>2, <1>6, SameQuotient
  <1> QED BY <1>7, HourDecides DEF lt, lu, m

(* What the search passes over does not match, and what it stops at does.      *)
LEMMA DayOkIsDay ==
  ASSUME NEW fields, NEW t, NEW zone
  PROVE  matches(fields, t, zone) <=>
           LET clock == wallClock(t, zone)
           IN  /\ clock.minute \in fields.minute /\ clock.hour \in fields.hour
               /\ clock.month \in fields.month /\ DayOk(fields, clock)
  BY DEF matches, DayOk, BothDays

-----------------------------------------------------------------------------
(* The search *)

Limit(after) == after + 1 + Horizon
Domain(after) == after + 1 .. Limit(after) + MinutesPerHour

(* One step of nextMatch's search at t, given what it finds at later instants. *)
StepOf(f, t, fields, zone, limit) ==
    LET clock == wallClock(t, zone)
    IN  IF t >= limit THEN None
        ELSE IF clock.month \notin fields.month \/ ~DayOk(fields, clock)
                \/ clock.hour \notin fields.hour
        THEN f[NextHour(t, clock)]
        ELSE IF clock.minute \in fields.minute THEN t
        ELSE f[t + 1]
IsSearch(f, fields, zone, after) ==
    f = [t \in Domain(after) |-> StepOf(f, t, fields, zone, Limit(after))]
Search(fields, zone, after) == CHOOSE f : IsSearch(f, fields, zone, after)

LEMMA NextMatchSearches ==
  ASSUME NEW fields, NEW zone, NEW after
  PROVE  nextMatch(fields, zone, after) = Search(fields, zone, after)[after + 1]
  BY Zenon DEF nextMatch, Search, IsSearch, StepOf, Domain, Limit

LEMMA DomainFacts ==
  ASSUME NEW after \in 0 .. MaxTime
  PROVE  /\ after \in Nat /\ Limit(after) \in Nat /\ Limit(after) > after + 1
         /\ Domain(after) \subseteq Nat
         /\ \A t \in Nat : t \in Domain(after) <=> after < t /\ t <= Limit(after) + MinutesPerHour
         /\ \A t \in Nat : t < Limit(after) => t \in Instants
  <1>1. MaxTime \in Nat /\ after \in Nat
    BY RuleAssumption
  <1>2. Limit(after) = after + 1 + Horizon
    BY DEF Limit
  <1>3. \A t \in Nat : t < Limit(after) => t \in Instants
    BY <1>1, <1>2, InstantFacts, CalendarFacts
  <1> QED BY <1>1, <1>3, CalendarFacts DEF Limit, Domain

(* Before the limit a step looks only at later instants of the domain.         *)
LEMMA StepLooksAhead ==
  ASSUME NEW fields, NEW zone \in Zones, NEW after \in 0 .. MaxTime, NEW t \in Domain(after), t < Limit(after)
  PROVE  /\ NextHour(t, wallClock(t, zone)) \in Domain(after) /\ NextHour(t, wallClock(t, zone)) > t
         /\ t + 1 \in Domain(after)
  <1> DEFINE h == NextHour(t, wallClock(t, zone))
  <1>1. t \in Nat /\ after < t /\ Limit(after) \in Nat /\ MinutesPerHour \in Nat \ {0}
    BY DomainFacts, CalendarFacts
  <1>2. h \in t + 1 .. t + MinutesPerHour
    BY <1>1, JumpIsForward, DomainFacts
  <1> HIDE DEF h
  <1>3. h \in Nat /\ after < h /\ h <= Limit(after) + MinutesPerHour /\ h > t
    BY <1>1, <1>2
  <1>4. t + 1 \in Nat /\ after < t + 1 /\ t + 1 <= Limit(after) + MinutesPerHour
    BY <1>1
  <1> QED BY <1>3, <1>4, DomainFacts DEF h

LEMMA StepDependsOnLater ==
  ASSUME NEW fields, NEW zone \in Zones, NEW after \in 0 .. MaxTime, NEW t \in Domain(after), NEW f, NEW g,
         \A u \in Domain(after) : u > t => f[u] = g[u]
  PROVE  StepOf(f, t, fields, zone, Limit(after)) = StepOf(g, t, fields, zone, Limit(after))
  <1>1. CASE t >= Limit(after)
    BY <1>1 DEF StepOf
  <1>2. CASE ~(t >= Limit(after))
    <2>1. t \in Nat /\ Limit(after) \in Nat
      BY DomainFacts
    <2>2. t < Limit(after)
      BY <1>2, <2>1
    <2>3. f[NextHour(t, wallClock(t, zone))] = g[NextHour(t, wallClock(t, zone))] /\ f[t + 1] = g[t + 1]
      <3> DEFINE h == NextHour(t, wallClock(t, zone))
      <3>1. h \in Domain(after) /\ h > t /\ t + 1 \in Domain(after)
        BY <2>2, StepLooksAhead
      <3>2. t + 1 > t
        BY <2>1
      <3> HIDE DEF h
      <3>3. f[h] = g[h] /\ f[t + 1] = g[t + 1]
        BY <3>1, <3>2
      <3> QED BY <3>3 DEF h
    <2> QED BY <2>3, Zenon DEF StepOf
  <1> QED BY <1>1, <1>2

(* The search from the limit down to n exists.                                *)
Partial(n, fields, zone, after) ==
    \E f : /\ DOMAIN f = Domain(after) /\ f = [t \in Domain(after) |-> f[t]]
           /\ \A t \in Domain(after) :
                 n <= t => f[t] = StepOf(f, t, fields, zone, Limit(after))

(* A recursive function that looks only ahead exists: otherwise there is a     *)
(* last instant from which it does not, and it can be extended by that one.    *)
LEMMA SearchExists ==
  ASSUME NEW fields, NEW zone \in Zones, NEW after \in 0 .. MaxTime
  PROVE  IsSearch(Search(fields, zone, after), fields, zone, after)
  <1> DEFINE lim == Limit(after)
             dom == Domain(after)
             Part(n) == Partial(n, fields, zone, after)
  <1>0. after \in Nat /\ lim \in Nat /\ dom \subseteq Nat /\ lim = after + 1 + Horizon /\ Horizon \in Nat
        /\ \A t \in Nat : t \in dom <=> after < t /\ t <= lim + MinutesPerHour
    BY DomainFacts, CalendarFacts DEF Limit
  <1>1. Part(lim)
    <2> DEFINE f == [t \in dom |-> None]
    <2>1. \A t \in dom : lim <= t => f[t] = StepOf(f, t, fields, zone, lim)
      <3> SUFFICES ASSUME NEW t \in dom, lim <= t PROVE f[t] = StepOf(f, t, fields, zone, lim)
        OBVIOUS
      <3>1. t >= lim
        BY <1>0
      <3> QED BY <3>1, Zenon DEF StepOf
    <2>2. DOMAIN f = dom /\ f = [t \in dom |-> f[t]]
      OBVIOUS
    <2> QED BY <2>1, <2>2, Zenon DEF Partial
  <1>2. ASSUME NEW n \in dom, n < lim, Part(n + 1)
        PROVE  Part(n)
    <2>1. PICK f : /\ DOMAIN f = dom /\ f = [t \in dom |-> f[t]]
                   /\ \A t \in dom : n + 1 <= t => f[t] = StepOf(f, t, fields, zone, lim)
      BY <1>2 DEF Partial
    <2> DEFINE g == [t \in dom |-> IF t = n THEN StepOf(f, n, fields, zone, lim) ELSE f[t]]
    <2>2. \A t \in dom : n <= t => g[t] = StepOf(g, t, fields, zone, lim)
      <3> SUFFICES ASSUME NEW t \in dom, n <= t PROVE g[t] = StepOf(g, t, fields, zone, lim)
        OBVIOUS
      <3>1. t \in Nat /\ n \in Nat
        BY <1>0
      <3>2. \A u \in dom : u > t => f[u] = g[u]
        BY <1>0, <3>1
      <3>3. StepOf(f, t, fields, zone, lim) = StepOf(g, t, fields, zone, lim)
        BY <3>2, StepDependsOnLater
      <3>4. CASE t = n
        BY <3>3, <3>4
      <3>5. CASE t # n
        <4>1. n + 1 <= t
          BY <3>1, <3>5
        <4> QED BY <2>1, <3>3, <3>5, <4>1
      <3> QED BY <3>4, <3>5
    <2>3. DOMAIN g = dom /\ g = [t \in dom |-> g[t]]
      OBVIOUS
    <2> HIDE DEF g
    <2> QED BY <2>2, <2>3 DEF Partial
  <1> DEFINE T == {k \in Nat : k <= Horizon /\ ~Part(lim - k)}
  <1>3. T = {}
    <2> SUFFICES ASSUME T # {} PROVE FALSE
      OBVIOUS
    <2>1. T \in SUBSET Nat
      OBVIOUS
    <2>2. PICK k \in T : \A j \in T : k <= j
      BY <2>1, LeastExists
    <2> HIDE DEF Part
    <2>3. k \in Nat /\ k <= Horizon /\ ~Part(lim - k)
      BY <2>2
    <2>4. k # 0
      <3>1. lim - 0 = lim
        BY <1>0
      <3> QED BY <1>1, <2>3, <3>1
    <2>5. k - 1 \in Nat /\ k - 1 <= Horizon /\ k - 1 < k
      BY <1>0, <2>3, <2>4
    <2>6. Part(lim - (k - 1))
      BY <2>2, <2>5
    <2>7. lim - k \in dom /\ lim - k < lim /\ lim - (k - 1) = (lim - k) + 1
      BY <1>0, <2>3, <2>4, CalendarFacts
    <2> QED BY <1>2, <2>3, <2>6, <2>7
  <1>4. Part(after + 1)
    <2> HIDE DEF Part
    <2>1. Horizon \notin T
      BY <1>3
    <2>2. lim - Horizon = after + 1
      BY <1>0
    <2> QED BY <1>0, <2>1, <2>2
  <1>5. \E f : IsSearch(f, fields, zone, after)
    <2>1. PICK f : /\ DOMAIN f = dom /\ f = [t \in dom |-> f[t]]
                   /\ \A t \in dom : after + 1 <= t => f[t] = StepOf(f, t, fields, zone, lim)
      BY <1>4 DEF Partial
    <2>2. \A t \in dom : f[t] = StepOf(f, t, fields, zone, lim)
      BY <1>0, <2>1
    <2>3. f = [t \in dom |-> StepOf(f, t, fields, zone, lim)]
      <3> HIDE DEF dom, lim
      <3> QED BY <2>1, <2>2, Zenon
    <2> QED BY <2>3, Zenon DEF IsSearch
  <1> QED BY <1>5, Zenon DEF Search

(* A match that the search passes over lies in a broken hour.                *)
Passed(u, after, fields, zone) == matches(fields, u, zone) => BrokenHour(after, u, zone)

(* What the search finds from t on.                                          *)
Finds(found, t, after, fields, zone, limit) ==
    /\ found # None => found \in t .. limit - 1 /\ matches(fields, found, zone)
    /\ \A u \in t .. limit - 1 : (found = None \/ u < found) => Passed(u, after, fields, zone)

(* Nothing that a jump passes over matches, unless the clock is changed.       *)
LEMMA JumpPasses ==
  ASSUME NEW fields, NEW zone \in Zones, NEW after \in Nat, NEW t \in Instants, after < t,
         LET clock == wallClock(t, zone)
         IN  clock.month \notin fields.month \/ ~DayOk(fields, clock) \/ clock.hour \notin fields.hour,
         NEW u \in Instants, u \in t .. NextHour(t, wallClock(t, zone)) - 1
  PROVE  Passed(u, after, fields, zone)
  <1> DEFINE c == wallClock(t, zone)
             d == wallClock(u, zone)
  <1>1. CASE zone[u] = zone[t]
    <2>1. SameDayAndHour(c, d)
      BY <1>1, JumpStaysInTheHour
    <2>2. DayOk(fields, c) = DayOk(fields, d)
      BY <2>1 DEF DayOk, BothDays, SameDayAndHour
    <2>3. d.month \notin fields.month \/ ~DayOk(fields, d) \/ d.hour \notin fields.hour
      BY <2>1, <2>2 DEF SameDayAndHour
    <2> QED BY <2>3, DayOkIsDay DEF Passed
  <1>2. CASE zone[u] # zone[t]
    <2>1. t \in Nat /\ u \in Nat /\ MinutesPerHour \in Nat
      BY InstantFacts, CalendarFacts
    <2>2. c.minute \in Int
      <3>1. LocalTime(t, zone) % MinutesPerHour \in 0 .. MinutesPerHour - 1
        BY LocalIsInt, Division, CalendarFacts
      <3>2. c.minute = LocalTime(t, zone) % MinutesPerHour
        BY MinuteIs
      <3> QED BY <2>1, <3>1, <3>2
    <2>3. NextHour(t, c) = t + (MinutesPerHour - c.minute)
      BY DEF NextHour
    <2> HIDE DEF c
    <2>4. t <= u /\ u < t + (MinutesPerHour - c.minute)
      <3>1. u \in t .. NextHour(t, c) - 1
        BY DEF c
      <3> QED BY <2>1, <2>2, <2>3, <3>1
    <2>5. u # t
      BY <1>2
    <2>6. t \in after + 1 .. u - 1 /\ c.minute + (u - t) < MinutesPerHour
      BY <2>1, <2>2, <2>4, <2>5
    <2> QED BY <1>2, <2>6 DEF Passed, BrokenHour, c
  <1> QED BY <1>1, <1>2

(* Passing over instants keeps what is found.                                 *)
LEMMA FindsFurther ==
  ASSUME NEW fields, NEW zone, NEW after, NEW limit \in Nat, NEW t \in Nat, NEW v \in Nat, t < v,
         NEW found, Finds(found, v, after, fields, zone, limit),
         \A u \in t .. v - 1 : u < limit => Passed(u, after, fields, zone)
  PROVE  Finds(found, t, after, fields, zone, limit)
  <1>1. ASSUME NEW u \in t .. limit - 1, found = None \/ u < found
        PROVE  Passed(u, after, fields, zone)
    <2>1. CASE u < v
      <3>1. u \in t .. v - 1 /\ u < limit
        BY <2>1
      <3> QED BY <3>1
    <2>2. CASE ~(u < v)
      <3>1. u \in v .. limit - 1
        BY <2>2
      <3> QED BY <1>1, <3>1 DEF Finds
    <2> QED BY <2>1, <2>2
  <1>2. ASSUME found # None
        PROVE  found \in t .. limit - 1 /\ matches(fields, found, zone)
    <2>1. found \in v .. limit - 1 /\ matches(fields, found, zone)
      BY <1>2 DEF Finds
    <2> QED BY <2>1
  <1> QED BY <1>1, <1>2 DEF Finds

(* The search finds the first match from where it stands, broken hours aside:  *)
(* otherwise there is a last instant where it does not, and one step of the    *)
(* search refutes that.                                                     *)
LEMMA SearchFinds ==
  ASSUME NEW fields, NEW zone \in Zones, NEW after \in 0 .. MaxTime, NEW s \in Domain(after)
  PROVE  Finds(Search(fields, zone, after)[s], s, after, fields, zone, Limit(after))
  <1> DEFINE lim == Limit(after)
             dom == Domain(after)
             f == Search(fields, zone, after)
             Good(t) == Finds(f[t], t, after, fields, zone, lim)
             far == lim + MinutesPerHour
  <1>0. /\ after \in Nat /\ lim \in Nat /\ dom \subseteq Nat /\ far \in Nat
        /\ \A t \in Nat : t < lim => t \in Instants
        /\ \A t \in Nat : t \in dom <=> after < t /\ t <= far
    <2>1. lim \in Nat /\ MinutesPerHour \in Nat
      BY DomainFacts, CalendarFacts
    <2>2. lim + MinutesPerHour \in Nat
      BY <2>1
    <2> QED BY <2>1, <2>2, DomainFacts
  <1>1. \A t \in dom : f[t] = StepOf(f, t, fields, zone, lim)
    <2>1. f = [t \in dom |-> StepOf(f, t, fields, zone, lim)]
      BY SearchExists DEF IsSearch
    <2> HIDE DEF f, dom, lim
    <2> QED BY <2>1, Zenon
  <1> HIDE DEF f
  <1>2. ASSUME NEW t \in dom, \A v \in dom : v > t => Good(v)
        PROVE  Good(t)
    <2> DEFINE clock == wallClock(t, zone)
               h == NextHour(t, clock)
    <2>0. t \in Nat
      BY <1>0
    <2>1. CASE t >= lim
      <3>1. f[t] = None
        BY <1>1, <2>1, Zenon DEF StepOf
      <3>2. t .. lim - 1 = {}
        BY <1>0, <2>0, <2>1
      <3> QED BY <3>1, <3>2 DEF Finds
    <2>2. CASE ~(t >= lim) /\ (clock.month \notin fields.month \/ ~DayOk(fields, clock)
                               \/ clock.hour \notin fields.hour)
      <3>1. f[t] = f[h]
        BY <1>1, <2>2, Zenon DEF StepOf
      <3>2. h \in dom /\ h > t
        BY <1>0, <2>0, <2>2, StepLooksAhead
      <3>3. Good(h)
        BY <1>2, <3>2
      <3>4. \A u \in t .. h - 1 : u < lim => Passed(u, after, fields, zone)
        <4> SUFFICES ASSUME NEW u \in t .. h - 1, u < lim PROVE Passed(u, after, fields, zone)
          OBVIOUS
        <4>1. t < lim /\ h \in Nat /\ after < t
          BY <1>0, <2>0, <2>2, <3>2
        <4>2. u \in Nat
          BY <2>0, <4>1
        <4>3. t \in Instants /\ u \in Instants
          BY <1>0, <2>0, <4>1, <4>2
        <4> QED BY <1>0, <2>2, <4>1, <4>3, JumpPasses
      <3>5. h \in Nat /\ t < h
        BY <1>0, <2>0, <3>2
      <3> QED BY <1>0, <2>0, <3>1, <3>3, <3>4, <3>5, FindsFurther
    <2>3. CASE /\ ~(t >= lim)
               /\ ~(clock.month \notin fields.month \/ ~DayOk(fields, clock)
                    \/ clock.hour \notin fields.hour)
      <3>0. t < lim
        BY <1>0, <2>0, <2>3
      <3>1. CASE clock.minute \in fields.minute
        <4>1. f[t] = t
          BY <1>1, <2>3, <3>1, Zenon DEF StepOf
        <4>2. matches(fields, t, zone)
          BY <2>3, <3>1, DayOkIsDay
        <4>3. t # None
          BY <2>0, RuleAssumption
        <4>4. t \in t .. lim - 1 /\ \A u \in t .. lim - 1 : ~(u < t)
          BY <1>0, <2>0, <3>0
        <4> QED BY <4>1, <4>2, <4>3, <4>4 DEF Finds
      <3>2. CASE clock.minute \notin fields.minute
        <4>1. f[t] = f[t + 1]
          BY <1>1, <2>3, <3>2, Zenon DEF StepOf
        <4>2. t + 1 \in dom /\ t + 1 > t /\ t + 1 \in Nat
          BY <2>0, <3>0, StepLooksAhead
        <4>3. Good(t + 1)
          BY <1>2, <4>2
        <4>4. ~matches(fields, t, zone)
          BY <3>2, DayOkIsDay
        <4>5. \A u \in t .. (t + 1) - 1 : u < lim => Passed(u, after, fields, zone)
          <5>1. \A u \in t .. (t + 1) - 1 : u = t
            BY <2>0
          <5> QED BY <4>4, <5>1 DEF Passed
        <4>6. t < t + 1
          BY <2>0
        <4> QED BY <1>0, <2>0, <4>1, <4>2, <4>3, <4>5, <4>6, FindsFurther
      <3> QED BY <3>1, <3>2
    <2> QED BY <2>1, <2>2, <2>3
  <1> DEFINE T == {k \in Nat : k <= far /\ far - k \in dom /\ ~Good(far - k)}
  <1>3. T = {}
    <2> SUFFICES ASSUME T # {} PROVE FALSE
      OBVIOUS
    <2>1. T \in SUBSET Nat
      OBVIOUS
    <2>2. PICK k \in T : \A j \in T : k <= j
      BY <2>1, LeastExists
    <2> HIDE DEF Good
    <2>3. k \in Nat /\ k <= far /\ far - k \in dom /\ ~Good(far - k)
      BY <2>2
    <2>4. ASSUME NEW v \in dom, v > far - k PROVE Good(v)
      <3>1. v \in Nat /\ v <= far
        BY <1>0
      <3>2. far - v \in Nat /\ far - v <= far /\ far - (far - v) = v /\ far - v < k
        BY <1>0, <2>3, <2>4, <3>1
      <3>3. far - v \notin T
        BY <2>2, <2>3, <3>2
      <3> QED BY <3>2, <3>3
    <2> QED BY <1>2, <2>3, <2>4
  <1>4. s \in Nat /\ s <= far
    BY <1>0
  <1>5. far - s \in Nat /\ far - s <= far /\ far - (far - s) = s
    BY <1>0, <1>4
  <1>6. Good(s)
    <2> HIDE DEF Good
    <2>1. far - s \notin T
      BY <1>3
    <2> QED BY <1>5, <2>1
  <1> QED BY <1>6 DEF f

(* nextMatch is the first match strictly after `after`, within the horizon,    *)
(* broken hours aside.                                                      *)
LEMMA NextMatchFinds ==
  ASSUME NEW fields, NEW zone \in Zones, NEW after \in 0 .. MaxTime
  PROVE  Finds(nextMatch(fields, zone, after), after + 1, after, fields, zone, after + 1 + Horizon)
  <1>1. after + 1 \in Domain(after)
    BY CalendarFacts, DomainFacts DEF Domain, Limit
  <1> QED BY <1>1, SearchFinds, NextMatchSearches DEF Limit

(* The rule's next run is one of the rule's instants, or there is none.        *)
LEMMA NextRunFacts ==
  ASSUME NEW rule \in Rules, NEW at \in 0 .. MaxTime, NEW n \in Nat, at <= n
  PROVE  /\ NextRunAt[rule][at] \in Instants \cup {None}
         /\ IF NextRunAt[rule][at] = None
            THEN \E a \in 0 .. n : \A t \in a + 1 .. a + Horizon :
                     matches(RuleOf[rule].fields, t, RuleOf[rule].zone)
                         => BrokenHour(a, t, RuleOf[rule].zone)
            ELSE matches(RuleOf[rule].fields, NextRunAt[rule][at], RuleOf[rule].zone)
  <1> DEFINE fields == RuleOf[rule].fields
             zone == RuleOf[rule].zone
             found == nextMatch(fields, zone, at)
  <1>1. zone \in Zones /\ at \in Nat /\ MaxTime \in Nat /\ Horizon \in Nat
    BY RuleAssumption, CalendarFacts
  <1>2. NextRunAt[rule][at] = found
    BY DEF NextRunAt
  <1>3. Finds(found, at + 1, at, fields, zone, at + 1 + Horizon)
    BY <1>1, NextMatchFinds
  <1> HIDE DEF found, fields, zone
  <1>4. (at + 1 + Horizon) - 1 = at + Horizon
    BY <1>1
  <1>5. CASE found = None
    <2>1. \A t \in at + 1 .. at + Horizon : matches(fields, t, zone) => BrokenHour(at, t, zone)
      BY <1>3, <1>4, <1>5 DEF Finds, Passed
    <2>2. at \in 0 .. n
      BY <1>1
    <2> QED BY <1>2, <1>5, <2>1, <2>2 DEF fields, zone
  <1>6. CASE found # None
    <2>1. found \in at + 1 .. at + Horizon /\ matches(fields, found, zone)
      BY <1>3, <1>4, <1>6 DEF Finds
    <2>2. found \in Instants
      BY <1>1, <2>1 DEF Instants
    <2> QED BY <1>2, <1>6, <2>1, <2>2 DEF fields, zone
  <1> QED BY <1>5, <1>6

-----------------------------------------------------------------------------
(* The inductive invariant *)

(* The row that stands is the newest schedule of the item.                    *)
CurrentIsNewest == schedule # None => schedule.id = made

(* ToldOnce, round by round; nobody was told of a schedule to come.            *)
ToldSound ==
    /\ \A i \in 1 .. MaxSchedules, r \in 1 .. MaxRounds :
          told[i][r] <= 1 /\ (i > made => told[i][r] = 0)
    /\ schedule # None => \A r \in 1 .. MaxRounds :
          told[schedule.id][r] = IF r <= schedule.round THEN 1 ELSE 0

(* A round counts as run in time only from when it fires, and while some run   *)
(* is reported as it.                                                       *)
InTimeSound ==
    /\ \A i \in 1 .. MaxSchedules, r \in Rounds : <<i, r>> \in inTime =>
          i <= made /\ (schedule # None /\ i = schedule.id => r <= schedule.round)
    /\ schedule # None /\ <<schedule.id, schedule.round>> \in inTime =>
          \E x \in Runs : round[x] = schedule.round
RanSound == \A x \in Runs : round[x] # 0 => round[x] \in ran

MissedFit(row) == row.missedRounds <= IF row.round = 0 THEN 0 ELSE row.round - 1

(* What a firing has read: while its compare-and-set may still succeed, the    *)
(* count it read is the row's, and what it thinks of the last round is so.     *)
ReadSound(f) ==
    f.step = "read" =>
        /\ f.row.id <= made /\ MissedFit(f.row)
        /\ f.row.round = 0 => f.lastRan
        /\ f.lastRan /\ f.row.round # 0 => f.row.round \in ran
        /\ SameRow(f.row) => f.row.round <= schedule.round
        /\ SameRound(f.row) =>
              /\ f.row.missedRounds = schedule.missedRounds
              /\ ~f.lastRan => <<f.row.id, f.row.round>> \notin inTime
FiringSound(f) == (f.step # "idle" => f.at <= now) /\ ReadSound(f)
FiringsSound == \A k \in Timers : FiringSound(timer[k])

ScheduleSound ==
    /\ TypeOK /\ CurrentIsNewest /\ ToldSound /\ InTimeSound /\ RanSound /\ FiringsSound
    /\ MissedRoundsAreMissed /\ ArmedForItsRule


-----------------------------------------------------------------------------
(* Types *)

LEMMA BoundFacts ==
  /\ MaxSchedules \in Nat /\ MaxRounds \in Nat /\ MaxTime \in Nat /\ Horizon \in Nat
  /\ Rounds = 0 .. MaxRounds
  BY RuleAssumption, CalendarFacts DEF Rounds

LEMMA RowFacts ==
  ASSUME NEW row \in WorkSchedules
  PROVE  /\ row.id \in 1 .. MaxSchedules /\ row.rule \in Rules /\ row.active \in BOOLEAN
         /\ row.nextRunAt \in Instants \cup {None}
         /\ row.round \in Nat /\ row.round \in Rounds /\ row.missedRounds \in Nat
  BY BoundFacts DEF WorkSchedules

DueFiring == [step : {"due"}, at : Instants, id : 1 .. MaxSchedules]
ReadFiring == [step : {"read"}, at : Instants, row : WorkSchedules, lastRan : BOOLEAN]

LEMMA FiringKinds ==
  ASSUME NEW f \in Firing
  PROVE  /\ f.step \in {"idle", "due", "read"}
         /\ f.step = "due" => f \in DueFiring
         /\ f.step = "read" => f \in ReadFiring
         /\ Idle \in Firing /\ DueFiring \subseteq Firing /\ ReadFiring \subseteq Firing
  BY DEF Firing, Idle, DueFiring, ReadFiring

LEMMA ReadFacts ==
  ASSUME NEW f \in Firing, f.step = "read"
  PROVE  f.at \in Instants /\ f.row \in WorkSchedules /\ f.lastRan \in BOOLEAN
  BY FiringKinds DEF ReadFiring

-----------------------------------------------------------------------------
(* One firing changes, and nothing else *)

LEMMA FiringChanges ==
  ASSUME ScheduleSound, NEW k \in Timers, NEW f \in Firing, FiringSound(f),
         timer' = [timer EXCEPT ![k] = f],
         UNCHANGED <<now, schedule, made, round, told, inTime, ran, overtaken>>
  PROVE  ScheduleSound'
  <1>1. timer' \in [Timers -> Firing] /\ \A j \in Timers : timer'[j] = IF j = k THEN f ELSE timer[j]
    BY DEF ScheduleSound, TypeOK
  <1>2. \A g : FiringSound(g)' <=> FiringSound(g)
    BY DEF FiringSound, ReadSound, SameRow, SameRound, MissedFit
  <1>3. FiringsSound'
    <2> SUFFICES ASSUME NEW j \in Timers PROVE FiringSound(timer[j])'
      BY DEF FiringsSound
    <2>1. FiringSound(IF j = k THEN f ELSE timer[j])
      BY DEF ScheduleSound, FiringsSound
    <2> QED BY <1>1, <2>1 DEF FiringSound, ReadSound, SameRow, SameRound, MissedFit
  <1>4. TypeOK' /\ CurrentIsNewest' /\ ToldSound' /\ InTimeSound' /\ RanSound'
    BY <1>1 DEF ScheduleSound, TypeOK, CurrentIsNewest, ToldSound, InTimeSound, RanSound
  <1>5. MissedRoundsAreMissed' /\ ArmedForItsRule'
    BY DEF ScheduleSound, MissedRoundsAreMissed, ArmedForItsRule, Armed
  <1> QED BY <1>3, <1>4, <1>5 DEF ScheduleSound

LEMMA FireStartKeeps ==
  ASSUME ScheduleSound, NEW k \in Timers, FireStart(k)
  PROVE  ScheduleSound'
  <1> DEFINE f == [step |-> "due", at |-> now, id |-> schedule.id]
  <1>1. now \in Instants /\ now <= now /\ schedule \in WorkSchedules
    BY BoundFacts DEF ScheduleSound, TypeOK, FireStart, IsDue, Instants
  <1>2. f \in Firing
    BY <1>1, RowFacts DEF Firing
  <1>3. FiringSound(f)
    BY <1>1 DEF FiringSound, ReadSound
  <1>4. timer' = [timer EXCEPT ![k] = f]
        /\ UNCHANGED <<now, schedule, made, round, told, inTime, ran, overtaken>>
    BY DEF FireStart
  <1> HIDE DEF f
  <1> QED BY <1>2, <1>3, <1>4, FiringChanges

LEMMA IdleIsSound == Idle \in Firing /\ FiringSound(Idle)
  BY DEF Firing, Idle, FiringSound, ReadSound

LEMMA FireLostKeeps ==
  ASSUME ScheduleSound, NEW k \in Timers, FireLost(k)
  PROVE  ScheduleSound'
  BY IdleIsSound, FiringChanges DEF FireLost

LEMMA FireReadKeeps ==
  ASSUME ScheduleSound, NEW k \in Timers, FireRead(k)
  PROVE  ScheduleSound'
  <1>0. timer[k] \in Firing /\ timer[k].step = "due" /\ FiringSound(timer[k])
        /\ timer \in [Timers -> Firing]
    BY DEF ScheduleSound, TypeOK, FiringsSound, FireRead
  <1>1. timer[k].at \in Instants /\ timer[k].at <= now
    BY <1>0, FiringKinds DEF FiringSound, DueFiring
  <1>2. CASE IsDue(schedule, timer[k].at) /\ schedule.id = timer[k].id
    <2> DEFINE f == [step |-> "read", at |-> timer[k].at, row |-> schedule,
                     lastRan |-> LastRan(schedule)]
    <2>1. schedule # None /\ schedule \in WorkSchedules
      BY <1>2 DEF IsDue, ScheduleSound, TypeOK
    <2>2. LastRan(schedule) \in BOOLEAN
      BY DEF LastRan
    <2>3. f \in Firing
      BY <1>1, <2>1, <2>2 DEF Firing
    <2>4. /\ f.step = "read" /\ f.at = timer[k].at /\ f.row = schedule
          /\ f.lastRan = LastRan(schedule)
      OBVIOUS
    <2>5. timer' = [timer EXCEPT ![k] = f]
          /\ UNCHANGED <<now, schedule, made, round, told, inTime, ran, overtaken>>
      BY <1>0, <1>2 DEF FireRead
    <2> HIDE DEF f
    <2>6. /\ schedule.id = made /\ schedule.id \in 1 .. MaxSchedules /\ schedule.round \in Nat
          /\ schedule.missedRounds \in Nat /\ MissedFit(schedule)
      BY <2>1, RowFacts DEF ScheduleSound, CurrentIsNewest, MissedRoundsAreMissed, MissedFit
    <2>7. schedule.round = 0 => LastRan(schedule)
      BY DEF LastRan
    <2>8. LastRan(schedule) /\ schedule.round # 0 => schedule.round \in ran
      BY DEF LastRan, ScheduleSound, RanSound
    <2>9. ~LastRan(schedule) => <<schedule.id, schedule.round>> \notin inTime
      BY <2>1 DEF LastRan, ScheduleSound, InTimeSound
    <2>10. FiringSound(f)
      BY <1>1, <2>4, <2>6, <2>7, <2>8, <2>9 DEF FiringSound, ReadSound, SameRow, SameRound
    <2> QED BY <2>3, <2>5, <2>10, FiringChanges
  <1>3. CASE ~(IsDue(schedule, timer[k].at) /\ schedule.id = timer[k].id)
    <2>1. timer' = [timer EXCEPT ![k] = Idle]
          /\ UNCHANGED <<now, schedule, made, round, told, inTime, ran, overtaken>>
      BY <1>0, <1>3 DEF FireRead
    <2> QED BY <2>1, IdleIsSound, FiringChanges
  <1> QED BY <1>2, <1>3

-----------------------------------------------------------------------------
(* People and time *)

LEMMA TimePassesKeeps ==
  ASSUME ScheduleSound, TimePasses
  PROVE  ScheduleSound'
  <1>1. now \in 0 .. MaxTime /\ now' = now + 1 /\ now' \in 0 .. MaxTime
        /\ UNCHANGED <<schedule, made, timer, round, told, inTime, ran, overtaken>>
    BY BoundFacts DEF ScheduleSound, TypeOK, TimePasses
  <1>2. TypeOK' /\ CurrentIsNewest' /\ ToldSound' /\ InTimeSound' /\ RanSound' /\ MissedRoundsAreMissed'
    BY <1>1 DEF ScheduleSound, TypeOK, CurrentIsNewest, ToldSound, InTimeSound, RanSound,
                MissedRoundsAreMissed
  <1>3. FiringsSound'
    <2> SUFFICES ASSUME NEW k \in Timers PROVE FiringSound(timer[k])'
      BY DEF FiringsSound
    <2>1. FiringSound(timer[k]) /\ timer[k] \in Firing
      BY DEF ScheduleSound, FiringsSound, TypeOK
    <2>2. timer[k].step # "idle" => timer[k].at \in Nat
      BY <2>1, FiringKinds, BoundFacts DEF DueFiring, ReadFiring, Instants
    <2>3. timer[k].step # "idle" => timer[k].at <= now'
      BY <1>1, <2>1, <2>2, BoundFacts DEF FiringSound
    <2>4. ReadSound(timer[k])'
      BY <1>1, <2>1 DEF FiringSound, ReadSound, SameRow, SameRound, MissedFit
    <2> QED BY <1>1, <2>3, <2>4 DEF FiringSound
  <1>4. ArmedForItsRule'
    <2>1. 0 .. now \subseteq 0 .. now'
      BY <1>1
    <2> QED BY <1>1, <2>1 DEF ScheduleSound, ArmedForItsRule, Armed
  <1> QED BY <1>2, <1>3, <1>4 DEF ScheduleSound

LEMMA ClearKeeps ==
  ASSUME ScheduleSound, ClearWorkSchedule
  PROVE  ScheduleSound'
  <1>1. schedule' = None /\ overtaken' = FALSE /\ UNCHANGED <<now, made, timer, round, told, inTime, ran>>
    BY DEF ClearWorkSchedule
  <1>2. TypeOK' /\ CurrentIsNewest' /\ ToldSound' /\ InTimeSound' /\ RanSound'
        /\ MissedRoundsAreMissed' /\ ArmedForItsRule'
    BY <1>1 DEF ScheduleSound, TypeOK, CurrentIsNewest, ToldSound, InTimeSound, RanSound,
                MissedRoundsAreMissed, ArmedForItsRule
  <1>3. FiringsSound'
    BY <1>1 DEF ScheduleSound, FiringsSound, FiringSound, ReadSound, SameRow, SameRound, MissedFit
  <1> QED BY <1>2, <1>3 DEF ScheduleSound

(* A row that people write: the rule is new, what it counts is not.            *)
LEMMA ReplacedKeeps ==
  ASSUME ScheduleSound, schedule # None, NEW rule \in Rules, NEW active \in BOOLEAN,
         schedule' = Replaced(rule, active), overtaken' = FALSE,
         UNCHANGED <<now, made, timer, round, told, inTime, ran>>
  PROVE  ScheduleSound'
  <1> DEFINE at == IF active THEN NextRunAt[rule][now] ELSE None
  <1>1. now \in 0 .. MaxTime /\ now \in Nat /\ now <= now /\ schedule \in WorkSchedules
    BY BoundFacts DEF ScheduleSound, TypeOK
  <1>2. at \in Instants \cup {None} /\ (active => Armed(RuleOf[rule], at))
    BY <1>1, NextRunFacts DEF Armed
  <1>3. schedule' = [schedule EXCEPT !.rule = rule, !.active = active, !.nextRunAt = at]
    BY DEF Replaced
  <1> HIDE DEF at
  <1>4. /\ schedule' \in WorkSchedules /\ schedule'.id = schedule.id /\ schedule'.rule = rule
        /\ schedule'.active = active /\ schedule'.nextRunAt = at
        /\ schedule'.round = schedule.round /\ schedule'.missedRounds = schedule.missedRounds
    BY <1>1, <1>2, <1>3 DEF WorkSchedules
  <1>5. TypeOK' /\ CurrentIsNewest' /\ ToldSound' /\ RanSound'
    BY <1>4 DEF ScheduleSound, TypeOK, CurrentIsNewest, ToldSound, RanSound
  <1>6. InTimeSound' /\ MissedRoundsAreMissed'
    BY <1>4 DEF ScheduleSound, InTimeSound, MissedRoundsAreMissed
  <1>7. FiringsSound'
    BY <1>4 DEF ScheduleSound, FiringsSound, FiringSound, ReadSound, SameRow, SameRound, MissedFit
  <1>8. ArmedForItsRule'
    BY <1>2, <1>4 DEF ArmedForItsRule, Armed
  <1> QED BY <1>5, <1>6, <1>7, <1>8 DEF ScheduleSound

LEMMA CreatedKeeps ==
  ASSUME ScheduleSound, schedule = None, made < MaxSchedules, NEW rule \in Rules,
         NEW active \in BOOLEAN, schedule' = Created(rule, active), made' = made + 1,
         overtaken' = FALSE, UNCHANGED <<now, timer, round, told, inTime, ran>>
  PROVE  ScheduleSound'
  <1> DEFINE at == IF active THEN NextRunAt[rule][now] ELSE None
  <1>1. now \in 0 .. MaxTime /\ now \in Nat /\ now <= now /\ made \in 0 .. MaxSchedules
    BY BoundFacts DEF ScheduleSound, TypeOK
  <1>2. at \in Instants \cup {None} /\ (active => Armed(RuleOf[rule], at))
    BY <1>1, NextRunFacts DEF Armed
  <1>3. schedule' = [id |-> made + 1, rule |-> rule, active |-> active, nextRunAt |-> at,
                     round |-> 0, missedRounds |-> 0]
    BY DEF Created
  <1> HIDE DEF at
  <1>4. /\ schedule' \in WorkSchedules /\ schedule'.id = made + 1 /\ schedule'.rule = rule
        /\ schedule'.active = active /\ schedule'.nextRunAt = at
        /\ schedule'.round = 0 /\ schedule'.missedRounds = 0
        /\ made' \in 0 .. MaxSchedules /\ made + 1 \in 1 .. MaxSchedules
    BY <1>1, <1>2, <1>3, BoundFacts DEF WorkSchedules
  <1>5. TypeOK' /\ CurrentIsNewest' /\ RanSound'
    BY <1>4 DEF ScheduleSound, TypeOK, CurrentIsNewest, RanSound
  <1>6. ToldSound'
    <2>1. \A i \in 1 .. MaxSchedules, r \in 1 .. MaxRounds :
              told[i][r] <= 1 /\ (i > made => told[i][r] = 0)
      BY DEF ScheduleSound, ToldSound
    <2>2. \A i \in 1 .. MaxSchedules : i > made + 1 => i > made
      BY <1>1
    <2>3. made + 1 > made /\ \A r \in 1 .. MaxRounds : ~(r <= 0)
      BY <1>1, BoundFacts
    <2> QED BY <1>4, <2>1, <2>2, <2>3 DEF ToldSound
  <1>7. InTimeSound'
    <2>1. \A i \in 1 .. MaxSchedules, r \in Rounds : <<i, r>> \in inTime => i <= made
      BY DEF ScheduleSound, InTimeSound
    <2>2. \A i \in 1 .. MaxSchedules : i <= made => i <= made + 1 /\ i # made + 1
      BY <1>1
    <2>3. 0 \in Rounds
      BY BoundFacts
    <2> QED BY <1>4, <2>1, <2>2, <2>3 DEF InTimeSound
  <1>8. MissedRoundsAreMissed'
    BY <1>4 DEF MissedRoundsAreMissed
  <1>9. FiringsSound'
    <2> SUFFICES ASSUME NEW k \in Timers PROVE FiringSound(timer[k])'
      BY DEF FiringsSound
    <2>1. FiringSound(timer[k]) /\ timer[k] \in Firing
      BY DEF ScheduleSound, FiringsSound, TypeOK
    <2>2. timer[k].step = "read" => /\ timer[k].row.id <= made + 1
                                    /\ timer[k].row.id # made + 1
      BY <1>1, <2>1, ReadFacts, RowFacts DEF FiringSound, ReadSound
    <2> QED BY <1>4, <2>1, <2>2 DEF FiringSound, ReadSound, SameRow, SameRound, MissedFit
  <1>10. ArmedForItsRule'
    BY <1>2, <1>4 DEF ArmedForItsRule, Armed
  <1> QED BY <1>5, <1>6, <1>7, <1>8, <1>9, <1>10 DEF ScheduleSound

LEMMA SetKeeps ==
  ASSUME ScheduleSound, NEW rule \in Rules, NEW active \in BOOLEAN, SetWorkSchedule(rule, active)
  PROVE  ScheduleSound'
  BY CreatedKeeps, ReplacedKeeps DEF SetWorkSchedule

LEMMA SetActiveKeeps ==
  ASSUME ScheduleSound, NEW active \in BOOLEAN, SetWorkScheduleActive(active)
  PROVE  ScheduleSound'
  <1>1. schedule # None /\ schedule \in WorkSchedules
    BY DEF ScheduleSound, TypeOK, SetWorkScheduleActive
  <1>2. schedule.rule \in Rules
    BY <1>1, RowFacts
  <1> QED BY <1>1, <1>2, ReplacedKeeps DEF SetWorkScheduleActive

-----------------------------------------------------------------------------
(* A round fires *)

LEMMA OneRoundTold ==
  ASSUME NEW l \in [1 .. MaxRounds -> 0 .. 2], NEW n \in 1 .. MaxRounds
  PROVE  /\ [l EXCEPT ![n] = 1] \in [1 .. MaxRounds -> 0 .. 2] /\ [l EXCEPT ![n] = 1][n] = 1
         /\ \A r \in 1 .. MaxRounds : r # n => [l EXCEPT ![n] = 1][r] = l[r]
  OBVIOUS

LEMMA FireWriteKeeps ==
  ASSUME ScheduleSound, NEW k \in Timers, FireWrite(k)
  PROVE  ScheduleSound'
  <1> DEFINE f == timer[k]
             row == f.row
             next == NextRunAt[row.rule][f.at]
             missed == MissedRounds(row, f.lastRan)
  <1>1. /\ f \in Firing /\ f.step = "read" /\ FiringSound(f) /\ timer \in [Timers -> Firing]
        /\ now \in 0 .. MaxTime /\ now \in Nat
    BY BoundFacts DEF ScheduleSound, TypeOK, FiringsSound, FireWrite
  <1>2. row \in WorkSchedules /\ f.at \in Instants /\ f.lastRan \in BOOLEAN /\ f.at <= now
    BY <1>1, ReadFacts DEF FiringSound
  <1>3. schedule # None /\ schedule.id = row.id /\ schedule.round = row.round
        /\ schedule \in WorkSchedules
    BY DEF FireWrite, SameRound, SameRow, ScheduleSound, TypeOK
  <1>4. /\ row.missedRounds = schedule.missedRounds /\ MissedFit(row)
        /\ row.round = 0 => f.lastRan
        /\ f.lastRan /\ row.round # 0 => row.round \in ran
        /\ ~f.lastRan => <<row.id, row.round>> \notin inTime
    BY <1>1, <1>3 DEF FiringSound, ReadSound, SameRound, SameRow
  <1>5. /\ row.id \in 1 .. MaxSchedules /\ row.id = made /\ row.rule \in Rules
        /\ row.round \in Nat /\ row.missedRounds \in Nat /\ row.round < MaxRounds
        /\ schedule.rule \in Rules
    BY <1>2, <1>3, RowFacts DEF ScheduleSound, CurrentIsNewest, FireWrite
  <1>6. f.at \in 0 .. MaxTime
    BY <1>1, <1>2, BoundFacts DEF Instants
  <1>7. next \in Instants \cup {None} /\ Armed(RuleOf[row.rule], next)
    BY <1>1, <1>2, <1>5, <1>6, NextRunFacts DEF Armed
  <1>8. missed \in Nat /\ missed <= row.round /\ missed \in Rounds
    <2>1. CASE f.lastRan
      <3>1. missed = 0
        BY <2>1 DEF MissedRounds
      <3> QED BY <3>1, <1>5, BoundFacts DEF Rounds
    <2>2. CASE ~f.lastRan
      <3>1. missed = row.missedRounds + 1
        BY <2>2 DEF MissedRounds
      <3>2. row.round # 0
        BY <1>4, <2>2
      <3>3. row.missedRounds < row.round
        BY <1>4, <1>5, <3>2 DEF MissedFit
      <3> HIDE DEF missed, row
      <3> QED BY <3>1, <3>3, <1>5, BoundFacts DEF Rounds
    <2> QED BY <2>1, <2>2, <1>2
  <1>9. /\ schedule' = [schedule EXCEPT !.round = row.round + 1, !.missedRounds = missed,
                                        !.nextRunAt = next]
        /\ told' = [told EXCEPT ![row.id][row.round + 1] = IF @ < 2 THEN @ + 1 ELSE @]
        /\ overtaken' = (row.rule # schedule.rule)
        /\ timer' = [timer EXCEPT ![k] = Idle]
        /\ UNCHANGED <<now, made, round, inTime, ran>>
    BY DEF FireWrite
  <1>10. row.round + 1 \in Rounds /\ row.round + 1 \in 1 .. MaxRounds
    BY <1>5, BoundFacts
  <1> HIDE DEF next, missed, f
  <1>11. /\ schedule' \in WorkSchedules /\ schedule'.id = row.id /\ schedule'.rule = schedule.rule
         /\ schedule'.active = schedule.active /\ schedule'.nextRunAt = next
         /\ schedule'.round = row.round + 1 /\ schedule'.missedRounds = missed
    BY <1>3, <1>7, <1>8, <1>9, <1>10 DEF WorkSchedules
  <1>12. /\ told \in [1 .. MaxSchedules -> [1 .. MaxRounds -> 0 .. 2]]
         /\ told[row.id][row.round + 1] = 0
         /\ \A r \in 1 .. MaxRounds : told[row.id][r] = IF r <= row.round THEN 1 ELSE 0
    BY <1>3, <1>5, <1>10 DEF ScheduleSound, TypeOK, ToldSound
  <1>13. /\ told' \in [1 .. MaxSchedules -> [1 .. MaxRounds -> 0 .. 2]]
         /\ told'[row.id][row.round + 1] = 1
         /\ \A i \in 1 .. MaxSchedules, r \in 1 .. MaxRounds :
               (i # row.id \/ r # row.round + 1) => told'[i][r] = told[i][r]
    <2> DEFINE line == [told[row.id] EXCEPT ![row.round + 1] = 1]
    <2>1. told' = [told EXCEPT ![row.id] = line]
      BY <1>5, <1>9, <1>10, <1>12
    <2>2. line \in [1 .. MaxRounds -> 0 .. 2] /\ line[row.round + 1] = 1
          /\ \A r \in 1 .. MaxRounds : r # row.round + 1 => line[r] = told[row.id][r]
      <3>1. told[row.id] \in [1 .. MaxRounds -> 0 .. 2]
        BY <1>5, <1>12
      <3> QED BY <1>10, <3>1, OneRoundTold
    <2> HIDE DEF line
    <2> QED BY <1>5, <1>12, <2>1, <2>2
  <1>14. timer' \in [Timers -> Firing] /\ timer'[k] = Idle
         /\ \A j \in Timers : j # k => timer'[j] = timer[j]
    BY <1>1, <1>9, FiringKinds
  <1>15. TypeOK' /\ CurrentIsNewest' /\ RanSound'
    BY <1>5, <1>9, <1>11, <1>13, <1>14 DEF ScheduleSound, TypeOK, CurrentIsNewest, RanSound
  <1>16. ToldSound'
    <2>1. ASSUME NEW i \in 1 .. MaxSchedules, NEW r \in 1 .. MaxRounds
          PROVE  told'[i][r] <= 1 /\ (i > made => told'[i][r] = 0)
      <3>1. told[i][r] <= 1 /\ (i > made => told[i][r] = 0)
        BY DEF ScheduleSound, ToldSound
      <3>2. CASE i = row.id /\ r = row.round + 1
        BY <1>5, <1>13, <3>2
      <3>3. CASE ~(i = row.id /\ r = row.round + 1)
        BY <1>13, <3>1, <3>3
      <3> QED BY <3>2, <3>3
    <2>2. ASSUME NEW r \in 1 .. MaxRounds
          PROVE  told'[row.id][r] = IF r <= row.round + 1 THEN 1 ELSE 0
      <3>1. CASE r = row.round + 1
        BY <1>5, <1>13, <3>1
      <3>2. CASE r # row.round + 1
        <4>1. told'[row.id][r] = told[row.id][r]
          BY <1>5, <1>13, <3>2
        <4> QED BY <1>5, <1>12, <3>2, <4>1
      <3> QED BY <3>1, <3>2
    <2> QED BY <1>9, <1>11, <2>1, <2>2 DEF ToldSound
  <1>17. InTimeSound'
    <2>1. ASSUME NEW i \in 1 .. MaxSchedules, NEW r \in Rounds, <<i, r>> \in inTime
          PROVE  i <= made /\ (i = row.id => r <= row.round)
      BY <1>3, <2>1 DEF ScheduleSound, InTimeSound
    <2>2. <<row.id, row.round + 1>> \notin inTime
      BY <1>5, <1>10, <2>1
    <2>3. \A r \in Rounds : r <= row.round => r <= row.round + 1
      BY <1>5, BoundFacts
    <2> QED BY <1>9, <1>11, <2>1, <2>2, <2>3 DEF InTimeSound
  <1>18. MissedRoundsAreMissed'
    <2>1. missed <= IF row.round + 1 = 0 THEN 0 ELSE (row.round + 1) - 1
      BY <1>5, <1>8
    <2>2. ASSUME NEW i \in 1 .. missed PROVE <<row.id, (row.round + 1) - i>> \notin inTime
      <3>1. ~f.lastRan /\ missed = row.missedRounds + 1
        BY <1>2, <1>5, <1>8 DEF MissedRounds, missed
      <3>2. CASE i = 1
        <4>1. (row.round + 1) - i = row.round
          BY <1>5, <3>2
        <4> QED BY <1>4, <3>1, <4>1
      <3>3. CASE i # 1
        <4>1. i - 1 \in 1 .. schedule.missedRounds /\ (row.round + 1) - i = schedule.round - (i - 1)
          BY <1>3, <1>4, <1>5, <1>8, <3>1, <3>3
        <4> QED BY <1>3, <4>1 DEF ScheduleSound, MissedRoundsAreMissed
      <3> QED BY <3>2, <3>3
    <2>3. ASSUME NEW n \in 1 .. (row.round + 1) - 1, \A i \in 1 .. n : (row.round + 1) - i \notin ran
          PROVE  missed >= n
      <3>1. row.round \notin ran
        <4>1. 1 \in 1 .. n /\ (row.round + 1) - 1 = row.round
          BY <1>5
        <4> QED BY <2>3, <4>1
      <3>2. ~f.lastRan /\ missed = row.missedRounds + 1
        BY <1>2, <1>4, <1>5, <3>1 DEF MissedRounds, missed
      <3>3. CASE n = 1
        BY <1>5, <3>2, <3>3
      <3>4. CASE n # 1
        <4>1. n - 1 \in 1 .. schedule.round - 1
          BY <1>3, <1>5, <3>4
        <4>2. ASSUME NEW i \in 1 .. n - 1 PROVE schedule.round - i \notin ran
          <5>1. i + 1 \in 1 .. n /\ (row.round + 1) - (i + 1) = schedule.round - i
            BY <1>3, <1>5, <3>4
          <5> QED BY <2>3, <5>1
        <4>3. schedule.missedRounds >= n - 1
          BY <1>3, <4>1, <4>2 DEF ScheduleSound, MissedRoundsAreMissed
        <4> QED BY <1>4, <1>5, <3>2, <4>3
      <3> QED BY <3>3, <3>4
    <2> QED BY <1>9, <1>11, <2>1, <2>2, <2>3 DEF MissedRoundsAreMissed
  <1>19. FiringsSound'
    <2> SUFFICES ASSUME NEW j \in Timers PROVE FiringSound(timer[j])'
      BY DEF FiringsSound
    <2>1. CASE j = k
      BY <1>14, <2>1 DEF FiringSound, ReadSound, Idle
    <2>2. CASE j # k
      <3>1. FiringSound(timer[j]) /\ timer[j] \in Firing /\ timer'[j] = timer[j]
        BY <1>14, <2>2 DEF ScheduleSound, FiringsSound, TypeOK
      <3>2. CASE timer[j].step = "read"
        <4>1. timer[j].row \in WorkSchedules
          BY <3>1, <3>2, ReadFacts
        <4>2. timer[j].row.round \in Nat
          BY <4>1, RowFacts
        <4>3. timer[j].row.id = row.id => timer[j].row.round <= row.round
          BY <1>3, <3>1, <3>2 DEF FiringSound, ReadSound, SameRow
        <4>4. timer[j].row.id = row.id =>
                timer[j].row.round <= row.round + 1 /\ timer[j].row.round # row.round + 1
          BY <1>5, <4>2, <4>3
        <4> QED BY <1>9, <1>11, <3>1, <3>2, <4>4
                DEF FiringSound, ReadSound, SameRow, SameRound, MissedFit
      <3>3. CASE timer[j].step # "read"
        BY <1>9, <3>1, <3>3 DEF FiringSound, ReadSound
      <3> QED BY <3>2, <3>3
    <2> QED BY <2>1, <2>2
  <1>20. ArmedForItsRule'
    BY <1>7, <1>9, <1>11 DEF ArmedForItsRule, Armed
  <1> QED BY <1>15, <1>16, <1>17, <1>18, <1>19, <1>20 DEF ScheduleSound

-----------------------------------------------------------------------------
(* A round is reported *)

LEMMA ReportRoundKeeps ==
  ASSUME ScheduleSound, NEW x \in Runs, NEW r \in 1 .. MaxRounds, ReportRound(x, r)
  PROVE  ScheduleSound'
  <1> DEFINE current == <<schedule.id, schedule.round>>
  <1>1. /\ schedule # None /\ schedule \in WorkSchedules /\ r \in 1 .. schedule.round
        /\ round' = [round EXCEPT ![x] = r] /\ ran' = ran \cup {r}
        /\ inTime' = IF \A y \in Runs : round'[y] # schedule.round THEN inTime \ {current}
                     ELSE IF Counting THEN inTime ELSE inTime \cup {current}
        /\ UNCHANGED <<now, schedule, made, timer, told, overtaken>>
    BY DEF ScheduleSound, TypeOK, ReportRound, assertScheduleRound
  <1>2. /\ schedule.id \in 1 .. MaxSchedules /\ schedule.round \in Rounds /\ schedule.round \in Nat
        /\ schedule.missedRounds \in Nat /\ schedule.id = made
    BY <1>1, RowFacts DEF ScheduleSound, CurrentIsNewest
  <1>3. round \in [Runs -> Rounds] /\ round' \in [Runs -> Rounds] /\ r \in Rounds /\ r # 0
        /\ \A y \in Runs : round'[y] = IF y = x THEN r ELSE round[y]
    BY <1>1, BoundFacts DEF ScheduleSound, TypeOK
  <1>4. inTime' \subseteq inTime \cup {current}
    BY <1>1
  <1>5. TypeOK' /\ CurrentIsNewest' /\ ToldSound'
    <2>1. current \in (1 .. MaxSchedules) \X Rounds
      BY <1>2
    <2> QED BY <1>1, <1>3, <1>4, <2>1 DEF ScheduleSound, TypeOK, CurrentIsNewest, ToldSound
  <1>6. RanSound'
    BY <1>1, <1>3 DEF ScheduleSound, RanSound
  <1>7. InTimeSound'
    <2>1. ASSUME NEW i \in 1 .. MaxSchedules, NEW q \in Rounds, <<i, q>> \in inTime'
          PROVE  i <= made /\ (i = schedule.id => q <= schedule.round)
      <3>1. CASE <<i, q>> \in inTime
        BY <1>1, <3>1 DEF ScheduleSound, InTimeSound
      <3>2. CASE <<i, q>> = current
        BY <1>2, <3>2
      <3> QED BY <1>4, <2>1, <3>1, <3>2
    <2>2. current \in inTime' => \E y \in Runs : round'[y] = schedule.round
      BY <1>1
    <2> QED BY <1>1, <2>1, <2>2 DEF InTimeSound
  <1>8. MissedRoundsAreMissed'
    <2>1. ASSUME NEW i \in 1 .. schedule.missedRounds
          PROVE  <<schedule.id, schedule.round - i>> \notin inTime'
      <3>1. <<schedule.id, schedule.round - i>> \notin inTime
        BY <1>1 DEF ScheduleSound, MissedRoundsAreMissed
      <3>2. schedule.round - i # schedule.round
        BY <1>2
      <3> QED BY <1>4, <3>1, <3>2
    <2> QED BY <1>1, <2>1 DEF ScheduleSound, MissedRoundsAreMissed
  <1>9. FiringsSound'
    <2> SUFFICES ASSUME NEW k \in Timers PROVE FiringSound(timer[k])'
      BY DEF FiringsSound
    <2>1. FiringSound(timer[k])
      BY DEF ScheduleSound, FiringsSound
    <2>2. ASSUME timer[k].step = "read", SameRound(timer[k].row), ~timer[k].lastRan
          PROVE  <<timer[k].row.id, timer[k].row.round>> \notin inTime'
      <3>1. Counting
        BY <2>2 DEF Counting
      <3>2. <<timer[k].row.id, timer[k].row.round>> \notin inTime
        BY <2>1, <2>2 DEF FiringSound, ReadSound
      <3> QED BY <1>1, <3>1, <3>2
    <2> QED BY <1>1, <2>1, <2>2 DEF FiringSound, ReadSound, SameRow, SameRound, MissedFit
  <1>10. ArmedForItsRule'
    BY <1>1 DEF ScheduleSound, ArmedForItsRule, Armed
  <1> QED BY <1>5, <1>6, <1>7, <1>8, <1>9, <1>10 DEF ScheduleSound

-----------------------------------------------------------------------------
(* The theorems *)

LEMMA SoundInit == Init => ScheduleSound
  <1> SUFFICES ASSUME Init PROVE ScheduleSound
    OBVIOUS
  <1>1. TypeOK
    <2>1. Idle \in Firing
      BY IdleIsSound
    <2>2. 0 \in 0 .. MaxTime /\ 0 \in 0 .. MaxSchedules /\ 0 \in Rounds /\ 0 \in 0 .. 2
      BY BoundFacts
    <2> QED BY <2>1, <2>2 DEF Init, TypeOK
  <1>2. CurrentIsNewest /\ ToldSound /\ InTimeSound /\ RanSound /\ MissedRoundsAreMissed
        /\ ArmedForItsRule
    BY DEF Init, CurrentIsNewest, ToldSound, InTimeSound, RanSound, MissedRoundsAreMissed,
           ArmedForItsRule
  <1>3. FiringsSound
    BY IdleIsSound DEF Init, FiringsSound
  <1> QED BY <1>1, <1>2, <1>3 DEF ScheduleSound

LEMMA SoundNext == ScheduleSound /\ [Next]_vars => ScheduleSound'
  <1> SUFFICES ASSUME ScheduleSound, [Next]_vars PROVE ScheduleSound'
    OBVIOUS
  <1>1. CASE TimePasses
    BY <1>1, TimePassesKeeps
  <1>2. CASE ClearWorkSchedule
    BY <1>2, ClearKeeps
  <1>3. CASE \E active \in BOOLEAN : \/ SetWorkScheduleActive(active)
                                     \/ \E rule \in Rules : SetWorkSchedule(rule, active)
    BY <1>3, SetActiveKeeps, SetKeeps
  <1>4. CASE \E k \in Timers : FireStart(k) \/ FireStep(k)
    BY <1>4, FireStartKeeps, FireReadKeeps, FireWriteKeeps, FireLostKeeps DEF FireStep
  <1>5. CASE \E x \in Runs, r \in 1 .. MaxRounds : ReportRound(x, r)
    BY <1>5, ReportRoundKeeps
  <1>6. CASE UNCHANGED vars
    BY <1>6 DEF vars, ScheduleSound, TypeOK, CurrentIsNewest, ToldSound, InTimeSound, RanSound,
                FiringsSound, FiringSound, ReadSound, SameRow, SameRound, MissedFit,
                MissedRoundsAreMissed, ArmedForItsRule, Armed
  <1> QED BY <1>1, <1>2, <1>3, <1>4, <1>5, <1>6 DEF Next

LEMMA ScheduleInvariant == Spec => []ScheduleSound
  BY SoundInit, SoundNext, PTL DEF Spec

LEMMA ToldSoundIsOnce ==
  ASSUME TypeOK, ToldSound
  PROVE  ToldOnce
  <1>1. ASSUME schedule # None
        PROVE  {r \in 1 .. MaxRounds : told[schedule.id][r] = 1} = 1 .. schedule.round
    <2>1. schedule.round \in 0 .. MaxRounds
      BY <1>1, RowFacts, BoundFacts DEF TypeOK
    <2>2. \A r \in 1 .. MaxRounds : told[schedule.id][r] = IF r <= schedule.round THEN 1 ELSE 0
      BY <1>1 DEF ToldSound
    <2> QED BY <2>1, <2>2, BoundFacts
  <1> QED BY <1>1 DEF ToldSound, ToldOnce

(* Every round of a schedule is told once and none is skipped, for any number  *)
(* of servers; and the next round waits for an instant of the rule.            *)
THEOREM RoundsAreToldOnce == Spec => []ScheduleInv
  <1>1. ScheduleSound => ScheduleInv
    BY ToldSoundIsOnce DEF ScheduleSound, ScheduleInv
  <1> QED BY <1>1, ScheduleInvariant, PTL

(* missedRounds blames no round that got its run in time, and counts every     *)
(* round in a row that nobody ever ran.                                      *)
THEOREM MissedRoundsWereMissed == Spec => []MissedRoundsAreMissed
  <1>1. ScheduleSound => MissedRoundsAreMissed
    BY DEF ScheduleSound
  <1> QED BY <1>1, ScheduleInvariant, PTL

(* What nextMatch returns matches, and it misses a matching minute within the  *)
(* horizon only in an hour in which the clock is changed: for every calendar,  *)
(* every rule and every zone, wherever and however often its offset changes.   *)
THEOREM OnlyBrokenHoursAreMissed == Spec => []MissesOnlyBrokenHours
  <1>1. ScheduleSound => MissesOnlyBrokenHours
    <2> SUFFICES ASSUME ScheduleSound, NEW fields \in Fields, NEW zone \in Zones
                 PROVE  LET found == nextMatch(fields, zone, now)
                            ahead == now + 1 .. now + Horizon
                        IN  /\ found # None => found \in ahead /\ matches(fields, found, zone)
                            /\ \A t \in ahead :
                                  (found = None \/ t < found) /\ matches(fields, t, zone)
                                      => BrokenHour(now, t, zone)
      BY DEF MissesOnlyBrokenHours
    <2>1. now \in 0 .. MaxTime /\ now \in Nat /\ Horizon \in Nat
      BY BoundFacts DEF ScheduleSound, TypeOK
    <2>2. (now + 1 + Horizon) - 1 = now + Horizon
      BY <2>1
    <2>3. Finds(nextMatch(fields, zone, now), now + 1, now, fields, zone, now + 1 + Horizon)
      BY <2>1, NextMatchFinds
    <2> QED BY <2>2, <2>3 DEF Finds, Passed
  <1> QED BY <1>1, ScheduleInvariant, PTL

(* The clock shows a full hour whenever it is changed.                        *)
ChangesAtFullHours(zone) ==
    \A c \in Instants : c > 0 /\ zone[c] # zone[c - 1] => (c + zone[c - 1]) % MinutesPerHour = 0

LEMMA FullHoursAreWhole ==
  ASSUME NEW zone \in Zones, ChangesAtFullHours(zone), NEW after \in Nat, NEW t \in Instants
  PROVE  ~BrokenHour(after, t, zone)
  <1> SUFFICES ASSUME NEW s \in after + 1 .. t - 1, zone[s] # zone[t],
                      wallClock(s, zone).minute + (t - s) < MinutesPerHour
               PROVE  FALSE
    BY DEF BrokenHour
  <1> DEFINE T == {c \in s + 1 .. t : zone[c] # zone[s]}
  <1>0. t \in Nat /\ s \in Nat /\ s < t /\ MinutesPerHour \in Nat \ {0}
    BY InstantFacts, CalendarFacts
  <1>1. \A c \in 0 .. t : c \in Instants
    BY <1>0, CalendarAssumption, RuleAssumption DEF Instants
  <1>2. PICK c \in T : \A d \in T : c <= d
    <2>1. T \in SUBSET Nat
      BY <1>0
    <2>2. t \in T
      BY <1>0
    <2> QED BY <2>1, <2>2, LeastExists
  <1>3. c \in Nat /\ s < c /\ c <= t /\ zone[c] # zone[s] /\ c - 1 \in Nat /\ s <= c - 1
    BY <1>0, <1>2
  <1>4. zone[c - 1] = zone[s]
    <2>1. CASE c - 1 = s
      BY <2>1
    <2>2. CASE c - 1 # s
      <3>1. c - 1 \in s + 1 .. t /\ ~(c <= c - 1)
        BY <1>0, <1>3, <2>2
      <3>2. c - 1 \notin T
        BY <1>2, <3>1
      <3> QED BY <3>1, <3>2
    <2> QED BY <2>1, <2>2
  <1>5. (c + zone[s]) % MinutesPerHour = 0
    <2>1. c \in Instants /\ c > 0 /\ zone[c] # zone[c - 1]
      BY <1>0, <1>1, <1>3, <1>4
    <2> QED BY <1>4, <2>1 DEF ChangesAtFullHours
  <1> DEFINE o == zone[s]
             l == s + o
             y == c + o
  <1>6. /\ o \in Int /\ wallClock(s, zone).minute = l % MinutesPerHour
        /\ y % MinutesPerHour = 0
    BY <1>0, <1>1, <1>5, ZoneFacts, MinuteIs DEF LocalTime
  <1> HIDE DEF o
  <1>7. l \in Int /\ y \in Int /\ l < y
    BY <1>0, <1>3, <1>6
  <1>8. l + (MinutesPerHour - (l % MinutesPerHour)) <= y
    <2> HIDE DEF l, y
    <2> QED BY <1>0, <1>6, <1>7, NextMultiple
  <1>9. l % MinutesPerHour \in Int
    <2> HIDE DEF l
    <2> QED BY <1>0, <1>7, Division
  <1> DEFINE mm == l % MinutesPerHour
  <1>10. mm \in Int /\ s + o + (MinutesPerHour - mm) <= c + o /\ mm + (t - s) < MinutesPerHour
    BY <1>6, <1>8, <1>9
  <1> HIDE DEF mm
  <1> QED BY <1>0, <1>3, <1>6, <1>10

(* Where the clock is changed only when it shows a full hour, nextMatch keeps  *)
(* the promise of its comment: it returns the first matching minute after      *)
(* `after` within the horizon, and null only when there is none.              *)
THEOREM FirstWhereHoursAreWhole ==
  ASSUME NEW fields \in Fields, NEW zone \in Zones, ChangesAtFullHours(zone), NEW after \in 0 .. MaxTime
  PROVE  LET found == nextMatch(fields, zone, after)
             ahead == after + 1 .. after + Horizon
         IN  IF found = None THEN \A t \in ahead : ~matches(fields, t, zone)
             ELSE /\ found \in ahead /\ matches(fields, found, zone)
                  /\ \A t \in after + 1 .. found - 1 : ~matches(fields, t, zone)
  <1> DEFINE found == nextMatch(fields, zone, after)
             ahead == after + 1 .. after + Horizon
  <1>1. after \in Nat /\ MaxTime \in Nat /\ Horizon \in Nat /\ (after + 1 + Horizon) - 1 = after + Horizon
    BY BoundFacts, CalendarFacts
  <1>2. Finds(found, after + 1, after, fields, zone, after + 1 + Horizon)
    BY NextMatchFinds
  <1>3. \A t \in ahead : ~BrokenHour(after, t, zone)
    <2> SUFFICES ASSUME NEW t \in ahead PROVE ~BrokenHour(after, t, zone)
      OBVIOUS
    <2>1. t \in Instants
      BY <1>1 DEF Instants
    <2> QED BY <1>1, <2>1, FullHoursAreWhole
  <1> HIDE DEF found
  <1>4. /\ found # None => found \in ahead /\ matches(fields, found, zone)
        /\ \A t \in ahead : (found = None \/ t < found) => ~matches(fields, t, zone)
    BY <1>1, <1>2, <1>3 DEF Finds, Passed
  <1>5. ASSUME found # None, NEW t \in after + 1 .. found - 1 PROVE ~matches(fields, t, zone)
    <2>1. t \in ahead /\ t < found
      BY <1>1, <1>4, <1>5
    <2> QED BY <1>4, <2>1
  <1> QED BY <1>4, <1>5 DEF found
=============================================================================
