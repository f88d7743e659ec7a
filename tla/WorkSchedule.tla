---------------------------- MODULE WorkSchedule ----------------------------
(***************************************************************************)
(* Scheduled rounds of one committed item: a cron rule in a time zone, the   *)
(* timers of two replicas that fire what is due, people who set, pause and   *)
(* remove the schedule, and an agent that reports rounds as runs.            *)
(*                                                                         *)
(* Time is counted in the minutes cron counts, over a calendar whose lengths *)
(* are parameters.  A zone is what wallClock can tell of one: its offset at  *)
(* every instant, which may change at any of them and by any amount.         *)
(*                                                                         *)
(* A firing reads the row and the runs, and then writes by compare-and-set   *)
(* on the round alone: people and the other timer act in between.            *)
(***************************************************************************)
EXTENDS Integers

CONSTANTS
    MinutesPerHour, HoursPerDay, DaysPerWeek, DaysPerMonth, MonthsPerYear,
    Horizon,       \* how far nextMatch looks ahead: two years in the code
    Fields, Zones, \* what nextMatch is asked about
    Rules,         \* the rules people set ...
    RuleOf,        \* ... and the fields and the zone of each
    Timers,        \* replicas, each with its one-minute timer
    Runs,          \* runs of the item that are reported as rounds
    MaxSchedules,  \* bound: schedules created on the item
    MaxRounds,     \* bound: rounds of one schedule
    MaxTime,       \* bound: the clock
    None

ASSUME CalendarAssumption ==
    {MinutesPerHour, HoursPerDay, DaysPerWeek, DaysPerMonth, MonthsPerYear, Horizon} \subseteq Nat \ {0}
(* Whatever is looked for is looked for at one of these.                     *)
Instants == 0 .. MaxTime + 1 + Horizon
(* isValidTimeZone accepts every zone: nothing is assumed of its changes.     *)
ASSUME ZoneAssumption == Zones \subseteq [Instants -> Int]
ASSUME RuleAssumption ==
    /\ RuleOf \in [Rules -> [fields : Fields, zone : Zones]]
    /\ MaxSchedules \in Nat /\ MaxRounds \in Nat /\ MaxTime \in Nat
    /\ None \notin Rules \cup Nat

VARIABLES
    now,
    schedule,  \* the WorkSchedule row of the item, or None
    made,      \* schedules created so far; their ids
    timer,     \* the firing each timer is in
    round,     \* WorkRun.scheduleRound of each run (0: not a round)
    told,      \* ghost: notifications of each schedule's rounds, counted to 2
    inTime,    \* ghost: rounds with a run while they were the current round
    ran,       \* ghost: rounds some run was ever reported as
    overtaken  \* ghost: nextRunAt was computed from a rule replaced meanwhile

vars == <<now, schedule, made, timer, round, told, inTime, ran, overtaken>>

-----------------------------------------------------------------------------
(* The clock: work-schedule-cron.ts.                                        *)

wallClock(t, zone) ==
    LET local == t + zone[t]
        hours == local \div MinutesPerHour
        days  == hours \div HoursPerDay
    IN  [minute |-> local % MinutesPerHour, hour |-> hours % HoursPerDay,
         dayOfMonth |-> 1 + (days % DaysPerMonth), dayOfWeek |-> days % DaysPerWeek,
         month |-> 1 + ((days \div DaysPerMonth) % MonthsPerYear)]

(* Day of month and day of week are alternatives when both are restricted.   *)
BothDays(fields, clock) ==
    /\ fields.dayOfMonth = None \/ clock.dayOfMonth \in fields.dayOfMonth
    /\ fields.dayOfWeek = None \/ clock.dayOfWeek \in fields.dayOfWeek
DayOk(fields, clock) ==
    IF fields.dayOfMonth # None /\ fields.dayOfWeek # None
    THEN clock.dayOfMonth \in fields.dayOfMonth \/ clock.dayOfWeek \in fields.dayOfWeek
    ELSE BothDays(fields, clock)

matches(fields, t, zone) ==
    LET clock == wallClock(t, zone)
    IN  /\ clock.minute \in fields.minute
        /\ clock.hour \in fields.hour
        /\ clock.month \in fields.month
        /\ \/ fields.dayOfMonth # None /\ clock.dayOfMonth \in fields.dayOfMonth
           \/ fields.dayOfWeek # None /\ clock.dayOfWeek \in fields.dayOfWeek
           \/ fields.dayOfMonth = None /\ fields.dayOfWeek = None

(* Outside a matching hour the search jumps to the next one.                 *)
AfterAnHour(t, clock) == t + MinutesPerHour
NextHour(t, clock) == t + (MinutesPerHour - clock.minute)

nextMatch(fields, zone, after) ==
    LET limit == after + 1 + Horizon
        search[t \in after + 1 .. limit + MinutesPerHour] ==
            LET clock == wallClock(t, zone)
            IN  IF t >= limit THEN None
                ELSE IF clock.month \notin fields.month \/ ~DayOk(fields, clock)
                        \/ clock.hour \notin fields.hour
                THEN search[NextHour(t, clock)]
                ELSE IF clock.minute \in fields.minute THEN t
                ELSE search[t + 1]
    IN  search[after + 1]

NextRunAt ==
    [rule \in Rules |-> [at \in 0 .. MaxTime |->
        nextMatch(RuleOf[rule].fields, RuleOf[rule].zone, at)]]

-----------------------------------------------------------------------------
Rounds == 0 .. MaxRounds
WorkSchedules == [id : 1 .. MaxSchedules, rule : Rules, active : BOOLEAN,
                  nextRunAt : Instants \cup {None}, round : Rounds, missedRounds : Rounds]
Idle == [step |-> "idle"]
Firing == {Idle}
          \cup [step : {"due"}, at : Instants, id : 1 .. MaxSchedules]
          \cup [step : {"read"}, at : Instants, row : WorkSchedules, lastRan : BOOLEAN]

TypeOK ==
    /\ now \in 0 .. MaxTime
    /\ schedule \in WorkSchedules \cup {None}
    /\ made \in 0 .. MaxSchedules
    /\ timer \in [Timers -> Firing]
    /\ round \in [Runs -> Rounds]
    /\ told \in [1 .. MaxSchedules -> [1 .. MaxRounds -> 0 .. 2]]
    /\ inTime \subseteq (1 .. MaxSchedules) \X Rounds
    /\ ran \subseteq Rounds
    /\ overtaken \in BOOLEAN

-----------------------------------------------------------------------------
(* People.                                                                  *)

(* setWorkSchedule: an upsert that keeps round and missedRounds.             *)
Created(rule, active) ==
    [id |-> made + 1, rule |-> rule, active |-> active,
     nextRunAt |-> IF active THEN NextRunAt[rule][now] ELSE None,
     round |-> 0, missedRounds |-> 0]
Replaced(rule, active) ==
    [schedule EXCEPT !.rule = rule, !.active = active,
                     !.nextRunAt = IF active THEN NextRunAt[rule][now] ELSE None]

SetWorkSchedule(rule, active) ==
    /\ \/ /\ schedule = None /\ made < MaxSchedules
          /\ schedule' = Created(rule, active)
          /\ made' = made + 1
       \/ /\ schedule # None
          /\ schedule' = Replaced(rule, active)
          /\ UNCHANGED made
    /\ overtaken' = FALSE
    /\ UNCHANGED <<now, timer, round, told, inTime, ran>>

ClearWorkSchedule ==
    /\ schedule # None
    /\ schedule' = None
    /\ overtaken' = FALSE
    /\ UNCHANGED <<now, made, timer, round, told, inTime, ran>>

(* setWorkScheduleActive.  Its read and its write are one step: outside the   *)
(* tests people pause and resume through setWorkSchedule.                    *)
SetWorkScheduleActive(active) ==
    /\ schedule # None
    /\ schedule' = Replaced(schedule.rule, active)
    /\ overtaken' = FALSE
    /\ UNCHANGED <<now, made, timer, round, told, inTime, ran>>

-----------------------------------------------------------------------------
(* fireDueSchedules.                                                        *)

IsDue(row, at) == row # None /\ row.active /\ row.nextRunAt # None /\ row.nextRunAt <= at

FireStart(k) ==
    /\ timer[k] = Idle
    /\ IsDue(schedule, now)
    /\ timer' = [timer EXCEPT ![k] = [step |-> "due", at |-> now, id |-> schedule.id]]
    /\ UNCHANGED <<now, schedule, made, round, told, inTime, ran, overtaken>>

(* Did the last round get a run before this one came due?                    *)
LastRan(row) == row.round = 0 \/ \E x \in Runs : round[x] = row.round

(* The row and the count of runs, two statements: what the write compares    *)
(* is the round of the row, so the runs may as well be counted with it.        *)
FireRead(k) ==
    /\ timer[k].step = "due"
    /\ timer' = [timer EXCEPT ![k] =
          IF IsDue(schedule, @.at) /\ schedule.id = @.id
          THEN [step |-> "read", at |-> @.at, row |-> schedule, lastRan |-> LastRan(schedule)]
          ELSE Idle]
    /\ UNCHANGED <<now, schedule, made, round, told, inTime, ran, overtaken>>

(* updateMany where id and round are what was read.                          *)
SameRow(row) == schedule # None /\ schedule.id = row.id
SameRound(row) == SameRow(row) /\ schedule.round = row.round

NeverReset(row, lastRan) == IF lastRan THEN row.missedRounds ELSE row.missedRounds + 1
MissedRounds(row, lastRan) == IF lastRan THEN 0 ELSE row.missedRounds + 1

FireWrite(k) ==
    /\ timer[k].step = "read"
    /\ LET row == timer[k].row IN
          /\ SameRound(row)
          /\ row.round < MaxRounds
          /\ schedule' = [schedule EXCEPT
                !.round = row.round + 1,
                !.missedRounds = MissedRounds(row, timer[k].lastRan),
                !.nextRunAt = NextRunAt[row.rule][timer[k].at]]
          /\ told' = [told EXCEPT ![row.id][row.round + 1] = IF @ < 2 THEN @ + 1 ELSE @]
          /\ overtaken' = (row.rule # schedule.rule)
    /\ timer' = [timer EXCEPT ![k] = Idle]
    /\ UNCHANGED <<now, made, round, inTime, ran>>

LostForEver(k) ==
    /\ timer[k].step = "read"
    /\ ~SameRound(timer[k].row)
    /\ UNCHANGED vars
FireLost(k) ==
    /\ timer[k].step = "read"
    /\ ~SameRound(timer[k].row)
    /\ timer' = [timer EXCEPT ![k] = Idle]
    /\ UNCHANGED <<now, schedule, made, round, told, inTime, ran, overtaken>>

-----------------------------------------------------------------------------
(* The agent: reportRun with schedule_round, on a new run or on an open one,   *)
(* whose round it then changes.  Leases and the end of runs are WorkLease's.  *)

assertScheduleRound(r) == r \in 1 .. schedule.round

Counting == \E k \in Timers : timer[k].step = "read" /\ SameRound(timer[k].row)

ReportRound(x, r) ==
    /\ schedule # None
    /\ assertScheduleRound(r)
    /\ round' = [round EXCEPT ![x] = r]
    /\ ran' = ran \cup {r}
    /\ LET current == <<schedule.id, schedule.round>> IN
          inTime' = IF \A y \in Runs : round'[y] # schedule.round THEN inTime \ {current}
                    ELSE IF Counting THEN inTime ELSE inTime \cup {current}
    /\ UNCHANGED <<now, schedule, made, timer, told, overtaken>>

TimePasses ==
    /\ now < MaxTime
    /\ now' = now + 1
    /\ UNCHANGED <<schedule, made, timer, round, told, inTime, ran, overtaken>>

-----------------------------------------------------------------------------
Init ==
    /\ now = 0
    /\ schedule = None
    /\ made = 0
    /\ timer = [k \in Timers |-> Idle]
    /\ round = [x \in Runs |-> 0]
    /\ told = [i \in 1 .. MaxSchedules |-> [r \in 1 .. MaxRounds |-> 0]]
    /\ inTime = {}
    /\ ran = {}
    /\ overtaken = FALSE

FireStep(k) == FireRead(k) \/ FireWrite(k) \/ FireLost(k)

Next ==
    \/ TimePasses
    \/ ClearWorkSchedule
    \/ \E active \in BOOLEAN : \/ SetWorkScheduleActive(active)
                              \/ \E rule \in Rules : SetWorkSchedule(rule, active)
    \/ \E k \in Timers : FireStart(k) \/ FireStep(k)
    \/ \E x \in Runs, r \in 1 .. MaxRounds : ReportRound(x, r)

Spec == Init /\ [][Next]_vars

-----------------------------------------------------------------------------
(* Properties.                                                              *)

(* The clock was changed in the hour of t: t still lies in the hour that the  *)
(* clock showed at s, after `after`, but the zone had another offset then.     *)
BrokenHour(after, t, zone) ==
    \E s \in after + 1 .. t - 1 :
        zone[s] # zone[t] /\ wallClock(s, zone).minute + (t - s) < MinutesPerHour

(* work-schedule-cron.ts, "The first matching minute strictly after `after`, *)
(* within two years; null when none".  The code keeps this up to hours in     *)
(* which the clock is changed, of which the jump may pass over the rest: what  *)
(* it finds matches, and a match before that, or any match when it finds none, *)
(* lies in such a broken hour.  A change at a full hour breaks none.  It       *)
(* depends on the clock alone and is asked once at every instant.            *)
MissesOnlyBrokenHours ==
    made = 0 /\ timer = [k \in Timers |-> Idle] =>
        \A fields \in Fields, zone \in Zones :
            LET found == nextMatch(fields, zone, now)
                ahead == now + 1 .. now + Horizon
            IN  /\ found # None => found \in ahead /\ matches(fields, found, zone)
                /\ \A t \in ahead :
                      (found = None \/ t < found) /\ matches(fields, t, zone)
                          => BrokenHour(now, t, zone)

(* work-schedule.ts, "a tick that runs twice (two server processes, a retry)  *)
(* cannot tell the agent twice": every round of a schedule is told once, and  *)
(* none is skipped.                                                         *)
ToldOnce ==
    /\ \A i \in 1 .. MaxSchedules, r \in 1 .. MaxRounds : told[i][r] <= 1
    /\ schedule # None => {r \in 1 .. MaxRounds : told[schedule.id][r] = 1} = 1 .. schedule.round

(* "Rounds in a row that fired without a run reported before the next one"    *)
(* (schema.prisma): a round with a run in time is not blamed, and rounds that *)
(* nobody ever ran are all counted.                                         *)
MissedRoundsAreMissed ==
    schedule # None =>
        /\ schedule.missedRounds <= IF schedule.round = 0 THEN 0 ELSE schedule.round - 1
        /\ \A i \in 1 .. schedule.missedRounds : <<schedule.id, schedule.round - i>> \notin inTime
        /\ \A n \in 1 .. schedule.round - 1 :
              (\A i \in 1 .. n : schedule.round - i \notin ran) => schedule.missedRounds >= n

(* An active schedule waits for an instant of its own rule, however it was    *)
(* set, paused, resumed and fired, and for none only when the rule had none    *)
(* within the horizon of the moment it was looked for, broken hours aside;     *)
(* unless a firing that had read the rule before wrote after the rule was      *)
(* replaced.                                                                *)
Armed(rule, nextRunAt) ==
    IF nextRunAt = None
    THEN \E at \in 0 .. now : \A t \in at + 1 .. at + Horizon :
            matches(rule.fields, t, rule.zone) => BrokenHour(at, t, rule.zone)
    ELSE matches(rule.fields, nextRunAt, rule.zone)
ArmedForItsRule ==
    schedule # None /\ schedule.active /\ ~overtaken
        => Armed(RuleOf[schedule.rule], schedule.nextRunAt)

(* The state invariant of a schedule: every round was told once, and the next *)
(* one waits for an instant of the rule.                                     *)
ScheduleInv == TypeOK /\ ToldOnce /\ ArmedForItsRule

(* Every server fires once a minute, a firing goes on, and time passes.       *)
Fairness == /\ WF_vars(TimePasses)
            /\ \A k \in Timers : WF_vars(FireStart(k)) /\ WF_vars(FireStep(k))
FairSpec == Spec /\ Fairness

(* An active schedule fires when its time comes, although timers race each    *)
(* other and people edit it: it is never due for good.                       *)
KeepsFiring ==
    []<>(~IsDue(schedule, now) \/ schedule.round = MaxRounds)
=============================================================================
