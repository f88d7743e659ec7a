SPECIFICATION FairSpec
CONSTANTS
    k1 = k1
    k2 = k2
    x1 = x1
    x2 = x2
    None = None
    MinutesPerHour = 3
    HoursPerDay = 2
    DaysPerWeek = 3
    DaysPerMonth = 2
    MonthsPerYear = 2
    Horizon = 30
    Fields <- SmallFields
    Zones <- SmallZones
    Rules <- SmallRules
    RuleOf <- SmallRuleOf
    Timers = {k1, k2}
    Runs = {x1, x2}
    MaxSchedules = 2
    MaxRounds = 3
    MaxTime = 3
INVARIANTS
    ScheduleInv
    MissesOnlyBrokenHours
    MissedRoundsAreMissed
PROPERTIES
    KeepsFiring
CHECK_DEADLOCK FALSE
