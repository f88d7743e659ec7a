--------------------------- MODULE MCWorkSchedule ---------------------------
(* Hours of three minutes, days of two hours, weeks of three days, months of  *)
(* two days and years of two months.  The clock is put forward and back, by a  *)
(* whole hour and by part of one, when it shows a full hour and in the middle  *)
(* of an hour, and once or twice.                                           *)
EXTENDS WorkSchedule

CONSTANTS k1, k2, x1, x2

SmallFields ==
    [minute : {{0}, {1}, {0, 2}}, hour : {{0}, {1}}, dayOfMonth : {None, {1}},
     dayOfWeek : {None, {2}}, month : {{1}, {1, 2}}]
    \cup [minute : {{0}, {0, 1, 2}}, hour : {{0, 1}}, dayOfMonth : {None}, dayOfWeek : {None}, month : {{1, 2}}]
    \cup [minute : {{0}}, hour : {{0}}, dayOfMonth : {{3}}, dayOfWeek : {None}, month : {{1}}]

Changing(at, before, after) == [t \in Instants |-> IF t < at THEN before ELSE after]
Utc == [t \in Instants |-> 0]
FullHourZones ==
    {Changing(6, b, b + shift) : b \in {-3, 0, 3}, shift \in {-3, -1, 1, 3}}
    \cup {Changing(4, 2, 5)}
MidHourZones ==
    {Changing(at, 0, shift) : at \in {4, 5}, shift \in {-3, -1, 1, 3}}
    \cup {[t \in Instants |-> IF t \in 4 .. 16 THEN 3 ELSE 0]}
SmallZones == {Utc} \cup FullHourZones \cup MidHourZones

EveryMinute == [fields |-> [minute |-> {0, 1, 2}, hour |-> {0, 1}, dayOfMonth |-> None,
                            dayOfWeek |-> None, month |-> {1, 2}],
                zone |-> Utc]
Hourly == [fields |-> [minute |-> {0}, hour |-> {0, 1}, dayOfMonth |-> None, dayOfWeek |-> None,
                       month |-> {1, 2}],
           zone |-> Changing(5, 0, 3)]
Never == [fields |-> [minute |-> {0}, hour |-> {0}, dayOfMonth |-> {3}, dayOfWeek |-> None,
                      month |-> {1}],
          zone |-> Utc]
SmallRules == {"minute", "hourly", "never"}
SmallRuleOf == [minute |-> EveryMinute, hourly |-> Hourly, never |-> Never]
=============================================================================
