----------------------------- MODULE MCCycleRun -----------------------------
(* Two entries; a week of two days of two ticks; a fixed slot, no slot at all, *)
(* and an interval that a run may exceed, counted from the start or the end.   *)
EXTENDS CycleRun

CONSTANTS e1, e2

Fixed(days)      == [mode |-> "fixed_time", days |-> days, time |-> 1, interval |-> 2, anchor |-> "start"]
Interval(anchor) == [mode |-> "interval", days |-> {}, time |-> 0, interval |-> 2, anchor |-> anchor]
MCSchedules == {Fixed({0}), Fixed({}), Interval("start"), Interval("finish")}
MCInitially == {[e \in Entries |-> IF e = e1 THEN Fixed({0}) ELSE Interval("start")],
                [e \in Entries |-> IF e = e1 THEN Interval("start") ELSE Interval("finish")]}
=============================================================================
