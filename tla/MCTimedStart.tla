------------------------------ MODULE MCTimedStart ------------------------------
(* A minute of two ticks, a grace of two minutes, a lead of one. *)
EXTENDS TimedStart, TLC

CONSTANTS q1, q2

Symmetry == Permutations(Queues)
MCSchedules == {{}, {4, 6}, {8}}
MCClockShifts == {-3, 6}

\* No start is forgotten too early in this instance.
ASSUME Steady(6)
=============================================================================
