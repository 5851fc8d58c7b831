SPECIFICATION TimedSpec
CONSTANTS
  q1 = q1
  q2 = q2
  Queues = {q1, q2}
  Schedules <- MCSchedules
  MinuteTicks = 2
  DayTicks = 10
  TIMED_START_GRACE = 4
  Lead = 2
  Horizon = 11
  MaxSkip = 6
  ClockShifts <- MCClockShifts
  MaxShifts = 1
  MaxStarts = 2
  MaxEdits = 1
SYMMETRY Symmetry
INVARIANTS
  TimedTypeOK
PROPERTIES
  NothingMissed
  NoSecondStart
CHECK_DEADLOCK FALSE
