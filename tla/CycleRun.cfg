SPECIFICATION FairSpec
CONSTANTS
  e1 = e1
  e2 = e2
  Entries = {e1, e2}
  Schedules <- MCSchedules
  Initially <- MCInitially
  None = None
  Week = 2
  DayTicks = 2
  MaxRun = 3
  MaxJump = 2
  MaxEdits = 1
INVARIANTS
  TypeOK
  DueIsOwed
  RunsItsOwnScript
PROPERTIES
  DueIsTakenUp
