SPECIFICATION FairSpec
CONSTANTS
  Callers = {k1, k2}
  PowerTasks = {p1, p2}
  Exits = {KillSelf}
  SystemOps = {Shutdown}
  IfScheduledWakeUp = TRUE
  NoAction = NoAction
  None = None
INVARIANTS
  OneTruthfulPowerTask
  WithdrawnOnce
PROPERTIES
  CancelClears
  PowerSparesTasks
  CallsReturn
