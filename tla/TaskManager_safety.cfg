SPECIFICATION Spec
CONSTANTS
  Tasks = {t1, t2}
  Scripts = {s1}
  Queues = {q1}
  CycleQueues = {c1}
  ScopeErrors = {c1}
  None = None
SYMMETRY Symmetry
INVARIANTS
  CycleQueueGuarded
  TargetsExclusive
  ReservationsDie
  ResultTellsOfStop
PROPERTIES
  NoScriptAfterStop
  ImplementsTaskTable
