SPECIFICATION Spec
CONSTANTS
  Tasks = {t1, t2}
  Scripts = {s1}
  Queues = {q1}
  CycleQueues = {c1}
  ScopeErrors = {c1}
  None = None
INVARIANT
  NoStaleCycleMark
