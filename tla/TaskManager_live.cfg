SPECIFICATION FairSpec
CONSTANTS
  Tasks = {t1, t2}
  Scripts = {}
  Queues = {q1}
  CycleQueues = {}
  ScopeErrors = {}
  None = None
PROPERTIES
  StopAllReturnsUnlessSwallowed
  StopTakesEffect
