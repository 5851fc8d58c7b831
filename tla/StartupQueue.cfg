SPECIFICATION FairSpec
CONSTANTS
  MaxConnections = 3
  q1 = q1
  q2 = q2
  StartupQueues <- MCQueues
INVARIANTS
  NewestIsCurrent
  TasksDieWithOwner
  StartedOnce
PROPERTIES
  StartupIsTriggered
