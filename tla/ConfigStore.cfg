SPECIFICATION FairSpec
CONSTANTS
  a1 = a1
  t1 = t1
  r1 = r1
  Flusher = Flusher
  Worker = Worker
  Actors <- MCActors
  Writers = {a1}
  Threads = {t1}
  NoActor = NoActor
  Roots = {r1}
  None = None
  MaxRetries = 1
  MaxCalls = 3
  MaxFailures = 3
  MaxDeaths = 1
INVARIANTS
  TypeOK
  GateNeverLost
  NothingForgotten
PROPERTIES
  SavedInTheEnd
