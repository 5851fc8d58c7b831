SPECIFICATION FairSpec
CONSTANTS
  s1 = s1
  s2 = s2
  s3 = s3
  Scripts = {s1, s2, s3}
  Entries = 4
  ScriptAt <- MCScriptAt
  MaxChanges = 1
INVARIANTS
  TypeOK
  DownloadsStayAhead
  CandidatesAccountedFor
PROPERTIES
  HaltIsFinal
  StopEndsRun
