SPECIFICATION Spec
CONSTANTS
  u1 = u1
  u2 = u2
  s1 = s1
  s2 = s2
  UserContents = {u1, u2, Absent}
  MasContents = {m1, u1}
  ScriptContents = {s1, s2, m1}
  Absent = Absent
  Torn = Torn
  None = None
  Faults = {"swap", "copy", "recopy", "mark", "recover", "remove"}
  MaxAccounts = 2
  MaxFaults = 2
  MaxCrashes = 2
SYMMETRY ScriptSymmetry
INVARIANTS
  TypeOK
  OwnLostOnlyByMishap
  TornOnlyByMishap
PROPERTY GivesUpOnlyForUnknown
