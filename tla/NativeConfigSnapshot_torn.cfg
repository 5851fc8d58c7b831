SPECIFICATION Spec
CONSTANTS
  u1 = u1
  u2 = u2
  s1 = s1
  s2 = s2
  UserContents = {u1, u2}
  MasContents = {m1}
  ScriptContents = {s1, s2}
  Absent = Absent
  Torn = Torn
  None = None
  Faults = {"recopy"}
  MaxAccounts = 2
  MaxFaults = 2
  MaxCrashes = 2
SYMMETRY Symmetry
INVARIANTS
  OwnerNeverSeesTorn
