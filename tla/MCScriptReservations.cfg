SPECIFICATION Spec
CONSTANTS
  Owners = {o1, o2}
  Scripts = {s1, s2}
  outer = outer
  inner = inner
  apart = apart
  Roots <- MCRoots
  Emulators = {e1}
  Below <- MCBelow
  Nobody = Nobody
INVARIANTS
  TablesInStep
  RootsExclusive
PROPERTIES
  ImplementsLocks
