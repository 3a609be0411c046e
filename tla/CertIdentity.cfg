\* Two commands that may overlap, four pairs, two commands killed or tokens lost.
CONSTANTS
  c1 = c1
  c2 = c2
  Operators = {c1, c2}
  MaxPairs = 4
  MaxFaults = 2
SPECIFICATION Spec
INVARIANTS
  CompleteMeansPaired
  PinnedIsServed
PROPERTIES
  QuietCommandPairs
  InstallerKeepsIdentity
  ServiceComesUp
CHECK_DEADLOCK FALSE
