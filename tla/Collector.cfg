\* Two concurrent snapshots, one step back of a counter.
CONSTANTS
  s1 = s1
  s2 = s2
  Callers = {s1, s2}
  Nobody = nobody
  TTL = 2
  Modulus = 1000
  MaxTime = 3
  MaxVersion = 2
  MaxSetbacks = 1
  NotObtained = notobtained
SPECIFICATION Spec
INVARIANTS
  WindowsAddUp
  RateIsReal
  SizeIsRecent
SYMMETRY Symmetry
