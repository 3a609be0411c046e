\* Two concurrent requests, one operator, a cache that lives for two ticks.
CONSTANTS
  Requests = {r1, r2}
  Nobody = nobody
  Operators = {c1}
  TTL = 2
  MaxToken = 2
  MaxTime = 3
SPECIFICATION Spec
INVARIANTS
  StaleBound
  RotationTakesHold
  NoRollback
  FailClosed
PROPERTY EveryRequestAnswered
CHECK_DEADLOCK FALSE
