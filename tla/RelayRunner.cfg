CONSTANTS
  DefaultSeconds = 2
  DefaultRefresh = 2
  Seconds = {1, 8, 17, 31}
  Refreshes = {1, 3}
  Second = 2
  Cap = 12
  Half = 32
  MaxFailures = 5
SPECIFICATION Spec
INVARIANTS TokenUseEnds SettingsKeptFresh BackoffLaw NoHotLoop
PROPERTIES SettingsAskedAgain KeepsItsPromise
\* Run returns.
CHECK_DEADLOCK FALSE
