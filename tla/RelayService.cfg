\* Two codes, two starts in a window.
CONSTANTS
  Tokens = {t1, t2}
  NoToken = notoken
  Never = never
  NoFile = nofile
  Burst = 2
SPECIFICATION Spec
INVARIANTS
  RejectionsBounded
  SavedConfigStarts
  ExpiryIsOwn
PROPERTIES
  NoSilentLoss
  ReenrollmentAdopted
\* A unit may rest for ever.
CHECK_DEADLOCK FALSE
