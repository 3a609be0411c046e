\* Two handlers of the server, one CLI removal.
CONSTANTS
  a = a
  b = b
  c = c
  Handlers = {h1, h2}
  Commands = {cli}
  Containers = {a, b, c}
  Passwords = {p1}
  MaxEntries = 2
  Legacy <- OneLegacyEntry
  MaxFaults = 1
  MaxKeys = 2
  NoFile = nofile
  NoPassword = nopassword
  NoOp = noop
SPECIFICATION Spec
INVARIANTS
  OneEntryEach
  Readable
  MutexDiscipline
PROPERTIES
  AtomicMap
  WritesItsOwnEdit
  KeyReplacedOnlyInRace
SYMMETRY Symmetry
CHECK_DEADLOCK FALSE
