\* The README's advice for a lost key: remove the entry and add it again.
CONSTANTS
  a = a
  b = b
  c = c
  Handlers = {h1}
  Commands = {cli}
  Containers = {a, b, c}
  Passwords = {p1}
  MaxEntries = 2
  Legacy <- OneLegacyEntry
  MaxFaults = 1
  MaxKeys = 2
  NoFile = nofile
  NoPassword = nopassword
  NoOp = noop
SPECIFICATION Spec
PROPERTY RemovableWithoutKey
CHECK_DEADLOCK FALSE
