\* A root command and a service process, overlapping or not; two crashes or failing
\* system calls; payloads of different lengths.
CONSTANTS
  Writers = {cli, svc}
  RootWriters = {cli}
  Inodes = {i1, i2, i3, i4}
  MaxPayload = 2
  MaxFaults = 2
  NoInode = noinode
  Missing = missing
  Denied = denied
SPECIFICATION Spec
INVARIANTS
  CleanWithoutFaults
PROPERTIES
  AtomicReplace
  RootRecovers
  QuietCallKeepsOwner
  QuietCallInstalls
\* Nobody has to call.
CHECK_DEADLOCK FALSE
