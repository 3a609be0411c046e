\* The comment's "atomically replaces path", for callers that overlap.
CONSTANTS
  Writers = {cli, svc}
  RootWriters = {cli}
  Inodes = {i1, i2, i3, i4}
  MaxPayload = 2
  MaxFaults = 0
  NoInode = noinode
  Missing = missing
  Denied = denied
SPECIFICATION Spec
INVARIANT WholeContent
CHECK_DEADLOCK FALSE
