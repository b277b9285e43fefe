\* three processes that may die, one of which never recovers, and a fourth
SPECIFICATION FairSpec
CHECK_DEADLOCK FALSE
CONSTANTS
  p1 = p1
  p2 = p2
  p3 = p3
  p4 = p4
  NoFile = NoFile
  Process = {p1, p2, p3, p4}
  PidOf <- DistinctPids
  HostOf <- LocalHost
  MaxDepth = 2
  Recovering = {p2, p3, p4}
  Mortal = {p1, p2, p3}
  Failing = {p4}
  Hurried = {p4}
INVARIANTS
  MutualExclusion
  OnlyTheDeadLeaveFiles
PROPERTIES
  LiveLocksKept
  IsMutex
  CallsReturn
