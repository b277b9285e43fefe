\* children that may ignore SIGTERM and keep pipes open, aborts and interrupts
SPECIFICATION FairSpec
CHECK_DEADLOCK FALSE
CONSTANTS
  c1 = c1  c2 = c2  r1 = r1
  Call = {c1, c2}
  Limited = {c1}
  Abortable = {c1}
  Verbose = {c1}
  Runtime = {r1}
  MaxInterrupts = 2
PROPERTIES
  InterruptReachesAll
  VerdictStands
  CallsSettle
