\* batches of single trials under a failure threshold and strict reservation,
\* whose bounds a report may violate, with fairness
SPECIFICATION FairSpec
CONSTANTS
  None = None
  c1 = c1  c2 = c2  c3 = c3  c4 = c4  c5 = c5  x1 = x1  x2 = x2
  Coordinate <- FiveTrials
  Schedule <- SingleSchedule
  ExecutorOf <- SharedExecutor
  ExecutorLimit <- MCExecutorLimit
  Attempt <- MCAttempt
  StageOf <- MCStageOf
  CoordinateOf <- MCCoordinateOf
  UpperBound <- UnitBounds
  MaxInvocations <- FiveInvocations
  MaxProviderCost <- RunCostTwo
  MaxActiveDuration <- NoLimits
  MaxAttemptCost = None
  AdmissionMode = "strict-reservation"
  UnknownCostMode = "fail-run"
  Duration <- ZeroDuration
  Report <- AllReported
  CostCeiling = 2
  MaxConcurrency = 2
  MaxAttempts = 2
  CacheMode = "disabled"
  FailureMode = "failure-threshold"
  MaxFailures = 1
  Faults = {"cancel", "writer"}
INVARIANTS
  StrictCostWithinLimit
PROPERTIES
  NoAdmissionPastFailureLimit
  AdmittedTrialsRun
  RunEnds
