\* nothing goes wrong but a cancellation by the host
SPECIFICATION Spec
CONSTANTS
  None = None
  t1 = t1  t2 = t2  e1 = e1  e2 = e2  e3 = e3
  Coordinate <- MCCoordinate
  Plan <- MCPlan
  TrialOf <- MCTrialOf
  Attempt <- MCAttempt
  StageOf <- MCStageOf
  CoordinateOf <- MCCoordinateOf
  UpperBound <- NoBounds
  MaxInvocations <- NoLimits
  MaxProviderCost <- NoLimits
  MaxActiveDuration <- NoLimits
  MaxAttemptCost = None
  AdmissionMode = "bounded-overshoot"
  UnknownCostMode = "fail-run"
  Duration <- ZeroDuration
  Report <- NativeReports
  CostCeiling = 0
  MaxConcurrency = 2
  MaxAttempts = 2
  CacheMode = "disabled"
  FailureMode = "continue"
  MaxFailures = 0
  Faults = {"cancel"}
INVARIANTS
  CancelledRunYieldsBundle
