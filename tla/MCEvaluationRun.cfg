\* both limits, the clock, cancellation, lost events, failing ports and replays
SPECIFICATION Spec
CONSTANTS
  None = None
  t1 = t1  t2 = t2  e1 = e1  e2 = e2  e3 = e3
  Coordinate <- MCCoordinate
  Plan <- MCPlan
  TrialOf <- MCTrialOf
  Attempt <- MCAttempt
  StageOf <- MCStageOf
  CoordinateOf <- MCCoordinateOf
  UpperBound <- NoBounds
  MaxInvocations <- TwoInvocations
  MaxProviderCost <- RunCostTwo
  MaxActiveDuration <- NoLimits
  MaxAttemptCost = None
  AdmissionMode = "bounded-overshoot"
  UnknownCostMode = "fail-run"
  Duration <- ZeroDuration
  Report <- NativeReports
  CostCeiling = 1
  MaxConcurrency = 2
  MaxAttempts = 2
  CacheMode = "reuse"
  FailureMode = "failure-threshold"
  MaxFailures = 0
  Faults = {"cancel", "clock", "writer", "inputs", "open", "dispose", "cache"}
INVARIANTS
  TypeOK
  ReservationsFollowEvaluations
  BundleAccepted
PROPERTIES
  BudgetProtocol
  NoDispatchPastFailureLimit
