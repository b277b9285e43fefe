\* a cost limit per trial below the limit of the Run
SPECIFICATION Spec
CONSTANTS
  None = None
  c1 = c1  c2 = c2  c3 = c3  c4 = c4  c5 = c5  x1 = x1  x2 = x2
  Coordinate <- MCCoordinate
  Schedule <- MCSchedule
  ExecutorOf <- MCExecutorOf
  ExecutorLimit <- MCExecutorLimit
  Attempt <- MCAttempt
  StageOf <- MCStageOf
  CoordinateOf <- MCCoordinateOf
  UpperBound <- NoBounds
  MaxInvocations <- FourInvocations
  MaxProviderCost <- CoordinateCostWithinRun
  MaxActiveDuration <- NoLimits
  MaxAttemptCost = None
  AdmissionMode = "bounded-overshoot"
  UnknownCostMode = "fail-run"
  Duration <- ZeroDuration
  Report <- AllReported
  CostCeiling = 1
  MaxConcurrency = 1
  MaxAttempts = 2
  CacheMode = "disabled"
  FailureMode = "continue"
  MaxFailures = 0
  Faults = {}
INVARIANTS
  ExhaustedRunYieldsBundle
