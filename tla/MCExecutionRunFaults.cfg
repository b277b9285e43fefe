\* cancellation, the clock, lost events, failing ports and a replay cache
SPECIFICATION Spec
CONSTANTS
  None = None
  c1 = c1  c2 = c2  c3 = c3  c4 = c4  c5 = c5  x1 = x1  x2 = x2
  Coordinate <- MCCoordinate
  Schedule <- MCSchedule
  ExecutorOf <- MCExecutorOf
  ExecutorLimit <- MCExecutorLimit
  Attempt <- MCAttempt
  StageOf <- MCStageOf
  CoordinateOf <- MCCoordinateOf
  UpperBound <- NoBounds
  MaxInvocations <- FourInvocations
  MaxProviderCost <- RunCostTwo
  MaxActiveDuration <- NoLimits
  MaxAttemptCost = None
  AdmissionMode = "bounded-overshoot"
  UnknownCostMode = "fail-run"
  Duration <- ZeroDuration
  Report <- NativeReports
  CostCeiling = 1
  MaxConcurrency = 2
  MaxAttempts = 2
  CacheMode = "transparent-deterministic"
  FailureMode = "failure-threshold"
  MaxFailures = 1
  Faults = {"cancel", "clock", "writer", "open", "invalid", "dispose", "cache"}
INVARIANTS
  TypeOK
  BundleAccepted
  StopAgreesWithLedger
  LostEventFailsRun
  ReservationsFollowTrials
PROPERTIES
  BudgetProtocol
  NothingStartsOnceAborted
