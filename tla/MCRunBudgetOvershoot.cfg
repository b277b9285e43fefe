\* bounded-overshoot admission, costs that may be left unreported
SPECIFICATION AuthoritySpec
CONSTANTS
  None = None
  c1 = c1  c2 = c2
  x1 = x1  x2 = x2  y1 = y1  e1 = e1
  Attempt <- MCAttempt
  Coordinate <- MCCoordinate
  StageOf <- MCStageOf
  CoordinateOf <- MCCoordinateOf
  UpperBound <- NoBounds
  MaxInvocations <- OvershootInvocations
  MaxProviderCost <- OvershootCost
  MaxActiveDuration <- OvershootDuration
  MaxAttemptCost = 1
  AdmissionMode = "bounded-overshoot"
  UnknownCostMode = "mark-unverifiable"
  Duration <- DurationSet
  Report <- NativeReports
  CostCeiling = 2
INVARIANTS
  InvocationsWithinLimit
  LedgerExplainsTotals
  OvershootBounded
PROPERTIES
  EndingStands
