---------------------------- MODULE MCExecutionRun ----------------------------
(* Small instances of ExecutionRun: three trials of two executors in two   *)
(* scheduling blocks, the first of which pairs two targets; and five       *)
(* trials in blocks of their own, four of which share an executor.         *)
EXTENDS ExecutionRun, TLC

CONSTANTS c1, c2, c3, c4, c5, x1, x2

MCCoordinate == {c1, c2, c3}
MCSchedule == <<{c1, c2}, {c3}>>
FiveTrials == {c1, c2, c3, c4, c5}
SingleSchedule == <<{c1}, {c2}, {c3}, {c4}, {c5}>>
MCExecutorOf == c1 :> x1 @@ c2 :> x2 @@ c3 :> x1
SharedExecutor == [c \in FiveTrials |-> IF c = c4 THEN x2 ELSE x1]
MCExecutorLimit == x1 :> 1 @@ x2 :> 1
MCAttempt == Coordinate \X (1 .. MaxAttempts)
MCStageOf == [a \in MCAttempt |-> "execution"]
MCCoordinateOf == [a \in MCAttempt |-> a[1]]

Limits(run, execution, coordinate) ==
  "run" :> run @@ "execution" :> execution @@ "evaluation" :> None
    @@ [c \in Coordinate |-> coordinate]

NoLimits == Limits(None, None, None)
NoBounds == [a \in MCAttempt |-> None]
UnitBounds == [a \in MCAttempt |-> 1]

RunCostTwo == Limits(2, None, None)
CoordinateCostWithinRun == Limits(4, None, 1)
FiveInvocations == Limits(5, None, None)
FourInvocations == Limits(4, None, None)

ZeroDuration == {0}
NativeReports == {"reported", "unreported"}
AllReported == {"reported"}
===============================================================================
