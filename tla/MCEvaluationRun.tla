---------------------------- MODULE MCEvaluationRun ----------------------------
(* A small instance of EvaluationRun: two trials, the first of which is    *)
(* judged by two evaluators.                                               *)
EXTENDS EvaluationRun, TLC

CONSTANTS t1, t2, e1, e2, e3

MCCoordinate == {t1, t2}
MCPlan == <<e1, e2, e3>>
MCTrialOf == e1 :> t1 @@ e2 :> t1 @@ e3 :> t2
MCAttempt == {<<t, 1>> : t \in MCCoordinate} \cup ({e1, e2, e3} \X (1 .. MaxAttempts))
MCStageOf == [a \in MCAttempt |-> IF a[1] \in MCCoordinate THEN "execution" ELSE "evaluation"]
MCCoordinateOf == [a \in MCAttempt |-> IF a[1] \in MCCoordinate THEN a[1] ELSE MCTrialOf[a[1]]]

Limits(run, execution, evaluation, coordinate) ==
  "run" :> run @@ "execution" :> execution @@ "evaluation" :> evaluation
    @@ [t \in MCCoordinate |-> coordinate]

NoLimits == Limits(None, None, None, None)
NoBounds == [a \in MCAttempt |-> None]
RunCostTwo == Limits(2, None, None, None)
TwoInvocations == Limits(None, None, 2, None)

ZeroDuration == {0}
NativeReports == {"reported", "unreported"}
===============================================================================
