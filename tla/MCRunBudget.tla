------------------------------ MODULE MCRunBudget ------------------------------
(* Small instances of RunBudget: two trials, execution and evaluation.     *)
EXTENDS RunBudget, TLC

CONSTANTS c1, c2, x1, x2, y1, e1

MCAttempt == {x1, x2, y1, e1}
MCCoordinate == {c1, c2}
MCStageOf == x1 :> "execution" @@ x2 :> "execution" @@ y1 :> "execution" @@ e1 :> "evaluation"
MCCoordinateOf == x1 :> c1 @@ x2 :> c1 @@ y1 :> c2 @@ e1 :> c1

Limits(run, execution, evaluation, coordinate) ==
  "run" :> run @@ "execution" :> execution @@ "evaluation" :> evaluation
    @@ c1 :> coordinate @@ c2 :> coordinate

NoBounds == [a \in MCAttempt |-> None]

(* Bounded overshoot: a limit of every kind, and one on every kind of      *)
(* scope (the attempt's is MaxAttemptCost).                                *)
OvershootInvocations == Limits(3, None, None, 2)
OvershootCost == Limits(2, None, None, None)
OvershootDuration == Limits(None, 2, None, 1)

DurationSet == {0, 1}
NativeReports == {"reported", "unreported"}
===============================================================================
