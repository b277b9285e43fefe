--------------------------- MODULE EvaluationRunProofs ---------------------------
(***************************************************************************)
(* Theorems about EvaluationRun for every plan, policy and set of faults.  *)
(* As in ExecutionRunProofs, the two stages are first shown to take only   *)
(* steps of their one authority (AuthorityStep).  The inductive invariant  *)
(* IInv says where each evaluation can be at each point of runEvaluation,  *)
(* what it has tried, holds and has on record, and what the failure policy *)
(* has let through.                                                        *)
(***************************************************************************)
EXTENDS EvaluationRun, RunBudgetProofs, SequenceTheorems, FunctionTheorems

(* Types, and what TypeOK leaves open of the attempts.                     *)
ControlTyped ==
  /\ phase \in Interruptible \cup {"executing", "handed", "completing", "assembling", "sealed",
                                   "published", "rejected"}
  /\ source \in [Coordinate -> {"pending", "record", "censored", "missing"}]
  /\ batch \subseteq Evaluation /\ Cardinality(batch) <= MaxConcurrency

JudgingTyped ==
  /\ pc \in [Evaluation -> Running \cup {"planned", "unavailable", "eligible", "cached", "done"}]
  /\ attempts \in [Evaluation -> Seq(AttemptStatus)]
  /\ record \in [Evaluation -> {"none", "not-evaluated", "completed", "failed", "cancelled"}]

EndingTyped ==
  /\ stop \in [kind : StopKind, resource : Resource, scope : ScopeKind]
  /\ cancelled \in BOOLEAN /\ fatal \in BOOLEAN
  /\ status \in StopKind \cup {"completed"}

(* The Execution stage has one trial under way at most, and has left every *)
(* trial in some state when it hands over.                                 *)
ExecutionInv(t) ==
  /\ budget.reservations[FirstRun(t)] # "none" =>
       /\ source[t] = "pending"
       /\ \A u \in Coordinate : budget.reservations[FirstRun(u)] # "none" => u = t
  /\ source[t] = "pending" => phase = "executing" /\ budget.entries[FirstRun(t)] = None

Preparing == {"executing", "handed", "starting", "preparing", "recording"}
Over == phase \in {"assembling", "sealed", "published", "rejected"}

(* Where an evaluation is: prepared before the first batch, under way only *)
(* as a member of the running batch, and left behind only by a stop.       *)
PlaceInv(e) ==
  /\ phase \in {"executing", "handed", "starting"} => pc[e] = "planned"
  /\ phase \in Preparing => pc[e] \in {"planned", "unavailable", "eligible"}
  /\ pc[e] \in Running => phase = "running" /\ e \in batch
  /\ e \in batch => pc[e] \in Running \cup {"cached", "done"}
  /\ pc[e] = "planned" => phase \in Preparing \ {"recording"} \/ Stopped
  /\ pc[e] = "eligible" => phase \in Preparing \cup {"dispatching", "running", "progress"} \/ Stopped
  /\ pc[e] \notin {"planned", "unavailable"} => source[TrialOf[e]] = "record"

(* What an evaluation has on record: nothing while its batch runs, then    *)
(* what it came to; the others are recorded as not evaluated, in the       *)
(* beginning or at the end.                                                *)
RecordInv(e) ==
  /\ phase \in Preparing \ {"recording"} => record[e] = "none"
  /\ pc[e] \notin {"cached", "done"} => record[e] \in {"none", "not-evaluated"}
  /\ pc[e] \notin {"planned", "unavailable"} => record[e] # "not-evaluated"
  /\ pc[e] \in {"cached", "done"} =>
       record[e] = IF phase = "running" /\ e \in batch THEN "none" ELSE SettledAs(e)
  /\ pc[e] = "unavailable" /\ phase \notin Preparing => Stopped \/ record[e] = "not-evaluated"
  /\ Over /\ Sourceless(e) => record[e] = "not-evaluated"

(* What an evaluation has tried, by where it is: nothing before its first  *)
(* call, transient failures only before a retry, and no attempt at all     *)
(* only of a stage that stops.                                             *)
AttemptsInv(e) ==
  /\ pc[e] \in {"planned", "unavailable", "eligible", "looking", "hit", "announced", "opening",
                "cached"} => attempts[e] = <<>>
  /\ pc[e] \in {"reporting", "backoff"} => attempts[e] # <<>>
  /\ Len(attempts[e]) <= MaxAttempts
  /\ pc[e] \in {"opening", "admitted", "evaluating", "backoff"} => Len(attempts[e]) < MaxAttempts
  /\ \A n \in 1 .. Len(attempts[e]) :
       n < Len(attempts[e]) \/ pc[e] \in {"backoff", "admitted", "evaluating"} =>
         attempts[e][n] = "transient"
  /\ \A n \in 1 .. Len(attempts[e]) : attempts[e][n] = "cancelled" => Aborted
  /\ pc[e] \in {"disposing", "done"} /\ attempts[e] = <<>> => Stopped

(* The ledger has one entry for each finished attempt and a reservation    *)
(* for each attempt the evaluation is about to make or making.             *)
HoldingInv(e) ==
  \A n \in 1 .. MaxAttempts :
    LET held == budget.reservations[<<e, n>>]
        current == n = Len(attempts[e]) + 1
    IN  /\ budget.entries[<<e, n>>] # None <=> n <= Len(attempts[e])
        /\ held = "reserved" <=> current /\ pc[e] = "admitted"
        /\ held = "consumed" <=> current /\ pc[e] = "evaluating"

(* The batches that are over stayed within the failure limit, or the stage *)
(* stops.                                                                  *)
LimitInv ==
  ~Stopped =>
    /\ phase \in {"dispatching", "running"} =>
         /\ FailureMode = "fail-fast" => FailedAmong(Evaluation) = {}
         /\ FailureMode = "failure-threshold" =>
              Cardinality(FailedAmong(Evaluation)) <= MaxFailures
    /\ phase = "progress" /\ FailureMode = "fail-fast" => FailedAmong(Evaluation \ batch) = {}

StageInv ==
  /\ \A t \in Coordinate : ExecutionInv(t)
  /\ \A e \in Evaluation : PlaceInv(e) /\ RecordInv(e) /\ AttemptsInv(e) /\ HoldingInv(e)

LedgerOK == BudgetTyped /\ LedgerInv(budget)

IInv ==
  /\ ControlTyped /\ JudgingTyped /\ EndingTyped /\ StageInv /\ LimitInv /\ LedgerOK

-------------------------------------------------------------------------------
(* Both stages call the one authority the way RunBudget allows.            *)

(* The attempts of the plan: one of each trial, some of each evaluation.   *)
LEMMA PlanFacts ==
  /\ MaxAttempts \in Nat /\ MaxAttempts >= 1
  /\ \A t \in Coordinate : FirstRun(t) \in Attempt
  /\ \A e \in Evaluation : TrialOf[e] \in Coordinate
  /\ \A e \in Evaluation, n \in 1 .. MaxAttempts :
       <<e, n>> \in Attempt /\ \A t \in Coordinate : FirstRun(t) # <<e, n>>
  /\ \A a \in Attempt : \/ \E t \in Coordinate : a = FirstRun(t)
                        \/ \E e \in Evaluation, n \in 1 .. MaxAttempts : a = <<e, n>>
BY PlanAssumption DEF FirstRun

(* The next attempt of an evaluation that may still make one is an         *)
(* attempt, and its reservation is where the evaluation is.                *)
LEMMA CurrentAttempt ==
  ASSUME IInv, NEW e \in Evaluation, pc[e] \in {"opening", "admitted", "evaluating", "backoff"}
  PROVE  /\ Len(attempts[e]) \in Nat /\ Len(attempts[e]) + 1 \in 1 .. MaxAttempts
         /\ Current(e) \in Attempt
         /\ budget.entries[Current(e)] = None
         /\ budget.reservations[Current(e)] = "reserved" <=> pc[e] = "admitted"
         /\ budget.reservations[Current(e)] = "consumed" <=> pc[e] = "evaluating"
         /\ pc[e] \in {"opening", "backoff"} => Current(e) \in Requestable
<1> DEFINE n == Len(attempts[e]) + 1
<1>1. attempts[e] \in Seq(AttemptStatus) /\ Len(attempts[e]) \in Nat
  BY DEF IInv, JudgingTyped
<1>2. n \in 1 .. MaxAttempts /\ ~(n <= Len(attempts[e]))
  BY <1>1, PlanFacts DEF IInv, StageInv, AttemptsInv
<1>3. Current(e) = <<e, n>> /\ Current(e) \in Attempt
  BY <1>2, PlanFacts DEF Current
<1>4. budget.reservations[<<e, n>>] \in {"none", "reserved", "consumed"}
  BY <1>3 DEF IInv, LedgerOK, BudgetTyped, Budget
<1> HIDE DEF n
<1>5. /\ budget.entries[<<e, n>>] = None
      /\ budget.reservations[<<e, n>>] = "reserved" <=> pc[e] = "admitted"
      /\ budget.reservations[<<e, n>>] = "consumed" <=> pc[e] = "evaluating"
  BY <1>2 DEF IInv, StageInv, HoldingInv, n
<1> QED BY <1>1, <1>2, <1>3, <1>4, <1>5 DEF n, Requestable

(* Outside the running batch no evaluation holds a reservation.            *)
LEMMA OutsideBatch ==
  ASSUME IInv, phase # "running", NEW e \in Evaluation, NEW n \in 1 .. MaxAttempts
  PROVE  budget.reservations[<<e, n>>] = "none"
<1>1. pc[e] \notin {"admitted", "evaluating"}
  BY DEF IInv, StageInv, PlaceInv, Running
<1>2. budget.reservations[<<e, n>>] \in {"none", "reserved", "consumed"}
  BY PlanFacts DEF IInv, LedgerOK, BudgetTyped, Budget
<1> QED BY <1>1, <1>2 DEF IInv, StageInv, HoldingInv

(* What is outstanding while the Execution stage runs is the one attempt   *)
(* of a pending trial, and nothing is when it hands over.                  *)
LEMMA TrialOutstanding ==
  ASSUME IInv, phase = "executing"
  PROVE  /\ \A a \in Outstanding(budget) : \E t \in Unrun : a = FirstRun(t)
         /\ Unrun = {} => Outstanding(budget) = {}
<1>1. ASSUME NEW a \in Outstanding(budget)
      PROVE  \E t \in Unrun : a = FirstRun(t)
  <2>1. a \in Attempt /\ budget.reservations[a] # "none"
    BY DEF Outstanding
  <2>2. PICK t \in Coordinate : a = FirstRun(t)
    BY <2>1, PlanFacts, OutsideBatch
  <2> QED BY <2>1, <2>2 DEF IInv, StageInv, ExecutionInv, Unrun
<1> QED BY <1>1

(* What setStop leaves in the authority, on top of the budget value b.     *)
LEMMA SetStopBudget ==
  ASSUME NEW b, NEW kind, NEW t, SetStop(b, kind, t)
  PROVE  /\ kind \in {"failed", "budget-exhausted"} => budget' \in PerhapsFailed(b)
         /\ budget' \in {b, AfterTermination(b, Failure), AfterTermination(b, Cancellation)}
BY DEF SetStop, PerhapsFailed

(* A stage may note a failure or a cancellation at any time.               *)
LEMMA NoteOrStutter ==
  ASSUME NEW kind, NEW t, SetStop(budget, kind, t), UNCHANGED expired
  PROVE  [AuthorityNext]_authority
<1>1. budget' = budget => UNCHANGED authority
  BY DEF authority
<1>2. budget' # budget => NoteStop
  BY SetStopBudget DEF NoteStop
<1> QED BY <1>1, <1>2 DEF AuthorityNext

(* The trials of the Execution stage.                                      *)
LEMMA ExecutionAuthority ==
  ASSUME IInv, Execution
  PROVE  [AuthorityNext]_authority
<1>0. phase = "executing" /\ UNCHANGED expired
  BY DEF Execution, ExecutionStep
<1>1. ASSUME NEW t \in Coordinate, AdmitTrial(t) PROVE [AuthorityNext]_authority
  <2>1. {FirstRun(t)} \subseteq Requestable
    <3>1. FirstRun(t) \in Attempt /\ budget.entries[FirstRun(t)] = None
      BY <1>1, PlanFacts DEF AdmitTrial, IInv, StageInv, ExecutionInv
    <3> QED BY <1>1, <3>1 DEF AdmitTrial, Outstanding, Requestable
  <2>2. Reserve({FirstRun(t)})
    BY <1>0, <1>1, <2>1 DEF AdmitTrial, Reserve
  <2> QED BY <2>1, <2>2 DEF AuthorityNext, Requestable
<1>2. ASSUME NEW t \in Coordinate, RefuseTrial(t) PROVE [AuthorityNext]_authority
  <2>1. {FirstRun(t)} \subseteq Requestable
    <3>1. FirstRun(t) \in Attempt /\ budget.entries[FirstRun(t)] = None
      BY <1>2, PlanFacts DEF RefuseTrial, IInv, StageInv, ExecutionInv
    <3> QED BY <1>2, <3>1 DEF RefuseTrial, Outstanding, Requestable
  <2>2. Refuse({FirstRun(t)})
    BY <1>0, <1>2, <2>1 DEF RefuseTrial, Refuse, PerhapsFailed
  <2> QED BY <2>1, <2>2 DEF AuthorityNext, Requestable
<1>3. ASSUME NEW t \in Coordinate, StartTrial(t) PROVE [AuthorityNext]_authority
  <2>1. Consume(FirstRun(t)) /\ FirstRun(t) \in Attempt
    BY <1>0, <1>3, PlanFacts DEF StartTrial, Consume
  <2> QED BY <2>1 DEF AuthorityNext
<1>4. ASSUME NEW t \in Coordinate, NEW charge \in PossibleCharge, FinishTrial(t, charge)
      PROVE  [AuthorityNext]_authority
  <2>1. Settle(FirstRun(t)) /\ FirstRun(t) \in Attempt
    BY <1>0, <1>4, PlanFacts DEF FinishTrial, Settle, PerhapsFailed
  <2> QED BY <2>1 DEF AuthorityNext
<1>5. CASE AbandonTrials
  <2>1. CASE UNCHANGED budget
    BY <1>0, <2>1 DEF authority
  <2>2. ASSUME NEW a \in Outstanding(budget), budget' = AfterRelease(budget, a)
        PROVE  [AuthorityNext]_authority
    <3>1. a \in Attempt /\ budget.reservations[a] \in {"reserved", "consumed"}
      BY DEF Outstanding, IInv, LedgerOK, BudgetTyped, Budget
    <3>2. budget.reservations[a] # "consumed"
      <4>1. PICK t \in Unrun : a = FirstRun(t)
        BY <1>0, TrialOutstanding
      <4> QED BY <1>5, <4>1 DEF AbandonTrials, Unrun
    <3>3. Release(a)
      BY <1>0, <2>2, <3>1, <3>2 DEF Release, PerhapsFailed
    <3> QED BY <3>1, <3>3 DEF AuthorityNext
  <2> QED BY <1>5, <2>1, <2>2 DEF AbandonTrials
<1> QED BY <1>1, <1>2, <1>3, <1>4, <1>5 DEF Execution

(* A refused attempt is noted and recorded as the reason to stop.          *)
LEMMA RefusalAuthority ==
  ASSUME NEW B \in SUBSET Attempt, B # {}, B \subseteq Requestable,
         NEW t \in Denials(budget, B, expired), StopRefused(t), UNCHANGED expired
  PROVE  [AuthorityNext]_authority
<1>1. budget' \in PerhapsFailed(AfterTermination(budget, t))
  BY SetStopBudget DEF StopRefused
<1>2. Refuse(B)
  BY <1>1 DEF Refuse
<1> QED BY <1>2 DEF AuthorityNext

(* The evaluations.                                                        *)
LEMMA EvaluationAuthority ==
  ASSUME IInv, NEW e \in Evaluation, EvaluationStep(e)
  PROVE  [AuthorityNext]_authority
<1>1. CASE Leave(e) \/ LookUp(e) \/ Replay(e) \/ Announce(e) \/ Reported(e) \/ StopWaiting(e)
  BY <1>1 DEF Leave, LookUp, Replay, Announce, Reported, StopWaiting, OnlyPc, authority
<1>2. CASE LookUpFails(e) \/ OpenFails(e) \/ Dispose(e)
  <2>1. CASE UNCHANGED <<budget, expired>>
    BY <2>1 DEF authority
  <2>2. CASE Fail /\ UNCHANGED expired
    BY <2>2, NoteOrStutter DEF Fail
  <2> QED BY <1>2, <2>1, <2>2 DEF LookUpFails, OpenFails, Dispose, PcAndStop
<1>3. CASE AdmitAttempt(e)
  <2>1. {Current(e)} \subseteq Requestable /\ Current(e) \in Attempt
    BY <1>3, CurrentAttempt DEF AdmitAttempt
  <2>2. Reserve({Current(e)})
    BY <1>3, <2>1 DEF AdmitAttempt, Reserve, PcAndStop
  <2> QED BY <2>1, <2>2 DEF AuthorityNext
<1>4. CASE RefuseAttempt(e)
  <2>1. {Current(e)} \subseteq Requestable /\ Current(e) \in Attempt
    BY <1>4, CurrentAttempt DEF RefuseAttempt
  <2> QED BY <1>4, <2>1, RefusalAuthority DEF RefuseAttempt, PcAndStop
<1>5. CASE StartAttempt(e)
  <2>1. Consume(Current(e)) /\ Current(e) \in Attempt
    BY <1>5, CurrentAttempt DEF StartAttempt, Consume, PcAndBudget
  <2> QED BY <2>1 DEF AuthorityNext
<1>6. CASE ForgoAttempt(e)
  <2>1. Release(Current(e)) /\ Current(e) \in Attempt
    BY <1>6, CurrentAttempt DEF ForgoAttempt, Release, PerhapsFailed, PcAndBudget
  <2> QED BY <2>1 DEF AuthorityNext
<1>7. ASSUME NEW charge \in PossibleCharge, NEW outcome, FinishAttempt(e, outcome, charge)
      PROVE  [AuthorityNext]_authority
  <2>1. budget' \in PerhapsFailed(AfterSettle(budget, Current(e), charge))
    <3>1. CASE SettlementError(budget, Current(e), charge) = None
      BY <1>7, <3>1 DEF FinishAttempt, PerhapsFailed
    <3>2. CASE SettlementError(budget, Current(e), charge) # None
      BY <1>7, <3>2, SetStopBudget DEF FinishAttempt
    <3> QED BY <3>1, <3>2
  <2>2. Settle(Current(e)) /\ Current(e) \in Attempt
    BY <1>7, <2>1, CurrentAttempt DEF FinishAttempt, Settle
  <2> QED BY <2>2 DEF AuthorityNext
<1> QED BY <1>1, <1>2, <1>3, <1>4, <1>5, <1>6, <1>7 DEF EvaluationStep

(* Every step of either stage is a step of the authority or leaves it      *)
(* alone.                                                                  *)
LEMMA AuthorityStep ==
  ASSUME IInv, [Next]_vars
  PROVE  [AuthorityNext]_authority
<1>1. CASE HandOver
  <2>1. CASE UNCHANGED budget
    BY <1>1, <2>1 DEF HandOver, authority
  <2>2. CASE budget' = AfterHandoff(budget)
    <3>1. Outstanding(budget) = {}
      BY <1>1, TrialOutstanding DEF HandOver
    <3>2. Handoff
      BY <1>1, <2>2, <3>1 DEF HandOver, Handoff
    <3> QED BY <3>2 DEF AuthorityNext
  <2> QED BY <1>1, <2>1, <2>2 DEF HandOver
<1>2. CASE Begin \/ PrepareFails \/ ApplyFailurePolicy \/ Teardown \/ WriterFails
  <2>1. CASE UNCHANGED <<budget, expired>>
    BY <2>1 DEF authority
  <2>2. ASSUME NEW kind, NEW t, SetStop(budget, kind, t), UNCHANGED expired
        PROVE  [AuthorityNext]_authority
    BY <2>2, NoteOrStutter
  <2> QED BY <1>2, <2>1, <2>2
          DEF Begin, PrepareFails, ApplyFailurePolicy, Teardown, WriterFails, Fail
<1>3. CASE \/ Started \/ Prepare \/ Prepared \/ RecordUnavailable \/ Recorded \/ Dispatch
           \/ EndBatch \/ Dispatched \/ Complete \/ Assemble \/ Publish \/ Recover
  BY <1>3 DEF Started, Prepare, Prepared, RecordUnavailable, Recorded, Dispatch, EndBatch,
              Dispatched, Complete, Assemble, Publish, Recover, authority
<1>4. CASE HostCancels
  <2>1. CASE UNCHANGED budget
    BY <1>4, <2>1 DEF HostCancels, authority
  <2>2. CASE budget' = AfterTermination(budget, Cancellation)
    BY <1>4, <2>2 DEF HostCancels, NoteStop, AuthorityNext
  <2>3. CASE SetStop(budget, "cancelled", Cancellation)
    BY <1>4, <2>3, NoteOrStutter DEF HostCancels
  <2> QED BY <1>4, <2>1, <2>2, <2>3 DEF HostCancels
<1>5. CASE WallClockElapses
  BY <1>5 DEF WallClockElapses, DeadlinePasses, AuthorityNext
<1>6. CASE WallClockTimer
  <2>1. budget' = AfterTermination(budget, WallClockExhaustion)
    BY <1>6 DEF WallClockTimer, SetStop
  <2> QED BY <1>6, <2>1 DEF WallClockTimer, DeadlineNoted, AuthorityNext
<1>7. CASE UNCHANGED vars \/ Finished
  BY <1>7 DEF vars, Finished, authority
<1> QED BY <1>1, <1>2, <1>3, <1>4, <1>5, <1>6, <1>7, ExecutionAuthority, EvaluationAuthority
        DEF Next, RunStep, Environment

(* So the ledger keeps its type and its invariant.                         *)
LEMMA LedgerKept ==
  ASSUME IInv, [Next]_vars
  PROVE  LedgerOK'
BY AuthorityStep, BudgetStepTyped, LedgerStep DEF LedgerOK, IInv
-------------------------------------------------------------------------------
(* What every step does to the reason to stop and to the evaluations.      *)

(* A reason to stop stands, but a failure replaces it and is final.        *)
StopMoves ==
  /\ stop' \in [kind : StopKind, resource : Resource, scope : ScopeKind]
  /\ stop.kind = "failed" => stop' = stop
  /\ Stopped => stop' = stop \/ stop'.kind = "failed"

(* setStop does nothing else to it.                                        *)
LEMMA SetStopMoves ==
  ASSUME EndingTyped, NEW b, NEW kind \in StopKind \ {"none"}, NEW t \in Termination,
         SetStop(b, kind, t)
  PROVE  /\ StopMoves /\ stop'.kind # "none"
         /\ kind = "failed" => stop'.kind = "failed"
<1> DEFINE new == [kind |-> kind, resource |-> t.resource, scope |-> t.scope]
<1>1. stop' = IF StopIgnored(kind) THEN stop ELSE new
  BY DEF SetStop
<1>2. stop \in [kind : StopKind, resource : Resource, scope : ScopeKind]
  BY DEF EndingTyped
<1>3. new \in [kind : StopKind, resource : Resource, scope : ScopeKind] /\ new.kind = kind
  BY DEF Termination
<1> HIDE DEF new
<1> QED BY <1>1, <1>2, <1>3 DEF StopMoves, StopIgnored, Stopped

(* The reasons the stage gives by itself.                                  *)
LEMMA OwnReasons ==
  /\ {"failed", "cancelled", "budget-exhausted"} \subseteq StopKind \ {"none"}
  /\ {Failure, Cancellation, WallClockExhaustion} \subseteq Termination
BY DEF StopKind, Failure, Cancellation, WallClockExhaustion, Ended, Termination,
       TerminationKind, Resource, ScopeKind

(* A failure stops the stage for good.                                     *)
LEMMA FailMoves ==
  ASSUME IInv, Fail
  PROVE  StopMoves /\ stop'.kind = "failed"
BY SetStopMoves, OwnReasons DEF Fail, IInv

(* A refusal stops it too.                                                 *)
LEMMA RefusalMoves ==
  ASSUME IInv, NEW e \in Evaluation, RefuseAttempt(e)
  PROVE  StopMoves /\ stop'.kind # "none"
<1>1. PICK t \in Denials(budget, {Current(e)}, expired) : StopRefused(t)
  BY DEF RefuseAttempt
<1>2. {Current(e)} \in SUBSET Attempt
  BY CurrentAttempt DEF RefuseAttempt
<1>3. t \in Termination
  BY <1>1, <1>2, DenialsTyped DEF IInv, LedgerOK, BudgetTyped
<1>4. (IF t.kind = "failed" THEN "failed" ELSE "budget-exhausted") \in StopKind \ {"none"}
  BY OwnReasons
<1> QED BY <1>1, <1>3, <1>4, SetStopMoves DEF StopRefused, IInv

(* And so may a settlement.                                                *)
LEMMA FinishMoves ==
  ASSUME IInv, NEW e, NEW charge, NEW outcome, FinishAttempt(e, outcome, charge)
  PROVE  StopMoves
<1> DEFINE error == SettlementError(budget, Current(e), charge)
           settled == AfterSettle(budget, Current(e), charge)
           kind == IF SummaryStatus(settled) = "failed" THEN "failed" ELSE "budget-exhausted"
<1>1. error = None => stop' = stop
  BY DEF FinishAttempt
<1>2. error # None => error \in Termination
  BY SettlementErrorTyped
<1>3. error # None => SetStop(settled, kind, error)
  BY DEF FinishAttempt
<1>4. kind \in StopKind \ {"none"}
  BY OwnReasons
<1>5. stop' = stop => StopMoves
  BY DEF StopMoves, IInv, EndingTyped
<1> HIDE DEF error, settled, kind
<1> QED BY <1>1, <1>2, <1>3, <1>4, <1>5, SetStopMoves DEF IInv

(* So does every step.                                                     *)
LEMMA StopStep ==
  ASSUME IInv, [Next]_vars
  PROVE  StopMoves
<1>1. CASE UNCHANGED stop
  BY <1>1 DEF StopMoves, IInv, EndingTyped
<1>2. CASE Fail
  BY <1>2, FailMoves
<1>3. CASE Execution
  BY <1>1, <1>3 DEF Execution, ExecutionStep
<1>4. CASE RunStep
  <2>1. CASE Begin
    BY <1>1, <2>1, SetStopMoves, OwnReasons DEF Begin, IInv
  <2>2. CASE ~Begin
    BY <1>1, <1>2, <1>4, <2>2
       DEF RunStep, HandOver, Started, Prepare, PrepareFails, Prepared, RecordUnavailable,
           Recorded, Dispatch, EndBatch, ApplyFailurePolicy, Dispatched, Teardown, Complete,
           Assemble, Publish, Recover
  <2> QED BY <2>1, <2>2
<1>5. CASE Environment
  BY <1>1, <1>2, <1>5, SetStopMoves, OwnReasons
     DEF Environment, HostCancels, WallClockElapses, WallClockTimer, WriterFails, IInv
<1>6. ASSUME NEW e \in Evaluation, EvaluationStep(e) PROVE StopMoves
  <2>1. CASE \E charge \in PossibleCharge, outcome \in AttemptStatus :
               FinishAttempt(e, outcome, charge)
    BY <2>1, FinishMoves
  <2>2. CASE RefuseAttempt(e)
    BY <2>2, RefusalMoves
  <2>3. CASE LookUpFails(e) \/ OpenFails(e) \/ Dispose(e)
    BY <1>1, <1>2, <2>3 DEF LookUpFails, OpenFails, Dispose
  <2>4. CASE \/ Leave(e) \/ LookUp(e) \/ Replay(e) \/ Announce(e) \/ AdmitAttempt(e)
             \/ StartAttempt(e) \/ ForgoAttempt(e) \/ Reported(e) \/ StopWaiting(e)
    BY <1>1, <2>4 DEF Leave, LookUp, Replay, Announce, AdmitAttempt, StartAttempt, ForgoAttempt,
                      Reported, StopWaiting, OnlyPc, PcAndBudget
  <2> QED BY <1>6, <2>1, <2>2, <2>3, <2>4 DEF EvaluationStep
<1>7. CASE UNCHANGED vars \/ Finished
  BY <1>1, <1>7 DEF vars, Finished
<1> QED BY <1>3, <1>4, <1>5, <1>6, <1>7 DEF Next

(* So a stage that stops never goes on, nor an aborted one.                *)
LEMMA StopStands ==
  ASSUME IInv, [Next]_vars
  PROVE  (Stopped => Stopped') /\ (Aborted => Aborted')
BY StopStep DEF StopMoves, Stopped, Aborted

(* A step of evaluation e moves that evaluation only, while its batch      *)
(* runs, and adds an attempt only when the judge has answered.             *)
EvaluationMoves(e) ==
  /\ UNCHANGED <<phase, source, batch, record, cancelled, fatal, status, expired>>
  /\ phase = "running" /\ e \in batch
  /\ pc[e] \in Running /\ pc'[e] \in Running \cup {"cached", "done"}
  /\ pc' = [pc EXCEPT ![e] = pc'[e]]
  /\ \/ attempts' = attempts
     \/ /\ pc[e] = "evaluating"
        /\ \E outcome \in AttemptStatus :
             attempts' = [attempts EXCEPT ![e] = Append(@, outcome)]

(* No action of evaluateCoordinate does more.                              *)
LEMMA EvaluationStepMoves ==
  ASSUME IInv, NEW e \in Evaluation, EvaluationStep(e)
  PROVE  EvaluationMoves(e)
<1>1. pc[e] \in Running
  BY DEF EvaluationStep, Leave, LookUp, LookUpFails, Replay, Announce, OpenFails, AdmitAttempt,
         RefuseAttempt, StartAttempt, ForgoAttempt, FinishAttempt, Reported, StopWaiting, Dispose,
         Running
<1>2. phase = "running" /\ e \in batch
  BY <1>1 DEF IInv, StageInv, PlaceInv
<1>3. UNCHANGED <<phase, source, batch, record, cancelled, fatal, status, expired>>
  BY DEF EvaluationStep, Leave, LookUp, LookUpFails, Replay, Announce, OpenFails, AdmitAttempt,
         RefuseAttempt, StartAttempt, ForgoAttempt, FinishAttempt, Reported, StopWaiting, Dispose,
         OnlyPc, PcAndStop, PcAndBudget
<1>4. \E label \in Running \cup {"cached", "done"} : GoTo(e, label)
  <2>1. {"hit", "announced", "opening", "admitted", "evaluating", "reporting", "backoff",
         "disposing"} \subseteq Running
    BY DEF Running
  <2> QED BY <2>1 DEF EvaluationStep, Leave, LookUp, LookUpFails, Replay, Announce, OpenFails,
                      AdmitAttempt, RefuseAttempt, StartAttempt, ForgoAttempt, FinishAttempt,
                      Reported, StopWaiting, Dispose
<1>5. pc' = [pc EXCEPT ![e] = pc'[e]] /\ pc'[e] \in Running \cup {"cached", "done"}
  BY <1>4 DEF GoTo, IInv, JudgingTyped
<1>6. \/ attempts' = attempts
      \/ /\ pc[e] = "evaluating"
         /\ \E outcome \in AttemptStatus :
              attempts' = [attempts EXCEPT ![e] = Append(@, outcome)]
  BY DEF EvaluationStep, Leave, LookUp, LookUpFails, Replay, Announce, OpenFails, AdmitAttempt,
         RefuseAttempt, StartAttempt, ForgoAttempt, FinishAttempt, Reported, StopWaiting, Dispose,
         OnlyPc, PcAndStop, PcAndBudget
<1> QED BY <1>1, <1>2, <1>3, <1>5, <1>6 DEF EvaluationMoves

(* The Execution stage moves its trials only, the environment the reason   *)
(* to stop, the signals and the clock.                                     *)
LEMMA ElsewhereMoves ==
  /\ Execution =>
       UNCHANGED <<phase, judging, stop, cancelled, fatal, status>> /\ phase = "executing"
  /\ Environment => UNCHANGED <<phase, source, judging, status>>
  /\ Finished \/ UNCHANGED vars => UNCHANGED vars
BY DEF Execution, ExecutionStep, Environment, HostCancels, WallClockElapses, WallClockTimer,
       WriterFails, Finished

-------------------------------------------------------------------------------
(* Batches.                                                                *)

(* There are finitely many evaluations, each with a position of its own.   *)
LEMMA Positions ==
  /\ IsFiniteSet(Evaluation)
  /\ \A e \in Evaluation : Position(e) \in DOMAIN Plan /\ Plan[Position(e)] = e
  /\ DOMAIN Plan = 1 .. Len(Plan) /\ Len(Plan) \in Nat
<1>1. DOMAIN Plan = 1 .. Len(Plan) /\ Len(Plan) \in Nat
  BY PlanAssumption
<1>2. \A e \in Evaluation : Position(e) \in DOMAIN Plan /\ Plan[Position(e)] = e
  BY DEF Evaluation, Position
<1>3. Plan \in [DOMAIN Plan -> Evaluation]
  BY PlanAssumption
<1>4. Plan \in Surjection(DOMAIN Plan, Evaluation)
  BY <1>2, <1>3, Fun_IsSurj
<1>5. IsFiniteSet(DOMAIN Plan)
  BY <1>1, FS_Interval
<1> QED BY <1>1, <1>2, <1>4, <1>5, FS_Surjection

(* A slice of n evaluations has at most n: each of them has a different    *)
(* number of evaluations before it, less than n.                           *)
LEMMA FirstBounded ==
  ASSUME NEW n \in Nat, NEW S \in SUBSET Evaluation
  PROVE  First(n, S) \subseteq S /\ Cardinality(First(n, S)) <= n
<1> DEFINE T == First(n, S)
           count == [e \in T |-> Cardinality(Before(S, e))]
<1>1. \A e \in Evaluation : Position(e) \in Nat
  BY Positions
<1>2. \A e \in S : IsFiniteSet(Before(S, e)) /\ Cardinality(Before(S, e)) \in Nat
  BY Positions, FS_Subset, FS_CardinalityType DEF Before
<1>3. ASSUME NEW e \in S, NEW f \in S, Position(e) < Position(f)
      PROVE  Cardinality(Before(S, e)) < Cardinality(Before(S, f))
  <2>1. Before(S, e) \subseteq Before(S, f)
    BY <1>1, <1>3 DEF Before
  <2>2. e \in Before(S, f) /\ e \notin Before(S, e)
    BY <1>1, <1>3 DEF Before
  <2>3. /\ Cardinality(Before(S, e)) <= Cardinality(Before(S, f))
        /\ Cardinality(Before(S, e)) # Cardinality(Before(S, f))
    BY <1>2, <2>1, <2>2, FS_Subset
  <2> QED BY <1>2, <2>3
<1>4. T \subseteq S
  BY DEF First
<1>5. count \in [T -> 0 .. n - 1]
  BY <1>2, <1>4 DEF First
<1>6. \A e, f \in T : count[e] = count[f] => e = f
  <2> SUFFICES ASSUME NEW e \in T, NEW f \in T, e # f
               PROVE  count[e] # count[f]
    OBVIOUS
  <2>1. Position(e) # Position(f)
    BY <1>4, Positions
  <2>2. Position(e) \in Nat /\ Position(f) \in Nat
    BY <1>1, <1>4
  <2>3. Position(e) < Position(f) \/ Position(f) < Position(e)
    BY <2>1, <2>2
  <2>4. count[e] = Cardinality(Before(S, e)) /\ count[f] = Cardinality(Before(S, f))
    OBVIOUS
  <2> HIDE DEF T, count
  <2> QED BY <1>2, <1>3, <1>4, <2>3, <2>4
<1> HIDE DEF count
<1>7. count \in Injection(T, 0 .. n - 1)
  BY <1>5, <1>6, Fun_IsInj
<1>8. IsFiniteSet(0 .. n - 1) /\ Cardinality(0 .. n - 1) = n
  BY FS_Interval
<1>9. Cardinality(T) <= Cardinality(0 .. n - 1)
  BY <1>7, <1>8, FS_Injection
<1> QED BY <1>4, <1>8, <1>9
-------------------------------------------------------------------------------
(* Types, and the places of the evaluations.                               *)

(* What runEvaluation does besides its evaluations moves no attempts, and  *)
(* an evaluation only when it is prepared or dispatched.                   *)
LEMMA RunStepMoves ==
  ASSUME RunStep
  PROVE  /\ UNCHANGED <<source, attempts, status>> \/ UNCHANGED <<source, attempts>>
         /\ ~Prepare /\ ~Dispatch => UNCHANGED pc
         /\ ~Dispatch => UNCHANGED batch
         /\ ~RecordUnavailable /\ ~EndBatch /\ ~Complete => UNCHANGED record
BY DEF RunStep, HandOver, Begin, Started, Prepare, PrepareFails, Prepared, RecordUnavailable,
       Recorded, Dispatch, EndBatch, ApplyFailurePolicy, Dispatched, Teardown, Complete, Assemble,
       Publish, Recover, judging

(* What an evaluation came to is one of the recorded outcomes, or nothing. *)
LEMMA SettledTyped ==
  ASSUME JudgingTyped, NEW e \in Evaluation
  PROVE  /\ SettledAs(e) \in {"none", "completed", "failed", "cancelled"}
         /\ pc[e] # "cached" /\ attempts[e] # <<>> => SettledAs(e) # "none"
<1>1. attempts[e] \in Seq({"completed", "failed", "transient", "cancelled"})
  BY DEF JudgingTyped, AttemptStatus
<1>2. attempts[e] # <<>> =>
        attempts[e][Len(attempts[e])] \in {"completed", "failed", "transient", "cancelled"}
  <2>1. attempts[e] # <<>> => Len(attempts[e]) \in 1 .. Len(attempts[e])
    BY <1>1, EmptySeq
  <2> QED BY <1>1, <2>1
<1> QED BY <1>2 DEF SettledAs

(* Types of the control.                                                   *)
LEMMA ControlKept ==
  ASSUME IInv, [Next]_vars
  PROVE  ControlTyped'
<1>1. phase' \in Interruptible \cup {"executing", "handed", "completing", "assembling", "sealed",
                                     "published", "rejected"}
  <2>1. CASE UNCHANGED phase
    BY <2>1 DEF IInv, ControlTyped
  <2>2. ASSUME NEW e \in Evaluation, EvaluationStep(e) PROVE UNCHANGED phase
    BY <2>2, EvaluationStepMoves DEF EvaluationMoves
  <2>3. CASE RunStep
    BY <2>3 DEF RunStep, HandOver, Begin, Started, Prepare, PrepareFails, Prepared,
                RecordUnavailable, Recorded, Dispatch, EndBatch, ApplyFailurePolicy, Dispatched,
                Teardown, Complete, Assemble, Publish, Recover, Interruptible, IInv, ControlTyped
  <2> QED BY <2>1, <2>2, <2>3, ElsewhereMoves DEF Next, vars
<1>2. source' \in [Coordinate -> {"pending", "record", "censored", "missing"}]
  <2>1. CASE UNCHANGED source
    BY <2>1 DEF IInv, ControlTyped
  <2>2. ASSUME NEW e \in Evaluation, EvaluationStep(e) PROVE UNCHANGED source
    BY <2>2, EvaluationStepMoves DEF EvaluationMoves
  <2>3. CASE Execution
    <3>1. \A left \in {"censored", "missing"} :
            Halted(left) \in [Coordinate -> {"pending", "record", "censored", "missing"}]
      BY DEF Halted, IInv, ControlTyped
    <3> QED BY <2>3, <3>1 DEF Execution, AdmitTrial, RefuseTrial, StartTrial, FinishTrial,
                              AbandonTrials, IInv, ControlTyped
  <2> QED BY <2>1, <2>2, <2>3, ElsewhereMoves, RunStepMoves DEF Next, vars
<1>3. batch' \subseteq Evaluation /\ Cardinality(batch') <= MaxConcurrency
  <2>1. CASE UNCHANGED batch
    BY <2>1 DEF IInv, ControlTyped
  <2>2. ASSUME NEW e \in Evaluation, EvaluationStep(e) PROVE UNCHANGED batch
    BY <2>2, EvaluationStepMoves DEF EvaluationMoves
  <2>3. CASE Dispatch
    <3>1. batch' = First(MaxConcurrency, At("eligible")) /\ At("eligible") \in SUBSET Evaluation
      BY <2>3 DEF Dispatch, At
    <3> QED BY <3>1, FirstBounded, PlanAssumption
  <2> QED BY <2>1, <2>2, <2>3, ElsewhereMoves, RunStepMoves DEF Next, vars, judging
<1> QED BY <1>1, <1>2, <1>3 DEF ControlTyped

(* Types of the evaluations.                                               *)
LEMMA JudgingKept ==
  ASSUME IInv, [Next]_vars
  PROVE  JudgingTyped'
<1> DEFINE Place == Running \cup {"planned", "unavailable", "eligible", "cached", "done"}
<1>0. /\ pc \in [Evaluation -> Place] /\ attempts \in [Evaluation -> Seq(AttemptStatus)]
      /\ record \in [Evaluation -> {"none", "not-evaluated", "completed", "failed", "cancelled"}]
  BY DEF IInv, JudgingTyped
<1>1. CASE UNCHANGED judging
  BY <1>0, <1>1 DEF judging, JudgingTyped
<1>2. ASSUME NEW e \in Evaluation, EvaluationStep(e) PROVE JudgingTyped'
  <2>1. EvaluationMoves(e)
    BY <1>2, EvaluationStepMoves
  <2>2. pc' \in [Evaluation -> Place] /\ record' = record
    BY <1>0, <2>1 DEF EvaluationMoves
  <2>3. attempts' \in [Evaluation -> Seq(AttemptStatus)]
    <3>1. \A outcome \in AttemptStatus : Append(attempts[e], outcome) \in Seq(AttemptStatus)
      BY <1>0, AppendProperties
    <3> QED BY <1>0, <2>1, <3>1 DEF EvaluationMoves
  <2> QED BY <1>0, <2>2, <2>3 DEF JudgingTyped
<1>3. CASE RunStep
  <2>1. attempts' = attempts
    BY <1>3, RunStepMoves
  <2>2. pc' \in [Evaluation -> Place]
    <3>1. {"eligible", "unavailable", "looking", "announced"} \subseteq Place
      BY DEF Running
    <3>2. Prepare => pc' \in [Evaluation -> Place]
      BY <1>0, <3>1 DEF Prepare
    <3>3. Dispatch => pc' \in [Evaluation -> Place]
      BY <1>0, <3>1 DEF Dispatch
    <3> QED BY <1>0, <1>3, <3>2, <3>3, RunStepMoves
  <2>3. record' \in [Evaluation -> {"none", "not-evaluated", "completed", "failed", "cancelled"}]
    <3>1. EndBatch => record' \in [Evaluation -> {"none", "not-evaluated", "completed", "failed",
                                                  "cancelled"}]
      BY <1>0, SettledTyped DEF EndBatch, IInv
    <3>2. RecordUnavailable \/ Complete =>
            record' \in [Evaluation -> {"none", "not-evaluated", "completed", "failed", "cancelled"}]
      BY <1>0 DEF RecordUnavailable, Complete
    <3> QED BY <1>0, <1>3, <3>1, <3>2, RunStepMoves
  <2>4. attempts' \in [Evaluation -> Seq(AttemptStatus)]
    BY <1>0, <2>1
  <2> QED BY <2>2, <2>3, <2>4 DEF JudgingTyped
<1> QED BY <1>1, <1>2, <1>3, ElsewhereMoves DEF Next, vars, judging

(* Types of what ends the stage.                                           *)
LEMMA EndingKept ==
  ASSUME IInv, [Next]_vars
  PROVE  EndingTyped'
<1>1. stop' \in [kind : StopKind, resource : Resource, scope : ScopeKind]
  BY StopStep DEF StopMoves
<1>2. cancelled' \in BOOLEAN
  <2>1. cancelled' = cancelled \/ cancelled' = TRUE \/ cancelled' = FALSE
    BY EvaluationStepMoves, ElsewhereMoves
       DEF EvaluationMoves, Next, RunStep, HandOver, Begin, Started, Prepare, PrepareFails,
           Prepared, RecordUnavailable, Recorded, Dispatch, EndBatch, ApplyFailurePolicy,
           Dispatched, Teardown, Complete, Assemble, Publish, Recover, Environment, HostCancels,
           WallClockElapses, WallClockTimer, WriterFails, vars
  <2> QED BY <2>1 DEF IInv, EndingTyped
<1>3. fatal' \in BOOLEAN
  <2>1. fatal' = fatal \/ fatal' = TRUE
    BY EvaluationStepMoves, ElsewhereMoves
       DEF EvaluationMoves, Next, RunStep, HandOver, Begin, Started, Prepare, PrepareFails,
           Prepared, RecordUnavailable, Recorded, Dispatch, EndBatch, ApplyFailurePolicy,
           Dispatched, Teardown, Complete, Assemble, Publish, Recover, Environment, HostCancels,
           WallClockElapses, WallClockTimer, WriterFails, vars
  <2> QED BY <2>1 DEF IInv, EndingTyped
<1>4. status' \in StopKind \cup {"completed"}
  <2>1. /\ status \in StopKind \cup {"completed"} /\ "none" \in StopKind
        /\ BundleStatus \in StopKind \cup {"completed"}
    BY DEF IInv, EndingTyped, BundleStatus, StopKind
  <2>2. status' \in {status, BundleStatus, "none"}
    BY EvaluationStepMoves, ElsewhereMoves
       DEF EvaluationMoves, Next, RunStep, HandOver, Begin, Started, Prepare, PrepareFails,
           Prepared, RecordUnavailable, Recorded, Dispatch, EndBatch, ApplyFailurePolicy,
           Dispatched, Teardown, Complete, Assemble, Publish, Recover, vars
  <2> QED BY <2>1, <2>2
<1> QED BY <1>1, <1>2, <1>3, <1>4 DEF EndingTyped

(* Where an evaluation is.                                                 *)
LEMMA PlaceKept ==
  ASSUME IInv, [Next]_vars, NEW e \in Evaluation
  PROVE  PlaceInv(e)'
<1>0. /\ PlaceInv(e) /\ pc[e] \in Running \cup {"planned", "unavailable", "eligible", "cached", "done"}
      /\ pc \in [Evaluation -> Running \cup {"planned", "unavailable", "eligible", "cached", "done"}]
      /\ Stopped => Stopped'
      /\ {"planned", "unavailable", "eligible", "cached", "done"} \cap Running = {}
  BY StopStands DEF IInv, StageInv, JudgingTyped, Running
<1>1. ASSUME NEW f \in Evaluation, EvaluationStep(f) PROVE PlaceInv(e)'
  <2>1. EvaluationMoves(f)
    BY <1>1, EvaluationStepMoves
  <2>2. CASE e = f
    BY <1>0, <2>1, <2>2 DEF EvaluationMoves, PlaceInv, Preparing
  <2>3. CASE e # f
    <3>1. pc'[e] = pc[e]
      BY <1>0, <2>1, <2>3 DEF EvaluationMoves
    <3> QED BY <1>0, <2>1, <3>1 DEF EvaluationMoves, PlaceInv
  <2> QED BY <2>2, <2>3
<1>2. CASE Execution
  BY <1>0, <1>2, ElsewhereMoves DEF judging, PlaceInv, Preparing, Stopped
<1>3. CASE Environment \/ UNCHANGED vars \/ Finished
  <2>1. UNCHANGED <<phase, source, pc, batch>>
    BY <1>3, ElsewhereMoves DEF vars, judging
  <2> QED BY <1>0, <2>1 DEF PlaceInv
<1>4. CASE Prepare
  <2>1. /\ UNCHANGED <<phase, source, batch>> /\ phase = "preparing"
        /\ \/ pc'[e] = pc[e]
           \/ /\ pc[e] = "planned" /\ pc'[e] \in {"unavailable", "eligible"}
              /\ pc'[e] = "eligible" => source[TrialOf[e]] = "record"
    <3>1. First(1, At("planned")) \subseteq At("planned")
      BY DEF First
    <3> QED BY <1>0, <1>4, <3>1 DEF Prepare, At
  <2> QED BY <1>0, <2>1 DEF PlaceInv, Preparing
<1>5. CASE Dispatch
  <2>1. batch' \subseteq At("eligible")
    BY <1>5 DEF Dispatch, First
  <2>2. /\ UNCHANGED source /\ phase = "dispatching" /\ phase' = "running"
        /\ pc'[e] = IF e \notin batch' THEN pc[e]
                    ELSE IF CacheMode = "reuse" THEN "looking" ELSE "announced"
    BY <1>5 DEF Dispatch
  <2>3. {"looking", "announced"} \subseteq Running
    BY DEF Running
  <2>4. CASE e \in batch'
    BY <1>0, <2>1, <2>2, <2>3, <2>4 DEF At, PlaceInv, Preparing
  <2>5. CASE e \notin batch'
    BY <1>0, <2>2, <2>5 DEF PlaceInv, Preparing
  <2> QED BY <2>4, <2>5
<1>6. CASE RunStep /\ ~Prepare /\ ~Dispatch
  <2>1. UNCHANGED <<pc, source, batch>>
    BY <1>6, RunStepMoves
  <2>2. CASE HandOver \/ Begin \/ Started
    <3>1. /\ phase \in {"executing", "handed", "starting"}
          /\ phase' \in {"handed", "starting", "preparing"} \/ (phase' = "closing" /\ Stopped)
      BY <2>2 DEF HandOver, Begin, Started
    <3> QED BY <1>0, <2>1, <3>1 DEF PlaceInv, Preparing
  <2>3. CASE PrepareFails
    <3>1. phase = "preparing" /\ phase' = "closing" /\ Stopped'
      BY <2>3, FailMoves DEF PrepareFails, Stopped
    <3> QED BY <1>0, <2>1, <3>1 DEF PlaceInv, Preparing
  <2>4. CASE Prepared
    <3>1. phase = "preparing" /\ phase' = "recording" /\ (Stopped \/ pc[e] # "planned")
      BY <2>4 DEF Prepared, At
    <3> QED BY <1>0, <2>1, <3>1 DEF PlaceInv, Preparing
  <2>5. CASE RecordUnavailable
    <3>1. phase' = phase
      BY <2>5 DEF RecordUnavailable
    <3> QED BY <1>0, <2>1, <3>1 DEF PlaceInv, Preparing
  <2>6. CASE Recorded
    <3>1. phase = "recording" /\ phase' = "dispatching"
      BY <2>6 DEF Recorded
    <3> QED BY <1>0, <2>1, <3>1 DEF PlaceInv, Preparing
  <2>7. CASE EndBatch
    <3>1. phase = "running" /\ phase' = "progress" /\ (e \in batch => pc[e] \in {"cached", "done"})
      BY <2>7 DEF EndBatch, Returned
    <3> QED BY <1>0, <2>1, <3>1 DEF PlaceInv, Preparing
  <2>8. CASE ApplyFailurePolicy
    <3>1. phase = "progress" /\ phase' = "dispatching"
      BY <2>8 DEF ApplyFailurePolicy
    <3> QED BY <1>0, <2>1, <3>1 DEF PlaceInv, Preparing
  <2>9. CASE Dispatched
    <3>1. phase = "dispatching" /\ phase' = "closing" /\ (Stopped \/ pc[e] # "eligible")
      BY <2>9 DEF Dispatched, At
    <3> QED BY <1>0, <2>1, <3>1 DEF PlaceInv, Preparing
  <2>10. CASE Teardown \/ Complete \/ Assemble \/ Publish \/ Recover
    <3>1. /\ phase \in {"closing", "completing", "assembling", "sealed"}
          /\ phase' \in {"completing", "assembling", "sealed", "published", "rejected"}
      BY <2>10 DEF Teardown, Complete, Assemble, Publish, Recover
    <3> QED BY <1>0, <2>1, <3>1 DEF PlaceInv, Preparing
  <2> QED BY <1>6, <2>2, <2>3, <2>4, <2>5, <2>6, <2>7, <2>8, <2>9, <2>10 DEF RunStep
<1> QED BY <1>1, <1>2, <1>3, <1>4, <1>5, <1>6 DEF Next, RunStep

-------------------------------------------------------------------------------
(* What is on record.                                                      *)

(* An evaluation keeps its record as long as nothing it depends on changes.*)
LEMMA RecordStays ==
  ASSUME IInv, NEW e \in Evaluation,
         pc'[e] = pc[e], attempts'[e] = attempts[e], record'[e] = record[e],
         Stopped => Stopped',
         phase' \in Preparing \ {"recording"} => phase \in Preparing \ {"recording"},
         pc[e] \in {"cached", "done"} =>
           (phase' = "running" /\ e \in batch' <=> phase = "running" /\ e \in batch),
         pc[e] = "unavailable" /\ phase' \notin Preparing =>
           phase \notin Preparing \/ Stopped' \/ record[e] = "not-evaluated",
         Over' => Over /\ source' = source
  PROVE  RecordInv(e)'
<1>1. RecordInv(e)
  BY DEF IInv, StageInv
<1>2. SettledAs(e)' = SettledAs(e)
  BY DEF SettledAs
<1>3. Over' => Sourceless(e)' = Sourceless(e)
  BY DEF Sourceless
<1> QED BY <1>1, <1>2, <1>3 DEF RecordInv

(* What every step leaves on record.                                       *)
LEMMA RecordKept ==
  ASSUME IInv, [Next]_vars, NEW e \in Evaluation
  PROVE  RecordInv(e)'
<1>0. /\ PlaceInv(e) /\ RecordInv(e)
      /\ pc[e] \in Running \cup {"planned", "unavailable", "eligible", "cached", "done"}
      /\ pc \in [Evaluation -> Running \cup {"planned", "unavailable", "eligible", "cached", "done"}]
      /\ attempts \in [Evaluation -> Seq(AttemptStatus)]
      /\ record \in [Evaluation -> {"none", "not-evaluated", "completed", "failed", "cancelled"}]
      /\ Stopped => Stopped'
      /\ {"planned", "unavailable", "eligible", "cached", "done"} \cap Running = {}
  BY StopStands DEF IInv, StageInv, JudgingTyped, Running
<1>1. ASSUME NEW f \in Evaluation, EvaluationStep(f) PROVE RecordInv(e)'
  <2>1. EvaluationMoves(f)
    BY <1>1, EvaluationStepMoves
  <2>2. CASE e = f
    BY <1>0, <2>1, <2>2 DEF EvaluationMoves, RecordInv, Over, Preparing
  <2>3. CASE e # f
    <3>1. pc'[e] = pc[e] /\ attempts'[e] = attempts[e]
      BY <1>0, <2>1, <2>3 DEF EvaluationMoves
    <3> QED BY <1>0, <2>1, <3>1, RecordStays DEF EvaluationMoves, Over, Preparing
  <2> QED BY <2>2, <2>3
<1>2. CASE Execution
  BY <1>0, <1>2, ElsewhereMoves, RecordStays DEF judging, Preparing, Over
<1>3. CASE Environment \/ UNCHANGED vars \/ Finished
  <2>1. UNCHANGED <<phase, source, pc, attempts, batch, record>>
    BY <1>3, ElsewhereMoves DEF vars, judging
  <2> QED BY <1>0, <2>1, RecordStays DEF Over
<1>4. CASE Prepare
  <2>1. UNCHANGED <<phase, source, attempts, batch, record>> /\ phase = "preparing"
    BY <1>4 DEF Prepare
  <2>2. \/ pc'[e] = pc[e]
        \/ pc[e] = "planned" /\ pc'[e] \in {"unavailable", "eligible"}
    <3>1. First(1, At("planned")) \subseteq At("planned")
      BY DEF First
    <3> QED BY <1>0, <1>4, <3>1 DEF Prepare, At
  <2>3. CASE pc'[e] = pc[e]
    BY <1>0, <2>1, <2>3, RecordStays DEF Over
  <2>4. CASE pc'[e] # pc[e]
    BY <1>0, <2>1, <2>2, <2>4 DEF RecordInv, Preparing, Over
  <2> QED BY <2>3, <2>4
<1>5. CASE Dispatch
  <2>1. batch' \subseteq At("eligible")
    BY <1>5 DEF Dispatch, First
  <2>2. /\ UNCHANGED <<source, attempts, record>> /\ phase = "dispatching" /\ phase' = "running"
        /\ pc'[e] = IF e \notin batch' THEN pc[e]
                    ELSE IF CacheMode = "reuse" THEN "looking" ELSE "announced"
    BY <1>5 DEF Dispatch
  <2>3. {"looking", "announced"} \subseteq Running
    BY DEF Running
  <2>4. CASE e \in batch'
    BY <1>0, <2>1, <2>2, <2>3, <2>4 DEF At, RecordInv, Preparing, Over
  <2>5. CASE e \notin batch'
    BY <1>0, <2>2, <2>5, RecordStays DEF Preparing, Over
  <2> QED BY <2>4, <2>5
<1>6. CASE EndBatch
  <2>1. /\ UNCHANGED <<source, pc, attempts, batch>> /\ phase = "running" /\ phase' = "progress"
        /\ e \in batch => pc[e] \in {"cached", "done"}
        /\ record'[e] = IF e \in batch THEN SettledAs(e) ELSE record[e]
    BY <1>0, <1>6 DEF EndBatch, Returned
  <2>2. CASE e \in batch
    <3>1. SettledAs(e)' = SettledAs(e) /\ SettledAs(e) # "not-evaluated"
      BY <2>1, SettledTyped DEF SettledAs, IInv
    <3> QED BY <1>0, <2>1, <2>2, <3>1 DEF RecordInv, Preparing, Over
  <2>3. CASE e \notin batch
    BY <1>0, <2>1, <2>3, RecordStays DEF Preparing, Over
  <2> QED BY <2>2, <2>3
<1>7. CASE RecordUnavailable
  <2>1. /\ UNCHANGED <<phase, source, pc, attempts, batch>> /\ phase = "recording"
        /\ \/ record'[e] = record[e]
           \/ pc[e] = "unavailable" /\ record'[e] = "not-evaluated"
    <3>1. First(1, Unrecorded) \subseteq At("unavailable")
      BY DEF First, Unrecorded
    <3> QED BY <1>0, <1>7, <3>1 DEF RecordUnavailable, At
  <2>2. CASE record'[e] = record[e]
    BY <1>0, <2>1, <2>2, RecordStays DEF Preparing, Over
  <2>3. CASE record'[e] # record[e]
    BY <1>0, <2>1, <2>3 DEF RecordInv, Preparing, Over
  <2> QED BY <2>2, <2>3
<1>8. CASE Complete
  <2>1. /\ UNCHANGED <<source, pc, attempts, batch>> /\ phase = "completing" /\ phase' = "assembling"
        /\ record'[e] = IF record[e] = "none" /\ Sourceless(e) THEN "not-evaluated" ELSE record[e]
    BY <1>0, <1>8 DEF Complete
  <2>2. /\ SettledAs(e)' = SettledAs(e) /\ Sourceless(e)' = Sourceless(e)
        /\ Sourceless(e) => pc[e] \in {"planned", "unavailable"}
    BY <1>0, <2>1 DEF SettledAs, Sourceless, PlaceInv
  <2> QED BY <1>0, <2>1, <2>2 DEF RecordInv, Preparing, Over
<1>9. CASE RunStep /\ ~(Prepare \/ Dispatch \/ EndBatch \/ RecordUnavailable \/ Complete)
  <2>1. UNCHANGED <<source, pc, attempts, batch, record>>
    BY <1>9, RunStepMoves
  <2>2. /\ phase \in {"executing", "handed", "starting"} =>
             phase' \in {"handed", "starting", "preparing"} \/ Stopped'
        /\ phase = "preparing" => phase' = "recording" \/ Stopped'
        /\ phase = "recording" => Stopped \/ (pc[e] = "unavailable" => record[e] # "none")
        /\ phase' \in {"handed", "starting", "preparing"} => phase \in {"executing", "handed", "starting"}
        /\ phase # "running" /\ phase' # "running"
        /\ phase' \in {"assembling", "sealed", "published", "rejected"} =>
             phase \in {"assembling", "sealed"}
        /\ phase' # "executing"
    BY <1>9, FailMoves
       DEF RunStep, HandOver, Begin, Started, PrepareFails, Prepared, Recorded, ApplyFailurePolicy,
           Dispatched, Teardown, Assemble, Publish, Recover, Stopped, Unrecorded, At
  <2> QED BY <1>0, <2>1, <2>2, RecordStays DEF RecordInv, Preparing, Over
<1> QED BY <1>1, <1>2, <1>3, <1>4, <1>5, <1>6, <1>7, <1>8, <1>9 DEF Next, RunStep

-------------------------------------------------------------------------------
(* What the evaluations have tried.                                        *)

(* A finished attempt follows transient failures only.                     *)
LEMMA AttemptAdded ==
  ASSUME IInv, NEW e \in Evaluation, pc[e] = "evaluating", NEW outcome \in AttemptStatus,
         attempts' = [attempts EXCEPT ![e] = Append(@, outcome)]
  PROVE  /\ Len(attempts[e]) \in Nat /\ Len(attempts'[e]) = Len(attempts[e]) + 1
         /\ \A n \in 1 .. Len(attempts[e]) : attempts'[e][n] = "transient"
         /\ attempts'[e][Len(attempts'[e])] = outcome
         /\ attempts'[e] # <<>> /\ Len(attempts[e]) < MaxAttempts
<1>1. attempts'[e] = Append(attempts[e], outcome) /\ attempts[e] \in Seq(AttemptStatus)
  BY DEF IInv, JudgingTyped
<1>2. AttemptsInv(e)
  BY DEF IInv, StageInv
<1> QED BY <1>1, <1>2, AppendProperties DEF AttemptsInv

(* An evaluation keeps what it has tried, whatever another does.           *)
LEMMA AttemptsStay ==
  ASSUME IInv, [Next]_vars, NEW e \in Evaluation, pc'[e] = pc[e], attempts'[e] = attempts[e]
  PROVE  AttemptsInv(e)'
<1>1. AttemptsInv(e)
  BY DEF IInv, StageInv
<1> QED BY <1>1, StopStands DEF AttemptsInv

(* And every move of its own follows the order of evaluateCoordinate.      *)
LEMMA AttemptsMove ==
  ASSUME IInv, [Next]_vars, NEW e \in Evaluation, EvaluationStep(e)
  PROVE  AttemptsInv(e)'
<1>0. /\ AttemptsInv(e) /\ EvaluationMoves(e)
      /\ attempts \in [Evaluation -> Seq(AttemptStatus)]
      /\ pc \in [Evaluation -> Running \cup {"planned", "unavailable", "eligible", "cached", "done"}]
      /\ MaxAttempts \in Nat /\ MaxAttempts >= 1
      /\ (Stopped => Stopped') /\ (Aborted => Aborted') /\ (Aborted => Stopped)
  BY EvaluationStepMoves, PlanFacts, StopStands DEF IInv, StageInv, JudgingTyped, Aborted, Stopped
<1>1. Len(attempts[e]) \in Nat /\ Len(<<>>) = 0
  BY <1>0
<1>2. CASE Leave(e) \/ LookUp(e) \/ Replay(e) \/ Announce(e)
  <2>1. /\ attempts' = attempts /\ pc[e] \in {"looking", "hit", "announced"}
        /\ pc'[e] \in {"hit", "announced", "opening", "cached"} \/ (pc'[e] = "done" /\ Aborted)
    BY <1>0, <1>2 DEF Leave, LookUp, Replay, Announce, OnlyPc, GoTo
  <2> QED BY <1>0, <1>1, <2>1 DEF AttemptsInv
<1>3. CASE LookUpFails(e) \/ OpenFails(e)
  <2>1. /\ attempts' = attempts /\ pc[e] \in {"looking", "opening"} /\ pc'[e] = "done"
        /\ Stopped'
    BY <1>0, <1>3, FailMoves DEF LookUpFails, OpenFails, PcAndStop, GoTo, Stopped
  <2> QED BY <1>0, <1>1, <2>1 DEF AttemptsInv
<1>4. CASE AdmitAttempt(e) \/ StartAttempt(e)
  <2>1. /\ attempts' = attempts
        /\ \/ pc[e] \in {"opening", "backoff"} /\ pc'[e] = "admitted"
           \/ pc[e] = "admitted" /\ pc'[e] = "evaluating"
    BY <1>0, <1>4 DEF AdmitAttempt, StartAttempt, PcAndStop, PcAndBudget, GoTo
  <2> QED BY <1>0, <1>1, <2>1 DEF AttemptsInv
<1>5. CASE RefuseAttempt(e) \/ ForgoAttempt(e)
  <2>1. /\ attempts' = attempts /\ pc'[e] = "disposing" /\ Stopped'
    BY <1>0, <1>5, RefusalMoves DEF RefuseAttempt, ForgoAttempt, PcAndStop, PcAndBudget, GoTo,
                                    Stopped
  <2> QED BY <1>0, <1>1, <2>1 DEF AttemptsInv
<1>6. CASE Reported(e)
  <2>1. /\ attempts' = attempts /\ pc[e] = "reporting"
        /\ pc'[e] = IF RetryOpen(e) THEN "backoff" ELSE "disposing"
    BY <1>0, <1>6 DEF Reported, OnlyPc, GoTo
  <2>2. RetryOpen(e) => /\ \A n \in 1 .. Len(attempts[e]) : attempts[e][n] = "transient"
                        /\ Len(attempts[e]) < MaxAttempts
    <3>1. \A n \in 1 .. Len(attempts[e]) : n < Len(attempts[e]) \/ n = Len(attempts[e])
      BY <1>1
    <3> QED BY <1>0, <3>1 DEF AttemptsInv, RetryOpen
  <2> QED BY <1>0, <1>1, <2>1, <2>2 DEF AttemptsInv
<1>7. CASE StopWaiting(e) \/ Dispose(e)
  <2>1. /\ attempts' = attempts
        /\ \/ pc[e] = "backoff" /\ pc'[e] = "disposing"
           \/ pc[e] = "disposing" /\ pc'[e] = "done"
    BY <1>0, <1>7 DEF StopWaiting, Dispose, OnlyPc, PcAndStop, GoTo
  <2> QED BY <1>0, <1>1, <2>1 DEF AttemptsInv
<1>8. ASSUME NEW charge \in PossibleCharge, NEW outcome \in AttemptStatus,
             FinishAttempt(e, outcome, charge)
      PROVE  AttemptsInv(e)'
  <2>1. /\ pc[e] = "evaluating" /\ pc'[e] = "reporting"
        /\ outcome = "cancelled" <=> Aborted
        /\ attempts' = [attempts EXCEPT ![e] = Append(@, outcome)]
    BY <1>0, <1>8 DEF FinishAttempt, GoTo
  <2>2. /\ Len(attempts[e]) \in Nat /\ Len(attempts'[e]) = Len(attempts[e]) + 1
        /\ \A n \in 1 .. Len(attempts[e]) : attempts'[e][n] = "transient"
        /\ attempts'[e][Len(attempts'[e])] = outcome
        /\ attempts'[e] # <<>> /\ Len(attempts[e]) < MaxAttempts
    BY <2>1, AttemptAdded
  <2> DEFINE new == attempts'[e]
  <2>3. Len(new) \in Nat /\ Len(new) <= MaxAttempts
    BY <1>0, <2>2
  <2>4. \A n \in 1 .. Len(new) : n \in 1 .. Len(attempts[e]) \/ n = Len(new)
    BY <2>2
  <2>5. \A n \in 1 .. Len(new) : n < Len(new) => new[n] = "transient"
    BY <2>2, <2>3, <2>4
  <2>6. \A n \in 1 .. Len(new) : new[n] = "cancelled" => Aborted'
    BY <1>0, <2>1, <2>2, <2>4
  <2> HIDE DEF new
  <2> QED BY <2>1, <2>2, <2>3, <2>5, <2>6 DEF AttemptsInv, new
<1> QED BY <1>2, <1>3, <1>4, <1>5, <1>6, <1>7, <1>8 DEF EvaluationStep

(* So every step keeps what every evaluation has tried in order.           *)
LEMMA AttemptsKept ==
  ASSUME IInv, [Next]_vars, NEW e \in Evaluation
  PROVE  AttemptsInv(e)'
<1>0. /\ AttemptsInv(e) /\ MaxAttempts \in Nat /\ MaxAttempts >= 1 /\ Len(<<>>) = 0
      /\ attempts \in [Evaluation -> Seq(AttemptStatus)]
      /\ pc \in [Evaluation -> Running \cup {"planned", "unavailable", "eligible", "cached", "done"}]
  BY PlanFacts DEF IInv, StageInv, JudgingTyped
<1>1. ASSUME NEW f \in Evaluation, EvaluationStep(f) PROVE AttemptsInv(e)'
  <2>1. CASE e = f
    BY <1>1, <2>1, AttemptsMove
  <2>2. CASE e # f
    <3>1. EvaluationMoves(f)
      BY <1>1, EvaluationStepMoves
    <3>2. pc'[e] = pc[e] /\ attempts'[e] = attempts[e]
      BY <1>0, <2>2, <3>1 DEF EvaluationMoves
    <3> QED BY <3>2, AttemptsStay
  <2> QED BY <2>1, <2>2
<1>2. CASE Prepare \/ Dispatch
  <2>1. /\ attempts' = attempts
        /\ \/ pc'[e] = pc[e]
           \/ pc[e] \in {"planned", "eligible"}
                /\ pc'[e] \in {"unavailable", "eligible", "looking", "announced"}
    <3>1. First(1, At("planned")) \subseteq At("planned")
      BY DEF First
    <3>2. CASE Prepare
      BY <1>0, <3>1, <3>2 DEF Prepare, At
    <3>3. CASE Dispatch
      <4>1. batch' \subseteq At("eligible")
        BY <3>3 DEF Dispatch, First
      <4> QED BY <3>3, <4>1 DEF Dispatch, At
    <3> QED BY <1>2, <3>2, <3>3
  <2>2. CASE pc'[e] = pc[e]
    BY <2>1, <2>2, AttemptsStay
  <2>3. CASE pc'[e] # pc[e]
    BY <1>0, <2>1, <2>3 DEF AttemptsInv
  <2> QED BY <2>2, <2>3
<1>3. CASE UNCHANGED <<pc, attempts>>
  BY <1>3, AttemptsStay
<1>4. /\ RunStep /\ ~Prepare /\ ~Dispatch => UNCHANGED <<pc, attempts>>
      /\ Execution \/ Environment \/ Finished \/ UNCHANGED vars => UNCHANGED <<pc, attempts>>
  BY RunStepMoves, ElsewhereMoves DEF vars, judging
<1> QED BY <1>1, <1>2, <1>3, <1>4 DEF Next

-------------------------------------------------------------------------------
(* What the trials and the evaluations hold.                               *)

(* setStop moves no reservation and no entry.                              *)
LEMMA SetStopPositions ==
  ASSUME NEW b \in Budget, NEW kind, NEW t, SetStop(b, kind, t)
  PROVE  budget'.reservations = b.reservations /\ budget'.entries = b.entries
<1>1. budget' \in {b, AfterTermination(b, Failure), AfterTermination(b, Cancellation)}
  BY SetStopBudget
<1> QED BY <1>1, TerminationPositions

(* Nor does runEvaluation, which takes over a settled ledger, or the        *)
(* environment.                                                            *)
LEMMA StagePositions ==
  ASSUME IInv, RunStep \/ Environment \/ Finished \/ UNCHANGED vars
  PROVE  budget'.reservations = budget.reservations /\ budget'.entries = budget.entries
<1>0. budget \in Budget
  BY DEF IInv, LedgerOK, BudgetTyped
<1>1. ASSUME NEW t, budget' = AfterTermination(budget, t)
      PROVE  budget'.reservations = budget.reservations /\ budget'.entries = budget.entries
  BY <1>0, <1>1, TerminationPositions
<1>2. CASE RunStep /\ ~HandOver
  <2>1. budget' = budget \/ \E kind, t : SetStop(budget, kind, t)
    BY <1>2 DEF RunStep, Begin, Started, Prepare, PrepareFails, Prepared, RecordUnavailable,
                Recorded, Dispatch, EndBatch, ApplyFailurePolicy, Dispatched, Teardown, Complete,
                Assemble, Publish, Recover, Fail
  <2> QED BY <1>0, <2>1, SetStopPositions
<1>3. CASE Environment
  <2>1. \/ budget' = budget \/ budget' = AfterTermination(budget, Cancellation)
        \/ budget' = AfterTermination(budget, WallClockExhaustion)
        \/ \E kind, t : SetStop(budget, kind, t)
    BY <1>3 DEF Environment, HostCancels, WallClockElapses, WallClockTimer, WriterFails, Fail,
                SetStop
  <2> QED BY <1>0, <1>1, <2>1, SetStopPositions
<1>4. CASE HandOver
  <2>1. Outstanding(budget) = {}
    BY <1>4, TrialOutstanding DEF HandOver
  <2> QED BY <1>0, <1>4, <2>1, HandoffPositions DEF HandOver
<1>5. CASE Finished \/ UNCHANGED vars
  BY <1>5 DEF Finished, vars
<1> QED BY <1>2, <1>3, <1>4, <1>5

(* What a step of an evaluation does to its own reservation: it keeps it,  *)
(* reserves one, starts the invocation, gives it back, or settles it.      *)
Keeps(e) ==
  /\ budget'.reservations = budget.reservations /\ budget'.entries = budget.entries
  /\ UNCHANGED attempts
  /\ {pc[e], pc'[e]} \cap {"admitted", "evaluating"} = {}

Moves(e, from, to, held) ==
  /\ budget'.reservations = [budget.reservations EXCEPT ![Current(e)] = held]
  /\ budget'.entries = budget.entries
  /\ UNCHANGED attempts
  /\ pc[e] \in from /\ pc'[e] = to

Reserves(e) == Moves(e, {"opening", "backoff"}, "admitted", "reserved")
Starts(e) == Moves(e, {"admitted"}, "evaluating", "consumed")
Returns(e) == Moves(e, {"admitted"}, "disposing", "none")

Settles(e) ==
  /\ budget'.reservations = [budget.reservations EXCEPT ![Current(e)] = "none"]
  /\ \E charge \in Charge : budget'.entries = [budget.entries EXCEPT ![Current(e)] = charge]
  /\ \E outcome \in AttemptStatus : attempts' = [attempts EXCEPT ![e] = Append(@, outcome)]
  /\ pc[e] = "evaluating" /\ pc'[e] = "reporting"

(* Nothing else.                                                           *)
LEMMA EvaluationPositions ==
  ASSUME IInv, NEW e \in Evaluation, EvaluationStep(e)
  PROVE  Keeps(e) \/ Reserves(e) \/ Starts(e) \/ Returns(e) \/ Settles(e)
<1>0. /\ budget \in Budget
      /\ \A label : GoTo(e, label) => pc'[e] = label
  BY DEF IInv, LedgerOK, BudgetTyped, JudgingTyped, GoTo
<1>1. CASE Leave(e) \/ LookUp(e) \/ Replay(e) \/ Announce(e) \/ Reported(e) \/ StopWaiting(e)
  BY <1>0, <1>1 DEF Leave, LookUp, Replay, Announce, Reported, StopWaiting, OnlyPc, Keeps
<1>2. CASE LookUpFails(e) \/ OpenFails(e) \/ Dispose(e)
  <2>1. budget' = budget \/ SetStop(budget, "failed", Failure)
    BY <1>2 DEF LookUpFails, OpenFails, Dispose, Fail
  <2>2. budget'.reservations = budget.reservations /\ budget'.entries = budget.entries
    BY <1>0, <2>1, SetStopPositions
  <2> QED BY <1>0, <1>2, <2>2 DEF LookUpFails, OpenFails, Dispose, PcAndStop, Keeps
<1>3. CASE RefuseAttempt(e)
  <2>1. PICK t \in Denials(budget, {Current(e)}, expired) : StopRefused(t)
    BY <1>3 DEF RefuseAttempt
  <2>2. {Current(e)} \in SUBSET Attempt
    BY <1>3, CurrentAttempt DEF RefuseAttempt
  <2>3. AfterTermination(budget, t) \in Budget
    BY <1>0, <2>1, <2>2, DenialsTyped, TerminationTyped
  <2>4. budget'.reservations = budget.reservations /\ budget'.entries = budget.entries
    BY <1>0, <2>1, <2>3, SetStopPositions, TerminationPositions DEF StopRefused
  <2> QED BY <1>0, <1>3, <2>4 DEF RefuseAttempt, PcAndStop, Keeps
<1>4. CASE AdmitAttempt(e)
  <2>1. Current(e) \in Attempt /\ budget.reservations \in [Attempt -> {"none", "reserved", "consumed"}]
    BY <1>0, <1>4, CurrentAttempt DEF AdmitAttempt, Budget
  <2>2. /\ budget'.reservations
             = [a \in Attempt |-> IF a \in {Current(e)} THEN "reserved" ELSE budget.reservations[a]]
        /\ budget'.entries = budget.entries
    BY <1>0, <1>4, ReservePositions DEF AdmitAttempt
  <2>3. budget'.reservations = [budget.reservations EXCEPT ![Current(e)] = "reserved"]
    BY <2>1, <2>2
  <2> QED BY <1>0, <1>4, <2>2, <2>3 DEF AdmitAttempt, PcAndStop, Reserves, Moves
<1>5. CASE StartAttempt(e)
  BY <1>0, <1>5, ReturnPositions DEF StartAttempt, PcAndBudget, Starts, Moves
<1>6. CASE ForgoAttempt(e)
  <2>1. Current(e) \in Attempt
    BY <1>6, CurrentAttempt DEF ForgoAttempt
  <2> QED BY <1>0, <1>6, <2>1, ReturnPositions DEF ForgoAttempt, PcAndBudget, Returns, Moves
<1>7. ASSUME NEW charge \in PossibleCharge, NEW outcome \in AttemptStatus,
             FinishAttempt(e, outcome, charge)
      PROVE  Settles(e)
  <2> DEFINE b == AfterSettle(budget, Current(e), charge)
  <2>1. Current(e) \in Attempt /\ charge \in Charge
    BY <1>7, CurrentAttempt, ChargeTyped DEF FinishAttempt
  <2>2. /\ b \in Budget
        /\ b.reservations = [budget.reservations EXCEPT ![Current(e)] = "none"]
        /\ b.entries = [budget.entries EXCEPT ![Current(e)] = charge]
    BY <1>0, <2>1, SettleTyped, SettlePositions
  <2>3. budget' = b \/ \E kind, t : SetStop(b, kind, t)
    BY <1>7 DEF FinishAttempt
  <2>4. /\ pc[e] = "evaluating" /\ pc'[e] = "reporting"
        /\ attempts' = [attempts EXCEPT ![e] = Append(@, outcome)]
    BY <1>0, <1>7 DEF FinishAttempt
  <2> HIDE DEF b
  <2>5. budget'.reservations = b.reservations /\ budget'.entries = b.entries
    BY <2>2, <2>3, SetStopPositions
  <2> QED BY <2>1, <2>2, <2>4, <2>5 DEF Settles
<1> QED BY <1>1, <1>2, <1>3, <1>4, <1>5, <1>6, <1>7 DEF EvaluationStep

(* So a step of an evaluation moves no reservation but that of its current *)
(* attempt.                                                                *)
LEMMA OtherPositions ==
  ASSUME IInv, NEW e \in Evaluation, EvaluationStep(e), NEW a \in Attempt, a # Current(e)
  PROVE  /\ budget'.reservations[a] = budget.reservations[a]
         /\ budget'.entries[a] = budget.entries[a]
<1>0. budget \in Budget
  BY DEF IInv, LedgerOK, BudgetTyped
<1>1. \A r : [budget.reservations EXCEPT ![Current(e)] = r][a] = budget.reservations[a]
  BY <1>0 DEF Budget
<1>2. \A c : [budget.entries EXCEPT ![Current(e)] = c][a] = budget.entries[a]
  BY <1>0 DEF Budget
<1>3. Keeps(e) \/ Reserves(e) \/ Starts(e) \/ Returns(e) \/ Settles(e)
  BY EvaluationPositions
<1>4. /\ \/ budget'.reservations = budget.reservations
         \/ \E r : budget'.reservations = [budget.reservations EXCEPT ![Current(e)] = r]
      /\ \/ budget'.entries = budget.entries
         \/ \E c : budget'.entries = [budget.entries EXCEPT ![Current(e)] = c]
  BY <1>3, Zenon DEF Keeps, Moves, Reserves, Starts, Returns, Settles
<1> QED BY <1>1, <1>2, <1>4

(* The trials before the hand-over: what the one under way holds.          *)
LEMMA ExecutionKept ==
  ASSUME IInv, [Next]_vars, NEW t \in Coordinate
  PROVE  ExecutionInv(t)'
<1> DEFINE res(u) == budget.reservations[FirstRun(u)]
           entry(u) == budget.entries[FirstRun(u)]
<1>0. /\ \A u \in Coordinate : ExecutionInv(u)
      /\ budget \in Budget
      /\ budget.reservations \in [Attempt -> {"none", "reserved", "consumed"}]
      /\ budget.entries \in [Attempt -> Charge \cup {None}]
      /\ source \in [Coordinate -> {"pending", "record", "censored", "missing"}]
      /\ \A u \in Coordinate : FirstRun(u) \in Attempt
      /\ \A u, v \in Coordinate : u # v => FirstRun(u) # FirstRun(v)
  BY PlanFacts DEF IInv, StageInv, LedgerOK, BudgetTyped, Budget, ControlTyped, FirstRun
<1>1. ASSUME \A u \in Coordinate : budget'.reservations[FirstRun(u)] = res(u)
                                     /\ budget'.entries[FirstRun(u)] = entry(u),
             source' = source, Unrun = {} \/ phase' = phase
      PROVE  ExecutionInv(t)'
  BY <1>0, <1>1 DEF ExecutionInv, Unrun
<1>2. \A u \in Coordinate : \A r :
        /\ [budget.reservations EXCEPT ![FirstRun(u)] = r][FirstRun(u)] = r
        /\ \A v \in Coordinate \ {u} :
             [budget.reservations EXCEPT ![FirstRun(u)] = r][FirstRun(v)] = res(v)
  BY <1>0
<1>3. \A u \in Coordinate : \A c :
        \A v \in Coordinate \ {u} : [budget.entries EXCEPT ![FirstRun(u)] = c][FirstRun(v)] = entry(v)
  BY <1>0
<1>4. \A left \in {"censored", "missing"} :
        /\ Halted(left) \in [Coordinate -> {"pending", "record", "censored", "missing"}]
        /\ \A u \in Coordinate : Halted(left)[u] # "pending"
  BY <1>0 DEF Halted, Unrun
<1>5. Outstanding(budget) = {} => \A u \in Coordinate : res(u) = "none"
  BY <1>0 DEF Outstanding
<1>6. CASE Execution
  <2>1. phase = "executing" /\ phase' = "executing"
    BY <1>6 DEF Execution, ExecutionStep
  <2>2. ASSUME NEW u \in Coordinate, AdmitTrial(u) PROVE ExecutionInv(t)'
    <3>1. /\ budget'.reservations = [a \in Attempt |->
               IF a \in {FirstRun(u)} THEN "reserved" ELSE budget.reservations[a]]
          /\ budget'.entries = budget.entries
          /\ source' = source /\ source[u] = "pending" /\ Outstanding(budget) = {}
      BY <1>0, <2>2, ReservePositions DEF AdmitTrial
    <3>2. \A v \in Coordinate : budget'.reservations[FirstRun(v)] = "none" \/ v = u
      BY <1>0, <1>5, <3>1
    <3> QED BY <1>0, <2>1, <3>1, <3>2 DEF ExecutionInv
  <2>3. ASSUME NEW u \in Coordinate, RefuseTrial(u) PROVE ExecutionInv(t)'
    <3>1. PICK d \in Denials(budget, {FirstRun(u)}, expired) :
                 /\ budget' = AfterTermination(budget, d)
                 /\ source' = Halted(IF d.kind = "failed" THEN "missing" ELSE "censored")
      BY <2>3 DEF RefuseTrial
    <3>2. \A v \in Coordinate : budget'.reservations[FirstRun(v)] = "none" /\ source'[v] # "pending"
      BY <1>0, <1>4, <1>5, <2>3, <3>1, TerminationPositions DEF RefuseTrial
    <3> QED BY <3>2 DEF ExecutionInv
  <2>4. ASSUME NEW u \in Coordinate, StartTrial(u) PROVE ExecutionInv(t)'
    <3>1. /\ budget'.reservations = [budget.reservations EXCEPT ![FirstRun(u)] = "consumed"]
          /\ budget'.entries = budget.entries /\ source' = source /\ res(u) # "none"
      BY <1>0, <2>4, ReturnPositions DEF StartTrial
    <3>2. \A v \in Coordinate :
            /\ budget'.reservations[FirstRun(v)] # "none" <=> res(v) # "none"
            /\ budget'.entries[FirstRun(v)] = entry(v)
      BY <1>2, <3>1
    <3> QED BY <1>0, <2>1, <3>1, <3>2 DEF ExecutionInv
  <2>5. ASSUME NEW u \in Coordinate, NEW charge \in PossibleCharge, FinishTrial(u, charge)
        PROVE  ExecutionInv(t)'
    <3> DEFINE b == AfterSettle(budget, FirstRun(u), charge)
    <3>0. budget \in Budget /\ FirstRun(u) \in Attempt /\ charge \in Charge
      BY <1>0, ChargeTyped
    <3>1. /\ b \in Budget
          /\ b.reservations = [budget.reservations EXCEPT ![FirstRun(u)] = "none"]
          /\ b.entries = [budget.entries EXCEPT ![FirstRun(u)] = charge]
      BY <3>0, SettleTyped, SettlePositions
    <3>2. budget' = b \/ budget' = AfterTermination(b, Failure)
      BY <2>5 DEF FinishTrial
    <3> HIDE DEF b
    <3>3. budget'.reservations = b.reservations /\ budget'.entries = b.entries
      BY <3>1, <3>2, TerminationPositions
    <3>4. \A v \in Coordinate :
            /\ budget'.reservations[FirstRun(v)] = "none"
            /\ v # u => budget'.entries[FirstRun(v)] = entry(v)
      BY <1>0, <1>2, <1>3, <2>5, <3>1, <3>3 DEF FinishTrial, ExecutionInv
    <3>5. source'[u] = "record" /\ \A v \in Coordinate : source'[v] = "pending" => source[v] = "pending"
      BY <1>0, <1>4, <2>5 DEF FinishTrial
    <3> QED BY <1>0, <2>1, <3>4, <3>5 DEF ExecutionInv
  <2>6. CASE AbandonTrials
    <3>1. \A v \in Coordinate : source'[v] # "pending"
      BY <1>4, <2>6 DEF AbandonTrials
    <3>2. CASE Outstanding(budget) = {} /\ UNCHANGED budget
      BY <1>5, <3>1, <3>2 DEF ExecutionInv
    <3>3. ASSUME NEW a \in Outstanding(budget), budget' = AfterRelease(budget, a)
          PROVE  ExecutionInv(t)'
      <4>1. PICK u \in Coordinate : a = FirstRun(u) /\ res(u) # "none"
        BY <2>1, TrialOutstanding DEF Unrun, Outstanding
      <4>2. budget'.reservations = [budget.reservations EXCEPT ![FirstRun(u)] = "none"]
        BY <1>0, <3>3, <4>1, ReturnPositions
      <4>3. \A v \in Coordinate : budget'.reservations[FirstRun(v)] = "none"
        BY <1>0, <1>2, <4>1, <4>2 DEF ExecutionInv
      <4> QED BY <3>1, <4>3 DEF ExecutionInv
    <3> QED BY <2>6, <3>2, <3>3 DEF AbandonTrials
  <2> QED BY <1>6, <2>2, <2>3, <2>4, <2>5, <2>6 DEF Execution
<1>7. ASSUME NEW e \in Evaluation, EvaluationStep(e) PROVE ExecutionInv(t)'
  <2>1. \A u \in Coordinate : FirstRun(u) # Current(e)
    BY PlanAssumption DEF FirstRun, Current
  <2>2. \A u \in Coordinate : budget'.reservations[FirstRun(u)] = res(u)
                                /\ budget'.entries[FirstRun(u)] = entry(u)
    BY <1>0, <1>7, <2>1, OtherPositions
  <2> QED BY <1>1, <1>7, <2>2, EvaluationStepMoves DEF EvaluationMoves
<1>8. CASE RunStep
  <2>1. phase = "executing" => HandOver
    BY <1>8 DEF RunStep, Begin, Started, Prepare, PrepareFails, Prepared, RecordUnavailable,
                Recorded, Dispatch, EndBatch, ApplyFailurePolicy, Dispatched, Teardown, Complete,
                Assemble, Publish, Recover
  <2>2. Unrun = {}
    BY <1>0, <2>1 DEF HandOver, ExecutionInv, Unrun
  <2> QED BY <1>1, <1>8, <2>2, RunStepMoves, StagePositions
<1>9. CASE Environment \/ Finished \/ UNCHANGED vars
  <2>1. UNCHANGED <<phase, source>>
    BY <1>9, ElsewhereMoves DEF vars
  <2> QED BY <1>1, <1>9, <2>1, StagePositions
<1> QED BY <1>6, <1>7, <1>8, <1>9 DEF Next

(* The Execution stage touches the reservations of its trials only.        *)
LEMMA TrialPositions ==
  ASSUME IInv, Execution, NEW e \in Evaluation, NEW n \in 1 .. MaxAttempts
  PROVE  /\ budget'.reservations[<<e, n>>] = budget.reservations[<<e, n>>]
         /\ budget'.entries[<<e, n>>] = budget.entries[<<e, n>>]
<1>0. /\ budget \in Budget /\ <<e, n>> \in Attempt
      /\ budget.reservations \in [Attempt -> {"none", "reserved", "consumed"}]
      /\ budget.entries \in [Attempt -> Charge \cup {None}]
      /\ \A u \in Coordinate : FirstRun(u) \in Attempt /\ FirstRun(u) # <<e, n>>
  BY PlanFacts DEF IInv, LedgerOK, BudgetTyped, Budget
<1>1. \A u \in Coordinate : \A r :
        [budget.reservations EXCEPT ![FirstRun(u)] = r][<<e, n>>] = budget.reservations[<<e, n>>]
  BY <1>0
<1>2. \A u \in Coordinate : \A c :
        [budget.entries EXCEPT ![FirstRun(u)] = c][<<e, n>>] = budget.entries[<<e, n>>]
  BY <1>0
<1>3. ASSUME NEW u \in Coordinate, AdmitTrial(u)
      PROVE  /\ budget'.reservations[<<e, n>>] = budget.reservations[<<e, n>>]
             /\ budget'.entries[<<e, n>>] = budget.entries[<<e, n>>]
  <2>1. /\ budget'.reservations = [a \in Attempt |->
             IF a \in {FirstRun(u)} THEN "reserved" ELSE budget.reservations[a]]
        /\ budget'.entries = budget.entries
    BY <1>0, <1>3, ReservePositions DEF AdmitTrial
  <2> QED BY <1>0, <2>1
<1>4. ASSUME NEW u \in Coordinate, RefuseTrial(u)
      PROVE  budget'.reservations = budget.reservations /\ budget'.entries = budget.entries
  BY <1>0, <1>4, TerminationPositions DEF RefuseTrial
<1>5. ASSUME NEW u \in Coordinate, StartTrial(u)
      PROVE  /\ budget'.reservations[<<e, n>>] = budget.reservations[<<e, n>>]
             /\ budget'.entries[<<e, n>>] = budget.entries[<<e, n>>]
  <2>1. /\ budget'.reservations = [budget.reservations EXCEPT ![FirstRun(u)] = "consumed"]
        /\ budget'.entries = budget.entries
    BY <1>0, <1>5, ReturnPositions DEF StartTrial
  <2> QED BY <1>1, <2>1
<1>6. ASSUME NEW u \in Coordinate, NEW charge \in PossibleCharge, FinishTrial(u, charge)
      PROVE  /\ budget'.reservations[<<e, n>>] = budget.reservations[<<e, n>>]
             /\ budget'.entries[<<e, n>>] = budget.entries[<<e, n>>]
  <2> DEFINE b == AfterSettle(budget, FirstRun(u), charge)
  <2>0. budget \in Budget /\ FirstRun(u) \in Attempt /\ charge \in Charge
    BY <1>0, ChargeTyped
  <2>1. /\ b \in Budget
        /\ b.reservations = [budget.reservations EXCEPT ![FirstRun(u)] = "none"]
        /\ b.entries = [budget.entries EXCEPT ![FirstRun(u)] = charge]
    BY <2>0, SettleTyped, SettlePositions
  <2>2. budget' = b \/ budget' = AfterTermination(b, Failure)
    BY <1>6 DEF FinishTrial
  <2> HIDE DEF b
  <2>3. budget'.reservations = b.reservations /\ budget'.entries = b.entries
    BY <2>1, <2>2, TerminationPositions
  <2> QED BY <1>1, <1>2, <2>1, <2>3
<1>7. CASE AbandonTrials
  <2>1. ASSUME NEW a \in Outstanding(budget), budget' = AfterRelease(budget, a)
        PROVE  /\ budget'.reservations[<<e, n>>] = budget.reservations[<<e, n>>]
               /\ budget'.entries = budget.entries
    <3>1. PICK u \in Coordinate : a = FirstRun(u)
      BY ElsewhereMoves, TrialOutstanding DEF Unrun
    <3>2. budget'.reservations = [budget.reservations EXCEPT ![FirstRun(u)] = "none"]
      BY <1>0, <2>1, <3>1, ReturnPositions
    <3>3. budget'.entries = budget.entries
      BY <1>0, <2>1, ReturnPositions
    <3> QED BY <1>1, <3>1, <3>2, <3>3
  <2> QED BY <1>7, <2>1 DEF AbandonTrials
<1> QED BY <1>3, <1>4, <1>5, <1>6, <1>7 DEF Execution

(* An evaluation holds what its new position calls for.                    *)
LEMMA HoldingMove ==
  ASSUME IInv, NEW e \in Evaluation, EvaluationStep(e)
  PROVE  HoldingInv(e)'
<1> DEFINE len == Len(attempts[e])
           res(n) == budget.reservations[<<e, n>>]
           entry(n) == budget.entries[<<e, n>>]
<1>0. /\ \A n \in 1 .. MaxAttempts : <<e, n>> \in Attempt
      /\ budget.reservations \in [Attempt -> {"none", "reserved", "consumed"}]
      /\ budget.entries \in [Attempt -> Charge \cup {None}]
      /\ None \notin Charge /\ len \in Nat /\ Current(e) = <<e, len + 1>>
  BY PlanFacts, LimitAssumption
     DEF IInv, LedgerOK, BudgetTyped, Budget, JudgingTyped, Current
<1>1. \A n \in 1 .. MaxAttempts :
        /\ entry(n) # None <=> n <= len
        /\ res(n) = "reserved" <=> n = len + 1 /\ pc[e] = "admitted"
        /\ res(n) = "consumed" <=> n = len + 1 /\ pc[e] = "evaluating"
  BY DEF IInv, StageInv, HoldingInv
<1>2. SUFFICES ASSUME NEW n \in 1 .. MaxAttempts
               PROVE  /\ budget'.entries[<<e, n>>] # None <=> n <= Len(attempts'[e])
                      /\ budget'.reservations[<<e, n>>] = "reserved"
                           <=> n = Len(attempts'[e]) + 1 /\ pc'[e] = "admitted"
                      /\ budget'.reservations[<<e, n>>] = "consumed"
                           <=> n = Len(attempts'[e]) + 1 /\ pc'[e] = "evaluating"
  BY DEF HoldingInv
<1>3. \A r : [budget.reservations EXCEPT ![Current(e)] = r][<<e, n>>]
               = IF n = len + 1 THEN r ELSE res(n)
  BY <1>0
<1>4. \A c : [budget.entries EXCEPT ![Current(e)] = c][<<e, n>>]
               = IF n = len + 1 THEN c ELSE entry(n)
  BY <1>0
<1>5. CASE Keeps(e)
  BY <1>1, <1>5 DEF Keeps
<1>6. CASE Reserves(e) \/ Starts(e) \/ Returns(e)
  <2>1. /\ attempts' = attempts /\ budget'.entries[<<e, n>>] = entry(n)
        /\ \E held \in {"reserved", "consumed", "none"} :
             /\ budget'.reservations[<<e, n>>] = IF n = len + 1 THEN held ELSE res(n)
             /\ held = "reserved" <=> pc'[e] = "admitted"
             /\ held = "consumed" <=> pc'[e] = "evaluating"
    BY <1>3, <1>6 DEF Reserves, Starts, Returns, Moves
  <2> HIDE DEF res, entry
  <2> QED BY <1>1, <2>1
<1>7. CASE Settles(e)
  <2>1. Len(attempts'[e]) = len + 1
    BY <1>7, AttemptAdded DEF Settles
  <2>2. budget'.entries[<<e, n>>] # None <=> n <= len + 1
    <3>1. n = len + 1 => budget'.entries[<<e, n>>] # None
      BY <1>0, <1>4, <1>7 DEF Settles
    <3>2. n # len + 1 => budget'.entries[<<e, n>>] = entry(n)
      BY <1>4, <1>7 DEF Settles
    <3> HIDE DEF len, entry
    <3> QED BY <1>0, <1>1, <3>1, <3>2
  <2>3. budget'.reservations[<<e, n>>] \notin {"consumed", "reserved"}
    <3>1. budget'.reservations[<<e, n>>] = IF n = len + 1 THEN "none" ELSE res(n)
      BY <1>3, <1>7 DEF Settles
    <3> QED BY <1>1, <1>7, <3>1 DEF Settles
  <2> QED BY <1>7, <2>1, <2>2, <2>3 DEF Settles
<1> QED BY <1>5, <1>6, <1>7, EvaluationPositions

(* And every other evaluation what it held.                                *)
LEMMA HoldingStays ==
  ASSUME IInv, NEW e \in Evaluation, attempts'[e] = attempts[e],
         pc'[e] = pc[e] \/ {pc[e], pc'[e]} \cap {"admitted", "evaluating"} = {},
         \A n \in 1 .. MaxAttempts :
           /\ budget'.reservations[<<e, n>>] = budget.reservations[<<e, n>>]
           /\ budget'.entries[<<e, n>>] = budget.entries[<<e, n>>]
  PROVE  HoldingInv(e)'
<1>1. HoldingInv(e)
  BY DEF IInv, StageInv
<1>2. /\ pc'[e] = "admitted" <=> pc[e] = "admitted"
      /\ pc'[e] = "evaluating" <=> pc[e] = "evaluating"
  OBVIOUS
<1> QED BY <1>1, <1>2 DEF HoldingInv

(* Every step.                                                             *)
LEMMA HoldingKept ==
  ASSUME IInv, [Next]_vars, NEW e \in Evaluation
  PROVE  HoldingInv(e)'
<1>0. /\ \A n \in 1 .. MaxAttempts : <<e, n>> \in Attempt
      /\ attempts \in [Evaluation -> Seq(AttemptStatus)]
      /\ pc \in [Evaluation -> Running \cup {"planned", "unavailable", "eligible", "cached", "done"}]
  BY PlanFacts DEF IInv, JudgingTyped
<1>1. ASSUME NEW f \in Evaluation, EvaluationStep(f) PROVE HoldingInv(e)'
  <2>1. CASE e = f
    BY <1>1, <2>1, HoldingMove
  <2>2. CASE e # f
    <3>1. EvaluationMoves(f)
      BY <1>1, EvaluationStepMoves
    <3>2. pc'[e] = pc[e] /\ attempts'[e] = attempts[e]
      BY <1>0, <2>2, <3>1 DEF EvaluationMoves
    <3>3. \A n \in 1 .. MaxAttempts : <<e, n>> # Current(f)
      BY <2>2 DEF Current
    <3> QED BY <1>0, <1>1, <3>2, <3>3, OtherPositions, HoldingStays
  <2> QED BY <2>1, <2>2
<1>2. CASE Execution
  BY <1>2, TrialPositions, ElsewhereMoves, HoldingStays DEF judging
<1>3. CASE RunStep
  <2>1. pc'[e] = pc[e] \/ {pc[e], pc'[e]} \cap {"admitted", "evaluating"} = {}
    <3>1. CASE Prepare
      <4>1. First(1, At("planned")) \subseteq At("planned")
        BY DEF First
      <4> QED BY <1>0, <3>1, <4>1 DEF Prepare, At
    <3>2. CASE Dispatch
      <4>1. batch' \subseteq At("eligible")
        BY <3>2 DEF Dispatch, First
      <4> QED BY <3>2, <4>1 DEF Dispatch, At
    <3> QED BY <1>3, <3>1, <3>2, RunStepMoves
  <2> QED BY <1>3, <2>1, RunStepMoves, StagePositions, HoldingStays
<1>4. CASE Environment \/ Finished \/ UNCHANGED vars
  <2>1. UNCHANGED <<pc, attempts>>
    BY <1>4, ElsewhereMoves DEF vars, judging
  <2> QED BY <1>4, <2>1, StagePositions, HoldingStays
<1> QED BY <1>1, <1>2, <1>3, <1>4 DEF Next

-------------------------------------------------------------------------------
(* The failure limit.                                                      *)

(* The failures of the stage are a finite set.                             *)
LEMMA FailuresCounted ==
  /\ FailedAmong(Evaluation) \subseteq Evaluation
  /\ Cardinality(FailedAmong(Evaluation)) \in Nat
<1>1. FailedAmong(Evaluation) \subseteq Evaluation
  BY DEF FailedAmong
<1> QED BY <1>1, Positions, FS_Subset, FS_CardinalityType

(* The batches that are over stayed within the failure limit.              *)
LEMMA LimitKept ==
  ASSUME IInv, [Next]_vars
  PROVE  LimitInv'
<1> DEFINE Fits(failed) == /\ FailureMode = "fail-fast" => failed = {}
                           /\ FailureMode = "failure-threshold" =>
                                Cardinality(failed) <= MaxFailures
<1>0. /\ LimitInv /\ (Stopped => Stopped') /\ stop.kind \in StopKind
      /\ ~Stopped /\ phase \in {"dispatching", "running"} => Fits(FailedAmong(Evaluation))
  BY StopStands DEF IInv, LimitInv, EndingTyped
<1>1. CASE UNCHANGED <<phase, batch, record>>
  BY <1>0, <1>1 DEF LimitInv, FailedAmong
<1>2. ASSUME NEW e \in Evaluation, EvaluationStep(e) PROVE UNCHANGED <<phase, batch, record>>
  BY <1>2, EvaluationStepMoves DEF EvaluationMoves
<1>3. Execution \/ Environment \/ Finished \/ UNCHANGED vars => UNCHANGED <<phase, batch, record>>
  BY ElsewhereMoves DEF vars, judging
<1>4. CASE Recorded
  <2>1. UNCHANGED record /\ phase = "recording" /\ phase' = "dispatching"
    BY <1>4 DEF Recorded, judging
  <2>2. \A e \in Evaluation : record[e] # "failed"
    BY <2>1 DEF IInv, StageInv, PlaceInv, RecordInv, Preparing
  <2>3. FailedAmong(Evaluation)' = {}
    BY <2>1, <2>2 DEF FailedAmong
  <2>4. Cardinality({}) = 0 /\ (FailureMode = "failure-threshold" => 0 <= MaxFailures)
    BY FS_EmptySet, PlanAssumption
  <2> QED BY <2>1, <2>3, <2>4 DEF LimitInv
<1>5. CASE Dispatch
  <2>1. UNCHANGED <<record, stop>> /\ phase = "dispatching" /\ phase' = "running"
    BY <1>5 DEF Dispatch
  <2> QED BY <1>0, <2>1 DEF LimitInv, FailedAmong
<1>6. CASE EndBatch
  <2>1. /\ phase = "running" /\ phase' = "progress" /\ batch' = batch
        /\ \A e \in Evaluation \ batch : record'[e] = record[e]
    BY <1>6 DEF EndBatch
  <2>2. FailedAmong(Evaluation \ batch)' \subseteq FailedAmong(Evaluation)
    BY <2>1 DEF FailedAmong
  <2> QED BY <1>0, <2>1, <2>2 DEF LimitInv
<1>7. CASE ApplyFailurePolicy
  <2>1. UNCHANGED <<batch, record>> /\ phase = "progress" /\ phase' = "dispatching"
    BY <1>7 DEF ApplyFailurePolicy, judging
  <2>2. ~Stopped' => ~Stopped /\ ~FailureLimitReached
    BY <1>0, <1>7, FailMoves DEF ApplyFailurePolicy, Stopped
  <2>3. FailedAmong(Evaluation) = FailedAmong(batch) \cup FailedAmong(Evaluation \ batch)
    BY DEF FailedAmong, IInv, ControlTyped
  <2>4. ASSUME ~Stopped, ~FailureLimitReached
        PROVE  Fits(FailedAmong(Evaluation))
    <3>1. FailureMode = "fail-fast" => FailedAmong(Evaluation) = {}
      BY <1>0, <2>1, <2>3, <2>4 DEF FailureLimitReached, LimitInv
    <3>2. ASSUME FailureMode = "failure-threshold"
          PROVE  Cardinality(FailedAmong(Evaluation)) <= MaxFailures
      <4>1. MaxFailures \in Nat /\ ~(Cardinality(FailedAmong(Evaluation)) > MaxFailures)
        BY <2>4, <3>2, PlanAssumption DEF FailureLimitReached
      <4> QED BY <4>1, FailuresCounted
    <3> QED BY <3>1, <3>2
  <2> QED BY <2>1, <2>2, <2>4 DEF LimitInv, FailedAmong
<1>8. CASE RunStep /\ ~(Recorded \/ Dispatch \/ EndBatch \/ ApplyFailurePolicy)
  <2>1. \/ UNCHANGED <<phase, batch, record>>
        \/ phase' \notin {"dispatching", "running", "progress"}
    BY <1>8, RunStepMoves
       DEF RunStep, HandOver, Begin, Started, Prepare, PrepareFails, Prepared, RecordUnavailable,
           Dispatched, Teardown, Complete, Assemble, Publish, Recover
  <2> QED BY <1>1, <2>1 DEF LimitInv
<1> QED BY <1>1, <1>2, <1>3, <1>4, <1>5, <1>6, <1>7, <1>8 DEF Next

-------------------------------------------------------------------------------
(* The invariant, and what is read off it.                                 *)

(* Initially every trial and every evaluation is still to come.            *)
LEMMA InitInv == Init => IInv
<1> SUFFICES ASSUME Init PROVE IInv
  OBVIOUS
<1>1. Cardinality({}) = 0 /\ MaxConcurrency \in Nat
  BY FS_EmptySet, PlanAssumption
<1>2. ControlTyped
  BY <1>1 DEF Init, ControlTyped
<1>3. JudgingTyped
  <2>1. <<>> \in Seq(AttemptStatus)
    OBVIOUS
  <2> QED BY <2>1 DEF Init, JudgingTyped
<1>4. EndingTyped
  BY DEF Init, EndingTyped, NotStopped, StopKind, Resource, ScopeKind
<1>5. LedgerOK
  BY BudgetInitTyped, LedgerInit DEF Init, LedgerOK
<1>6. /\ budget.reservations = [a \in Attempt |-> "none"]
      /\ budget.entries = [a \in Attempt |-> None]
  BY DEF Init, AuthorityInit, EmptyBudget
<1>7. ASSUME NEW t \in Coordinate PROVE ExecutionInv(t)
  BY <1>6, PlanFacts DEF Init, ExecutionInv
<1>8. ASSUME NEW e \in Evaluation
      PROVE  PlaceInv(e) /\ RecordInv(e) /\ AttemptsInv(e) /\ HoldingInv(e)
  <2>1. /\ phase = "executing" /\ pc[e] = "planned" /\ batch = {} /\ record[e] = "none"
        /\ attempts[e] = <<>> /\ Len(attempts[e]) = 0
    BY DEF Init
  <2>2. PlaceInv(e) /\ RecordInv(e)
    BY <2>1 DEF PlaceInv, RecordInv, Running, Preparing, Over
  <2>3. AttemptsInv(e)
    BY <2>1, PlanFacts DEF AttemptsInv
  <2>4. HoldingInv(e)
    BY <1>6, <2>1, PlanFacts DEF HoldingInv
  <2> QED BY <2>2, <2>3, <2>4
<1>9. LimitInv
  BY DEF Init, LimitInv
<1> QED BY <1>2, <1>3, <1>4, <1>5, <1>7, <1>8, <1>9 DEF IInv, StageInv

(* Every step preserves it.                                                *)
LEMMA StepInv ==
  ASSUME IInv, [Next]_vars
  PROVE  IInv'
<1>1. /\ \A t \in Coordinate : ExecutionInv(t)'
      /\ \A e \in Evaluation : PlaceInv(e)' /\ RecordInv(e)' /\ AttemptsInv(e)' /\ HoldingInv(e)'
  BY ExecutionKept, PlaceKept, RecordKept, AttemptsKept, HoldingKept
<1>2. StageInv'
  BY <1>1 DEF StageInv
<1> QED BY <1>2, ControlKept, JudgingKept, EndingKept, LedgerKept, LimitKept DEF IInv

(* The inductive invariant of the stage holds of every plan and every      *)
(* policy.                                                                 *)
THEOREM StageInvariant == Spec => []IInv
<1> QED BY InitInv, StepInv, PTL DEF Spec

(* Every variable of runEvaluation and its ledger stays in its type.       *)
THEOREM TypeCorrect == Spec => []TypeOK
<1>1. IInv => TypeOK
  BY DEF IInv, ControlTyped, JudgingTyped, EndingTyped, StageInv, AttemptsInv, LedgerOK,
         BudgetTyped, TypeOK
<1> QED BY <1>1, StageInvariant, PTL

(* The two stages implement the authority's specification: one after the   *)
(* other on one ledger, live or stored in between, they consume, settle    *)
(* and return each reservation once and record every failure.              *)
THEOREM ProtocolHolds == Spec => BudgetProtocol
<1>1. Init => AuthorityInit
  BY DEF Init
<1>2. IInv /\ [Next]_vars => [AuthorityNext]_authority
  BY AuthorityStep
<1> QED BY <1>1, <1>2, StageInvariant, PTL DEF Spec, BudgetProtocol, AuthoritySpec

(* Each evaluation holds exactly the reservation its position in           *)
(* evaluateCoordinate calls for.                                           *)
THEOREM ReservationsHold == Spec => []ReservationsFollowEvaluations
<1>1. ASSUME IInv, NEW e \in Evaluation, NEW n \in 1 .. MaxAttempts
      PROVE  <<e, n>> = Current(e) <=> n = Len(attempts[e]) + 1
  BY DEF Current
<1>2. IInv => ReservationsFollowEvaluations
  BY <1>1 DEF IInv, StageInv, HoldingInv, ReservationsFollowEvaluations
<1> QED BY <1>2, StageInvariant, PTL

(* No batch is dispatched after the batches before it reached the failure  *)
(* limit.                                                                  *)
THEOREM FailureLimitHolds == Spec => NoDispatchPastFailureLimit
<1> DEFINE Fits == /\ FailureMode = "fail-fast" => FailedAmong(Evaluation) = {}
                   /\ FailureMode = "failure-threshold" =>
                        Cardinality(FailedAmong(Evaluation)) <= MaxFailures
           Kept == phase = "dispatching" /\ phase' = "running" => Fits
<1>1. ASSUME IInv, [Next]_vars, phase = "dispatching", phase' = "running"
      PROVE  ~Stopped
  <2>1. RunStep
    BY <1>1, EvaluationStepMoves, ElsewhereMoves DEF EvaluationMoves, Next, vars
  <2> QED BY <1>1, <2>1
          DEF RunStep, HandOver, Begin, Started, Prepare, PrepareFails, Prepared,
              RecordUnavailable, Recorded, Dispatch, EndBatch, ApplyFailurePolicy, Dispatched,
              Teardown, Complete, Assemble, Publish, Recover
<1>2. IInv /\ [Next]_vars => [Kept]_vars
  BY <1>1 DEF IInv, LimitInv
<1> QED BY <1>2, StageInvariant, PTL DEF Spec, NoDispatchPastFailureLimit

-------------------------------------------------------------------------------
(* What verifyEvaluationBundle finds: the status, the sources, the ledger, *)
(* the retries and the invocations are always in order, but for a          *)
(* cancellation that came when every evaluation had settled.               *)

RecordsInOrder ==
  /\ StatusCovered \/ CancelledLate
  /\ SourcesCovered /\ LedgerMatches /\ RetriesAllowed /\ InvocationsAllowed

(* When the evaluations are over, each has been replayed, has made its     *)
(* attempts, or was not evaluated.                                         *)
LEMMA OverPlaces ==
  ASSUME IInv, Over, NEW e \in Evaluation
  PROVE  /\ pc[e] \in {"planned", "unavailable", "eligible", "cached", "done"}
         /\ pc[e] \in {"planned", "eligible"} => Stopped
         /\ pc[e] = "unavailable" => Stopped \/ record[e] = "not-evaluated"
         /\ pc[e] \in {"cached", "done"} => record[e] = SettledAs(e)
         /\ pc[e] = "done" /\ attempts[e] = <<>> => Stopped
         /\ pc[e] # "done" => attempts[e] = <<>>
         /\ attempts[e] \in Seq(AttemptStatus) /\ Len(attempts[e]) \in 0 .. MaxAttempts
<1>1. /\ pc[e] \in Running \cup {"planned", "unavailable", "eligible", "cached", "done"}
      /\ attempts[e] \in Seq(AttemptStatus)
      /\ PlaceInv(e) /\ RecordInv(e) /\ AttemptsInv(e)
  BY DEF IInv, StageInv, JudgingTyped
<1>2. pc[e] \notin Running
  BY <1>1 DEF PlaceInv, Over
<1> QED BY <1>1, <1>2, PlanFacts DEF PlaceInv, RecordInv, AttemptsInv, Over, Preparing

(* The status is covered by the records, and so are the missing sources.   *)
LEMMA OverCoverage ==
  ASSUME IInv, Over
  PROVE  (StatusCovered \/ CancelledLate) /\ SourcesCovered
<1>1. ASSUME NEW e \in Evaluation, ~Stopped
      PROVE  record[e] \notin {"none", "cancelled"}
  <2>1. SettledAs(e) = "cancelled" => Aborted
    <3>1. attempts[e] # <<>> => Len(attempts[e]) \in 1 .. Len(attempts[e])
      BY OverPlaces, EmptySeq
    <3> QED BY <3>1 DEF SettledAs, IInv, StageInv, AttemptsInv
  <2>2. SettledAs(e) = "none" => pc[e] # "cached" /\ attempts[e] = <<>>
    BY SettledTyped DEF IInv, SettledAs
  <2> QED BY <1>1, <2>1, <2>2, OverPlaces DEF Aborted, Stopped
<1>2. SourcesCovered
  BY DEF SourcesCovered, IInv, StageInv, RecordInv
<1>3. ~Stopped => Outcomes \cap {"none", "cancelled"} = {}
  BY <1>1 DEF Outcomes
<1> QED BY <1>2, <1>3 DEF StatusCovered, CancelledLate

(* The ledger has the attempts of the records and no others.               *)
LEMMA OverLedger ==
  ASSUME IInv, Over
  PROVE  LedgerMatches /\ RetriesAllowed
<1>0. /\ budget.reservations \in [Attempt -> {"none", "reserved", "consumed"}]
      /\ phase # "running" /\ phase # "executing"
  BY DEF IInv, LedgerOK, BudgetTyped, Budget, Over
<1>1. ASSUME NEW t \in Coordinate
      PROVE  budget.reservations[FirstRun(t)] = "none"
  BY <1>0 DEF IInv, StageInv, ExecutionInv
<1>2. ASSUME NEW e \in Evaluation, NEW n \in 1 .. MaxAttempts
      PROVE  /\ budget.reservations[<<e, n>>] = "none"
             /\ budget.entries[<<e, n>>] # None <=> <<e, n>> \in NativeAttempts
  <2>1. budget.entries[<<e, n>>] # None <=> n <= Len(attempts[e])
    BY DEF IInv, StageInv, HoldingInv
  <2>2. <<e, n>> \in NativeAttempts <=> e \in NativeRecords /\ <<e, n>> \in AttemptsOf(e)
    BY DEF NativeAttempts, AttemptsOf
  <2>3. <<e, n>> \in AttemptsOf(e) <=> n \in 1 .. Len(attempts[e])
    BY DEF AttemptsOf
  <2>4. ASSUME n \in 1 .. Len(attempts[e])
        PROVE  e \in NativeRecords
    <3>1. attempts[e] # <<>>
      BY <2>4
    <3>2. pc[e] = "done" /\ record[e] = SettledAs(e)
      BY <3>1, OverPlaces
    <3>3. SettledAs(e) \notin {"none", "not-evaluated"}
      BY <3>1, <3>2, SettledTyped DEF IInv
    <3> QED BY <3>2, <3>3 DEF NativeRecords
  <2>5. n <= Len(attempts[e]) <=> n \in 1 .. Len(attempts[e])
    BY OverPlaces
  <2> QED BY <1>0, <2>1, <2>2, <2>3, <2>4, <2>5, OutsideBatch
<1>3. Outstanding(budget) = {}
  BY <1>1, <1>2, PlanFacts DEF Outstanding
<1>4. NativeAttempts \subseteq {<<e, n>> : e \in Evaluation, n \in 1 .. MaxAttempts}
  BY OverPlaces, PlanFacts DEF NativeAttempts, NativeRecords, AttemptsOf
<1>5. ASSUME NEW a \in Attempt
      PROVE  StageOf[a] = "evaluation" <=> \E e \in Evaluation, n \in 1 .. MaxAttempts : a = <<e, n>>
  <2>1. CASE \E t \in Coordinate : a = FirstRun(t)
    <3>1. a[1] \in Coordinate /\ \A e \in Evaluation, n \in 1 .. MaxAttempts : a # <<e, n>>
      BY <2>1, PlanFacts DEF FirstRun
    <3> QED BY <3>1, PlanAssumption
  <2>2. ASSUME NEW e \in Evaluation, NEW n \in 1 .. MaxAttempts, a = <<e, n>>
        PROVE  StageOf[a] = "evaluation"
    <3>1. a[1] \notin Coordinate
      BY <2>2, PlanAssumption
    <3> QED BY <3>1, PlanAssumption
  <2> QED BY <2>1, <2>2, PlanFacts
<1>6. EvaluationEntries = NativeAttempts
  <2>1. ASSUME NEW a \in EvaluationEntries PROVE a \in NativeAttempts
    <3>1. a \in Attempt /\ budget.entries[a] # None /\ StageOf[a] = "evaluation"
      BY DEF EvaluationEntries, Settled
    <3> QED BY <1>2, <1>5, <3>1
  <2>2. ASSUME NEW a \in NativeAttempts PROVE a \in EvaluationEntries
    <3>1. PICK e \in Evaluation, n \in 1 .. MaxAttempts : a = <<e, n>>
      BY <1>4
    <3> QED BY <1>2, <1>5, <3>1, PlanFacts DEF EvaluationEntries, Settled
  <2> QED BY <2>1, <2>2
<1>7. RetriesAllowed
  <2>1. ASSUME NEW e \in NativeRecords, NEW n \in 1 .. Len(attempts[e]) - 1
        PROVE  attempts[e][n] = "transient"
    <3>1. e \in Evaluation /\ Len(attempts[e]) \in Nat
      BY OverPlaces DEF NativeRecords
    <3>2. n \in 1 .. Len(attempts[e]) /\ n < Len(attempts[e])
      BY <3>1
    <3> QED BY <3>1, <3>2 DEF IInv, StageInv, AttemptsInv
  <2> QED BY <2>1 DEF RetriesAllowed
<1> QED BY <1>3, <1>6, <1>7 DEF LedgerMatches

(* So the records pass no limit on invocations either.                     *)
LEMMA OverInvocations ==
  ASSUME IInv, Over
  PROVE  InvocationsAllowed
<1>1. /\ LedgerInv(budget) /\ budget \in Budget /\ EvaluationEntries = NativeAttempts
      /\ Outstanding(budget) = {}
  BY OverLedger DEF LedgerMatches, IInv, LedgerOK, BudgetTyped
<1>2. ASSUME NEW s \in {"run", "evaluation"}, MaxInvocations[s] # None
      PROVE  /\ budget.invocations[s] = Cardinality(SettledOf(budget, s))
             /\ budget.invocations[s] <= MaxInvocations[s]
  <2>1. s \in Scope
    BY DEF Scope, Stage
  <2>2. OutstandingOf(budget, s) = {}
    BY <1>1 DEF OutstandingOf, Within
  <2>3. budget.invocations[s] = Cardinality(SettledOf(budget, s))
    BY <1>1, <2>1 DEF LedgerInv, TotalsExplained
  <2>4. budget.invocations[s] + Cardinality({}) <= MaxInvocations[s]
    BY <1>1, <1>2, <2>1, <2>2 DEF LedgerInv, LimitsKept
  <2>5. budget.invocations[s] \in Nat /\ Cardinality({}) = 0
    BY <1>1, <2>1, FS_EmptySet DEF Budget
  <2> QED BY <2>3, <2>4, <2>5
<1>3. SettledOf(budget, "evaluation") = NativeAttempts
  <2>1. \A a \in Attempt : Charges(a, "evaluation") <=> StageOf[a] = "evaluation"
    BY AttemptAssumption DEF Charges, Stage
  <2> QED BY <1>1, <2>1 DEF SettledOf, Within, EvaluationEntries, Settled
<1> QED BY <1>2, <1>3 DEF InvocationsAllowed

(* Whatever happened in either stage, the records this stage ends with are *)
(* in order: the ledger has their attempts and nothing else, only transient*)
(* failures were retried, no limit on invocations is passed, what had no   *)
(* source says so, and the status is covered unless the cancellation came  *)
(* too late to leave a trace.                                              *)
THEOREM RecordsVerify == Spec => [](Over => RecordsInOrder)
<1>1. IInv => (Over => RecordsInOrder)
  BY OverCoverage, OverLedger, OverInvocations DEF RecordsInOrder
<1> QED BY <1>1, StageInvariant, PTL

-------------------------------------------------------------------------------
(* What is left to refuse a Bundle.                                        *)

(* A refusal is the verdict of the verification, and final.                *)
LEMMA RefusalStep ==
  ASSUME IInv, [Next]_vars, phase' = "rejected"
  PROVE  /\ UNCHANGED <<judging, stop, budget>>
         /\ phase = "rejected" \/ (Over /\ ~Acceptable)
<1>1. CASE Assemble \/ Recover
  <2>1. UNCHANGED <<judging, stop, budget>> /\ Over
    BY <1>1 DEF Assemble, Recover, Over
  <2>2. ~Acceptable
    BY <1>1 DEF Assemble, Recover
  <2> QED BY <2>1, <2>2
<1>2. CASE UNCHANGED vars \/ Finished
  <2>1. UNCHANGED vars
    BY <1>2 DEF Finished
  <2>2. UNCHANGED <<judging, stop, budget>> /\ phase' = phase
    BY <2>1 DEF vars, judging
  <2> QED BY <2>2
<1>3. RunStep => Assemble \/ Recover
  BY DEF RunStep, HandOver, Begin, Started, Prepare, PrepareFails, Prepared, RecordUnavailable,
         Recorded, Dispatch, EndBatch, ApplyFailurePolicy, Dispatched, Teardown, Complete, Publish
<1>4. ~Environment
  BY DEF Environment, HostCancels, WallClockElapses, WallClockTimer, WriterFails, Interruptible
<1>5. ASSUME NEW e \in Evaluation PROVE ~EvaluationStep(e)
  BY EvaluationStepMoves DEF EvaluationMoves
<1>6. ~Execution
  BY ElsewhereMoves
<1> QED BY <1>1, <1>2, <1>3, <1>4, <1>5, <1>6 DEF Next

(* The Bundle is refused over its cost figures, over a cancellation that   *)
(* came too late, or not at all.                                           *)
RefusedOverCost ==
  [][phase # "rejected" /\ phase' = "rejected" =>
       CancelledLate \/ ~CompletedWithinCost \/ ~CostExhaustionBacked]_vars

(* So it is, when it is first assembled and when it is made again.         *)
THEOREM RefusalsAreAboutCost == Spec => RefusedOverCost
<1> DEFINE AboutCost == phase # "rejected" /\ phase' = "rejected" =>
                          CancelledLate \/ ~CompletedWithinCost \/ ~CostExhaustionBacked
<1>1. ASSUME IInv, [Next]_vars, phase # "rejected", phase' = "rejected"
      PROVE  CancelledLate \/ ~CompletedWithinCost \/ ~CostExhaustionBacked
  BY <1>1, RefusalStep, OverCoverage, OverLedger, OverInvocations DEF Acceptable
<1>2. IInv /\ [Next]_vars => [AboutCost]_vars
  BY <1>1
<1> QED BY <1>2, StageInvariant, PTL DEF Spec, RefusedOverCost

(* A policy without cost limits.                                           *)
NoCostLimits ==
  MaxAttemptCost = None /\ \A s \in Scope : MaxProviderCost[s] = None

(* Under such a policy no Bundle is refused but for a late cancellation.   *)
THEOREM BundlesAcceptedWithoutCostLimits ==
  ASSUME NoCostLimits
  PROVE  Spec => []BundleAccepted
<1> DEFINE Late == phase = "rejected" => CancelledLate
<1>1. /\ {"run", "evaluation"} \subseteq Scope
      /\ \A a \in Attempt : {StageOf[a], CoordinateOf[a]} \subseteq Scope
  BY AttemptAssumption DEF Scope, Stage
<1>2. ASSUME IInv, Over
      PROVE  CompletedWithinCost /\ CostExhaustionBacked
  <2>1. Limited({"run", "evaluation"}) = {}
    BY <1>1 DEF NoCostLimits, Limited
  <2>2. NativeAttempts \subseteq Attempt
    BY <1>2, OverLedger DEF LedgerMatches, EvaluationEntries, Settled
  <2>3. Tracked(NativeAttempts) = {}
    BY <1>1, <2>2 DEF Tracked, CostTracked, NoCostLimits
  <2>4. /\ ~CostExhausted(budget, "run")
        /\ \A a \in NativeAttempts : ~CostExhausted(budget, CoordinateOf[a])
    BY <1>1, <2>2 DEF CostExhausted, NoCostLimits
  <2>5. CostVerified
    BY <1>1, <2>1 DEF CostVerified, Verified, NoCostLimits
  <2> QED BY <1>1, <2>1, <2>3, <2>4, <2>5 DEF CompletedWithinCost, CostExhaustionBacked, NoCostLimits
<1>3. Init => Late
  BY DEF Init
<1>4. IInv /\ Late /\ [Next]_vars => Late'
  <2>1. ASSUME IInv, Late, [Next]_vars, phase' = "rejected" PROVE CancelledLate'
    <3>1. UNCHANGED <<judging, stop>> /\ (phase = "rejected" \/ (Over /\ ~Acceptable))
      BY <2>1, RefusalStep
    <3>2. CancelledLate
      BY <1>2, <2>1, <3>1, OverCoverage, OverLedger, OverInvocations DEF Acceptable
    <3> QED BY <3>1, <3>2 DEF judging, CancelledLate, Outcomes
  <2> QED BY <2>1
<1>5. Late => BundleAccepted
  BY DEF BundleAccepted
<1> QED BY <1>3, <1>4, <1>5, StageInvariant, PTL DEF Spec

-------------------------------------------------------------------------------
(* Costs.  What the authority has recorded of a stage that goes on, and of *)
(* one that its cost has stopped.                                          *)

CostInvs == CostInv(budget) /\ NoticeInv(budget)

(* The invariants of the authority about money hold of the stages.         *)
LEMMA CostInvsHold == Spec => []CostInvs
<1>1. CostInv(budget) /\ NoticeInv(budget) => CostInvs
  BY DEF CostInvs
<1> QED BY <1>1, ProtocolHolds, CostInvariant, NoticeInvariant, PTL DEF BudgetProtocol

(* Between two steps a failed Run says so in its reason to stop, and a     *)
(* cancellation is about no resource.                                      *)
ReasonSound(b) ==
  /\ b.failed = TRUE => b.termination # None /\ b.termination.kind = "failed"
  /\ b.termination # None /\ b.termination.kind = "cancelled" => b.termination.resource = "none"

(* Recording a reason keeps that.                                          *)
LEMMA TerminationSound ==
  ASSUME NEW b \in Budget, NEW t \in Termination, ReasonSound(b),
         t.kind = "cancelled" => t.resource = "none"
  PROVE  ReasonSound(AfterTermination(b, t))
<1>1. t # None
  BY LimitAssumption
<1> QED BY <1>1, TerminationReason DEF ReasonSound

(* A failure makes it so.                                                  *)
LEMMA FailureSound ==
  ASSUME NEW b \in Budget
  PROVE  /\ ReasonSound(AfterTermination(b, Failure))
         /\ AfterTermination(b, Failure).failed = TRUE
<1>1. Failure \in Termination /\ Failure.kind = "failed" /\ Failure # None
  BY OwnReasons, LimitAssumption DEF Failure, Ended
<1> QED BY <1>1, TerminationReason DEF ReasonSound

(* Settling keeps it too, unless the charge itself fails the Run.          *)
LEMMA SettledSound ==
  ASSUME NEW b \in Budget, NEW a \in Attempt, NEW c \in Charge, ReasonSound(b),
         AfterSettle(b, a, c).failed = FALSE \/ b.failed = TRUE
  PROVE  ReasonSound(AfterSettle(b, a, c))
<1> DEFINE p == Posted(b, a, c)
           error == SettlementError(b, a, c)
           d == AfterSettle(b, a, c)
<1>1. p \in Budget /\ error \in Termination \cup {None}
  BY PostedTyped, SettlementErrorTyped
<1>2. p.termination = b.termination
  <2>1. /\ WithoutReservation(b, a) \in Budget
        /\ WithoutReservation(b, a).termination = b.termination
    BY ReleaseTyped DEF WithoutReservation, Budget
  <2> QED BY <2>1 DEF Posted, Budget
<1>3. d = p \/ (error # None /\ error.kind = "active-budget-exhausted" /\ d = AfterTermination(p, error))
  BY DEF AfterSettle, SettlementError, ExhaustionAfter, ScopeExhaustion, Ended
<1> HIDE DEF p, error, d
<1>4. d.termination = b.termination
      \/ (b.termination = None /\ d.termination.kind = "active-budget-exhausted")
  BY <1>1, <1>2, <1>3, TerminationReason
<1> QED BY <1>4 DEF ReasonSound, d

(* A refusal names a failure, a cancellation without a resource, or a      *)
(* check that an unfailed and uncancelled Run did not pass.                *)
LEMMA DenialSound ==
  ASSUME NEW b \in Budget, ReasonSound(b), NEW B \in SUBSET Attempt, NEW e,
         NEW t \in Denials(b, B, e)
  PROVE  /\ t \in Termination
         /\ t.kind = "cancelled" => t.resource = "none"
         /\ t.kind # "failed" => b.failed = FALSE
         /\ t.kind # "failed" /\ t.resource # "none" =>
              ~(b.failed \/ (b.termination # None /\ b.termination.kind = "cancelled"))
<1>1. b.failed = TRUE \/ b.failed = FALSE
  BY DEF Budget
<1>2. b.failed = TRUE => t = b.termination
  BY DEF Denials, ReasonSound
<1>3. b.failed = TRUE => t.kind = "failed"
  BY <1>2 DEF ReasonSound
<1>4. b.failed = FALSE /\ b.termination # None /\ b.termination.kind = "cancelled" =>
        t = b.termination
  BY DenialReason
<1> QED BY <1>1, <1>3, <1>4, DenialReason DEF ReasonSound

(* All that a step can do to the reason to stop and to the authority.      *)
Settlements(e) ==
  \E charge \in PossibleCharge, outcome \in AttemptStatus : FinishAttempt(e, outcome, charge)

LEMMA StageStep ==
  ASSUME IInv, [Next]_vars
  PROVE  \/ Execution \/ HandOver \/ WallClockTimer
         \/ UNCHANGED <<stop, budget>>
         \/ \E e \in Evaluation : \/ AdmitAttempt(e) \/ StartAttempt(e) \/ ForgoAttempt(e)
                                  \/ RefuseAttempt(e) \/ Settlements(e)
         \/ Fail \/ SetStop(budget, "cancelled", Cancellation)
         \/ /\ phase = "executing" /\ UNCHANGED stop
            /\ budget' = AfterTermination(budget, Cancellation)
<1>1. CASE RunStep /\ ~HandOver
  BY <1>1 DEF RunStep, Begin, Started, Prepare, PrepareFails, Prepared, RecordUnavailable,
              Recorded, Dispatch, EndBatch, ApplyFailurePolicy, Dispatched, Teardown, Complete,
              Assemble, Publish, Recover
<1>2. CASE Environment /\ ~WallClockTimer
  BY <1>2 DEF Environment, HostCancels, WallClockElapses, WriterFails
<1>3. ASSUME NEW e \in Evaluation, EvaluationStep(e)
      PROVE  \/ UNCHANGED <<stop, budget>> \/ Fail
             \/ AdmitAttempt(e) \/ StartAttempt(e) \/ ForgoAttempt(e) \/ RefuseAttempt(e)
             \/ Settlements(e)
  BY <1>3 DEF EvaluationStep, Leave, LookUp, LookUpFails, Replay, Announce, OpenFails, Reported,
              StopWaiting, Dispose, OnlyPc, PcAndStop, Settlements
<1>4. CASE UNCHANGED vars \/ Finished
  BY <1>4 DEF vars, Finished
<1> QED BY <1>1, <1>2, <1>3, <1>4 DEF Next

(* What setStop with a failure or a cancellation does to the two, on top   *)
(* of a budget value whose failure the stage has noticed.                  *)
LEMMA SetStopEffect ==
  ASSUME EndingTyped, NEW b \in Budget, NEW t \in Termination,
         NEW kind \in StopKind \ {"none"}, SetStop(b, kind, t)
  PROVE  /\ stop'.kind # "none"
         /\ stop.kind = "failed" => stop' = stop /\ budget' = b
         /\ kind = "failed" => stop'.kind = "failed"
         /\ kind = "failed" /\ stop.kind # "failed" => budget' = AfterTermination(b, Failure)
         /\ kind = "budget-exhausted" => budget' = b
         /\ kind # "failed" => stop' = stop \/ stop'.kind = kind
         /\ kind = "cancelled" => budget' = b \/ budget' = AfterTermination(b, Cancellation)
<1>1. SetStop(b, kind, t)
  OBVIOUS
<1>2. stop'.kind # "none"
  BY SetStopMoves
<1>3. kind = "failed" => stop'.kind = "failed"
  BY SetStopMoves
<1> QED BY <1>1, <1>2, <1>3 DEF SetStop, StopIgnored

(* A failed stage has a failed budget, a reason to stop is recorded in the *)
(* authority, and the stage has none before it begins.                     *)
FailureRecorded ==
  /\ ReasonSound(budget)
  /\ stop.kind = "failed" => budget.failed = TRUE
  /\ phase \in {"executing", "handed"} => ~Stopped

(* Before the stage begins no step stops it.                               *)
LEMMA IdleKept ==
  ASSUME IInv, FailureRecorded, [Next]_vars, phase' \in {"executing", "handed"}
  PROVE  ~Stopped'
<1>1. ASSUME NEW e \in Evaluation PROVE ~EvaluationStep(e)
  BY EvaluationStepMoves DEF EvaluationMoves
<1>2. CASE RunStep
  BY <1>2 DEF RunStep, HandOver, Begin, Started, Prepare, PrepareFails, Prepared,
              RecordUnavailable, Recorded, Dispatch, EndBatch, ApplyFailurePolicy, Dispatched,
              Teardown, Complete, Assemble, Publish, Recover, FailureRecorded, Stopped
<1>3. CASE Environment
  BY <1>3 DEF Environment, HostCancels, WallClockElapses, WallClockTimer, WriterFails,
              Interruptible, FailureRecorded, Stopped
<1>4. CASE Execution
  BY <1>4, ElsewhereMoves DEF FailureRecorded, Stopped
<1>5. CASE UNCHANGED vars \/ Finished
  BY <1>5 DEF vars, Finished, FailureRecorded, Stopped
<1> QED BY <1>1, <1>2, <1>3, <1>4, <1>5 DEF Next

(* The Execution stage records its failures, and a failure stays.          *)
LEMMA ExecutionRecorded ==
  ASSUME IInv, FailureRecorded, Execution
  PROVE  ReasonSound(budget')
<1>0. budget \in Budget /\ ReasonSound(budget) /\ \A t \in Coordinate : FirstRun(t) \in Attempt
  BY PlanFacts DEF IInv, LedgerOK, BudgetTyped, FailureRecorded
<1>1. ASSUME NEW b, b.termination = budget.termination, b.failed = budget.failed
      PROVE  ReasonSound(b)
  BY <1>0, <1>1 DEF ReasonSound
<1>2. ASSUME NEW t \in Coordinate, AdmitTrial(t) \/ StartTrial(t)
      PROVE  ReasonSound(budget')
  BY <1>0, <1>1, <1>2, BookkeepingReason DEF AdmitTrial, StartTrial
<1>3. ASSUME NEW t \in Coordinate, RefuseTrial(t)
      PROVE  ReasonSound(budget')
  <2>1. PICK d \in Denials(budget, {FirstRun(t)}, expired) : budget' = AfterTermination(budget, d)
    BY <1>3 DEF RefuseTrial
  <2>2. d \in Termination /\ (d.kind = "cancelled" => d.resource = "none")
    BY <1>0, <2>1, DenialSound
  <2> QED BY <1>0, <2>1, <2>2, TerminationSound
<1>4. ASSUME NEW t \in Coordinate, NEW charge \in PossibleCharge, FinishTrial(t, charge)
      PROVE  ReasonSound(budget')
  <2> DEFINE settled == AfterSettle(budget, FirstRun(t), charge)
  <2>1. charge \in Charge /\ settled \in Budget
    BY <1>0, ChargeTyped, SettleTyped
  <2>2. SummaryStatus(settled) = "failed" <=> settled.failed = TRUE
    BY <2>1 DEF SummaryStatus, Budget
  <2>3. settled.failed = FALSE => ReasonSound(settled)
    BY <1>0, <2>1, SettledSound
  <2>4. budget' = IF SummaryStatus(settled) = "failed" THEN AfterTermination(settled, Failure)
                  ELSE settled
    BY <1>4 DEF FinishTrial
  <2> HIDE DEF settled
  <2>5. settled.failed = TRUE \/ settled.failed = FALSE
    BY <2>1 DEF Budget
  <2> QED BY <2>1, <2>2, <2>3, <2>4, <2>5, FailureSound
<1>5. CASE AbandonTrials
  BY <1>0, <1>1, <1>5, BookkeepingReason DEF AbandonTrials
<1> QED BY <1>2, <1>3, <1>4, <1>5 DEF Execution

(* Refusing an attempt records what it was refused for.                    *)
LEMMA RefusalRecorded ==
  ASSUME IInv, FailureRecorded, NEW e \in Evaluation, RefuseAttempt(e)
  PROVE  /\ ReasonSound(budget')
         /\ stop'.kind = "failed" => budget'.failed = TRUE
         /\ budget.failed = FALSE /\ budget'.failed = TRUE => stop'.kind = "failed"
<1>0. budget \in Budget /\ ReasonSound(budget) /\ EndingTyped
  BY DEF IInv, LedgerOK, BudgetTyped, FailureRecorded
<1>1. PICK t \in Denials(budget, {Current(e)}, expired) : StopRefused(t)
  BY DEF RefuseAttempt
<1>2. /\ t \in Termination
      /\ t.kind = "cancelled" => t.resource = "none"
  <2>1. {Current(e)} \in SUBSET Attempt
    BY CurrentAttempt DEF RefuseAttempt
  <2> QED BY <1>0, <2>1, DenialSound
<1> DEFINE b == AfterTermination(budget, t)
           kind == IF t.kind = "failed" THEN "failed" ELSE "budget-exhausted"
<1>3. b \in Budget /\ ReasonSound(b) /\ SetStop(b, kind, t) /\ kind \in StopKind \ {"none"}
  BY <1>0, <1>1, <1>2, TerminationTyped, TerminationSound, OwnReasons DEF StopRefused
<1>4. /\ t.kind = "failed" => b.failed = TRUE
      /\ t.kind # "failed" => b.failed = budget.failed
  BY <1>0, <1>2, TerminationReason
<1>5. budget.failed = TRUE => b.failed = TRUE
  BY <1>0, <1>4 DEF Budget
<1> HIDE DEF b
<1>6. /\ stop.kind = "failed" => stop' = stop /\ budget' = b
      /\ kind = "failed" => stop'.kind = "failed"
      /\ kind = "failed" /\ stop.kind # "failed" => budget' = AfterTermination(b, Failure)
      /\ kind = "budget-exhausted" => budget' = b
      /\ kind # "failed" => stop' = stop \/ stop'.kind = kind
  BY <1>0, <1>2, <1>3, SetStopEffect
<1>7. /\ ReasonSound(AfterTermination(b, Failure))
      /\ AfterTermination(b, Failure).failed = TRUE
  BY <1>3, FailureSound
<1> QED BY <1>3, <1>4, <1>5, <1>6, <1>7 DEF FailureRecorded

(* So does settling an attempt that fails the Run.                         *)
LEMMA FinishRecorded ==
  ASSUME IInv, FailureRecorded, NEW e \in Evaluation, Settlements(e)
  PROVE  /\ ReasonSound(budget')
         /\ stop'.kind = "failed" => budget'.failed = TRUE
         /\ budget.failed = FALSE /\ budget'.failed = TRUE => stop'.kind = "failed"
<1>1. PICK charge \in PossibleCharge, outcome \in AttemptStatus : FinishAttempt(e, outcome, charge)
  BY DEF Settlements
<1> DEFINE error == SettlementError(budget, Current(e), charge)
           b == AfterSettle(budget, Current(e), charge)
           kind == IF SummaryStatus(b) = "failed" THEN "failed" ELSE "budget-exhausted"
<1>2. /\ budget \in Budget /\ ReasonSound(budget) /\ EndingTyped
      /\ Current(e) \in Attempt /\ charge \in Charge
  BY <1>1, CurrentAttempt, ChargeTyped
     DEF FinishAttempt, IInv, LedgerOK, BudgetTyped, FailureRecorded
<1>3. /\ b \in Budget /\ error \in Termination \cup {None}
      /\ b.failed = TRUE \/ b.failed = FALSE
      /\ budget.failed = TRUE \/ budget.failed = FALSE
  BY <1>2, SettleTyped, SettlementErrorTyped DEF Budget
<1>4. b.failed = FALSE \/ budget.failed = TRUE => ReasonSound(b)
  BY <1>2, SettledSound
<1>5. budget.failed = TRUE => b.failed = TRUE
  BY <1>2, <1>3, AcceptedCharge
<1>6. error = None => b.failed = budget.failed
  BY <1>2, SettledUnspent
<1>7. IF error = None THEN budget' = b /\ UNCHANGED stop ELSE SetStop(b, kind, error)
  BY <1>1 DEF FinishAttempt
<1>8. SummaryStatus(b) = "failed" <=> b.failed = TRUE
  BY <1>3 DEF SummaryStatus
<1>9. kind \in StopKind \ {"none"} /\ (kind = "failed" <=> b.failed = TRUE)
  BY <1>8, OwnReasons
<1>10. ReasonSound(AfterTermination(b, Failure)) /\ AfterTermination(b, Failure).failed = TRUE
  BY <1>3, FailureSound
<1>11. kind \in {"failed", "budget-exhausted"}
  OBVIOUS
<1> HIDE DEF error, b, kind
<1>12. CASE error = None
  BY <1>3, <1>4, <1>6, <1>7, <1>12 DEF FailureRecorded
<1>13. CASE error # None
  <2>1. /\ stop.kind = "failed" => stop' = stop /\ budget' = b
        /\ kind = "failed" => stop'.kind = "failed"
        /\ kind = "failed" /\ stop.kind # "failed" => budget' = AfterTermination(b, Failure)
        /\ kind = "budget-exhausted" => budget' = b
        /\ kind # "failed" => stop' = stop \/ stop'.kind = kind
    BY <1>2, <1>3, <1>7, <1>9, <1>13, SetStopEffect
  <2> QED BY <1>3, <1>4, <1>5, <1>9, <1>10, <1>11, <2>1 DEF FailureRecorded
<1> QED BY <1>12, <1>13

(* So does every step: a Run fails in its stage and in its budget at once. *)
LEMMA FailureKept ==
  ASSUME IInv, FailureRecorded, [Next]_vars
  PROVE  /\ FailureRecorded'
         /\ phase # "executing" /\ budget.failed = FALSE /\ budget'.failed = TRUE =>
              stop'.kind = "failed"
<1> DEFINE Recorded1 ==
             /\ ReasonSound(budget')
             /\ stop'.kind = "failed" => budget'.failed = TRUE
             /\ phase # "executing" /\ budget.failed = FALSE /\ budget'.failed = TRUE =>
                  stop'.kind = "failed"
<1>0. /\ budget \in Budget /\ ReasonSound(budget) /\ EndingTyped
      /\ stop.kind = "failed" => budget.failed = TRUE
      /\ phase = "executing" => stop.kind # "failed"
  BY DEF IInv, LedgerOK, BudgetTyped, FailureRecorded, Stopped
<1>1. ASSUME Execution PROVE Recorded1
  <2>1. phase = "executing" /\ UNCHANGED stop
    BY <1>1, ElsewhereMoves
  <2> QED BY <1>0, <1>1, <2>1, ExecutionRecorded
<1>2. ASSUME HandOver PROVE Recorded1
  <2>1. /\ AfterHandoff(budget).termination = budget.termination
        /\ AfterHandoff(budget).failed = (SummaryStatus(budget) = "failed")
    BY <1>0 DEF AfterHandoff, Budget
  <2>2. SummaryStatus(budget) = "failed" => budget.failed = TRUE
    BY <1>0 DEF SummaryStatus, Budget
  <2>3. ReasonSound(AfterHandoff(budget))
    BY <1>0, <2>1, <2>2 DEF ReasonSound
  <2> QED BY <1>0, <1>2, <2>3 DEF HandOver
<1>3. ASSUME WallClockTimer PROVE Recorded1
  <2>1. budget' = AfterTermination(budget, WallClockExhaustion) /\ stop'.kind = "budget-exhausted"
    BY <1>3 DEF WallClockTimer, SetStop, StopIgnored, Stopped
  <2>2. WallClockExhaustion \in Termination /\ WallClockExhaustion.kind = "wall-clock-exhausted"
    BY OwnReasons DEF WallClockExhaustion, Ended
  <2> QED BY <1>0, <2>1, <2>2, TerminationSound, TerminationReason
<1>4. ASSUME UNCHANGED <<stop, budget>> PROVE Recorded1
  BY <1>0, <1>4
<1>5. ASSUME NEW e \in Evaluation, AdmitAttempt(e) \/ StartAttempt(e) \/ ForgoAttempt(e)
      PROVE  Recorded1
  <2>1. budget'.termination = budget.termination /\ budget'.failed = budget.failed
    BY <1>0, <1>5, BookkeepingReason DEF AdmitAttempt, StartAttempt, ForgoAttempt
  <2>2. stop' = stop
    BY <1>5 DEF AdmitAttempt, StartAttempt, ForgoAttempt, PcAndBudget
  <2> QED BY <1>0, <2>1, <2>2 DEF ReasonSound
<1>6. ASSUME NEW e \in Evaluation, RefuseAttempt(e) PROVE Recorded1
  BY <1>6, RefusalRecorded
<1>7. ASSUME NEW e \in Evaluation, Settlements(e) PROVE Recorded1
  BY <1>7, FinishRecorded
<1>8. Cancellation.kind = "cancelled" /\ Cancellation.resource = "none"
  BY DEF Cancellation, Ended
<1>9. /\ ReasonSound(AfterTermination(budget, Cancellation))
      /\ AfterTermination(budget, Cancellation).failed = budget.failed
  BY <1>0, <1>8, OwnReasons, TerminationSound, TerminationReason
<1>10. ASSUME Fail PROVE Recorded1
  <2>1. /\ stop.kind = "failed" => budget' = budget
        /\ stop'.kind = "failed"
        /\ stop.kind # "failed" => budget' = AfterTermination(budget, Failure)
    BY <1>0, <1>10, OwnReasons, SetStopEffect DEF Fail
  <2> QED BY <1>0, <2>1, FailureSound
<1>11. ASSUME SetStop(budget, "cancelled", Cancellation) PROVE Recorded1
  <2>1. /\ stop' = stop \/ stop'.kind = "cancelled"
        /\ budget' = budget \/ budget' = AfterTermination(budget, Cancellation)
    BY <1>0, <1>11, OwnReasons, SetStopEffect
  <2> QED BY <1>0, <1>9, <2>1
<1>12. ASSUME phase = "executing", UNCHANGED stop, budget' = AfterTermination(budget, Cancellation)
       PROVE  Recorded1
  BY <1>0, <1>9, <1>12
<1>13. Recorded1
  BY <1>1, <1>2, <1>3, <1>4, <1>5, <1>6, <1>7, <1>10, <1>11, <1>12, StageStep
<1> QED BY <1>13, IdleKept DEF FailureRecorded

(* While the stage goes on, an evaluation that has made a call or is about *)
(* to make one sees an authority that has not failed, and what it has paid *)
(* for spent no limit.                                                     *)
Judged(e) ==
  /\ attempts[e] # <<>> \/ pc[e] \in {"admitted", "evaluating"} => budget.failed = FALSE
  /\ attempts[e] # <<>> =>
       \A s \in {"run", "evaluation", TrialOf[e]} : ~CostExhausted(budget, s)
  /\ \A n \in 1 .. Len(attempts[e]) : ~AttemptExhausted(budget.entries[<<e, n>>])

JudgedInv == ~Stopped => \A e \in Evaluation : Judged(e)

(* A call is recorded by its settlement only, and an evaluation is         *)
(* admitted only by an authority that has not failed.                      *)
LEMMA JudgingMoves ==
  ASSUME IInv, [Next]_vars, NEW e \in Evaluation
  PROVE  /\ (\A f \in Evaluation : ~Settlements(f)) => attempts' = attempts
         /\ pc'[e] \in {"admitted", "evaluating"} =>
              pc[e] \in {"admitted", "evaluating"} \/ budget.failed = FALSE
<1>0. /\ pc \in [Evaluation -> Running \cup {"planned", "unavailable", "eligible", "cached", "done"}]
      /\ budget.failed = TRUE \/ budget.failed = FALSE
  BY DEF IInv, JudgingTyped, LedgerOK, BudgetTyped, Budget
<1>1. CASE RunStep
  <2>1. attempts' = attempts
    BY <1>1, RunStepMoves
  <2>2. Prepare \/ Dispatch => pc'[e] \notin {"admitted", "evaluating"} \/ pc'[e] = pc[e]
    BY <1>0 DEF Prepare, Dispatch
  <2> QED BY <1>1, <2>1, <2>2, RunStepMoves
<1>2. ASSUME NEW f \in Evaluation, EvaluationStep(f)
      PROVE  /\ ~Settlements(f) => attempts' = attempts
             /\ pc'[e] \in {"admitted", "evaluating"} =>
                  pc[e] \in {"admitted", "evaluating"} \/ budget.failed = FALSE
  <2>1. ~Settlements(f) => attempts' = attempts
    BY <1>2 DEF EvaluationStep, Settlements, Leave, LookUp, LookUpFails, Replay, Announce,
                OpenFails, AdmitAttempt, RefuseAttempt, StartAttempt, ForgoAttempt, Reported,
                StopWaiting, Dispose, OnlyPc, PcAndStop, PcAndBudget
  <2>2. e # f => pc'[e] = pc[e]
    BY <1>0, <1>2, EvaluationStepMoves DEF EvaluationMoves
  <2>3. AdmitAttempt(f) => budget.failed = FALSE
    BY <1>0 DEF AdmitAttempt, Admissible, Denials
  <2>4. Reserves(f) => AdmitAttempt(f)
    <3>1. Reserves(f) => pc[f] \in {"opening", "backoff"} /\ pc'[f] = "admitted"
      BY DEF Reserves, Moves
    <3>2. \A label : GoTo(f, label) => pc'[f] = label
      BY <1>0 DEF GoTo
    <3> QED BY <1>2, <3>1, <3>2
            DEF EvaluationStep, Leave, LookUp, LookUpFails, Replay, Announce, OpenFails,
                RefuseAttempt, StartAttempt, ForgoAttempt, FinishAttempt, Reported, StopWaiting,
                Dispose
  <2>5. pc'[f] \in {"admitted", "evaluating"} =>
          pc[f] \in {"admitted", "evaluating"} \/ budget.failed = FALSE
    BY <1>2, <2>3, <2>4, EvaluationPositions
       DEF Keeps, Moves, Reserves, Starts, Returns, Settles
  <2> QED BY <2>1, <2>2, <2>5
<1>3. CASE Execution \/ Environment \/ Finished \/ UNCHANGED vars
  <2>1. UNCHANGED judging
    BY <1>3, ElsewhereMoves DEF vars, judging
  <2> QED BY <2>1 DEF judging
<1> QED BY <1>1, <1>2, <1>3 DEF Next

(* The settlement of one, by which the stage does not stop.                *)
LEMMA JudgedFinish ==
  ASSUME IInv, NEW e \in Evaluation, NEW f \in Evaluation, Judged(e), Judged(f),
         Settlements(f), ~Stopped'
  PROVE  Judged(e)'
<1>1. PICK charge \in PossibleCharge, outcome \in AttemptStatus : FinishAttempt(f, outcome, charge)
  BY DEF Settlements
<1> DEFINE error == SettlementError(budget, Current(f), charge)
           b == AfterSettle(budget, Current(f), charge)
           kind == IF SummaryStatus(b) = "failed" THEN "failed" ELSE "budget-exhausted"
<1>0. pc[f] = "evaluating" /\ EndingTyped
  BY <1>1 DEF FinishAttempt, IInv
<1>2. budget \in Budget /\ Current(f) \in Attempt /\ charge \in Charge
  BY <1>0, CurrentAttempt, ChargeTyped DEF IInv, LedgerOK, BudgetTyped
<1>3. b \in Budget /\ error \in Termination \cup {None}
  BY <1>2, SettleTyped, SettlementErrorTyped
<1>4. error = None /\ budget' = b
  <2>1. IF error = None THEN budget' = b /\ UNCHANGED stop ELSE SetStop(b, kind, error)
    BY <1>1 DEF FinishAttempt
  <2>2. kind \in StopKind \ {"none"}
    BY OwnReasons
  <2> HIDE DEF error, b, kind
  <2> QED BY <1>0, <1>3, <2>1, <2>2, SetStopMoves DEF Stopped
<1>5. /\ b.failed = budget.failed /\ ~AttemptExhausted(charge)
      /\ \A s \in Scope : Charges(Current(f), s) => ~CostExhausted(b, s)
  BY <1>2, <1>4, SettledUnspent
<1>6. b.entries = [budget.entries EXCEPT ![Current(f)] = charge]
  <2>1. /\ b.reservations = [budget.reservations EXCEPT ![Current(f)] = "none"]
        /\ b.entries = [budget.entries EXCEPT ![Current(f)] = charge]
    BY <1>2, SettlePositions
  <2> QED BY <2>1
<1>7. \A s \in Scope : ~Charges(Current(f), s) => b.cost[s] = budget.cost[s]
  <2>1. b.cost = [s \in Scope |-> IF Charges(Current(f), s)
                    THEN budget.cost[s] + (IF charge.report = "reported" THEN charge.amount ELSE 0)
                    ELSE budget.cost[s]]
    BY <1>2, AcceptedCharge, Zenon
  <2> HIDE DEF b
  <2> QED BY <2>1
<1> HIDE DEF error, b, kind
<1>8. \A s \in Scope : ~CostExhausted(budget, s) => ~CostExhausted(b, s)
  BY <1>5, <1>7 DEF CostExhausted
<1>9. {"run", "evaluation", TrialOf[e]} \subseteq Scope
  BY PlanFacts DEF Scope, Stage
<1>10. Charges(Current(f), "run") /\ Charges(Current(f), "evaluation")
       /\ Charges(Current(f), TrialOf[f])
  <2>1. Current(f)[1] = f /\ f \notin Coordinate
    BY PlanAssumption DEF Current
  <2> QED BY <1>2, <2>1, PlanAssumption DEF Charges
<1>11. budget'.failed = FALSE
  BY <1>0, <1>4, <1>5 DEF Judged
<1>12. attempts' = [attempts EXCEPT ![f] = Append(@, outcome)]
  BY <1>1 DEF FinishAttempt
<1>13. attempts \in [Evaluation -> Seq(AttemptStatus)] /\ Len(attempts[f]) \in Nat
       /\ Len(attempts[e]) \in Nat
  BY DEF IInv, JudgingTyped
<1>14. attempts'[e] # <<>> => \A s \in {"run", "evaluation", TrialOf[e]} : ~CostExhausted(b, s)
  <2>1. CASE e = f
    BY <1>5, <1>9, <1>10, <2>1
  <2>2. CASE e # f
    <3>1. attempts'[e] = attempts[e]
      BY <1>12, <1>13, <2>2
    <3> QED BY <1>8, <1>9, <3>1 DEF Judged
  <2> QED BY <2>1, <2>2
<1>15. ASSUME NEW n \in 1 .. Len(attempts'[e])
       PROVE  ~AttemptExhausted(b.entries[<<e, n>>])
  <2>1. CASE <<e, n>> = Current(f)
    BY <1>2, <1>5, <1>6, <2>1 DEF Budget
  <2>2. CASE <<e, n>> # Current(f)
    <3>1. b.entries[<<e, n>>] = budget.entries[<<e, n>>]
      BY <1>2, <1>6, <2>2 DEF Budget
    <3>2. n \in 1 .. Len(attempts[e])
      <4>1. CASE e = f
        <5>1. n # Len(attempts[f]) + 1
          BY <2>2, <4>1 DEF Current
        <5>2. Len(attempts'[f]) = Len(attempts[f]) + 1
          BY <1>0, <1>12, AttemptAdded
        <5> QED BY <1>13, <4>1, <5>1, <5>2
      <4>2. CASE e # f
        BY <1>12, <1>13, <4>2
      <4> QED BY <4>1, <4>2
    <3> QED BY <3>1, <3>2 DEF Judged
  <2> QED BY <2>1, <2>2
<1> QED BY <1>4, <1>11, <1>14, <1>15 DEF Judged

(* And every other step.                                                   *)
LEMMA JudgedKept ==
  ASSUME IInv, FailureRecorded, JudgedInv, [Next]_vars
  PROVE  JudgedInv'
<1>1. SUFFICES ASSUME ~Stopped', NEW e \in Evaluation PROVE Judged(e)'
  BY DEF JudgedInv
<1>2. ~Stopped /\ \A f \in Evaluation : Judged(f)
  BY <1>1, StopStands DEF JudgedInv
<1>3. budget \in Budget /\ budget' \in Budget
  BY StepInv DEF IInv, LedgerOK, BudgetTyped
<1>4. CASE phase = "executing"
  <2>1. pc[e] = "planned" /\ attempts[e] = <<>>
    BY <1>4 DEF IInv, StageInv, PlaceInv, AttemptsInv
  <2>2. ASSUME NEW f \in Evaluation PROVE ~EvaluationStep(f)
    BY <1>4, EvaluationStepMoves DEF EvaluationMoves
  <2>3. RunStep => UNCHANGED <<pc, attempts>>
    BY <1>4, RunStepMoves DEF Prepare, Dispatch
  <2>4. ~RunStep => UNCHANGED <<pc, attempts>>
    BY <2>2, ElsewhereMoves DEF Next, vars, judging
  <2>5. attempts'[e] = <<>> /\ pc'[e] = "planned"
    BY <2>1, <2>3, <2>4
  <2> QED BY <2>5, EmptySeq DEF Judged
<1>5. CASE phase # "executing" /\ \E f \in Evaluation : Settlements(f)
  BY <1>1, <1>2, <1>5, JudgedFinish
<1>6. CASE phase # "executing" /\ \A f \in Evaluation : ~Settlements(f)
  <2>1. budget.failed = FALSE => budget'.failed = FALSE
    BY <1>1, <1>3, <1>6, FailureKept DEF Stopped, Budget
  <2>2. attempts' = attempts
    BY <1>6, JudgingMoves
  <2>3. budget'.cost = budget.cost /\ budget'.entries = budget.entries
    <3>1. ~Execution /\ ~HandOver
      BY <1>6, ElsewhereMoves DEF HandOver
    <3>2. ~WallClockTimer
      BY <1>1, <1>2 DEF WallClockTimer, SetStop, StopIgnored, Stopped
    <3>3. ~Fail
      BY <1>1, FailMoves DEF Stopped
    <3>4. ~SetStop(budget, "cancelled", Cancellation)
      BY <1>1, OwnReasons, SetStopMoves DEF Stopped, IInv
    <3>5. ASSUME NEW f \in Evaluation PROVE ~RefuseAttempt(f)
      BY <1>1, RefusalMoves DEF Stopped
    <3>6. ASSUME NEW f \in Evaluation, AdmitAttempt(f) \/ StartAttempt(f) \/ ForgoAttempt(f)
          PROVE  budget'.cost = budget.cost /\ budget'.entries = budget.entries
      BY <1>3, <3>6 DEF AdmitAttempt, StartAttempt, ForgoAttempt, AfterReserve, AfterConsume,
                        AfterRelease, WithoutReservation, Budget
    <3> QED BY <1>6, <3>1, <3>2, <3>3, <3>4, <3>5, <3>6, StageStep
  <2>4. pc'[e] \in {"admitted", "evaluating"} =>
          pc[e] \in {"admitted", "evaluating"} \/ budget.failed = FALSE
    BY JudgingMoves
  <2>5. \A s : CostExhausted(budget', s) <=> CostExhausted(budget, s)
    BY <2>3 DEF CostExhausted
  <2> QED BY <1>2, <2>1, <2>2, <2>3, <2>4, <2>5 DEF Judged
<1> QED BY <1>4, <1>5, <1>6

(* The four facts about an unfinished and a finished stage, together.      *)
CostFacts == CostInvs /\ FailureRecorded /\ JudgedInv

LEMMA CostFactsHold == Spec => []CostFacts
<1>1. Init => FailureRecorded /\ JudgedInv
  <2>1. Init => FailureRecorded
    BY DEF Init, AuthorityInit, EmptyBudget, FailureRecorded, ReasonSound, NotStopped, Stopped
  <2>2. Init => \A e \in Evaluation : Judged(e)
    BY EmptySeq DEF Init, Judged
  <2> QED BY <2>1, <2>2 DEF JudgedInv
<1>2. IInv /\ FailureRecorded /\ JudgedInv /\ [Next]_vars => FailureRecorded' /\ JudgedInv'
  BY FailureKept, JudgedKept
<1> QED BY <1>1, <1>2, StageInvariant, CostInvsHold, PTL DEF Spec, CostFacts

(* What the verification adds up never exceeds what the authority counted  *)
(* of the stage, and equals it when every record reported its cost.        *)
LEMMA JudgedCosts ==
  ASSUME IInv, CostInvs, Over
  PROVE  /\ NativeAttempts \subseteq Settled(budget)
         /\ \A a \in NativeAttempts : a \in Attempt /\ StageOf[a] = "evaluation"
         /\ EvaluationCost \in Nat /\ budget.cost["evaluation"] \in Nat
         /\ EvaluationCost <= budget.cost["evaluation"]
         /\ (\A e \in NativeRecords : CostKnown(e)) => EvaluationCost = budget.cost["evaluation"]
         /\ NativeAttempts = {} => budget.cost["evaluation"] = 0
<1> DEFINE made == UNION {AttemptsOf(e) : e \in {f \in NativeRecords : CostKnown(f)}}
           counted == {a \in made : CostReported(a)}
           reported == ReportedOf(budget, "evaluation")
<1>1. "evaluation" \in Scope
  BY DEF Scope, Stage
<1>2. EvaluationEntries = NativeAttempts
  BY OverLedger DEF LedgerMatches
<1>3. SettledOf(budget, "evaluation") = NativeAttempts
  <2>1. \A a \in Attempt : Charges(a, "evaluation") <=> StageOf[a] = "evaluation"
    BY AttemptAssumption DEF Charges, Stage
  <2> QED BY <1>2, <2>1 DEF SettledOf, Within, EvaluationEntries, Settled
<1>4. /\ NativeAttempts \subseteq Settled(budget)
      /\ \A a \in NativeAttempts : a \in Attempt /\ StageOf[a] = "evaluation"
  BY <1>2 DEF EvaluationEntries, Settled
<1>5. /\ budget.cost["evaluation"] = SumOver(Amounts(budget), reported)
      /\ budget.cost["evaluation"] \in Nat
  BY <1>1 DEF CostInvs, CostInv, CostExplained, Budget
<1>6. made \subseteq NativeAttempts /\ counted = made
  BY DEF NativeAttempts, CostKnown
<1>7. made \subseteq reported
  BY <1>3, <1>6 DEF ReportedOf, CostReported
<1>8. /\ reported \subseteq Attempt /\ IsFiniteSet(reported)
      /\ \A a \in reported : Amounts(budget)[a] \in Nat
  <2>1. reported \subseteq Attempt
    BY <1>3, <1>4 DEF ReportedOf
  <2>2. \A a \in Settled(budget) : Amounts(budget)[a] \in Nat
    BY DEF Settled, Amounts, IInv, LedgerOK, BudgetTyped, Budget, Charge
  <2> QED BY <1>3, <1>4, <2>1, <2>2, AttemptAssumption, FS_Subset DEF ReportedOf
<1>9. (\A e \in NativeRecords : CostKnown(e)) => made = reported
  <2>1. (\A e \in NativeRecords : CostKnown(e)) => made = NativeAttempts
    BY DEF NativeAttempts
  <2> QED BY <1>3, <1>7, <2>1 DEF ReportedOf
<1>10. EvaluationCost = CostOf(made)
  BY DEF EvaluationCost
<1>11. CostOf(made) = Sums!MapThenSumSet(LAMBDA a : budget.entries[a].amount, made)
  BY <1>6 DEF CostOf
<1> HIDE DEF made, counted, reported
<1>12. made \subseteq Attempt /\ IsFiniteSet(made)
  BY <1>7, <1>8, FS_Subset
<1>13. EvaluationCost = SumOver(Amounts(budget), made)
  BY <1>10, <1>11, <1>12, AmountsSum
<1>14. SumOver(Amounts(budget), made) \in Nat
  BY <1>7, <1>8, <1>12, SumNat
<1>15. SumOver(Amounts(budget), made) <= SumOver(Amounts(budget), reported)
  BY <1>7, <1>8, SumMonotone
<1>16. NativeAttempts = {} => budget.cost["evaluation"] = 0
  BY <1>1, <1>3, NothingSpent DEF CostInvs
<1> QED BY <1>4, <1>5, <1>9, <1>13, <1>14, <1>15, <1>16

(* Under fail-run, a Run that has not failed knows the cost of everything  *)
(* it tracks, of either stage.                                             *)
LEMMA TrackedReports ==
  ASSUME IInv, CostInvs, UnknownCostMode = "fail-run", budget.failed = FALSE,
         NEW a \in Settled(budget), CostTracked(a)
  PROVE  CostReported(a)
<1>1. ~Rejected(a, budget.entries[a])
  BY DEF CostInvs, NoticeInv, ChargesSound
<1>2. budget.entries[a] \in Charge
  BY DEF IInv, LedgerOK, BudgetTyped, Budget, Settled
<1> QED BY <1>1, <1>2 DEF Rejected, Charge, CostReport, CostReported

(* With a limit of the Run everything is tracked, with one of the stage    *)
(* what the stage pays for.                                                *)
LEMMA LimitsTrack ==
  ASSUME NEW a \in Attempt
  PROVE  /\ MaxProviderCost["run"] # None => CostTracked(a)
         /\ StageOf[a] = "evaluation" /\ Limited({"run", "evaluation"}) # {} => CostTracked(a)
BY DEF CostTracked, Limited

(* The policies under which a Run that completes is never refused.         *)
LimitsInUse == UnknownCostMode = "fail-run" /\ MaxProviderCost["evaluation"] # 0

(* A stage that completes is within its cost limits by the verification's  *)
(* own count.                                                              *)
LEMMA CompletedCosts ==
  ASSUME IInv, CostFacts, Over, LimitsInUse, budget.failed = FALSE
  PROVE  CompletedWithinCost
<1>1. SUFFICES ASSUME ~Stopped PROVE CompletedWithinCost
  BY DEF CompletedWithinCost
<1>2. /\ CostInvs /\ UnknownCostMode = "fail-run" /\ MaxProviderCost["evaluation"] # 0
      /\ \A e \in Evaluation : Judged(e)
  BY <1>1 DEF CostFacts, JudgedInv, LimitsInUse
<1>3. /\ NativeAttempts \subseteq Settled(budget)
      /\ \A a \in NativeAttempts : a \in Attempt /\ StageOf[a] = "evaluation"
  BY <1>2, JudgedCosts
<1>4. \A a \in Tracked(NativeAttempts) : CostReported(a)
  BY <1>2, <1>3, TrackedReports DEF Tracked
<1>5. ASSUME MaxAttemptCost # None, NEW e \in NativeRecords, CostKnown(e), NEW a \in AttemptsOf(e)
      PROVE  budget.entries[a].amount < MaxAttemptCost
  <2>1. ~AttemptExhausted(budget.entries[a])
    BY <1>2 DEF Judged, AttemptsOf, NativeRecords
  <2>2. budget.entries[a].report = "reported" /\ a \in Settled(budget)
    BY <1>3, <1>5 DEF CostKnown, CostReported, NativeAttempts
  <2>3. budget.entries[a].amount \in Nat /\ MaxAttemptCost \in Nat
    BY <1>5, <2>2, LimitAssumption
       DEF IInv, LedgerOK, BudgetTyped, Budget, Settled, Charge, OptionalNat
  <2> QED BY <1>5, <2>1, <2>2, <2>3 DEF AttemptExhausted
<1>6. ASSUME NEW a \in NativeAttempts
      PROVE  /\ ~CostExhausted(budget, "run") /\ ~CostExhausted(budget, "evaluation")
             /\ ~CostExhausted(budget, CoordinateOf[a])
  <2>1. PICK e \in NativeRecords : a \in AttemptsOf(e)
    BY DEF NativeAttempts
  <2>2. e \in Evaluation /\ a[1] = e /\ attempts[e] # <<>>
    <3>1. PICK n \in 1 .. Len(attempts[e]) : a = <<e, n>>
      BY <2>1 DEF AttemptsOf
    <3> QED BY <2>1, <3>1, EmptySeq DEF NativeRecords
  <2>3. CoordinateOf[a] = TrialOf[e]
    BY <1>3, <2>2, PlanAssumption
  <2> QED BY <1>2, <2>2, <2>3 DEF Judged
<1>7. ASSUME MaxProviderCost["evaluation"] # None
      PROVE  EvaluationCost < MaxProviderCost["evaluation"]
  <2>1. /\ EvaluationCost \in Nat /\ budget.cost["evaluation"] \in Nat
        /\ EvaluationCost <= budget.cost["evaluation"]
        /\ NativeAttempts = {} => budget.cost["evaluation"] = 0
    BY <1>2, JudgedCosts
  <2>2. MaxProviderCost["evaluation"] \in Nat
    BY <1>7, LimitAssumption DEF Scope, Stage, OptionalNat
  <2>3. NativeAttempts # {} => ~CostExhausted(budget, "evaluation")
    BY <1>6
  <2> QED BY <1>2, <1>7, <2>1, <2>2, <2>3 DEF CostExhausted
<1>8. CostVerified
  <2>1. ASSUME MaxProviderCost["run"] # None, NEW a \in Settled(budget) PROVE CostReported(a)
    BY <1>2, <2>1, LimitsTrack, TrackedReports DEF Settled
  <2>2. ASSUME Limited({"run", "evaluation"}) # {}, NEW a \in NativeAttempts PROVE CostReported(a)
    BY <1>2, <1>3, <2>2, LimitsTrack, TrackedReports
  <2> QED BY <2>1, <2>2 DEF CostVerified, Verified, ExecutionEntries, CostReported
<1> QED BY <1>4, <1>5, <1>6, <1>7, <1>8 DEF CompletedWithinCost

(* A stage that goes on in a failed Run has made no call.                  *)
LEMMA NothingJudged ==
  ASSUME IInv, CostFacts, Over, ~Stopped, budget.failed = TRUE
  PROVE  FailedBefore
<1>1. \A e \in Evaluation : attempts[e] = <<>>
  BY DEF CostFacts, JudgedInv, Judged
<1>2. NativeAttempts = {}
  BY <1>1, EmptySeq DEF NativeAttempts, NativeRecords, AttemptsOf
<1> QED BY <1>2 DEF FailedBefore

(* A stage that completes is never refused its Bundle, whichever           *)
(* reservation its policy has and whatever it limits, unless the Run had   *)
(* failed before and the stage had nothing to call for.                    *)
THEOREM CompletedBundlesAccepted ==
  ASSUME LimitsInUse
  PROVE  Spec => [](Over /\ ~Stopped => Acceptable \/ FailedBefore)
<1>1. ASSUME IInv, CostFacts, Over, ~Stopped
      PROVE  Acceptable \/ FailedBefore
  <2>1. CASE budget.failed = TRUE
    BY <1>1, <2>1, NothingJudged
  <2>2. CASE budget.failed = FALSE
    <3>1. ~CancelledLate /\ CostExhaustionBacked
      BY <1>1 DEF CancelledLate, Stopped, CostExhaustionBacked
    <3> QED BY <1>1, <2>2, <3>1, CompletedCosts, OverCoverage, OverLedger, OverInvocations
            DEF Acceptable
  <2> QED BY <1>1, <2>1, <2>2 DEF IInv, LedgerOK, BudgetTyped, Budget
<1>2. IInv /\ CostFacts => (Over /\ ~Stopped => Acceptable \/ FailedBefore)
  BY <1>1
<1> QED BY <1>2, StageInvariant, CostFactsHold, PTL

-------------------------------------------------------------------------------
(* A stage stopped by its cost.                                            *)

(* The policies whose every refusal over cost is of a spent limit, of the  *)
(* Run or of this stage, by costs that are all known: a limit of the       *)
(* Execution stage would refuse the evaluations too, for a reason that     *)
(* reads like a limit of their own.                                        *)
SpentLimitsOnly ==
  /\ BoundedOvershoot /\ UnknownCostMode = "fail-run"
  /\ MaxAttemptCost = None
  /\ \A c \in Coordinate : MaxProviderCost[c] = None
  /\ \A s \in Scope : MaxProviderCost[s] # 0
  /\ MaxProviderCost["execution"] # None => Limited({"run", "evaluation"}) = {}

CostStop == stop.kind = "budget-exhausted" /\ stop.resource = "provider-cost"

SpentIn(b, scope) == \E s \in {"run"} \cup Stage : CostExhausted(b, s) /\ scope = KindOf(s)

(* While such a stop stands, the limit it names is spent and the Run has   *)
(* not failed.                                                             *)
StopCost == CostStop => budget.failed = FALSE /\ SpentIn(budget, stop.scope)

(* An attempt of this stage is charged to it and to its trial.             *)
LEMMA CurrentPlace ==
  ASSUME NEW e \in Evaluation, Current(e) \in Attempt
  PROVE  StageOf[Current(e)] = "evaluation" /\ CoordinateOf[Current(e)] \in Coordinate
<1>1. Current(e)[1] = e /\ e \notin Coordinate
  BY PlanAssumption DEF Current
<1> QED BY <1>1, PlanAssumption, PlanFacts

(* Money once spent stays spent.                                           *)
LEMMA SpentStays ==
  ASSUME IInv, [Next]_vars, NEW scope, SpentIn(budget, scope)
  PROVE  SpentIn(budget', scope)
<1>1. PICK s \in {"run"} \cup Stage : CostExhausted(budget, s) /\ scope = KindOf(s)
  BY DEF SpentIn
<1>2. s \in Scope
  BY DEF Scope
<1>3. /\ budget.cost[s] \in Nat /\ budget'.cost[s] \in Nat
      /\ budget'.cost[s] >= budget.cost[s]
  BY <1>2, AuthorityStep, CostGrows DEF IInv, LedgerOK
<1>4. MaxProviderCost[s] \in Nat
  BY <1>1, <1>2, LimitAssumption DEF CostExhausted, OptionalNat
<1>5. CostExhausted(budget', s)
  BY <1>1, <1>3, <1>4 DEF CostExhausted
<1> QED BY <1>1, <1>5 DEF SpentIn

(* A reservation refused over cost.                                        *)
LEMMA RefusalCost ==
  ASSUME IInv, FailureRecorded, SpentLimitsOnly, ~Stopped, [Next]_vars,
         NEW e \in Evaluation, RefuseAttempt(e), CostStop'
  PROVE  budget'.failed = FALSE /\ SpentIn(budget', stop'.scope)
<1>1. PICK t \in Denials(budget, {Current(e)}, expired) : StopRefused(t)
  BY DEF RefuseAttempt
<1>2. /\ budget \in Budget /\ ReasonSound(budget)
      /\ {Current(e)} \in SUBSET Attempt
  BY CurrentAttempt DEF RefuseAttempt, IInv, LedgerOK, BudgetTyped, FailureRecorded
<1>3. /\ t.kind # "failed" /\ t.resource = "provider-cost" /\ stop'.scope = t.scope
      /\ budget' = AfterTermination(budget, t)
  <2> DEFINE b == AfterTermination(budget, t)
  <2> HIDE DEF b
  <2>1. SetStop(b, IF t.kind = "failed" THEN "failed" ELSE "budget-exhausted", t)
    BY <1>1 DEF StopRefused, b
  <2>2. /\ t.kind # "failed" /\ t.resource = "provider-cost" /\ stop'.scope = t.scope
        /\ budget' = b
    BY <2>1 DEF SetStop, StopIgnored, Stopped, CostStop
  <2> QED BY <2>2 DEF b
<1>4. /\ t \in Termination /\ budget.failed = FALSE
      /\ ~(budget.failed \/ (budget.termination # None /\ budget.termination.kind = "cancelled"))
  BY <1>1, <1>2, <1>3, DenialSound
<1>5. budget'.failed = FALSE
  BY <1>2, <1>3, <1>4, TerminationReason
<1>6. PICK s \in CheckedScopes({Current(e)}) : CostExhausted(budget, s) /\ t.scope = KindOf(s)
  BY <1>1, <1>3, <1>4, RefusedOverSpentLimit DEF SpentLimitsOnly
<1>7. s \in {"run"} \cup Stage
  <2>1. \A c \in Coordinate : ~CostExhausted(budget, c)
    BY DEF SpentLimitsOnly, CostExhausted
  <2>2. CoordinateOf[Current(e)] \in Coordinate
    BY <1>2, CurrentPlace
  <2> QED BY <1>6, <2>1, <2>2 DEF CheckedScopes
<1> QED BY <1>3, <1>5, <1>6, <1>7, SpentStays DEF SpentIn

(* A settlement that spends a limit.                                       *)
LEMMA FinishCost ==
  ASSUME IInv, SpentLimitsOnly, ~Stopped, NEW e \in Evaluation, Settlements(e), CostStop'
  PROVE  budget'.failed = FALSE /\ SpentIn(budget', stop'.scope)
<1>1. PICK charge \in PossibleCharge, outcome \in AttemptStatus : FinishAttempt(e, outcome, charge)
  BY DEF Settlements
<1> DEFINE error == SettlementError(budget, Current(e), charge)
           b == AfterSettle(budget, Current(e), charge)
           kind == IF SummaryStatus(b) = "failed" THEN "failed" ELSE "budget-exhausted"
<1>2. pc[e] = "evaluating"
  BY <1>1 DEF FinishAttempt
<1>3. budget \in Budget /\ Current(e) \in Attempt /\ charge \in Charge
  BY <1>2, CurrentAttempt, ChargeTyped DEF IInv, LedgerOK, BudgetTyped
<1>4. b \in Budget
  BY <1>3, SettleTyped
<1>5. IF error = None THEN budget' = b /\ UNCHANGED stop ELSE SetStop(b, kind, error)
  BY <1>1 DEF FinishAttempt
<1>6. SummaryStatus(b) = "failed" <=> b.failed = TRUE
  BY <1>4 DEF SummaryStatus, Budget
<1>7. /\ error # None /\ error.resource = "provider-cost" /\ stop'.scope = error.scope
      /\ budget' = b /\ b.failed = FALSE
  <2> HIDE DEF error, b
  <2>1. error # None
    BY <1>5 DEF CostStop, Stopped
  <2>2. kind = "budget-exhausted"
    BY <1>5, <2>1 DEF SetStop, StopIgnored, Stopped, CostStop
  <2>3. b.failed = FALSE
    BY <1>4, <1>6, <2>2 DEF Budget
  <2> HIDE DEF kind
  <2> QED BY <1>5, <2>1, <2>2, <2>3 DEF SetStop, StopIgnored, Stopped, CostStop
<1>8. PICK s \in {"run", StageOf[Current(e)], CoordinateOf[Current(e)]} :
             CostExhausted(b, s) /\ error.scope = KindOf(s)
  BY <1>3, <1>7, SettledOverSpentLimit DEF SpentLimitsOnly
<1>9. StageOf[Current(e)] \in Stage /\ CoordinateOf[Current(e)] \in Coordinate
  BY <1>3, CurrentPlace DEF Stage
<1>10. ~CostExhausted(b, CoordinateOf[Current(e)])
  BY <1>9 DEF CostExhausted, SpentLimitsOnly
<1> HIDE DEF error, b
<1> QED BY <1>7, <1>8, <1>9, <1>10 DEF SpentIn

(* So the invariant stands: no other step stops a stage over its cost.     *)
LEMMA StopCostKept ==
  ASSUME IInv, FailureRecorded, SpentLimitsOnly, StopCost, [Next]_vars
  PROVE  StopCost'
<1>1. SUFFICES ASSUME CostStop' PROVE budget'.failed = FALSE /\ SpentIn(budget', stop'.scope)
  BY DEF StopCost
<1>2. CASE Stopped
  <2>1. stop' = stop
    BY <1>1, <1>2, StopStep DEF StopMoves, CostStop, Stopped
  <2>2. budget.failed = FALSE /\ SpentIn(budget, stop.scope) /\ phase # "executing"
    BY <1>1, <1>2, <2>1 DEF StopCost, CostStop, FailureRecorded
  <2>3. budget'.failed = TRUE \/ budget'.failed = FALSE
    BY StepInv DEF IInv, LedgerOK, BudgetTyped, Budget
  <2> QED BY <1>1, <2>1, <2>2, <2>3, FailureKept, SpentStays DEF CostStop
<1>3. CASE ~Stopped
  <2>1. stop' # stop
    BY <1>1, <1>3 DEF CostStop, Stopped
  <2>2. ~Execution /\ ~HandOver
    BY <2>1, ElsewhereMoves DEF HandOver
  <2>3. ~WallClockTimer
    BY <1>1, <1>3 DEF WallClockTimer, SetStop, StopIgnored, Stopped, CostStop,
                      WallClockExhaustion, Ended
  <2>4. ~Fail
    BY <1>1, FailMoves DEF CostStop
  <2>5. ~SetStop(budget, "cancelled", Cancellation)
    BY <1>1, <1>3 DEF SetStop, StopIgnored, Stopped, CostStop
  <2>6. ASSUME NEW e \in Evaluation PROVE ~(AdmitAttempt(e) \/ StartAttempt(e) \/ ForgoAttempt(e))
    BY <2>1 DEF AdmitAttempt, StartAttempt, ForgoAttempt, PcAndBudget
  <2>7. \E e \in Evaluation : RefuseAttempt(e) \/ Settlements(e)
    BY <2>1, <2>2, <2>3, <2>4, <2>5, <2>6, StageStep
  <2> QED BY <1>1, <1>3, <2>7, RefusalCost, FinishCost
<1> QED BY <1>2, <1>3

(* By the verification's own count that limit is spent, then.              *)
LEMMA ExhaustionCosts ==
  ASSUME IInv, CostInvs, Over, SpentLimitsOnly, StopCost
  PROVE  CostExhaustionBacked
<1>1. SUFFICES ASSUME CostStop, Limited({"run", "evaluation"}) # {}
               PROVE  /\ \A e \in NativeRecords : CostKnown(e)
                      /\ IF stop.scope = "run" THEN CostExhausted(budget, "run")
                         ELSE /\ MaxProviderCost["evaluation"] # None
                              /\ EvaluationCost >= MaxProviderCost["evaluation"]
  BY DEF CostExhaustionBacked, CostStop
<1>2. budget.failed = FALSE /\ SpentIn(budget, stop.scope)
  BY <1>1 DEF StopCost
<1>3. \A e \in NativeRecords : CostKnown(e)
  <2>1. \A a \in NativeAttempts : CostReported(a)
    BY <1>1, <1>2, JudgedCosts, LimitsTrack, TrackedReports DEF SpentLimitsOnly
  <2> QED BY <2>1 DEF CostKnown, NativeAttempts
<1>4. PICK s \in {"run"} \cup Stage : CostExhausted(budget, s) /\ stop.scope = KindOf(s)
  BY <1>2 DEF SpentIn
<1>5. s # "execution"
  BY <1>1, <1>4 DEF SpentLimitsOnly, CostExhausted
<1>6. stop.scope = "run" <=> s = "run"
  BY <1>4, <1>5 DEF KindOf, Stage
<1>7. CASE s = "run"
  BY <1>3, <1>4, <1>6, <1>7
<1>8. CASE s = "evaluation"
  <2>1. EvaluationCost = budget.cost["evaluation"]
    BY <1>3, JudgedCosts
  <2> QED BY <1>3, <1>4, <1>6, <1>8, <2>1 DEF CostExhausted
<1> QED BY <1>4, <1>5, <1>7, <1>8 DEF Stage

(* Under bounded overshoot and fail-run, with limits of the Run and this   *)
(* stage only and none of them zero, every Evaluation Bundle passes its    *)
(* own verification, the ones of a stage stopped by its cost included,     *)
(* but in the two cases that have nothing to do with a limit.              *)
THEOREM BundlesAcceptedWithSpentLimits ==
  ASSUME SpentLimitsOnly
  PROVE  Spec => []BundleAccepted
<1>1. Init => StopCost /\ BundleAccepted
  BY DEF Init, NotStopped, StopCost, CostStop, BundleAccepted
<1>2. IInv /\ CostFacts /\ StopCost /\ [Next]_vars => StopCost'
  BY StopCostKept DEF CostFacts
<1>3. LimitsInUse
  BY DEF LimitsInUse, SpentLimitsOnly, Scope, Stage
<1>4. ASSUME IInv, CostFacts, StopCost, Over
      PROVE  Acceptable \/ CancelledLate \/ FailedBefore
  <2>1. CASE ~Stopped /\ budget.failed = TRUE
    BY <1>4, <2>1, NothingJudged
  <2>2. CASE Stopped \/ budget.failed = FALSE
    <3>1. CompletedWithinCost
      BY <1>3, <1>4, <2>2, CompletedCosts DEF CompletedWithinCost
    <3>2. CostExhaustionBacked
      BY <1>4, ExhaustionCosts DEF CostFacts
    <3> QED BY <1>4, <3>1, <3>2, OverCoverage, OverLedger, OverInvocations DEF Acceptable
  <2> QED BY <1>4, <2>1, <2>2 DEF IInv, LedgerOK, BudgetTyped, Budget
<1>5. ASSUME IInv, CostFacts, StopCost, BundleAccepted, [Next]_vars
      PROVE  BundleAccepted'
  <2>1. SUFFICES ASSUME phase' = "rejected" PROVE CancelledLate' \/ FailedBefore'
    BY DEF BundleAccepted
  <2>2. CancelledLate \/ FailedBefore
    BY <1>4, <1>5, <2>1, RefusalStep DEF BundleAccepted
  <2>3. UNCHANGED <<judging, stop, budget>>
    BY <1>5, <2>1, RefusalStep
  <2> QED BY <2>2, <2>3 DEF judging, CancelledLate, FailedBefore, Outcomes, Stopped,
                            NativeAttempts, NativeRecords, AttemptsOf
<1> QED BY <1>1, <1>2, <1>5, StageInvariant, CostFactsHold, PTL DEF Spec
===============================================================================
