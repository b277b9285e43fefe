----------------------------- MODULE EvaluationRun -----------------------------
(***************************************************************************)
(* The Evaluation stage of a Run: runEvaluation and evaluateCoordinate     *)
(* (src/eval-core/evaluation).  An evaluation judges what one trial left   *)
(* behind.  Coordinates are prepared one by one, those without a usable    *)
(* source are recorded as not evaluated, the others run in batches whose   *)
(* members all run at once.  The stage spends from the ledger that the     *)
(* Execution stage left, live or stored, and its Bundle is verified        *)
(* against that ledger and against the Execution records.                  *)
(*                                                                         *)
(* One action is one stretch of code between two awaits.  The program      *)
(* counter of an evaluation:                                               *)
(*   planned     not prepared          unavailable  without usable source  *)
(*   eligible    not dispatched        looking      cache read             *)
(*   hit         cache.hit event       announced    record.started event   *)
(*   opening     evaluator resources   admitted     attempt.started event  *)
(*   evaluating  the judge call        reporting    attempt.completed      *)
(*   backoff     retry.scheduled, wait disposing    resource disposal      *)
(*   cached      replayed              done         returned               *)
(***************************************************************************)
EXTENDS RunBudget, Sequences

CONSTANTS
  Plan,               \* the planned evaluations, in order
  TrialOf,            \* the trial an evaluation judges
  MaxConcurrency,     \* evaluations per batch
  MaxAttempts,        \* retry.maxAttempts
  CacheMode,          \* "disabled" or "reuse"
  FailureMode,        \* "continue", "fail-fast", "failure-threshold"
  MaxFailures,
  Faults              \* what may go wrong in the instance being checked

Evaluation == {Plan[i] : i \in DOMAIN Plan}
FirstRun(t) == <<t, 1>>

ASSUME PlanAssumption ==
  /\ Plan \in Seq(Evaluation)
  /\ \A i, j \in DOMAIN Plan : i # j => Plan[i] # Plan[j]
  /\ TrialOf \in [Evaluation -> Coordinate] /\ Evaluation \cap Coordinate = {}
  /\ Attempt = {FirstRun(t) : t \in Coordinate} \cup (Evaluation \X (1 .. MaxAttempts))
  /\ \A a \in Attempt :
       IF a[1] \in Coordinate
         THEN StageOf[a] = "execution" /\ CoordinateOf[a] = a[1]
         ELSE StageOf[a] = "evaluation" /\ CoordinateOf[a] = TrialOf[a[1]]
  /\ MaxConcurrency \in Nat \ {0} /\ MaxAttempts \in Nat \ {0}
  /\ FailureMode = "failure-threshold" => MaxFailures \in Nat
  /\ Faults \subseteq {"cancel", "clock", "writer", "inputs", "open", "dispose", "cache"}

VARIABLES
  phase,              \* where the Run, and then runEvaluation, is
  source,             \* what the Execution Bundle holds of each trial
  pc, attempts,       \* each evaluateCoordinate, the statuses of its attempts
  batch,              \* the evaluations of the current batch
  record,             \* the records the stage has collected
  stop,               \* StopState: why the stage stops
  cancelled,          \* the host's abort signal
  fatal,              \* the event writer failed and the policy is fail-run
  status              \* evaluationBundleStatus of the assembled Bundle

judging == <<pc, attempts, batch, record>>
vars == <<phase, source, pc, attempts, batch, record, stop, cancelled, fatal, status,
          budget, expired>>

Running == {"looking", "hit", "announced", "opening", "admitted", "evaluating",
            "reporting", "backoff", "disposing"}
StopKind == {"none", "cancelled", "failed", "budget-exhausted"}
NotStopped == [kind |-> "none", resource |-> "none", scope |-> "none"]

Init ==
  /\ phase = "executing"
  /\ source = [t \in Coordinate |-> "pending"]
  /\ pc = [e \in Evaluation |-> "planned"]
  /\ attempts = [e \in Evaluation |-> <<>>]
  /\ batch = {}
  /\ record = [e \in Evaluation |-> "none"]
  /\ stop = NotStopped
  /\ cancelled = FALSE /\ fatal = FALSE
  /\ status = "none"
  /\ AuthorityInit

-------------------------------------------------------------------------------
(* The Execution stage before it, which ExecutionRun models: what matters  *)
(* here is what it leaves of each trial (a record, a censored record or    *)
(* nothing) and the ledger.  One trial after the other, one attempt each.  *)

Unrun == {t \in Coordinate : source[t] = "pending"}
Halted(left) == [t \in Coordinate |-> IF t \in Unrun THEN left ELSE source[t]]

ExecutionStep == phase = "executing" /\ Unrun # {}
  /\ UNCHANGED <<phase, judging, stop, cancelled, fatal, status, expired>>

AdmitTrial(t) ==
  /\ source[t] = "pending" /\ Outstanding(budget) = {} /\ ~cancelled
  /\ Admissible(budget, {FirstRun(t)}, expired)
  /\ budget' = AfterReserve(budget, {FirstRun(t)})
  /\ UNCHANGED source

RefuseTrial(t) ==
  /\ source[t] = "pending" /\ Outstanding(budget) = {} /\ ~cancelled
  /\ \E d \in Denials(budget, {FirstRun(t)}, expired) :
       /\ budget' = AfterTermination(budget, d)
       /\ source' = Halted(IF d.kind = "failed" THEN "missing" ELSE "censored")

StartTrial(t) ==
  /\ budget.reservations[FirstRun(t)] = "reserved" /\ ~cancelled
  /\ budget' = AfterConsume(budget, FirstRun(t))
  /\ UNCHANGED source

FinishTrial(t, charge) ==
  LET settled == AfterSettle(budget, FirstRun(t), charge)
      failed == SummaryStatus(settled) = "failed"
      rest == IF failed THEN "missing" ELSE "censored"
  IN  /\ budget.reservations[FirstRun(t)] = "consumed"
      /\ budget' = IF failed THEN AfterTermination(settled, Failure) ELSE settled
      /\ source' = IF SettlementError(budget, FirstRun(t), charge) = None
                     THEN [source EXCEPT ![t] = "record"]
                     ELSE [Halted(rest) EXCEPT ![t] = "record"]

AbandonTrials ==
  /\ cancelled /\ \A t \in Coordinate : budget.reservations[FirstRun(t)] # "consumed"
  /\ \/ Outstanding(budget) = {} /\ UNCHANGED budget
     \/ \E a \in Outstanding(budget) : budget' = AfterRelease(budget, a)
  /\ source' = Halted("missing")

(* Fault, here and below a mistake the checks must catch: the stage opens  *)
(* a ledger of its own.                                                    *)
HandOverFresh ==
  /\ phase = "executing" /\ Unrun = {}
  /\ budget' = EmptyBudget
  /\ phase' = "handed"
  /\ UNCHANGED <<source, judging, stop, cancelled, fatal, status, expired>>

(* startEvaluation: the live authority and the host's signal, or a stored  *)
(* Bundle scored later by a caller with a signal of its own.               *)
HandOver ==
  /\ phase = "executing" /\ Unrun = {}
  /\ \/ UNCHANGED <<budget, cancelled>>
     \/ budget' = AfterHandoff(budget) /\ cancelled' = FALSE
  /\ phase' = "handed"
  /\ UNCHANGED <<source, judging, stop, fatal, status, expired>>

-------------------------------------------------------------------------------
(* Stopping.                                                               *)

Stopped == stop.kind # "none"
Aborted == stop.kind \in {"cancelled", "failed"}
StopIgnored(kind) == stop.kind = "failed" \/ (Stopped /\ kind # "failed")

(* setStop(kind, reason) on top of the budget value b; the reason is t.    *)
SetStop(b, kind, t) ==
  /\ stop' = IF StopIgnored(kind) THEN stop
             ELSE [kind |-> kind, resource |-> t.resource, scope |-> t.scope]
  /\ budget' = IF StopIgnored(kind) \/ kind = "budget-exhausted" THEN b
               ELSE AfterTermination(b, IF kind = "failed" THEN Failure ELSE Cancellation)

Fail == SetStop(budget, "failed", Failure)

(* A refused reservation: noteTermination and then setStop.                *)
StopRefused(t) ==
  SetStop(AfterTermination(budget, t),
          IF t.kind = "failed" THEN "failed" ELSE "budget-exhausted", t)

-------------------------------------------------------------------------------
(* runEvaluation, up to the first batch.                                   *)

Position(e) == CHOOSE i \in DOMAIN Plan : Plan[i] = e
Before(S, e) == {f \in S : Position(f) < Position(e)}

(* Fault: the slice takes one evaluation too many.                         *)
FirstInclusive(n, S) == {e \in S : Cardinality(Before(S, e)) <= n}

First(n, S) == {e \in S : Cardinality(Before(S, e)) < n}
At(label) == {e \in Evaluation : pc[e] = label}

Begin ==
  /\ phase = "handed"
  /\ IF cancelled THEN SetStop(budget, "cancelled", Cancellation) ELSE UNCHANGED <<stop, budget>>
  /\ phase' = "starting"
  /\ UNCHANGED <<source, judging, cancelled, fatal, status, expired>>

(* run.started was delivered, or the stage throws at once.                 *)
Started ==
  /\ phase = "starting"
  /\ phase' = IF Stopped THEN "closing" ELSE "preparing"
  /\ UNCHANGED <<source, judging, stop, cancelled, fatal, status, budget, expired>>

(* One turn of prepareEvaluationCoordinates.                               *)
Prepare ==
  /\ phase = "preparing" /\ ~Stopped
  /\ \E e \in First(1, At("planned")) :
       \E label \in IF source[TrialOf[e]] # "record" THEN {"unavailable"}
                    ELSE IF "inputs" \in Faults THEN {"eligible", "unavailable"}
                    ELSE {"eligible"} :
         pc' = [pc EXCEPT ![e] = label]
  /\ UNCHANGED <<phase, source, attempts, batch, record, stop, cancelled, fatal, status,
                 budget, expired>>

(* The content resolver throws: an internal failure of the runtime.        *)
PrepareFails ==
  /\ phase = "preparing" /\ ~Stopped /\ "inputs" \in Faults
  /\ \E e \in First(1, At("planned")) : source[TrialOf[e]] = "record"
  /\ Fail
  /\ phase' = "closing"
  /\ UNCHANGED <<source, judging, cancelled, fatal, status, expired>>

Prepared ==
  /\ phase = "preparing" /\ (Stopped \/ At("planned") = {})
  /\ phase' = "recording"
  /\ UNCHANGED <<source, judging, stop, cancelled, fatal, status, budget, expired>>

Unrecorded == {e \in At("unavailable") : record[e] = "none"}

RecordUnavailable ==
  /\ phase = "recording" /\ ~Stopped
  /\ \E e \in First(1, Unrecorded) : record' = [record EXCEPT ![e] = "not-evaluated"]
  /\ UNCHANGED <<phase, source, pc, attempts, batch, stop, cancelled, fatal, status,
                 budget, expired>>

Recorded ==
  /\ phase = "recording" /\ (Stopped \/ Unrecorded = {})
  /\ phase' = "dispatching"
  /\ UNCHANGED <<source, judging, stop, cancelled, fatal, status, budget, expired>>

-------------------------------------------------------------------------------
(* A batch: all its evaluations start, and all have to return.             *)

Dispatch ==
  /\ phase = "dispatching" /\ ~Stopped /\ At("eligible") # {}
  /\ batch' = First(MaxConcurrency, At("eligible"))
  /\ pc' = [e \in Evaluation |->
              IF e \notin batch' THEN pc[e]
              ELSE IF CacheMode = "reuse" THEN "looking" ELSE "announced"]
  /\ phase' = "running"
  /\ UNCHANGED <<source, attempts, record, stop, cancelled, fatal, status, budget, expired>>

(* What an evaluation that returned contributes to the batch.              *)
SettledAs(e) ==
  IF pc[e] = "cached" THEN "completed"
  ELSE IF attempts[e] = <<>> THEN "none"
  ELSE IF attempts[e][Len(attempts[e])] = "transient" THEN "failed"
  ELSE attempts[e][Len(attempts[e])]

Returned == \A e \in batch : pc[e] \in {"cached", "done"}

(* Fault: a progress event that is not delivered drops the batch.          *)
EndBatchDropping ==
  /\ phase = "running" /\ Returned
  /\ record' = [e \in Evaluation |-> IF e \in batch /\ ~fatal THEN SettledAs(e) ELSE record[e]]
  /\ phase' = "progress"
  /\ UNCHANGED <<source, pc, attempts, batch, stop, cancelled, fatal, status, budget, expired>>

EndBatch ==
  /\ phase = "running" /\ Returned
  /\ record' = [e \in Evaluation |-> IF e \in batch THEN SettledAs(e) ELSE record[e]]
  /\ phase' = "progress"
  /\ UNCHANGED <<source, pc, attempts, batch, stop, cancelled, fatal, status, budget, expired>>

FailedAmong(S) == {e \in S : record[e] = "failed"}

(* Fault: the failures are counted before the batch is merged.             *)
StaleFailureLimitReached ==
  FailureMode # "continue" /\ Cardinality(FailedAmong(Evaluation \ batch)) > MaxFailures

FailureLimitReached ==
  \/ FailureMode = "fail-fast" /\ FailedAmong(batch) # {}
  \/ FailureMode = "failure-threshold" /\ Cardinality(FailedAmong(Evaluation)) > MaxFailures

(* After the progress event, delivered or not.                             *)
ApplyFailurePolicy ==
  /\ phase = "progress"
  /\ IF ~Stopped /\ FailureLimitReached THEN Fail ELSE UNCHANGED <<stop, budget>>
  /\ phase' = "dispatching"
  /\ UNCHANGED <<source, judging, cancelled, fatal, status, expired>>

Dispatched ==
  /\ phase = "dispatching" /\ (Stopped \/ At("eligible") = {})
  /\ phase' = "closing"
  /\ UNCHANGED <<source, judging, stop, cancelled, fatal, status, budget, expired>>

-------------------------------------------------------------------------------
(* evaluateCoordinate.                                                     *)

GoTo(e, label) == pc' = [pc EXCEPT ![e] = label]
Current(e) == <<e, Len(attempts[e]) + 1>>
OnlyPc == UNCHANGED <<phase, source, attempts, batch, record, stop, cancelled, fatal, status,
                      budget, expired>>
PcAndBudget == UNCHANGED <<phase, source, attempts, batch, record, stop, cancelled, fatal,
                           status, expired>>
PcAndStop == UNCHANGED <<phase, source, attempts, batch, record, cancelled, fatal, status, expired>>

(* Nothing has been reserved yet: an aborted evaluation just returns.      *)
Leave(e) ==
  /\ pc[e] \in {"looking", "hit", "announced"} /\ Aborted
  /\ GoTo(e, "done") /\ OnlyPc

LookUp(e) ==
  /\ pc[e] = "looking" /\ ~Aborted
  /\ \E label \in {"hit", "announced"} : GoTo(e, label)
  /\ OnlyPc

(* The cache throws, or its entry does not match the sealed coordinate.    *)
LookUpFails(e) ==
  /\ pc[e] = "looking" /\ "cache" \in Faults
  /\ Fail /\ GoTo(e, "done") /\ PcAndStop

Replay(e) == pc[e] = "hit" /\ ~Aborted /\ GoTo(e, "cached") /\ OnlyPc
Announce(e) == pc[e] = "announced" /\ ~Aborted /\ GoTo(e, "opening") /\ OnlyPc

OpenFails(e) ==
  /\ pc[e] = "opening" /\ "open" \in Faults
  /\ Fail /\ GoTo(e, "done") /\ PcAndStop

(* The top of the attempt loop, which does not look at the signal: after   *)
(* the resources were opened, or after a retry's wait.                     *)
AdmitAttempt(e) ==
  /\ pc[e] \in {"opening", "backoff"}
  /\ Admissible(budget, {Current(e)}, expired)
  /\ budget' = AfterReserve(budget, {Current(e)})
  /\ GoTo(e, "admitted") /\ UNCHANGED stop /\ PcAndStop

RefuseAttempt(e) ==
  /\ pc[e] \in {"opening", "backoff"}
  /\ \E t \in Denials(budget, {Current(e)}, expired) : StopRefused(t)
  /\ GoTo(e, "disposing") /\ PcAndStop

StartAttempt(e) ==
  /\ pc[e] = "admitted" /\ ~Aborted
  /\ budget' = AfterConsume(budget, Current(e))
  /\ GoTo(e, "evaluating") /\ PcAndBudget

(* Fault: the reservation of an attempt that is not made is kept.          *)
ForgoAttemptHolding(e) ==
  pc[e] = "admitted" /\ Aborted /\ GoTo(e, "disposing") /\ OnlyPc

ForgoAttempt(e) ==
  /\ pc[e] = "admitted" /\ Aborted
  /\ budget' = AfterRelease(budget, Current(e))
  /\ GoTo(e, "disposing") /\ PcAndBudget

(* The judge answered, failed or timed out and its answer was normalised;  *)
(* whatever came, in an aborted Run the attempt was cancelled.             *)
FinishAttempt(e, outcome, charge) ==
  LET settled == AfterSettle(budget, Current(e), charge)
      error == SettlementError(budget, Current(e), charge)
      failed == SummaryStatus(settled) = "failed"
  IN  /\ pc[e] = "evaluating"
      /\ outcome = "cancelled" <=> Aborted
      /\ IF error = None
           THEN budget' = settled /\ UNCHANGED stop
           ELSE SetStop(settled, IF failed THEN "failed" ELSE "budget-exhausted", error)
      /\ attempts' = [attempts EXCEPT ![e] = Append(@, outcome)]
      /\ GoTo(e, "reporting")
      /\ UNCHANGED <<phase, source, batch, record, cancelled, fatal, status, expired>>

(* A known exhaustion ends the retries; one hidden behind an unverifiable  *)
(* summary does not, and the next reservation is refused instead.          *)
RetryOpen(e) ==
  /\ attempts[e][Len(attempts[e])] = "transient"
  /\ ~Aborted /\ SummaryStatus(budget) # "exhausted"
  /\ Len(attempts[e]) < MaxAttempts

Reported(e) ==
  /\ pc[e] = "reporting"
  /\ GoTo(e, IF RetryOpen(e) THEN "backoff" ELSE "disposing") /\ OnlyPc

(* The wait for the next attempt was interrupted.                          *)
StopWaiting(e) == pc[e] = "backoff" /\ Aborted /\ GoTo(e, "disposing") /\ OnlyPc

Dispose(e) ==
  /\ pc[e] = "disposing"
  /\ UNCHANGED <<stop, budget>> \/ ("dispose" \in Faults /\ Fail)
  /\ GoTo(e, "done") /\ PcAndStop

-------------------------------------------------------------------------------
(* The teardown, the records that are still owed, and the Bundle.          *)

NativeRecords == {e \in Evaluation : pc[e] # "cached" /\ record[e] \notin {"none", "not-evaluated"}}

Teardown ==
  /\ phase = "closing"
  /\ \/ UNCHANGED <<stop, budget>>
     \/ "dispose" \in Faults /\ Fail
     \/ /\ "cache" \in Faults /\ CacheMode = "reuse" /\ ~Stopped
        /\ \E e \in NativeRecords : record[e] = "completed"
        /\ Fail
  /\ phase' = "completing"
  /\ UNCHANGED <<source, judging, cancelled, fatal, status, expired>>

Sourceless(e) == source[TrialOf[e]] \in {"missing", "censored"}

Complete ==
  /\ phase = "completing"
  /\ record' = [e \in Evaluation |->
                  IF record[e] = "none" /\ Sourceless(e) THEN "not-evaluated" ELSE record[e]]
  /\ phase' = "assembling"
  /\ UNCHANGED <<source, pc, attempts, batch, stop, cancelled, fatal, status, budget, expired>>

Outcomes == {record[e] : e \in Evaluation}
AttemptsOf(e) == {<<e, n>> : n \in 1 .. Len(attempts[e])}
NativeAttempts == UNION {AttemptsOf(e) : e \in NativeRecords}

Limited(scopes) == {MaxProviderCost[s] : s \in scopes} \ {None}
Least(S) == CHOOSE m \in S : \A n \in S : m <= n
CostReported(a) == budget.entries[a].report = "reported"
CostKnown(e) == \A a \in AttemptsOf(e) : CostReported(a)
CostOf(S) == Sums!MapThenSumSet(LAMBDA a : budget.entries[a].amount, {a \in S : CostReported(a)})
EvaluationCost == CostOf(UNION {AttemptsOf(e) : e \in {f \in NativeRecords : CostKnown(f)}})

StatusCovered ==
  /\ ~Stopped => Outcomes \cap {"none", "cancelled"} = {}
  /\ stop.kind = "cancelled" /\ Outcomes # {"not-evaluated"} =>
       Outcomes \cap {"none", "cancelled"} # {}

SourcesCovered == \A e \in Evaluation : Sourceless(e) => record[e] = "not-evaluated"

EvaluationEntries == {a \in Settled(budget) : StageOf[a] = "evaluation"}
LedgerMatches == Outstanding(budget) = {} /\ EvaluationEntries = NativeAttempts

RetriesAllowed ==
  \A e \in NativeRecords : \A n \in 1 .. Len(attempts[e]) - 1 : attempts[e][n] = "transient"

InvocationsAllowed ==
  /\ MaxInvocations["evaluation"] # None =>
       Cardinality(NativeAttempts) <= MaxInvocations["evaluation"]
  /\ MaxInvocations["run"] # None => budget.invocations["run"] <= MaxInvocations["run"]

(* providerCostBudgetStatus is "verified": of the Execution Bundle, of the *)
(* Run and of this stage.                                                  *)
Verified(amount, entries, limits) ==
  limits # {} => amount >= Least(limits) \/ \A a \in entries : CostReported(a)

ExecutionEntries == Settled(budget) \ EvaluationEntries
CostVerified ==
  /\ MaxProviderCost["run"] # None =>
       /\ Verified(CostOf(ExecutionEntries), ExecutionEntries, Limited({"run", "execution"}))
       /\ \/ CostExhausted(budget, "run")
          \/ \A a \in Settled(budget) : budget.entries[a].report # "unreported"
  /\ Verified(EvaluationCost, NativeAttempts, Limited({"run", "evaluation"}))

CompletedWithinCost ==
  ~Stopped =>
    /\ UnknownCostMode = "fail-run" => \A a \in Tracked(NativeAttempts) : CostReported(a)
    /\ MaxAttemptCost # None =>
         \A e \in NativeRecords : CostKnown(e) =>
           \A a \in AttemptsOf(e) : budget.entries[a].amount < MaxAttemptCost
    /\ NativeAttempts # {} => ~CostExhausted(budget, "run")
    /\ \A a \in NativeAttempts : ~CostExhausted(budget, CoordinateOf[a])
    /\ MaxProviderCost["evaluation"] # None => EvaluationCost < MaxProviderCost["evaluation"]
    /\ CostVerified \/ SummaryStatus(budget) = "unverifiable"

(* A reason code ending in provider-cost-budget-exhausted.                 *)
CostExhaustionBacked ==
  /\ stop.kind = "budget-exhausted" /\ stop.resource = "provider-cost"
  /\ Limited({"run", "evaluation"}) # {}
  => /\ \A e \in NativeRecords : CostKnown(e)
     /\ IF stop.scope = "run" THEN CostExhausted(budget, "run")
        ELSE /\ MaxProviderCost["evaluation"] # None
             /\ EvaluationCost >= MaxProviderCost["evaluation"]

Acceptable ==
  /\ StatusCovered /\ SourcesCovered /\ LedgerMatches /\ RetriesAllowed
  /\ InvocationsAllowed /\ CompletedWithinCost /\ CostExhaustionBacked

BundleStatus == IF Stopped THEN stop.kind ELSE "completed"

Assemble ==
  /\ phase = "assembling"
  /\ status' = IF Acceptable THEN BundleStatus ELSE "none"
  /\ phase' = IF Acceptable THEN "sealed" ELSE "rejected"
  /\ UNCHANGED <<source, judging, stop, cancelled, fatal, budget, expired>>

Publish ==
  /\ phase = "sealed" /\ ~fatal
  /\ phase' = "published"
  /\ UNCHANGED <<source, judging, stop, cancelled, fatal, status, budget, expired>>

(* The terminal event was lost: the Bundle is made again, as failed.       *)
Recover ==
  /\ phase = "sealed" /\ fatal
  /\ status' = IF Acceptable THEN BundleStatus ELSE "none"
  /\ phase' = IF Acceptable THEN "published" ELSE "rejected"
  /\ UNCHANGED <<source, judging, stop, cancelled, fatal, budget, expired>>

Finished == phase \in {"published", "rejected"} /\ UNCHANGED vars

-------------------------------------------------------------------------------
(* The environment.                                                        *)

Interruptible == {"starting", "preparing", "recording", "dispatching", "running", "progress",
                  "closing"}

(* The host aborts while the Execution stage, the hand-over or this stage  *)
(* is under way; after the teardown nobody listens.                        *)
HostCancels ==
  /\ "cancel" \in Faults /\ ~cancelled /\ ~Stopped
  /\ cancelled' = TRUE
  /\ \/ phase = "executing" /\ Unrun # {}
          /\ budget' = AfterTermination(budget, Cancellation) /\ UNCHANGED stop
     \/ phase = "handed" /\ UNCHANGED <<budget, stop>>
     \/ phase \in Interruptible /\ SetStop(budget, "cancelled", Cancellation)
  /\ UNCHANGED <<phase, source, judging, fatal, status, expired>>

(* After a failure or a cancellation reserve does not read the clock.      *)
WallClockElapses ==
  /\ "clock" \in Faults /\ ~expired /\ ~Aborted
  /\ phase \in Interruptible \cup {"executing"}
  /\ expired' = TRUE
  /\ UNCHANGED <<phase, source, judging, stop, cancelled, fatal, status, budget>>

WallClockTimer ==
  /\ expired /\ ~Stopped /\ phase \in Interruptible
  /\ SetStop(AfterTermination(budget, WallClockExhaustion), "budget-exhausted",
             WallClockExhaustion)
  /\ UNCHANGED <<phase, source, judging, cancelled, fatal, status, expired>>

WriterFails ==
  /\ "writer" \in Faults /\ ~fatal
  /\ phase \in {"starting", "recording", "running", "progress", "completing", "sealed"}
  /\ fatal' = TRUE
  /\ Fail
  /\ UNCHANGED <<phase, source, judging, cancelled, status, expired>>

-------------------------------------------------------------------------------
AttemptStatus == {"completed", "failed", "transient", "cancelled"}

Execution ==
  /\ ExecutionStep
  /\ \/ \E t \in Coordinate : \/ AdmitTrial(t) \/ RefuseTrial(t) \/ StartTrial(t)
                              \/ \E charge \in PossibleCharge : FinishTrial(t, charge)
     \/ AbandonTrials

RunStep ==
  \/ HandOver \/ Begin \/ Started
  \/ Prepare \/ PrepareFails \/ Prepared \/ RecordUnavailable \/ Recorded
  \/ Dispatch \/ EndBatch \/ ApplyFailurePolicy \/ Dispatched
  \/ Teardown \/ Complete \/ Assemble \/ Publish \/ Recover

EvaluationStep(e) ==
  \/ Leave(e) \/ LookUp(e) \/ LookUpFails(e) \/ Replay(e) \/ Announce(e) \/ OpenFails(e)
  \/ AdmitAttempt(e) \/ RefuseAttempt(e) \/ StartAttempt(e) \/ ForgoAttempt(e)
  \/ \E charge \in PossibleCharge, outcome \in AttemptStatus : FinishAttempt(e, outcome, charge)
  \/ Reported(e) \/ StopWaiting(e) \/ Dispose(e)

Environment == HostCancels \/ WallClockElapses \/ WallClockTimer \/ WriterFails

Next == Execution \/ RunStep \/ (\E e \in Evaluation : EvaluationStep(e)) \/ Environment
          \/ Finished

Spec == Init /\ [][Next]_vars

-------------------------------------------------------------------------------
TypeOK ==
  /\ phase \in Interruptible \cup {"executing", "handed", "completing", "assembling", "sealed",
                                   "published", "rejected"}
  /\ source \in [Coordinate -> {"pending", "record", "censored", "missing"}]
  /\ pc \in [Evaluation -> Running \cup {"planned", "unavailable", "eligible", "cached", "done"}]
  /\ \A e \in Evaluation : attempts[e] \in Seq(AttemptStatus) /\ Len(attempts[e]) <= MaxAttempts
  /\ batch \subseteq Evaluation /\ Cardinality(batch) <= MaxConcurrency
  /\ record \in [Evaluation ->
                   {"none", "not-evaluated", "completed", "failed", "cancelled"}]
  /\ stop \in [kind : StopKind, resource : Resource, scope : ScopeKind]
  /\ cancelled \in BOOLEAN /\ fatal \in BOOLEAN
  /\ status \in StopKind \cup {"completed"}
  /\ budget \in Budget /\ expired \in BOOLEAN

(* Two stages, one after the other and the second with its evaluations     *)
(* interleaved, use one ledger the way RunBudget allows, also when the     *)
(* second one starts from a stored snapshot.                               *)
BudgetProtocol == AuthoritySpec

(* Every way out of evaluateCoordinate, the catch block and the refused    *)
(* retry included, has settled or returned its reservation.                *)
ReservationsFollowEvaluations ==
  \A e \in Evaluation, n \in 1 .. MaxAttempts :
    LET held == budget.reservations[<<e, n>>]
        current == <<e, n>> = Current(e)
    IN  /\ held = "reserved" <=> current /\ pc[e] = "admitted"
        /\ held = "consumed" <=> current /\ pc[e] = "evaluating"

(* A cancellation after the last evaluation had settled.                   *)
CancelledLate == stop.kind = "cancelled" /\ Outcomes \cap {"none", "cancelled"} = {}

(* The Execution stage failed on an unknown cost and nothing of it was     *)
(* left to judge by a call, so that this stage had no reason to stop.      *)
FailedBefore == ~Stopped /\ budget.failed /\ NativeAttempts = {}

(* Whatever happened in either stage, the Bundle that is assembled passes  *)
(* its own verification, but in those two cases: what was paid for is      *)
(* recorded, what has no source says so, and ledger and records agree.     *)
BundleAccepted == phase = "rejected" => CancelledLate \/ FailedBefore

(* No batch is dispatched after the batches before it reached the limit.   *)
NoDispatchPastFailureLimit ==
  [][phase = "dispatching" /\ phase' = "running" =>
       /\ FailureMode = "fail-fast" => FailedAmong(Evaluation) = {}
       /\ FailureMode = "failure-threshold" =>
            Cardinality(FailedAmong(Evaluation)) <= MaxFailures]_vars

(* A cancelled Run still yields the Evaluation Bundle it promises: the     *)
(* embedded-api reference (line 183) has cancelled Runs, like completed    *)
(* ones, "include serializable Execution, Evaluation, and Analysis         *)
(* Bundles".                                                               *)
CancelledRunYieldsBundle == stop.kind = "cancelled" => phase # "rejected"
===============================================================================
