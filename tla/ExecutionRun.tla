------------------------------ MODULE ExecutionRun ------------------------------
(***************************************************************************)
(* The Execution stage of a Run: runExecution, prepareBlock and            *)
(* executeCoordinate (src/eval-core/execution).  Scheduling blocks are     *)
(* admitted in batches; the trials of a batch run concurrently, bounded by *)
(* a global and a per-executor semaphore, each making attempts until one   *)
(* completes; the first reason to stop wins unless a failure follows; what *)
(* is left at the end is censored or missing, and the Bundle is verified   *)
(* before it is published.                                                 *)
(*                                                                         *)
(* One action is one stretch of code between two awaits.  A trial's        *)
(* program counter:                                                        *)
(*   idle     not admitted            found    cached, block not admitted  *)
(*   cached   replayed from the cache waiting  for a global slot           *)
(*   granted  waits for the executor  opening  trial.started, openTrial    *)
(*   ready    attempt reserved        running  the native invocation       *)
(*   backoff  waits to retry          closing  trial disposal              *)
(*   done     slots returned                                               *)
(***************************************************************************)
EXTENDS RunBudget, Sequences

CONSTANTS
  Schedule,           \* the scheduling blocks, a sequence of sets of trials
  MaxConcurrency,     \* blocks per batch, and trials running at once
  ExecutorOf,         \* the executor instance that runs a trial
  ExecutorLimit,      \* how many trials an executor takes at once
  MaxAttempts,        \* retry.maxAttempts
  CacheMode,          \* "disabled", "transparent-deterministic", "replay-only"
  FailureMode,        \* "continue", "fail-fast", "failure-threshold"
  MaxFailures,
  Faults              \* what may go wrong in the instance being checked

ASSUME ScheduleAssumption ==
  /\ Schedule \in Seq(SUBSET Coordinate)
  /\ Coordinate = UNION {Schedule[i] : i \in DOMAIN Schedule}
  /\ \A i, j \in DOMAIN Schedule : i # j => Schedule[i] \cap Schedule[j] = {}
  /\ MaxAttempts \in Nat \ {0}
  /\ Attempt = Coordinate \X (1 .. MaxAttempts)
  /\ \A a \in Attempt : CoordinateOf[a] = a[1] /\ StageOf[a] = "execution"
  /\ MaxConcurrency \in Nat \ {0}
  /\ \A c \in Coordinate : ExecutorLimit[ExecutorOf[c]] \in Nat \ {0}
  /\ FailureMode = "failure-threshold" => MaxFailures \in Nat

ASSUME FaultAssumption ==
  Faults \subseteq {"cancel", "clock", "writer", "open", "invalid", "dispose", "cache"}

VARIABLES
  phase,              \* where runExecution is
  offset,             \* blocks of the batches already finished
  cursor,             \* the block being prepared
  pc,                 \* where executeCoordinate is, for each trial
  attempts,           \* the statuses of a trial's finished attempts
  stop,               \* StopState: why the Run stops
  fatal,              \* the event writer failed and the policy is fail-run
  status              \* executionBundleStatus of the assembled Bundle

control == <<phase, offset, cursor>>
trials == <<pc, attempts>>
vars == <<phase, offset, cursor, pc, attempts, stop, fatal, status, budget, expired>>

StopKind == {"none", "cancelled", "failed", "budget-exhausted"}
AttemptStatus == {"completed", "failed", "cancelled"}

Init ==
  /\ phase = "lookup" /\ offset = 0 /\ cursor = 1
  /\ pc = [c \in Coordinate |-> "idle"]
  /\ attempts = [c \in Coordinate |-> <<>>]
  /\ stop = [kind |-> "none", resource |-> "none"]
  /\ fatal = FALSE
  /\ status = "none"
  /\ AuthorityInit

-------------------------------------------------------------------------------
(* Stopping.                                                               *)

Stopped == stop.kind # "none"

(* Fault, here and below a mistake the checks must catch: a stop is not    *)
(* noted by the budget authority.                                          *)
SetStopUnnoted(b, kind, resource) ==
  /\ stop' = IF Stopped /\ kind # "failed" THEN stop ELSE [kind |-> kind, resource |-> resource]
  /\ budget' = b

(* controller.signal: set by every setStop except budget exhaustion.       *)
Aborted == stop.kind \in {"cancelled", "failed"}

StopIgnored(kind) == stop.kind = "failed" \/ (Stopped /\ kind # "failed")

(* setStop(kind, reason) on top of the budget value b.                     *)
SetStop(b, kind, resource) ==
  /\ stop' = IF StopIgnored(kind) THEN stop ELSE [kind |-> kind, resource |-> resource]
  /\ budget' = IF StopIgnored(kind) \/ kind = "budget-exhausted" THEN b
               ELSE AfterTermination(b, IF kind = "failed" THEN Failure ELSE Cancellation)

(* Fault: the refusal is remembered by the wrong word.                     *)
StopRefusedByKind(t) ==
  SetStop(AfterTermination(budget, t),
          IF t.kind = "failed" THEN "failed" ELSE "budget-exhausted", t.kind)

(* A refused reservation: noteTermination and then setStop.                *)
StopRefused(t) ==
  SetStop(AfterTermination(budget, t),
          IF t.kind = "failed" THEN "failed" ELSE "budget-exhausted", t.resource)

GoTo(c, label) == pc' = [pc EXCEPT ![c] = label]
Current(c) == <<c, Len(attempts[c]) + 1>>

-------------------------------------------------------------------------------
(* prepareBlock, block after block of a batch.                             *)

Forgotten == [c \in Coordinate |-> IF pc[c] = "found" THEN "idle" ELSE pc[c]]

BatchEnd ==
  IF offset + MaxConcurrency < Len(Schedule) THEN offset + MaxConcurrency ELSE Len(Schedule)

LookUp ==
  /\ phase = "lookup" /\ ~Stopped /\ cursor <= BatchEnd
  /\ \E hits \in IF CacheMode = "disabled" THEN {{}}
                 ELSE IF CacheMode = "replay-only" THEN {Schedule[cursor]}
                 ELSE SUBSET Schedule[cursor] :
       pc' = [c \in Coordinate |-> IF c \in hits THEN "found" ELSE pc[c]]
  /\ phase' = "admit"
  /\ UNCHANGED <<offset, cursor, attempts, stop, fatal, status, budget, expired>>

(* A cache read that fails while the block is looked up, or a miss in      *)
(* replay-only mode.                                                       *)
LookUpFails ==
  /\ phase = "admit" /\ CacheMode # "disabled" /\ "cache" \in Faults
  /\ SetStop(budget, "failed", "none")
  /\ pc' = Forgotten
  /\ phase' = "lookup"
  /\ UNCHANGED <<offset, cursor, attempts, fatal, status, expired>>

Uncached == {c \in Schedule[cursor] : pc[c] = "idle"}
FirstAttempts == {<<c, 1>> : c \in Uncached}

AdmitBlock ==
  /\ phase = "admit"
  /\ Admissible(budget, FirstAttempts, expired)
  /\ budget' = AfterReserve(budget, FirstAttempts)
  /\ pc' = [c \in Coordinate |-> IF c \in Uncached THEN "waiting"
                                 ELSE IF pc[c] = "found" THEN "cached" ELSE pc[c]]
  /\ cursor' = cursor + 1
  /\ phase' = "lookup"
  /\ UNCHANGED <<offset, attempts, stop, fatal, status, expired>>

(* Fault: the block is skipped and the loop goes on.                       *)
RefuseBlockQuietly ==
  /\ phase = "admit" /\ FirstAttempts # {} /\ Denials(budget, FirstAttempts, expired) # {}
  /\ pc' = Forgotten /\ phase' = "lookup"
  /\ UNCHANGED <<offset, cursor, attempts, stop, fatal, status, budget, expired>>

RefuseBlock ==
  /\ phase = "admit"
  /\ FirstAttempts # {}
  /\ \E t \in Denials(budget, FirstAttempts, expired) : StopRefused(t)
  /\ pc' = Forgotten
  /\ phase' = "lookup"
  /\ UNCHANGED <<offset, cursor, attempts, fatal, status, expired>>

Dispatch ==
  /\ phase = "lookup" /\ (Stopped \/ cursor > BatchEnd)
  /\ phase' = "running"
  /\ UNCHANGED <<offset, cursor, trials, stop, fatal, status, budget, expired>>

-------------------------------------------------------------------------------
(* executeCoordinate.                                                      *)

SlotHolder == {"granted", "opening", "ready", "running", "backoff", "closing"}
GlobalHolders == {c \in Coordinate : pc[c] \in SlotHolder}
ExecutorHolders(x) == {c \in GlobalHolders : pc[c] # "granted" /\ ExecutorOf[c] = x}

TakeGlobalSlot(c) ==
  /\ phase = "running" /\ pc[c] = "waiting" /\ ~Aborted
  /\ Cardinality(GlobalHolders) < MaxConcurrency
  /\ GoTo(c, "granted")
  /\ UNCHANGED <<control, attempts, stop, fatal, status, budget, expired>>

TakeExecutorSlot(c) ==
  /\ pc[c] = "granted" /\ ~Aborted
  /\ Cardinality(ExecutorHolders(ExecutorOf[c])) < ExecutorLimit[ExecutorOf[c]]
  /\ GoTo(c, "opening")
  /\ UNCHANGED <<control, attempts, stop, fatal, status, budget, expired>>

(* Faults: the reservation is not returned; a spent budget strands a trial. *)
GiveUpHolding(c) ==
  /\ phase = "running" /\ pc[c] \in {"waiting", "granted", "opening"} /\ Aborted
  /\ GoTo(c, "done")
  /\ UNCHANGED <<control, attempts, stop, fatal, status, budget, expired>>
GiveUpWhenStopped(c) ==
  /\ phase = "running" /\ pc[c] \in {"waiting", "granted", "opening"} /\ Stopped
  /\ budget' = AfterRelease(budget, Current(c))
  /\ GoTo(c, "done")
  /\ UNCHANGED <<control, attempts, stop, fatal, status, expired>>

(* An aborted wait for a slot, and a start whose event was not delivered   *)
(* or that finds the Run aborted, return the reservation and leave.        *)
GiveUp(c) ==
  /\ phase = "running" /\ pc[c] \in {"waiting", "granted", "opening"} /\ Aborted
  /\ budget' = AfterRelease(budget, Current(c))
  /\ GoTo(c, "done")
  /\ UNCHANGED <<control, attempts, stop, fatal, status, expired>>

OpenTrial(c) ==
  /\ pc[c] = "opening" /\ ~Aborted
  /\ GoTo(c, "ready")
  /\ UNCHANGED <<control, attempts, stop, fatal, status, budget, expired>>

OpenFails(c) ==
  /\ "open" \in Faults
  /\ pc[c] = "opening" /\ ~Aborted
  /\ SetStop(AfterRelease(budget, Current(c)), "failed", "none")
  /\ GoTo(c, "done")
  /\ UNCHANGED <<control, attempts, fatal, status, expired>>

(* Fault: the invocation starts without consuming its reservation.         *)
StartAttemptUnconsumed(c) ==
  /\ pc[c] = "ready" /\ ~Aborted
  /\ GoTo(c, "running")
  /\ UNCHANGED <<control, attempts, stop, fatal, status, budget, expired>>

StartAttempt(c) ==
  /\ pc[c] = "ready" /\ ~Aborted
  /\ budget' = AfterConsume(budget, Current(c))
  /\ GoTo(c, "running")
  /\ UNCHANGED <<control, attempts, stop, fatal, status, expired>>

(* Aborted before attempt.started was delivered, or during the wait for a  *)
(* retry.                                                                  *)
AbandonAttempt(c) ==
  /\ pc[c] \in {"ready", "backoff"} /\ Aborted
  /\ GoTo(c, "closing")
  /\ UNCHANGED <<control, attempts, stop, fatal, status, budget, expired>>

(* The invocation returns, fails, times out or is cancelled, and settles.  *)
(* A timed-out attempt is failed even when the Run was aborted meanwhile.  *)
FinishAttempt(c, outcome, retryable, charge) ==
  LET settled == AfterSettle(budget, Current(c), charge)
      error == SettlementError(budget, Current(c), charge)
      failed == SummaryStatus(settled) = "failed"
  IN  /\ pc[c] = "running"
      /\ outcome = "completed" => ~Aborted
      /\ outcome = "cancelled" => Aborted
      /\ retryable => outcome = "failed" /\ Len(attempts[c]) + 1 < MaxAttempts
      /\ IF error = None
           THEN budget' = settled /\ UNCHANGED stop
           ELSE SetStop(settled, IF failed THEN "failed" ELSE "budget-exhausted", error.resource)
      /\ attempts' = [attempts EXCEPT ![c] = Append(@, outcome)]
      /\ GoTo(c, IF retryable THEN "backoff" ELSE "closing")
      /\ UNCHANGED <<control, fatal, status, expired>>

(* A result that cannot be materialised: settled without usage, and fatal. *)
InvalidResult(c, charge) ==
  /\ "invalid" \in Faults
  /\ pc[c] = "running" /\ charge.report = "unreported"
  /\ SetStop(AfterSettle(budget, Current(c), charge), "failed", "none")
  /\ attempts' = [attempts EXCEPT ![c] = Append(@, "failed")]
  /\ GoTo(c, "closing")
  /\ UNCHANGED <<control, fatal, status, expired>>

(* Fault: a retry is paid for without asking.                              *)
RetryUnasked(c) ==
  /\ pc[c] = "backoff"
  /\ budget' = AfterReserve(budget, {Current(c)})
  /\ GoTo(c, "ready")
  /\ UNCHANGED <<control, attempts, stop, fatal, status, expired>>

(* A retry does not look at the signal when there is nothing to wait for:  *)
(* in an aborted Run it is the authority that refuses.                     *)
RetryAdmitted(c) ==
  /\ pc[c] = "backoff"
  /\ Admissible(budget, {Current(c)}, expired)
  /\ budget' = AfterReserve(budget, {Current(c)})
  /\ GoTo(c, "ready")
  /\ UNCHANGED <<control, attempts, stop, fatal, status, expired>>

RetryRefused(c) ==
  /\ pc[c] = "backoff"
  /\ \E t \in Denials(budget, {Current(c)}, expired) : StopRefused(t)
  /\ GoTo(c, "closing")
  /\ UNCHANGED <<control, attempts, fatal, status, expired>>

(* finally: an unused reservation is returned, the trial disposed, and     *)
(* both slots given back.  A result whose content could not be stored      *)
(* fails the Run at the same place as a disposal that fails.               *)
CloseTrial(c) ==
  LET released == IF Current(c) \in Attempt THEN AfterRelease(budget, Current(c)) ELSE budget
  IN  /\ pc[c] = "closing"
      /\ \/ budget' = released /\ UNCHANGED stop
         \/ "dispose" \in Faults /\ SetStop(released, "failed", "none")
      /\ GoTo(c, "done")
      /\ UNCHANGED <<control, attempts, fatal, status, expired>>

-------------------------------------------------------------------------------
(* The end of a batch and the teardown.                                    *)

Idle == \A c \in Coordinate : pc[c] \in {"idle", "cached", "done"}

(* Fault: what a spent budget left unrun has no record.                    *)
RecordUncensored(c) ==
  IF pc[c] = "cached" THEN "completed"
  ELSE IF attempts[c] # <<>> THEN attempts[c][Len(attempts[c])] ELSE "missing"

RecordOf(c) ==
  IF pc[c] = "cached" THEN "completed"
  ELSE IF attempts[c] # <<>> THEN attempts[c][Len(attempts[c])]
  ELSE IF "budget-exhausted" \in {stop.kind, status} THEN "budget-censored"
  ELSE "missing"

FailedIn(blocks) == {c \in UNION {Schedule[i] : i \in blocks} : RecordOf(c) = "failed"}

(* Fault: the threshold counts the failures of the last batch only.        *)
BatchFailureLimitReached ==
  FailureMode # "continue" /\ Cardinality(FailedIn(offset + 1 .. BatchEnd)) > MaxFailures

FailureLimitReached ==
  \/ FailureMode = "fail-fast" /\ FailedIn(offset + 1 .. BatchEnd) # {}
  \/ FailureMode = "failure-threshold" /\ Cardinality(FailedIn(1 .. BatchEnd)) > MaxFailures

EndBatch ==
  /\ phase = "running" /\ Idle
  /\ IF ~Stopped /\ FailureLimitReached
       THEN SetStop(budget, "failed", "none")
       ELSE UNCHANGED <<stop, budget>>
  /\ offset' = BatchEnd
  /\ cursor' = BatchEnd + 1
  /\ phase' = IF BatchEnd = Len(Schedule) \/ stop'.kind # "none" THEN "closing" ELSE "lookup"
  /\ UNCHANGED <<trials, fatal, status, expired>>

(* Sessions are disposed; a Run that is still clean writes its cache.      *)
Teardown ==
  /\ phase = "closing"
  /\ \/ UNCHANGED <<stop, budget>>
     \/ /\ \/ "dispose" \in Faults
           \/ /\ "cache" \in Faults /\ CacheMode = "transparent-deterministic"
              /\ ~Stopped /\ \E c \in Coordinate : pc[c] = "done" /\ RecordOf(c) = "completed"
        /\ SetStop(budget, "failed", "none")
  /\ phase' = "assembling"
  /\ UNCHANGED <<offset, cursor, trials, fatal, status, expired>>

-------------------------------------------------------------------------------
(* makeBundle and verifyExecutionBundle.                                   *)

Native == {c \in Coordinate : attempts[c] # <<>>}
AttemptsMade(c) == {<<c, n>> : n \in 1 .. Len(attempts[c])}
NativeAttempts == UNION {AttemptsMade(c) : c \in Native}
Outcomes == {RecordOf(c) : c \in Coordinate}

CostLimits == {MaxProviderCost["run"], MaxProviderCost["execution"]} \ {None}
AggregateLimit == CHOOSE m \in CostLimits : \A n \in CostLimits : m <= n
CostKnown(c) == \A a \in AttemptsMade(c) : budget.entries[a].report = "reported"
CostOf(c) == Sums!MapThenSumSet(LAMBDA a : budget.entries[a].amount, AttemptsMade(c))
AuditCost == \E a \in Attempt : CostTracked(a)
ReportedCost == Sums!MapThenSumSet(CostOf, {c \in Native : CostKnown(c)})

BlocksAtomic ==
  \A i \in DOMAIN Schedule :
    \/ \A c \in Schedule[i] : RecordOf(c) = "budget-censored"
    \/ \A c \in Schedule[i] : RecordOf(c) # "budget-censored"

StatusCovered ==
  /\ ~Stopped => Outcomes \subseteq {"completed", "failed", "cancelled"}
  /\ stop.kind = "budget-exhausted" => "missing" \notin Outcomes
  /\ stop.kind = "cancelled" =>
       Outcomes \cap {"cancelled", "missing"} # {} \/ "budget-censored" \notin Outcomes

LedgerMatches == Outstanding(budget) = {} /\ Settled(budget) = NativeAttempts

RetriesAllowed ==
  \A c \in Native : \A n \in 1 .. Len(attempts[c]) - 1 : attempts[c][n] = "failed"

InvocationsAllowed ==
  \A s \in {"run", "execution"} :
    MaxInvocations[s] # None => Cardinality(NativeAttempts) <= MaxInvocations[s]

CompletedWithinCost ==
  ~Stopped =>
    /\ AuditCost /\ UnknownCostMode = "fail-run" => \A c \in Native : CostKnown(c)
    /\ \A c \in Native : CostKnown(c) =>
         /\ MaxProviderCost[c] # None => CostOf(c) < MaxProviderCost[c]
         /\ MaxAttemptCost # None =>
              \A a \in AttemptsMade(c) : budget.entries[a].amount < MaxAttemptCost
    /\ CostLimits # {} =>
         /\ ReportedCost < AggregateLimit
         /\ (\A c \in Native : CostKnown(c)) \/ SummaryStatus(budget) = "unverifiable"

(* A reason code ending in provider-cost-budget-exhausted.                 *)
CostExhaustionBacked ==
  stop = [kind |-> "budget-exhausted", resource |-> "provider-cost"] /\ CostLimits # {} =>
    /\ \A c \in Native : CostKnown(c)
    /\ ReportedCost >= AggregateLimit

Acceptable ==
  /\ BlocksAtomic /\ StatusCovered /\ LedgerMatches /\ RetriesAllowed
  /\ InvocationsAllowed /\ CompletedWithinCost /\ CostExhaustionBacked

BundleStatus == IF Stopped THEN stop.kind ELSE "completed"

Assemble ==
  /\ phase = "assembling"
  /\ status' = IF Acceptable THEN BundleStatus ELSE "none"
  /\ phase' = IF Acceptable THEN "sealed" ELSE "rejected"
  /\ UNCHANGED <<offset, cursor, trials, stop, fatal, budget, expired>>

Publish ==
  /\ phase = "sealed" /\ ~fatal
  /\ phase' = "published"
  /\ UNCHANGED <<offset, cursor, trials, stop, fatal, status, budget, expired>>

(* Fault: the Bundle assembled before the event was lost is announced.     *)
RecoverUnchanged ==
  /\ phase = "sealed" /\ fatal
  /\ phase' = "published"
  /\ UNCHANGED <<offset, cursor, trials, stop, fatal, status, budget, expired>>

(* The terminal event was lost: the Bundle is rebuilt from the failed stop *)
(* state and announced on the stream only.                                 *)
Recover ==
  /\ phase = "sealed" /\ fatal
  /\ status' = IF Acceptable THEN BundleStatus ELSE "none"
  /\ phase' = IF Acceptable THEN "published" ELSE "rejected"
  /\ UNCHANGED <<offset, cursor, trials, stop, fatal, budget, expired>>

Finished == phase \in {"published", "rejected"} /\ UNCHANGED vars

-------------------------------------------------------------------------------
(* The environment.                                                        *)

ExternalCancel ==
  /\ "cancel" \in Faults
  /\ phase \in {"lookup", "admit", "running", "closing"} /\ ~Stopped
  /\ SetStop(budget, "cancelled", "none")
  /\ UNCHANGED <<control, trials, fatal, status, expired>>

WallClockElapses ==
  /\ "clock" \in Faults /\ ~expired
  /\ phase \in {"lookup", "admit", "running", "closing"}
  /\ expired' = TRUE
  /\ UNCHANGED <<control, trials, stop, fatal, status, budget>>

WallClockTimer ==
  /\ expired /\ ~Stopped
  /\ phase \in {"lookup", "admit", "running", "closing"}
  /\ SetStop(AfterTermination(budget, WallClockExhaustion), "budget-exhausted", "wall-clock")
  /\ UNCHANGED <<control, trials, fatal, status, expired>>

(* RuntimeEventEmitter: the first write that fails under fail-run.         *)
WriterFails ==
  /\ "writer" \in Faults /\ ~fatal
  /\ phase \in {"lookup", "admit", "running", "sealed"}
  /\ fatal' = TRUE
  /\ SetStop(budget, "failed", "none")
  /\ UNCHANGED <<control, trials, status, expired>>

-------------------------------------------------------------------------------
TrialStep(c) ==
  \/ TakeGlobalSlot(c) \/ TakeExecutorSlot(c) \/ GiveUp(c)
  \/ OpenTrial(c) \/ OpenFails(c)
  \/ StartAttempt(c) \/ AbandonAttempt(c)
  \/ \E charge \in PossibleCharge :
       \/ InvalidResult(c, charge)
       \/ \E outcome \in AttemptStatus, retryable \in BOOLEAN :
            FinishAttempt(c, outcome, retryable, charge)
  \/ RetryAdmitted(c) \/ RetryRefused(c)
  \/ CloseTrial(c)

RunStep ==
  \/ LookUp \/ LookUpFails \/ AdmitBlock \/ RefuseBlock \/ Dispatch
  \/ EndBatch \/ Teardown \/ Assemble \/ Publish \/ Recover

Environment == ExternalCancel \/ WallClockElapses \/ WallClockTimer \/ WriterFails

Next == RunStep \/ (\E c \in Coordinate : TrialStep(c)) \/ Environment \/ Finished

Spec == Init /\ [][Next]_vars

(* The event loop runs every ready continuation, and the ports answer: an  *)
(* invocation within its sealed timeout, openings, disposals, the cache    *)
(* and the event writer at some time.                                      *)
FairSpec == Spec /\ WF_vars(RunStep) /\ \A c \in Coordinate : WF_vars(TrialStep(c))

-------------------------------------------------------------------------------
TypeOK ==
  /\ phase \in {"lookup", "admit", "running", "closing", "assembling", "sealed",
                "published", "rejected"}
  /\ offset \in 0 .. Len(Schedule) /\ cursor \in 1 .. Len(Schedule) + 1
  /\ pc \in [Coordinate -> SlotHolder \cup {"idle", "found", "cached", "waiting", "done"}]
  /\ \A c \in Coordinate : attempts[c] \in Seq(AttemptStatus) /\ Len(attempts[c]) <= MaxAttempts
  /\ stop \in [kind : StopKind, resource : Resource]
  /\ fatal \in BOOLEAN
  /\ status \in StopKind \cup {"completed"}
  /\ budget \in Budget /\ expired \in BOOLEAN

(* The stage, with all its trials interleaved, uses the authority the way  *)
(* RunBudget allows: nothing is consumed, settled or returned twice, every *)
(* refusal is noted, and every failure is recorded.                        *)
BudgetProtocol == AuthoritySpec

(* At every moment each trial holds exactly the reservation its position   *)
(* in the code calls for, whichever way it got there, so that none is left *)
(* when the trials are over.                                               *)
ReservationsFollowTrials ==
  \A c \in Coordinate, n \in 1 .. MaxAttempts :
    LET held == budget.reservations[<<c, n>>]
        current == <<c, n>> = Current(c)
    IN  /\ held = "consumed" <=> current /\ pc[c] = "running"
        /\ current /\ pc[c] \in {"waiting", "granted", "opening", "ready"} => held = "reserved"
        /\ held = "reserved" =>
             current /\ pc[c] \in {"waiting", "granted", "opening", "ready", "closing"}

(* The stage's reason to stop and the summary the authority reports never  *)
(* disagree, although they are written by different calls.                 *)
StopAgreesWithLedger ==
  CASE stop.kind = "none" -> budget.termination = None /\ ~budget.failed
    [] stop.kind = "cancelled" -> SummaryStatus(budget) = "cancelled"
    [] stop.kind = "failed" -> SummaryStatus(budget) = "failed"
    [] OTHER -> SummaryStatus(budget) \in {"exhausted", "unverifiable"}

(* Whatever happened during the Run, the Bundle it assembles passes its    *)
(* own verification: blocks censored whole, full coverage, a ledger that   *)
(* matches the records, limits and retry policy respected.                 *)
BundleAccepted == phase # "rejected"

(* A Run stopped by its budget still yields the Bundle it promises: the    *)
(* embedded-api reference (line 183) has budget-exhausted Runs, like       *)
(* completed ones, "include serializable Execution, Evaluation, and        *)
(* Analysis Bundles".                                                      *)
ExhaustedRunYieldsBundle == stop.kind = "budget-exhausted" => phase # "rejected"

(* A Run that lost a required event is published as failed, even when only *)
(* the terminal event was lost after the Bundle had been assembled.        *)
LostEventFailsRun == fatal /\ phase = "published" => status = "failed"

(* No block is admitted after a batch that reached the failure limit.      *)
NoAdmissionPastFailureLimit ==
  [][\A c \in Coordinate : pc[c] = "idle" /\ pc'[c] = "waiting" =>
       /\ FailureMode = "fail-fast" => FailedIn(1 .. offset) = {}
       /\ FailureMode = "failure-threshold" =>
            Cardinality(FailedIn(1 .. offset)) <= MaxFailures]_vars

(* Once the Run is aborted nothing is reserved or invoked any more, and    *)
(* what is in flight only comes back: neither a block whose look-up was    *)
(* under way, nor a trial that got its slot, nor the retry of an attempt   *)
(* that timed out after the abort and is recorded as failed.               *)
NothingStartsOnceAborted ==
  [][Aborted => \A a \in Attempt :
       budget'.reservations[a] \in {budget.reservations[a], "none"}]_vars

(* Every admitted trial makes an attempt unless the Run was aborted: a     *)
(* spent budget does not strand a trial whose invocation was reserved.     *)
AdmittedTrialsRun ==
  \A c \in Coordinate : pc[c] = "waiting" ~> (attempts[c] # <<>> \/ Aborted)

(* The Run ends, and every slot taken was given back on the way.           *)
RunEnds == <>(phase \in {"published", "rejected"} /\ GlobalHolders = {})
===============================================================================
