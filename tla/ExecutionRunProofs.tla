--------------------------- MODULE ExecutionRunProofs ---------------------------
(***************************************************************************)
(* Theorems about ExecutionRun for every schedule, policy and set of       *)
(* trials.  The stage is first shown to take only steps its authority      *)
(* allows (AuthorityStep), which gives the typing of the ledger and its    *)
(* invariant from RunBudgetProofs.  The inductive invariant IInv says      *)
(* where the trials of each block can be at each point of runExecution,    *)
(* what they hold, and how the reason to stop follows the ledger.          *)
(***************************************************************************)
EXTENDS ExecutionRun, RunBudgetProofs, SequenceTheorems, FunctionTheorems

(* Types, and what TypeOK leaves open of the attempts.                     *)
ControlTyped ==
  /\ phase \in {"lookup", "admit", "running", "closing", "assembling", "sealed",
                "published", "rejected"}
  /\ offset \in 0 .. Len(Schedule) /\ cursor \in 1 .. Len(Schedule) + 1

TrialsTyped ==
  /\ pc \in [Coordinate -> SlotHolder \cup {"idle", "found", "cached", "waiting", "done"}]
  /\ attempts \in [Coordinate -> Seq(AttemptStatus)]

EndingTyped ==
  /\ stop \in [kind : StopKind, resource : Resource]
  /\ fatal \in BOOLEAN
  /\ status \in StopKind \cup {"completed"}

(* The batch being prepared, run or finished.                              *)
CursorInv ==
  /\ offset + 1 <= cursor /\ cursor <= BatchEnd + 1
  /\ phase = "admit" => cursor <= BatchEnd
  /\ ~Stopped /\ phase = "running" => cursor = BatchEnd + 1
  /\ ~Stopped /\ phase \notin {"lookup", "admit", "running"} => cursor = Len(Schedule) + 1

(* Where the trials of block i are: over when the batch is, not started    *)
(* before the cursor gets there, and admitted together or not at all.      *)
BlockInv(i) ==
  \A c \in Schedule[i] :
    /\ i <= offset => pc[c] \in {"idle", "cached", "done"}
    /\ i < cursor => pc[c] # "found" /\ (Stopped \/ pc[c] # "idle")
    /\ i >= cursor => pc[c] = "idle" \/ (pc[c] = "found" /\ i = cursor /\ phase = "admit")
    /\ \A d \in Schedule[i] : pc[c] = "idle" => pc[d] \in {"idle", "found"}

(* No trial runs while blocks are prepared, or after the last batch.       *)
PhaseInv(c) ==
  /\ phase \in {"lookup", "admit"} => pc[c] \in {"idle", "found", "cached", "waiting", "done"}
  /\ phase \notin {"lookup", "admit", "running"} => pc[c] \in {"idle", "cached", "done"}

(* What a trial has tried, by where it is: nothing before its first        *)
(* invocation, failures only before a retry, something when it is over     *)
(* unless the Run was aborted.                                             *)
AttemptsInv(c) ==
  /\ pc[c] \in {"idle", "found", "cached", "waiting", "granted", "opening"} => attempts[c] = <<>>
  /\ pc[c] = "backoff" => attempts[c] # <<>>
  /\ Len(attempts[c]) <= MaxAttempts
  /\ pc[c] \in {"waiting", "granted", "opening", "ready", "running", "backoff"} =>
       Len(attempts[c]) < MaxAttempts
  /\ \A n \in 1 .. Len(attempts[c]) :
       n < Len(attempts[c]) \/ pc[c] \in {"backoff", "ready", "running"} =>
         attempts[c][n] = "failed"
  /\ pc[c] \in {"closing", "done"} /\ attempts[c] = <<>> =>
       Aborted /\ status # "budget-exhausted"

(* The ledger has one entry for each finished attempt and a reservation    *)
(* for each attempt the trial is about to make or making.                  *)
HoldingInv(c) ==
  \A n \in 1 .. MaxAttempts :
    LET held == budget.reservations[<<c, n>>]
        current == n = Len(attempts[c]) + 1
    IN  /\ budget.entries[<<c, n>>] # None <=> n <= Len(attempts[c])
        /\ held = "consumed" <=> current /\ pc[c] = "running"
        /\ current /\ pc[c] \in {"waiting", "granted", "opening", "ready"} => held = "reserved"
        /\ held = "reserved" =>
             current /\ pc[c] \in {"waiting", "granted", "opening", "ready", "closing"}

(* The reason to stop and what the authority recorded of it.               *)
StopInv == ReasonKept(stop.kind, budget)

(* The Bundle's status follows the stop state it was assembled with, and a *)
(* lost event fails the Run.                                               *)
StatusInv ==
  /\ fatal => stop.kind = "failed"
  /\ phase \in {"lookup", "admit", "running", "closing", "assembling"} => status = "none"
  /\ status = "budget-exhausted" => stop.kind \in {"budget-exhausted", "failed"}
  /\ fatal /\ phase = "published" => status = "failed"

(* The batches that are over stayed within the failure limit.              *)
LimitInv ==
  phase \in {"lookup", "admit", "running"} =>
    /\ FailureMode = "fail-fast" => FailedIn(1 .. offset) = {}
    /\ FailureMode = "failure-threshold" => Cardinality(FailedIn(1 .. offset)) <= MaxFailures

TrialsInv ==
  /\ \A i \in DOMAIN Schedule : BlockInv(i)
  /\ \A c \in Coordinate : PhaseInv(c) /\ AttemptsInv(c) /\ HoldingInv(c)

LedgerOK == BudgetTyped /\ LedgerInv(budget)

IInv ==
  /\ ControlTyped /\ TrialsTyped /\ EndingTyped /\ CursorInv
  /\ TrialsInv /\ LedgerOK /\ StopInv /\ StatusInv /\ LimitInv

-------------------------------------------------------------------------------
(* The stage calls its authority the way RunBudget allows.                 *)

(* The next attempt of a trial that may still make one is an attempt, and  *)
(* the position of its reservation is what HoldingInv says of it.          *)
LEMMA CurrentAttempt ==
  ASSUME IInv, NEW c \in Coordinate,
         pc[c] \in {"idle", "waiting", "granted", "opening", "ready", "running", "backoff"}
  PROVE  /\ Len(attempts[c]) \in Nat /\ Len(attempts[c]) + 1 \in 1 .. MaxAttempts
         /\ Current(c) \in Attempt
         /\ budget.entries[Current(c)] = None
         /\ budget.reservations[Current(c)] = "consumed" <=> pc[c] = "running"
         /\ pc[c] \in {"waiting", "granted", "opening", "ready"} =>
              budget.reservations[Current(c)] = "reserved"
         /\ pc[c] \in {"idle", "backoff"} => budget.reservations[Current(c)] = "none"
<1> DEFINE n == Len(attempts[c]) + 1
<1>1. attempts[c] \in Seq(AttemptStatus) /\ Len(attempts[c]) \in Nat
  BY DEF IInv, TrialsTyped
<1>2. MaxAttempts \in Nat /\ MaxAttempts >= 1
  BY ScheduleAssumption
<1>3. n \in 1 .. MaxAttempts
  <2>1. pc[c] = "idle" => Len(attempts[c]) = 0
    BY DEF IInv, TrialsInv, AttemptsInv
  <2>2. pc[c] # "idle" => Len(attempts[c]) < MaxAttempts
    BY DEF IInv, TrialsInv, AttemptsInv
  <2> QED BY <1>1, <1>2, <2>1, <2>2
<1>4. Current(c) = <<c, n>> /\ Current(c) \in Attempt
  BY <1>3, ScheduleAssumption DEF Current
<1>5. HoldingInv(c)
  BY DEF IInv, TrialsInv
<1>6. budget.reservations[<<c, n>>] \in {"none", "reserved", "consumed"}
  BY <1>4 DEF IInv, LedgerOK, BudgetTyped, Budget
<1>7. ~(n <= Len(attempts[c]))
  BY <1>1
<1> HIDE DEF n
<1>8. /\ budget.entries[<<c, n>>] = None
      /\ budget.reservations[<<c, n>>] = "consumed" <=> pc[c] = "running"
      /\ pc[c] \in {"waiting", "granted", "opening", "ready"} =>
           budget.reservations[<<c, n>>] = "reserved"
      /\ budget.reservations[<<c, n>>] = "reserved" =>
           pc[c] \in {"waiting", "granted", "opening", "ready", "closing"}
  BY <1>3, <1>5, <1>7 DEF HoldingInv, n
<1> QED BY <1>1, <1>3, <1>4, <1>6, <1>8 DEF n

(* A trial that has not started, or waits to retry, may ask for its next   *)
(* attempt.                                                                *)
LEMMA FreshAttempt ==
  ASSUME IInv, NEW c \in Coordinate, pc[c] \in {"idle", "backoff"}
  PROVE  /\ Current(c) \in Requestable
         /\ pc[c] = "idle" => Current(c) = <<c, 1>>
<1>1. pc[c] = "idle" => attempts[c] = <<>>
  BY DEF IInv, TrialsInv, AttemptsInv
<1> QED BY <1>1, CurrentAttempt DEF Requestable, Current

(* Nor does an empty batch change anything.                                *)
LEMMA EmptyReserve ==
  ASSUME LedgerOK
  PROVE  AfterReserve(budget, {}) = budget
<1>1. budget \in Budget /\ budget.unreserved <= budget.maxUnreserved
  BY DEF LedgerOK, BudgetTyped, LedgerInv, UnreservedExplained
<1>2. Tracked({}) = {} /\ Cardinality({}) = 0
  BY FS_EmptySet DEF Tracked
<1>3. budget.unreserved + (IF BoundedOvershoot THEN Cardinality(Tracked({})) ELSE 0)
        = budget.unreserved
  <2>1. budget.unreserved \in Nat
    BY <1>1 DEF Budget
  <2> QED BY <1>2, <2>1
<1>4. MaxOf(budget.maxUnreserved, budget.unreserved) = budget.maxUnreserved
  BY <1>1 DEF MaxOf, Budget
<1>5. [a \in Attempt |-> IF a \in {} THEN "reserved" ELSE budget.reservations[a]]
        = budget.reservations
  BY <1>1 DEF Budget
<1>6. AfterReserve(budget, {})
        = [budget EXCEPT !.reservations = budget.reservations,
                         !.unreserved = budget.unreserved,
                         !.maxUnreserved = budget.maxUnreserved]
  BY <1>3, <1>4, <1>5 DEF AfterReserve
<1> QED BY <1>1, <1>6 DEF Budget

(* What setStop leaves in the authority, on top of the budget value b.     *)
LEMMA SetStopBudget ==
  ASSUME NEW b, NEW kind, NEW resource, SetStop(b, kind, resource)
  PROVE  /\ kind \in {"failed", "budget-exhausted"} => budget' \in PerhapsFailed(b)
         /\ budget' \in {b, AfterTermination(b, Failure), AfterTermination(b, Cancellation)}
BY DEF SetStop, PerhapsFailed

(* The stage may note a failure or a cancellation at any time.             *)
LEMMA NoteOrStutter ==
  ASSUME NEW kind, NEW resource, SetStop(budget, kind, resource), UNCHANGED expired
  PROVE  [AuthorityNext]_authority
<1>1. budget' = budget => UNCHANGED authority
  BY DEF authority
<1>2. budget' # budget => NoteStop
  BY SetStopBudget DEF NoteStop
<1> QED BY <1>1, <1>2 DEF AuthorityNext

(* Every step of the stage is a step of its authority or leaves it alone.  *)
LEMMA AuthorityStep ==
  ASSUME IInv, [Next]_vars
  PROVE  [AuthorityNext]_authority
<1>1. CASE AdmitBlock
  <2>1. FirstAttempts \subseteq Requestable
    <3>1. \A c \in Uncached : c \in Coordinate /\ pc[c] = "idle"
      <4>1. cursor \in DOMAIN Schedule
        BY <1>1, ScheduleAssumption DEF AdmitBlock, IInv, CursorInv, ControlTyped, BatchEnd
      <4> QED BY <4>1, ScheduleAssumption DEF Uncached
    <3> QED BY <3>1, FreshAttempt DEF FirstAttempts
  <2>2. FirstAttempts = {} => UNCHANGED authority
    BY <1>1, EmptyReserve DEF AdmitBlock, IInv, authority
  <2>3. FirstAttempts # {} => Reserve(FirstAttempts)
    BY <1>1, <2>1 DEF AdmitBlock, Reserve
  <2> QED BY <2>1, <2>2, <2>3 DEF AuthorityNext, Requestable
<1>2. CASE RefuseBlock
  <2>1. FirstAttempts \subseteq Requestable
    <3>1. \A c \in Uncached : c \in Coordinate /\ pc[c] = "idle"
      <4>1. cursor \in DOMAIN Schedule
        BY <1>2, ScheduleAssumption DEF RefuseBlock, IInv, CursorInv, ControlTyped, BatchEnd
      <4> QED BY <4>1, ScheduleAssumption DEF Uncached
    <3> QED BY <3>1, FreshAttempt DEF FirstAttempts
  <2>2. PICK t \in Denials(budget, FirstAttempts, expired) : StopRefused(t)
    BY <1>2 DEF RefuseBlock
  <2>3. budget' \in PerhapsFailed(AfterTermination(budget, t))
    BY <2>2, SetStopBudget DEF StopRefused
  <2>4. Refuse(FirstAttempts)
    BY <1>2, <2>1, <2>3 DEF RefuseBlock, Refuse
  <2> QED BY <2>1, <2>4 DEF AuthorityNext, Requestable
<1>3. CASE LookUpFails \/ ExternalCancel \/ WriterFails
  BY <1>3, NoteOrStutter DEF LookUpFails, ExternalCancel, WriterFails
<1>4. CASE LookUp \/ Dispatch \/ Assemble \/ Publish \/ Recover
  BY <1>4 DEF LookUp, Dispatch, Assemble, Publish, Recover, authority
<1>5. CASE EndBatch \/ Teardown
  <2>1. CASE UNCHANGED budget
    BY <1>5, <2>1 DEF EndBatch, Teardown, authority
  <2>2. CASE SetStop(budget, "failed", "none")
    BY <1>5, <2>2, NoteOrStutter DEF EndBatch, Teardown
  <2> QED BY <1>5, <2>1, <2>2 DEF EndBatch, Teardown
<1>6. CASE WallClockElapses
  BY <1>6 DEF WallClockElapses, DeadlinePasses, AuthorityNext
<1>7. CASE WallClockTimer
  <2>1. budget' = AfterTermination(budget, WallClockExhaustion)
    BY <1>7 DEF WallClockTimer, SetStop
  <2> QED BY <1>7, <2>1 DEF WallClockTimer, DeadlineNoted, AuthorityNext
<1>8. CASE UNCHANGED vars
  BY <1>8 DEF vars, authority
<1>9. ASSUME NEW c \in Coordinate, TrialStep(c) PROVE [AuthorityNext]_authority
  <2>1. CASE \/ TakeGlobalSlot(c) \/ TakeExecutorSlot(c) \/ OpenTrial(c) \/ AbandonAttempt(c)
    BY <2>1 DEF TakeGlobalSlot, TakeExecutorSlot, OpenTrial, AbandonAttempt, authority
  <2>2. CASE GiveUp(c)
    <3>1. Release(Current(c)) /\ Current(c) \in Attempt
      BY <2>2, CurrentAttempt DEF GiveUp, Release, PerhapsFailed
    <3> QED BY <3>1 DEF AuthorityNext
  <2>3. CASE OpenFails(c)
    <3>1. Release(Current(c)) /\ Current(c) \in Attempt
      BY <2>3, CurrentAttempt, SetStopBudget DEF OpenFails, Release
    <3> QED BY <3>1 DEF AuthorityNext
  <2>4. CASE StartAttempt(c)
    <3>1. Consume(Current(c)) /\ Current(c) \in Attempt
      BY <2>4, CurrentAttempt DEF StartAttempt, Consume
    <3> QED BY <3>1 DEF AuthorityNext
  <2>5. ASSUME NEW charge \in PossibleCharge, InvalidResult(c, charge)
        PROVE  [AuthorityNext]_authority
    <3>1. Settle(Current(c)) /\ Current(c) \in Attempt
      BY <2>5, CurrentAttempt, SetStopBudget DEF InvalidResult, Settle
    <3> QED BY <3>1 DEF AuthorityNext
  <2>6. ASSUME NEW charge \in PossibleCharge, NEW outcome, NEW retryable,
               FinishAttempt(c, outcome, retryable, charge)
        PROVE  [AuthorityNext]_authority
    <3>1. budget' \in PerhapsFailed(AfterSettle(budget, Current(c), charge))
      <4>1. CASE SettlementError(budget, Current(c), charge) = None
        BY <2>6, <4>1 DEF FinishAttempt, PerhapsFailed
      <4>2. CASE SettlementError(budget, Current(c), charge) # None
        BY <2>6, <4>2, SetStopBudget DEF FinishAttempt
      <4> QED BY <4>1, <4>2
    <3>2. Settle(Current(c)) /\ Current(c) \in Attempt
      BY <2>6, <3>1, CurrentAttempt DEF FinishAttempt, Settle
    <3> QED BY <3>2 DEF AuthorityNext
  <2>7. CASE RetryAdmitted(c)
    <3>1. Reserve({Current(c)}) /\ {Current(c)} \in SUBSET Attempt
      BY <2>7, FreshAttempt DEF RetryAdmitted, Reserve, Requestable
    <3> QED BY <3>1 DEF AuthorityNext
  <2>8. CASE RetryRefused(c)
    <3>1. PICK t \in Denials(budget, {Current(c)}, expired) : StopRefused(t)
      BY <2>8 DEF RetryRefused
    <3>2. budget' \in PerhapsFailed(AfterTermination(budget, t))
      BY <3>1, SetStopBudget DEF StopRefused
    <3>3. Refuse({Current(c)}) /\ {Current(c)} \in SUBSET Attempt
      BY <2>8, <3>2, FreshAttempt DEF RetryRefused, Refuse, Requestable
    <3> QED BY <3>3 DEF AuthorityNext
  <2>9. CASE CloseTrial(c)
    <3> DEFINE released == IF Current(c) \in Attempt THEN AfterRelease(budget, Current(c))
                                                    ELSE budget
    <3>1. UNCHANGED expired /\ (budget' = released \/ SetStop(released, "failed", "none"))
      BY <2>9 DEF CloseTrial
    <3>2. budget' \in PerhapsFailed(released)
      BY <3>1, SetStopBudget DEF PerhapsFailed
    <3>3. CASE Current(c) \in Attempt /\ budget.reservations[Current(c)] # "none"
      <4>1. Len(attempts[c]) + 1 \in 1 .. MaxAttempts
        BY <3>3, ScheduleAssumption DEF Current
      <4>2. budget.reservations[Current(c)] = "reserved"
        <5>1. budget.reservations[Current(c)] \in {"none", "reserved", "consumed"}
          BY <3>3 DEF IInv, LedgerOK, BudgetTyped, Budget
        <5>2. budget.reservations[Current(c)] # "consumed"
          BY <2>9, <4>1 DEF CloseTrial, IInv, TrialsInv, HoldingInv, Current
        <5> QED BY <3>3, <5>1, <5>2
      <4>3. Release(Current(c))
        BY <3>1, <3>2, <3>3, <4>2 DEF Release
      <4> QED BY <3>3, <4>3 DEF AuthorityNext
    <3>4. CASE ~(Current(c) \in Attempt /\ budget.reservations[Current(c)] # "none")
      <4>1. released = budget
        BY <3>4 DEF AfterRelease
      <4>2. CASE budget' = budget
        BY <3>1, <4>2 DEF authority
      <4>3. CASE SetStop(budget, "failed", "none")
        BY <3>1, <4>3, NoteOrStutter
      <4> QED BY <3>1, <4>1, <4>2, <4>3
    <3> QED BY <3>3, <3>4
  <2> QED BY <1>9, <2>1, <2>2, <2>3, <2>4, <2>5, <2>6, <2>7, <2>8, <2>9 DEF TrialStep
<1>10. CASE Finished
  BY <1>10, <1>8 DEF Finished
<1> QED BY <1>1, <1>2, <1>3, <1>4, <1>5, <1>6, <1>7, <1>8, <1>9, <1>10
        DEF Next, RunStep, Environment

(* So the ledger keeps its type and its invariant.                         *)
LEMMA LedgerKept ==
  ASSUME IInv, [Next]_vars
  PROVE  LedgerOK'
BY AuthorityStep, BudgetStepTyped, LedgerStep DEF LedgerOK, IInv

-------------------------------------------------------------------------------
(* What every step does to the reason to stop, the trials and the control. *)

(* A reason to stop stands, but a failure replaces it and is final.        *)
StopMoves ==
  /\ stop' \in [kind : StopKind, resource : Resource]
  /\ stop.kind = "failed" => stop' = stop
  /\ Stopped => stop' = stop \/ stop'.kind = "failed"

(* setStop does nothing else to it.                                        *)
LEMMA SetStopMoves ==
  ASSUME EndingTyped, NEW b, NEW kind \in StopKind \ {"none"}, NEW resource \in Resource,
         SetStop(b, kind, resource)
  PROVE  /\ StopMoves /\ stop'.kind # "none"
         /\ kind = "failed" => stop'.kind = "failed"
         /\ ~Stopped => stop' = [kind |-> kind, resource |-> resource]
<1>1. stop' = IF StopIgnored(kind) THEN stop ELSE [kind |-> kind, resource |-> resource]
  BY DEF SetStop
<1>2. stop \in [kind : StopKind, resource : Resource]
  BY DEF EndingTyped
<1>3. [kind |-> kind, resource |-> resource] \in [kind : StopKind, resource : Resource]
  OBVIOUS
<1> QED BY <1>1, <1>2, <1>3 DEF StopMoves, StopIgnored, Stopped

(* A refusal and a settlement stop the Run for a known reason.             *)
LEMMA RefusalMoves ==
  ASSUME IInv, NEW B \in SUBSET Attempt, NEW t \in Denials(budget, B, expired), StopRefused(t)
  PROVE  StopMoves /\ stop'.kind # "none"
<1>1. t \in Termination
  BY DenialsTyped DEF IInv, LedgerOK, BudgetTyped
<1>2. t.resource \in Resource
  BY <1>1 DEF Termination
<1>3. (IF t.kind = "failed" THEN "failed" ELSE "budget-exhausted") \in StopKind \ {"none"}
  BY DEF StopKind
<1> QED BY <1>2, <1>3, SetStopMoves DEF StopRefused, IInv

(* So does a settlement.                                                   *)
LEMMA FinishMoves ==
  ASSUME IInv, NEW c, NEW charge, NEW outcome, NEW retryable,
         FinishAttempt(c, outcome, retryable, charge)
  PROVE  StopMoves
<1> DEFINE error == SettlementError(budget, Current(c), charge)
           settled == AfterSettle(budget, Current(c), charge)
           kind == IF SummaryStatus(settled) = "failed" THEN "failed" ELSE "budget-exhausted"
<1>1. error = None => stop' = stop
  BY DEF FinishAttempt
<1>2. error # None => error.resource \in Resource
  <2>1. error \in Termination \cup {None}
    BY SettlementErrorTyped
  <2> QED BY <2>1 DEF Termination
<1>3. error # None => SetStop(settled, kind, error.resource)
  BY DEF FinishAttempt
<1>4. kind \in StopKind \ {"none"}
  BY DEF StopKind
<1>5. stop' = stop => StopMoves
  BY DEF StopMoves, IInv, EndingTyped
<1> HIDE DEF error, settled, kind
<1> QED BY <1>1, <1>2, <1>3, <1>4, <1>5, SetStopMoves DEF IInv

(* And so does every step.                                                 *)
LEMMA StopStep ==
  ASSUME IInv, [Next]_vars
  PROVE  StopMoves
<1>0. /\ "none" \in Resource /\ "wall-clock" \in Resource
      /\ {"failed", "cancelled", "budget-exhausted"} \subseteq StopKind \ {"none"}
  BY DEF Resource, StopKind
<1>1. CASE stop' = stop
  BY <1>1 DEF StopMoves, IInv, EndingTyped
<1>2. ASSUME NEW b, SetStop(b, "failed", "none")
      PROVE  StopMoves
  BY <1>0, <1>2, SetStopMoves DEF IInv
<1>3. CASE RunStep
  <2>1. CASE RefuseBlock
    <3>1. FirstAttempts \in SUBSET Attempt
      <4>1. cursor \in DOMAIN Schedule
        BY <2>1, ScheduleAssumption DEF RefuseBlock, IInv, CursorInv, ControlTyped, BatchEnd
      <4>2. \A c \in Uncached : c \in Coordinate /\ <<c, 1>> \in Attempt
        BY <4>1, ScheduleAssumption DEF Uncached
      <4> QED BY <4>2 DEF FirstAttempts
    <3> QED BY <2>1, <3>1, RefusalMoves DEF RefuseBlock
  <2>2. CASE ~RefuseBlock
    BY <1>1, <1>2, <1>3, <2>2
       DEF RunStep, LookUp, LookUpFails, AdmitBlock, Dispatch, EndBatch, Teardown, Assemble,
           Publish, Recover
  <2> QED BY <2>1, <2>2
<1>4. CASE Environment
  BY <1>0, <1>1, <1>2, <1>4, SetStopMoves
     DEF Environment, ExternalCancel, WallClockElapses, WallClockTimer, WriterFails, IInv
<1>5. ASSUME NEW c \in Coordinate, TrialStep(c) PROVE StopMoves
  <2>1. CASE \E charge \in PossibleCharge, outcome \in AttemptStatus, retryable \in BOOLEAN :
               FinishAttempt(c, outcome, retryable, charge)
    BY <2>1, FinishMoves
  <2>2. CASE RetryRefused(c)
    <3>1. {Current(c)} \in SUBSET Attempt
      BY <2>2, CurrentAttempt DEF RetryRefused
    <3> QED BY <2>2, <3>1, RefusalMoves DEF RetryRefused
  <2>3. CASE CloseTrial(c) \/ OpenFails(c) \/ \E charge \in PossibleCharge : InvalidResult(c, charge)
    BY <1>1, <1>2, <2>3 DEF CloseTrial, OpenFails, InvalidResult
  <2>4. CASE \/ TakeGlobalSlot(c) \/ TakeExecutorSlot(c) \/ GiveUp(c) \/ OpenTrial(c)
             \/ StartAttempt(c) \/ AbandonAttempt(c) \/ RetryAdmitted(c)
    BY <1>1, <2>4 DEF TakeGlobalSlot, TakeExecutorSlot, GiveUp, OpenTrial, StartAttempt,
                      AbandonAttempt, RetryAdmitted
  <2> QED BY <1>5, <2>1, <2>2, <2>3, <2>4 DEF TrialStep
<1>6. CASE UNCHANGED vars \/ Finished
  BY <1>1, <1>6 DEF vars, Finished
<1> QED BY <1>3, <1>4, <1>5, <1>6 DEF Next

(* A step of trial c moves that trial only, while its batch runs, and adds *)
(* an attempt only when the invocation returns.                            *)
TrialMoves(c) ==
  /\ UNCHANGED <<control, fatal, status, expired>> /\ phase = "running"
  /\ pc[c] \in SlotHolder \cup {"waiting"} /\ pc'[c] \in SlotHolder \cup {"done"}
  /\ pc' = [pc EXCEPT ![c] = pc'[c]]
  /\ \/ attempts' = attempts
     \/ /\ pc[c] = "running"
        /\ \E outcome \in AttemptStatus :
             attempts' = [attempts EXCEPT ![c] = Append(@, outcome)]

(* Every handler of executeCoordinate is such a move.                      *)
LEMMA TrialStepMoves ==
  ASSUME IInv, NEW c \in Coordinate, TrialStep(c)
  PROVE  TrialMoves(c)
<1>1. pc[c] \in SlotHolder \cup {"waiting"}
  BY DEF TrialStep, TakeGlobalSlot, TakeExecutorSlot, GiveUp, OpenTrial, OpenFails, StartAttempt,
         AbandonAttempt, InvalidResult, FinishAttempt, RetryAdmitted, RetryRefused, CloseTrial,
         SlotHolder
<1>2. phase = "running"
  <2>1. pc[c] = "waiting" => phase = "running"
    BY DEF TrialStep, TakeGlobalSlot, TakeExecutorSlot, GiveUp, OpenTrial, OpenFails,
           StartAttempt, AbandonAttempt, InvalidResult, FinishAttempt, RetryAdmitted,
           RetryRefused, CloseTrial
  <2>2. pc[c] \in SlotHolder => phase = "running"
    BY DEF IInv, TrialsInv, PhaseInv, SlotHolder
  <2> QED BY <1>1, <2>1, <2>2
<1>3. UNCHANGED <<control, fatal, status, expired>>
  BY DEF TrialStep, TakeGlobalSlot, TakeExecutorSlot, GiveUp, OpenTrial, OpenFails, StartAttempt,
         AbandonAttempt, InvalidResult, FinishAttempt, RetryAdmitted, RetryRefused, CloseTrial
<1>4. \E label \in SlotHolder \cup {"done"} : GoTo(c, label)
  <2>1. {"granted", "opening", "ready", "running", "backoff", "closing"} \subseteq SlotHolder
    BY DEF SlotHolder
  <2> QED BY <2>1 DEF TrialStep, TakeGlobalSlot, TakeExecutorSlot, GiveUp, OpenTrial, OpenFails,
                      StartAttempt, AbandonAttempt, InvalidResult, FinishAttempt, RetryAdmitted,
                      RetryRefused, CloseTrial
<1>5. pc' = [pc EXCEPT ![c] = pc'[c]] /\ pc'[c] \in SlotHolder \cup {"done"}
  <2>1. pc \in [Coordinate -> SlotHolder \cup {"idle", "found", "cached", "waiting", "done"}]
    BY DEF IInv, TrialsTyped
  <2> QED BY <1>4, <2>1 DEF GoTo
<1>6. \/ attempts' = attempts
      \/ /\ pc[c] = "running"
         /\ \E outcome \in AttemptStatus :
              attempts' = [attempts EXCEPT ![c] = Append(@, outcome)]
  <2>1. "failed" \in AttemptStatus
    BY DEF AttemptStatus
  <2> QED BY <2>1 DEF TrialStep, TakeGlobalSlot, TakeExecutorSlot, GiveUp, OpenTrial, OpenFails,
                      StartAttempt, AbandonAttempt, InvalidResult, FinishAttempt, RetryAdmitted,
                      RetryRefused, CloseTrial
<1> QED BY <1>1, <1>2, <1>3, <1>5, <1>6 DEF TrialMoves

(* The environment touches the reason to stop, the clock and the writer.   *)
LEMMA EnvironmentMoves ==
  ASSUME Environment
  PROVE  UNCHANGED <<control, trials, status>>
BY DEF Environment, ExternalCancel, WallClockElapses, WallClockTimer, WriterFails

-------------------------------------------------------------------------------
(* The cursor, the batches and the places of the trials.                   *)

(* A batch ends after the blocks before it and within the schedule.        *)
LEMMA BatchBounds ==
  ASSUME offset \in 0 .. Len(Schedule)
  PROVE  /\ Len(Schedule) \in Nat /\ BatchEnd \in 0 .. Len(Schedule)
         /\ offset <= BatchEnd /\ (offset < Len(Schedule) => offset < BatchEnd)
         /\ DOMAIN Schedule = 1 .. Len(Schedule)
<1>1. Len(Schedule) \in Nat /\ DOMAIN Schedule = 1 .. Len(Schedule)
  BY ScheduleAssumption
<1>2. MaxConcurrency \in Nat /\ MaxConcurrency >= 1
  BY ScheduleAssumption
<1> QED BY <1>1, <1>2 DEF BatchEnd

(* The end of a batch moves the cursor past it.                            *)
LEMMA EndBatchCursor ==
  ASSUME IInv, EndBatch
  PROVE  /\ offset' = BatchEnd /\ cursor' = BatchEnd + 1
         /\ ControlTyped' /\ CursorInv'
         /\ stop'.kind = "none" => cursor' = cursor
         /\ cursor <= cursor'
<1>1. offset' = BatchEnd /\ cursor' = BatchEnd + 1 /\ phase = "running"
  BY DEF EndBatch
<1>2. phase' = IF BatchEnd = Len(Schedule) \/ stop'.kind # "none" THEN "closing" ELSE "lookup"
  BY DEF EndBatch
<1>3. /\ Len(Schedule) \in Nat /\ BatchEnd \in 0 .. Len(Schedule)
  BY BatchBounds DEF IInv, ControlTyped
<1>4. ControlTyped'
  BY <1>1, <1>2, <1>3 DEF ControlTyped
<1>5. /\ BatchEnd' \in 0 .. Len(Schedule) /\ offset' <= BatchEnd'
      /\ offset' < Len(Schedule) => offset' < BatchEnd'
  <2>1. offset' \in 0 .. Len(Schedule)
    BY <1>1, <1>3
  <2> DEFINE end(n, length) == IF n + MaxConcurrency < length THEN n + MaxConcurrency ELSE length
  <2>2. BatchEnd' = end(offset', Len(Schedule))
    BY DEF BatchEnd
  <2>3. MaxConcurrency \in Nat /\ MaxConcurrency >= 1
    BY ScheduleAssumption
  <2>4. \A length \in Nat : \A n \in 0 .. length :
          /\ end(n, length) \in 0 .. length /\ n <= end(n, length)
          /\ n < length => n < end(n, length)
    BY <2>3
  <2> QED BY <1>3, <2>1, <2>2, <2>4
<1>6. CursorInv'
  <2>1. /\ offset' + 1 <= cursor' /\ cursor' <= BatchEnd' + 1
    <3>1. PICK m \in Nat, n \in Nat : offset' = m /\ BatchEnd' = n /\ m <= n
      BY <1>1, <1>3, <1>5
    <3>2. m + 1 <= m + 1 /\ m + 1 <= n + 1
      BY <3>1
    <3>3. cursor' = m + 1
      BY <1>1, <3>1
    <3> QED BY <3>1, <3>2, <3>3
  <2>2. phase' = "closing" /\ stop'.kind = "none" => cursor' = Len(Schedule) + 1
    BY <1>1, <1>2
  <2>3. phase' \in {"closing", "lookup"}
    BY <1>2
  <2> QED BY <2>1, <2>2, <2>3 DEF CursorInv, Stopped
<1>7. stop'.kind = "none" => ~Stopped
  <2>1. StopMoves
    BY StopStep DEF Next, RunStep
  <2> QED BY <2>1 DEF StopMoves, Stopped
<1> QED BY <1>1, <1>3, <1>4, <1>6, <1>7 DEF IInv, CursorInv, ControlTyped

(* Types, and the cursor within its batch.                                 *)
LEMMA ControlKept ==
  ASSUME IInv, [Next]_vars
  PROVE  ControlTyped' /\ CursorInv'
<1>0. /\ StopMoves /\ (Stopped => Stopped') /\ (Stopped' \/ ~Stopped)
      /\ Len(Schedule) \in Nat /\ BatchEnd \in 0 .. Len(Schedule)
      /\ offset \in Nat /\ cursor \in Nat
  BY StopStep, BatchBounds DEF StopMoves, Stopped, IInv, ControlTyped
<1>1. CASE UNCHANGED control
  <2>1. BatchEnd' = BatchEnd
    BY <1>1 DEF control, BatchEnd
  <2> QED BY <1>0, <1>1, <2>1 DEF control, IInv, ControlTyped, CursorInv
<1>2. CASE EndBatch
  BY <1>2, EndBatchCursor
<1>3. ASSUME UNCHANGED offset, RunStep, ~EndBatch
      PROVE  ControlTyped' /\ CursorInv'
  <2>1. BatchEnd' = BatchEnd
    BY <1>3 DEF BatchEnd
  <2>2. CASE LookUp \/ LookUpFails \/ RefuseBlock
    BY <1>0, <2>1, <2>2 DEF LookUp, LookUpFails, RefuseBlock, IInv, ControlTyped, CursorInv
  <2>3. CASE AdmitBlock
    BY <1>0, <2>1, <2>3 DEF AdmitBlock, IInv, ControlTyped, CursorInv
  <2>4. CASE Dispatch
    BY <1>0, <2>1, <2>4 DEF Dispatch, IInv, ControlTyped, CursorInv
  <2>5. CASE Teardown \/ Assemble \/ Publish \/ Recover
    <3>1. /\ phase \in {"closing", "assembling", "sealed"}
          /\ phase' \in {"assembling", "sealed", "published", "rejected"}
          /\ cursor' = cursor
      BY <2>5 DEF Teardown, Assemble, Publish, Recover
    <3> QED BY <1>0, <1>3, <2>1, <3>1 DEF IInv, ControlTyped, CursorInv
  <2> QED BY <1>3, <2>2, <2>3, <2>4, <2>5 DEF RunStep
<1>4. RunStep /\ ~EndBatch => UNCHANGED offset
  BY DEF RunStep, LookUp, LookUpFails, AdmitBlock, RefuseBlock, Dispatch, Teardown, Assemble,
         Publish, Recover
<1>5. ASSUME NEW c \in Coordinate, TrialStep(c) PROVE UNCHANGED control
  BY <1>5, TrialStepMoves DEF TrialMoves
<1>6. Environment \/ Finished \/ UNCHANGED vars => UNCHANGED control
  BY EnvironmentMoves DEF Finished, vars, control
<1> QED BY <1>1, <1>2, <1>3, <1>4, <1>5, <1>6 DEF Next

-------------------------------------------------------------------------------
(* The reason to stop and the ledger.                                      *)

(* setStop on top of a budget that already holds the reason.               *)
LEMMA SetStopReason ==
  ASSUME EndingTyped, NEW b \in Budget, NEW resource \in Resource,
         NEW kind \in {"failed", "cancelled", "budget-exhausted"}, SetStop(b, kind, resource),
         stop.kind = "failed" => b.failed = TRUE,
         Stopped /\ kind # "failed" => ReasonKept(stop.kind, b),
         ~Stopped /\ kind = "budget-exhausted" => ReasonKept("budget-exhausted", b),
         ~Stopped /\ kind = "cancelled" => ReasonKept("none", b)
  PROVE  ReasonKept(stop'.kind, budget')
<1>1. stop' = IF StopIgnored(kind) THEN stop ELSE [kind |-> kind, resource |-> resource]
  BY DEF SetStop
<1>2. budget' = IF StopIgnored(kind) \/ kind = "budget-exhausted" THEN b
                ELSE AfterTermination(b, IF kind = "failed" THEN Failure ELSE Cancellation)
  BY DEF SetStop
<1>3. /\ Failure \in Termination /\ Failure.kind = "failed"
      /\ Cancellation \in Termination /\ Cancellation.kind = "cancelled"
  BY DEF Failure, Cancellation, Ended, Termination, TerminationKind, Resource, ScopeKind
<1>4. CASE StopIgnored(kind)
  <2>1. stop' = stop /\ budget' = b
    BY <1>1, <1>2, <1>4
  <2>2. stop.kind = "failed" => ReasonKept(stop.kind, b)
    BY DEF ReasonKept
  <2> QED BY <1>4, <2>1, <2>2 DEF StopIgnored
<1>5. CASE ~StopIgnored(kind) /\ kind = "failed"
  BY <1>1, <1>2, <1>3, <1>5, TerminationReason DEF ReasonKept
<1>6. CASE ~StopIgnored(kind) /\ kind = "budget-exhausted"
  <2>1. stop'.kind = "budget-exhausted" /\ budget' = b /\ ~Stopped
    BY <1>1, <1>2, <1>6 DEF StopIgnored
  <2> QED BY <1>6, <2>1
<1>7. CASE ~StopIgnored(kind) /\ kind = "cancelled"
  <2>1. stop'.kind = "cancelled" /\ budget' = AfterTermination(b, Cancellation) /\ ~Stopped
    BY <1>1, <1>2, <1>7 DEF StopIgnored
  <2>2. Cancellation # None
    BY <1>3, LimitAssumption
  <2>3. ReasonKept("none", b)
    BY <1>7, <2>1
  <2> QED BY <1>3, <2>1, <2>2, <2>3, TerminationReason DEF ReasonKept
<1> QED BY <1>4, <1>5, <1>6, <1>7

(* In particular a failure, on top of any bookkeeping.                     *)
LEMMA FailureReason ==
  ASSUME IInv, NEW b \in Budget, budget.failed = TRUE => b.failed = TRUE,
         SetStop(b, "failed", "none")
  PROVE  StopInv'
<1>1. "none" \in Resource /\ (stop.kind = "failed" => b.failed = TRUE)
  BY DEF Resource, IInv, StopInv, ReasonKept
<1> QED BY <1>1, SetStopReason DEF StopInv, IInv

(* A refusal, of a block or of a retry.                                    *)
LEMMA StopRefusedReason ==
  ASSUME IInv, NEW B \in SUBSET Attempt, NEW t \in Denials(budget, B, expired), StopRefused(t)
  PROVE  StopInv'
<1> DEFINE b == AfterTermination(budget, t)
           kind == IF t.kind = "failed" THEN "failed" ELSE "budget-exhausted"
<1>1. budget \in Budget /\ ReasonKept(stop.kind, budget)
  BY DEF IInv, LedgerOK, BudgetTyped, StopInv
<1>2. t \in Termination /\ t.resource \in Resource
  BY <1>1, DenialsTyped DEF Termination
<1>3. /\ b \in Budget /\ SetStop(b, kind, t.resource)
      /\ kind \in {"failed", "cancelled", "budget-exhausted"}
  BY <1>1, <1>2, TerminationTyped DEF StopRefused
<1>4. /\ t.kind = "failed" => b.failed = TRUE
      /\ t.kind # "failed" =>
           /\ stop.kind = "none" => ReasonKept("budget-exhausted", b)
           /\ stop.kind # "none" => ReasonKept(stop.kind, b)
  BY <1>1, RefusalReason
<1>5. stop.kind = "failed" => b.failed = TRUE
  BY <1>4 DEF ReasonKept
<1>6. t.kind = "failed" <=> kind = "failed"
  OBVIOUS
<1>7. /\ Stopped /\ kind # "failed" => ReasonKept(stop.kind, b)
      /\ ~Stopped /\ kind = "budget-exhausted" => ReasonKept("budget-exhausted", b)
      /\ kind # "cancelled"
  BY <1>4, <1>6 DEF Stopped
<1> HIDE DEF b, kind
<1> QED BY <1>2, <1>3, <1>5, <1>7, SetStopReason DEF StopInv, IInv

(* A settlement, whatever it returns.                                      *)
LEMMA FinishReason ==
  ASSUME IInv, NEW c \in Coordinate, NEW charge \in PossibleCharge, NEW outcome, NEW retryable,
         FinishAttempt(c, outcome, retryable, charge)
  PROVE  StopInv'
<1> DEFINE error == SettlementError(budget, Current(c), charge)
           b == AfterSettle(budget, Current(c), charge)
           kind == IF SummaryStatus(b) = "failed" THEN "failed" ELSE "budget-exhausted"
<1>1. budget \in Budget /\ ReasonKept(stop.kind, budget)
  BY DEF IInv, LedgerOK, BudgetTyped, StopInv
<1>2. Current(c) \in Attempt /\ charge \in Charge
  BY CurrentAttempt, ChargeTyped DEF FinishAttempt
<1>3. b \in Budget
  BY <1>1, <1>2, SettleTyped
<1>4. /\ error = None => ReasonKept(stop.kind, b)
      /\ SummaryStatus(b) = "failed" <=> b.failed = TRUE
      /\ error # None /\ SummaryStatus(b) # "failed" =>
           /\ stop.kind = "none" => ReasonKept("budget-exhausted", b)
           /\ stop.kind # "none" => ReasonKept(stop.kind, b)
      /\ budget.failed = TRUE => b.failed = TRUE
  BY <1>1, <1>2, SettleReason
<1>5. /\ error = None => budget' = b /\ stop' = stop
      /\ error # None => SetStop(b, kind, error.resource)
  BY DEF FinishAttempt
<1>6. error # None => error.resource \in Resource
  <2>1. error \in Termination \cup {None}
    BY SettlementErrorTyped
  <2> QED BY <2>1 DEF Termination
<1>7. /\ kind \in {"failed", "cancelled", "budget-exhausted"} /\ kind # "cancelled"
      /\ SummaryStatus(b) = "failed" <=> kind = "failed"
  OBVIOUS
<1> HIDE DEF error, b, kind
<1>8. CASE error = None
  BY <1>4, <1>5, <1>8 DEF StopInv
<1>9. CASE error # None
  <2>1. stop.kind = "failed" => b.failed = TRUE
    BY <1>1, <1>4 DEF ReasonKept
  <2>2. /\ Stopped /\ kind # "failed" => ReasonKept(stop.kind, b)
        /\ ~Stopped /\ kind = "budget-exhausted" => ReasonKept("budget-exhausted", b)
    BY <1>4, <1>7, <1>9 DEF Stopped
  <2> QED BY <1>3, <1>5, <1>6, <1>7, <1>9, <2>1, <2>2, SetStopReason DEF StopInv, IInv
<1> QED BY <1>8, <1>9

(* Whatever ends or delays a trial.                                        *)
LEMMA TrialReason ==
  ASSUME IInv, NEW c \in Coordinate, TrialStep(c)
  PROVE  StopInv'
<1>0. budget \in Budget /\ ReasonKept(stop.kind, budget)
  BY DEF IInv, LedgerOK, BudgetTyped, StopInv
<1>1. CASE \/ TakeGlobalSlot(c) \/ TakeExecutorSlot(c) \/ OpenTrial(c) \/ AbandonAttempt(c)
           \/ StartAttempt(c) \/ RetryAdmitted(c) \/ GiveUp(c)
  <2>1. stop' = stop
    BY <1>1 DEF TakeGlobalSlot, TakeExecutorSlot, OpenTrial, AbandonAttempt, StartAttempt,
                RetryAdmitted, GiveUp
  <2>2. budget' \in {budget, AfterConsume(budget, Current(c)),
                     AfterReserve(budget, {Current(c)}), AfterRelease(budget, Current(c))}
    BY <1>1 DEF TakeGlobalSlot, TakeExecutorSlot, OpenTrial, AbandonAttempt, StartAttempt,
                RetryAdmitted, GiveUp
  <2>3. budget'.termination = budget.termination /\ budget'.failed = budget.failed
    BY <1>0, <2>2, BookkeepingReason
  <2> QED BY <1>0, <2>1, <2>3, SameReason DEF StopInv
<1>2. CASE OpenFails(c)
  <2>1. AfterRelease(budget, Current(c)) \in Budget
    BY <1>0, <1>2, CurrentAttempt, ReleaseTyped DEF OpenFails
  <2>2. AfterRelease(budget, Current(c)).failed = budget.failed
    BY <1>0, BookkeepingReason
  <2> QED BY <1>2, <2>1, <2>2, FailureReason DEF OpenFails
<1>3. ASSUME NEW charge \in PossibleCharge, InvalidResult(c, charge)
      PROVE  StopInv'
  <2> DEFINE b == AfterSettle(budget, Current(c), charge)
  <2>1. Current(c) \in Attempt /\ charge \in Charge
    BY <1>3, CurrentAttempt, ChargeTyped DEF InvalidResult
  <2>2. b \in Budget
    BY <1>0, <2>1, SettleTyped
  <2>3. budget.failed = TRUE => b.failed = TRUE
    BY <1>0, <2>1, SettleReason
  <2> QED BY <1>3, <2>2, <2>3, FailureReason DEF InvalidResult
<1>4. CASE RetryRefused(c)
  <2>1. {Current(c)} \in SUBSET Attempt
    BY <1>4, CurrentAttempt DEF RetryRefused
  <2> QED BY <1>4, <2>1, StopRefusedReason DEF RetryRefused
<1>5. CASE CloseTrial(c)
  <2> DEFINE released == IF Current(c) \in Attempt THEN AfterRelease(budget, Current(c))
                                                  ELSE budget
  <2>1. released \in Budget
    BY <1>0, ReleaseTyped
  <2>2. /\ released.failed = budget.failed
        /\ released.termination = budget.termination
    BY <1>0, BookkeepingReason
  <2>3. (budget' = released /\ stop' = stop) \/ SetStop(released, "failed", "none")
    BY <1>5 DEF CloseTrial
  <2> HIDE DEF released
  <2>4. CASE budget' = released /\ stop' = stop
    BY <1>0, <2>2, <2>4, SameReason DEF StopInv
  <2>5. CASE SetStop(released, "failed", "none")
    BY <2>1, <2>2, <2>5, FailureReason
  <2> QED BY <2>3, <2>4, <2>5
<1> QED BY <1>1, <1>2, <1>3, <1>4, <1>5, FinishReason DEF TrialStep

(* Every step.                                                             *)
LEMMA StopKept ==
  ASSUME IInv, [Next]_vars
  PROVE  StopInv'
<1>0. budget \in Budget /\ ReasonKept(stop.kind, budget)
  BY DEF IInv, LedgerOK, BudgetTyped, StopInv
<1>1. CASE UNCHANGED <<stop, budget>>
  BY <1>0, <1>1 DEF StopInv
<1>2. CASE SetStop(budget, "failed", "none")
  BY <1>0, <1>2, FailureReason
<1>3. CASE AdmitBlock
  <2>1. budget' = AfterReserve(budget, FirstAttempts) /\ stop' = stop
    BY <1>3 DEF AdmitBlock
  <2> QED BY <1>0, <2>1, BookkeepingReason, SameReason DEF StopInv
<1>4. CASE RefuseBlock
  <2>1. FirstAttempts \in SUBSET Attempt
    <3>1. cursor \in DOMAIN Schedule
      BY <1>4, ScheduleAssumption DEF RefuseBlock, IInv, CursorInv, ControlTyped, BatchEnd
    <3>2. \A c \in Uncached : c \in Coordinate /\ <<c, 1>> \in Attempt
      BY <3>1, ScheduleAssumption DEF Uncached
    <3> QED BY <3>2 DEF FirstAttempts
  <2> QED BY <1>4, <2>1, StopRefusedReason DEF RefuseBlock
<1>5. CASE ExternalCancel
  <2>1. SetStop(budget, "cancelled", "none") /\ stop.kind = "none" /\ "none" \in Resource
    BY <1>5 DEF ExternalCancel, Stopped, Resource
  <2> QED BY <1>0, <2>1, SetStopReason DEF StopInv, Stopped, IInv
<1>6. CASE WallClockTimer
  <2> DEFINE b == AfterTermination(budget, WallClockExhaustion)
  <2>1. /\ SetStop(b, "budget-exhausted", "wall-clock") /\ stop.kind = "none"
        /\ "wall-clock" \in Resource
    BY <1>6 DEF WallClockTimer, Stopped, Resource
  <2>2. /\ WallClockExhaustion \in Termination
        /\ WallClockExhaustion.kind = "wall-clock-exhausted"
    BY DEF WallClockExhaustion, Ended, Termination, TerminationKind, Resource, ScopeKind
  <2>3. b \in Budget
    BY <1>0, <2>2, TerminationTyped
  <2>4. WallClockExhaustion # None
    BY <2>2, LimitAssumption
  <2>5. b.termination = WallClockExhaustion /\ b.failed = budget.failed
    BY <1>0, <2>1, <2>2, TerminationReason DEF ReasonKept
  <2> HIDE DEF b
  <2>6. ReasonKept("budget-exhausted", b)
    BY <1>0, <2>1, <2>2, <2>4, <2>5 DEF ReasonKept
  <2> QED BY <2>1, <2>3, <2>6, SetStopReason DEF StopInv, Stopped, IInv
<1>7. CASE \/ LookUp \/ LookUpFails \/ Dispatch \/ EndBatch \/ Teardown \/ Assemble \/ Publish
           \/ Recover \/ WallClockElapses \/ WriterFails \/ UNCHANGED vars \/ Finished
  BY <1>1, <1>2, <1>7 DEF LookUp, LookUpFails, Dispatch, EndBatch, Teardown, Assemble, Publish,
                          Recover, WallClockElapses, WriterFails, Finished, vars
<1> QED BY <1>3, <1>4, <1>5, <1>6, <1>7, TrialReason DEF Next, RunStep, Environment

-------------------------------------------------------------------------------
(* The places of the trials.                                               *)

(* A trial belongs to one block.                                           *)
LEMMA OneBlock ==
  /\ \A c \in Coordinate : \E i \in DOMAIN Schedule : c \in Schedule[i]
  /\ \A i, j \in DOMAIN Schedule : \A c \in Schedule[i] :
       c \in Coordinate /\ (c \in Schedule[j] => i = j)
BY ScheduleAssumption

(* The preparation of blocks and the end of batches move no attempts, and  *)
(* only the blocks at the cursor.                                          *)
LookUpMoves ==
  /\ phase = "lookup" /\ phase' = "admit" /\ UNCHANGED <<offset, cursor>>
  /\ cursor \in DOMAIN Schedule
  /\ \E hits \in SUBSET Schedule[cursor] :
       pc' = [c \in Coordinate |-> IF c \in hits THEN "found" ELSE pc[c]]

ForgetMoves ==
  /\ phase = "admit" /\ phase' = "lookup" /\ UNCHANGED <<offset, cursor>>
  /\ pc' = Forgotten

AdmitMoves ==
  /\ phase = "admit" /\ phase' = "lookup" /\ UNCHANGED offset /\ cursor' = cursor + 1
  /\ pc' = [c \in Coordinate |-> IF c \in Schedule[cursor] /\ pc[c] = "idle" THEN "waiting"
                                 ELSE IF pc[c] = "found" THEN "cached" ELSE pc[c]]

LaterPhase ==
  /\ UNCHANGED <<offset, cursor, pc>>
  /\ \/ phase = "lookup" /\ phase' = "running"
     \/ /\ phase \in {"closing", "assembling", "sealed"}
        /\ phase' \in {"assembling", "sealed", "published", "rejected"}

(* The loop of the stage makes no attempts; it looks a block up, admits or *)
(* forgets it, ends a batch, or goes on to a later phase.                  *)
LEMMA RunStepMoves ==
  ASSUME IInv, RunStep
  PROVE  /\ UNCHANGED attempts
         /\ LookUpMoves \/ ForgetMoves \/ AdmitMoves \/ LaterPhase \/ EndBatch
<1>1. UNCHANGED attempts
  BY DEF RunStep, LookUp, LookUpFails, AdmitBlock, RefuseBlock, Dispatch, EndBatch, Teardown,
         Assemble, Publish, Recover, trials
<1>2. LookUp => LookUpMoves
  <2>1. LookUp => cursor \in DOMAIN Schedule
    BY ScheduleAssumption DEF LookUp, IInv, ControlTyped, BatchEnd
  <2>2. CacheMode = "replay-only" => Schedule[cursor] \in SUBSET Schedule[cursor]
    OBVIOUS
  <2> QED BY <2>1, <2>2 DEF LookUp, LookUpMoves
<1>3. LookUpFails \/ RefuseBlock => ForgetMoves
  BY DEF LookUpFails, RefuseBlock, ForgetMoves
<1>4. AdmitBlock => AdmitMoves
  <2>1. \A c \in Coordinate : c \in Uncached <=> c \in Schedule[cursor] /\ pc[c] = "idle"
    BY DEF Uncached
  <2> QED BY <2>1 DEF AdmitBlock, AdmitMoves
<1>5. Dispatch \/ Teardown \/ Assemble \/ Publish \/ Recover => LaterPhase
  BY DEF Dispatch, Teardown, Assemble, Publish, Recover, LaterPhase, trials
<1> QED BY <1>1, <1>2, <1>3, <1>4, <1>5 DEF RunStep

(* Types.                                                                  *)
LEMMA TrialsTypedKept ==
  ASSUME IInv, [Next]_vars
  PROVE  TrialsTyped' /\ EndingTyped'
<1> DEFINE Place == SlotHolder \cup {"idle", "found", "cached", "waiting", "done"}
<1>0. pc \in [Coordinate -> Place] /\ attempts \in [Coordinate -> Seq(AttemptStatus)]
  BY DEF IInv, TrialsTyped
<1>1. TrialsTyped'
  <2>1. ASSUME NEW c \in Coordinate, TrialStep(c) PROVE TrialsTyped'
    <3>1. TrialMoves(c)
      BY <2>1, TrialStepMoves
    <3>2. pc' \in [Coordinate -> Place]
      BY <1>0, <3>1 DEF TrialMoves
    <3>3. attempts' \in [Coordinate -> Seq(AttemptStatus)]
      <4>1. \A outcome \in AttemptStatus : Append(attempts[c], outcome) \in Seq(AttemptStatus)
        BY <1>0, AppendProperties
      <4> QED BY <1>0, <3>1, <4>1 DEF TrialMoves
    <3> QED BY <3>2, <3>3 DEF TrialsTyped
  <2>2. CASE RunStep
    <3>1. UNCHANGED attempts
      BY <2>2, RunStepMoves
    <3>2. pc' \in [Coordinate -> Place]
      BY <1>0, <2>2, RunStepMoves
         DEF LookUpMoves, ForgetMoves, AdmitMoves, LaterPhase, Forgotten, EndBatch, trials
    <3> QED BY <1>0, <3>1, <3>2 DEF TrialsTyped
  <2>3. CASE UNCHANGED trials
    BY <1>0, <2>3 DEF trials, TrialsTyped
  <2>4. Environment \/ Finished \/ UNCHANGED vars => UNCHANGED trials
    BY EnvironmentMoves DEF Finished, vars, trials
  <2> QED BY <2>1, <2>2, <2>3, <2>4 DEF Next
<1>2. EndingTyped'
  <2>1. stop' \in [kind : StopKind, resource : Resource]
    BY StopStep DEF StopMoves
  <2>2. fatal' \in BOOLEAN
    <3>1. fatal' = fatal \/ fatal' = TRUE
      BY TrialStepMoves
         DEF TrialMoves, Next, RunStep, LookUp, LookUpFails, AdmitBlock, RefuseBlock, Dispatch,
             EndBatch, Teardown, Assemble, Publish, Recover, Environment, ExternalCancel,
             WallClockElapses, WallClockTimer, WriterFails, Finished, vars
    <3> QED BY <3>1 DEF IInv, EndingTyped
  <2>3. status' \in StopKind \cup {"completed"}
    <3>1. /\ status \in StopKind \cup {"completed"} /\ "none" \in StopKind
          /\ BundleStatus \in StopKind \cup {"completed"}
      BY DEF IInv, EndingTyped, BundleStatus, StopKind
    <3>2. status' \in {status, BundleStatus, "none"}
      BY TrialStepMoves
         DEF TrialMoves, Next, RunStep, LookUp, LookUpFails, AdmitBlock, RefuseBlock, Dispatch,
             EndBatch, Teardown, Assemble, Publish, Recover, Environment, ExternalCancel,
             WallClockElapses, WallClockTimer, WriterFails, Finished, vars
    <3> QED BY <3>1, <3>2
  <2> QED BY <2>1, <2>2, <2>3 DEF EndingTyped
<1> QED BY <1>1, <1>2

(* No trial runs while blocks are prepared, or after the last batch.       *)
LEMMA PhaseKept ==
  ASSUME IInv, [Next]_vars, NEW c \in Coordinate
  PROVE  PhaseInv(c)'
<1>1. PhaseInv(c)
  BY DEF IInv, TrialsInv
<1>2. ASSUME NEW d \in Coordinate, TrialStep(d) PROVE PhaseInv(c)'
  BY <1>2, TrialStepMoves DEF TrialMoves, control, PhaseInv
<1>3. CASE RunStep
  <2>1. LookUpMoves \/ ForgetMoves \/ AdmitMoves => PhaseInv(c)'
    BY <1>1 DEF LookUpMoves, ForgetMoves, AdmitMoves, Forgotten, PhaseInv
  <2>2. LaterPhase => PhaseInv(c)'
    BY <1>1 DEF LaterPhase, PhaseInv
  <2>3. EndBatch => PhaseInv(c)'
    BY <1>1 DEF EndBatch, Idle, trials, PhaseInv
  <2> QED BY <1>3, <2>1, <2>2, <2>3, RunStepMoves
<1>4. CASE UNCHANGED <<phase, pc>>
  BY <1>1, <1>4 DEF PhaseInv
<1>5. Environment \/ Finished \/ UNCHANGED vars => UNCHANGED <<phase, pc>>
  BY EnvironmentMoves DEF Finished, vars, trials, control
<1> QED BY <1>2, <1>3, <1>4, <1>5 DEF Next

(* Where the trials of each block are.                                     *)
LEMMA BlockKept ==
  ASSUME IInv, [Next]_vars, NEW i \in DOMAIN Schedule
  PROVE  BlockInv(i)'
<1>0. /\ BlockInv(i) /\ i \in Nat /\ offset \in Nat /\ cursor \in Nat /\ offset < cursor
      /\ Stopped => Stopped'
      /\ pc \in [Coordinate -> SlotHolder \cup {"idle", "found", "cached", "waiting", "done"}]
  <2>1. Stopped => Stopped'
    BY StopStep DEF StopMoves, Stopped
  <2>2. i \in Nat /\ offset \in Nat /\ cursor \in Nat
    BY ScheduleAssumption DEF IInv, ControlTyped
  <2>3. offset < cursor
    BY <2>2 DEF IInv, CursorInv
  <2> QED BY <2>1, <2>2, <2>3 DEF IInv, TrialsInv, TrialsTyped
<1>1. ASSUME NEW d \in Coordinate, TrialStep(d) PROVE BlockInv(i)'
  <2>1. /\ UNCHANGED <<phase, offset, cursor>>
        /\ pc[d] \notin {"idle", "found", "cached", "done"} /\ pc'[d] \notin {"idle", "found"}
        /\ \A c \in Coordinate : c # d => pc'[c] = pc[c]
    BY <1>0, <1>1, TrialStepMoves DEF TrialMoves, control, SlotHolder
  <2> QED BY <1>0, <2>1, OneBlock DEF BlockInv
<1>2. CASE LookUpMoves
  <2>1. PICK hits \in SUBSET Schedule[cursor] :
          pc' = [c \in Coordinate |-> IF c \in hits THEN "found" ELSE pc[c]]
    BY <1>2 DEF LookUpMoves
  <2>2. /\ UNCHANGED <<offset, cursor>> /\ phase = "lookup" /\ phase' = "admit"
    BY <1>2 DEF LookUpMoves
  <2>3. \A c \in Schedule[i] : pc'[c] = IF c \in hits THEN "found" ELSE pc[c]
    BY <2>1, OneBlock
  <2>4. \A c \in Schedule[i] : c \in hits => i = cursor
    BY <1>2, OneBlock DEF LookUpMoves
  <2> QED BY <1>0, <2>2, <2>3, <2>4 DEF BlockInv
<1>3. CASE ForgetMoves
  <2>1. \A c \in Schedule[i] : pc'[c] = IF pc[c] = "found" THEN "idle" ELSE pc[c]
    BY <1>3, OneBlock DEF ForgetMoves, Forgotten
  <2>2. UNCHANGED <<offset, cursor>> /\ phase = "admit" /\ phase' = "lookup"
    BY <1>3 DEF ForgetMoves
  <2> QED BY <1>0, <2>1, <2>2 DEF BlockInv
<1>4. CASE AdmitMoves
  <2>1. cursor \in DOMAIN Schedule /\ phase = "admit" /\ phase' = "lookup"
    <3>1. phase = "admit" /\ phase' = "lookup"
      BY <1>4 DEF AdmitMoves
    <3> QED BY <3>1, ScheduleAssumption DEF IInv, CursorInv, ControlTyped, BatchEnd
  <2>2. /\ offset' = offset /\ cursor' = cursor + 1
        /\ \A c \in Schedule[i] :
             pc'[c] = IF i = cursor /\ pc[c] = "idle" THEN "waiting"
                      ELSE IF pc[c] = "found" THEN "cached" ELSE pc[c]
    BY <1>4, <2>1, OneBlock DEF AdmitMoves
  <2>3. CASE i = cursor
    BY <1>0, <2>1, <2>2, <2>3 DEF BlockInv
  <2>4. CASE i < cursor
    BY <1>0, <2>1, <2>2, <2>4 DEF BlockInv
  <2>5. CASE i > cursor
    BY <1>0, <2>1, <2>2, <2>5 DEF BlockInv
  <2> QED BY <1>0, <2>3, <2>4, <2>5
<1>5. CASE LaterPhase
  BY <1>0, <1>5 DEF LaterPhase, BlockInv
<1>6. CASE EndBatch
  <2>1. UNCHANGED pc /\ phase = "running" /\ \A c \in Coordinate : pc[c] \in {"idle", "cached", "done"}
    BY <1>6 DEF EndBatch, Idle, trials
  <2>2. /\ stop'.kind = "none" => cursor' = cursor
        /\ cursor <= cursor' /\ cursor' \in Nat
    BY <1>6, EndBatchCursor, ScheduleAssumption DEF ControlTyped
  <2> QED BY <1>0, <2>1, <2>2, OneBlock DEF BlockInv, Stopped
<1>7. CASE UNCHANGED <<phase, offset, cursor, pc>>
  BY <1>0, <1>7 DEF BlockInv
<1>8. Environment \/ Finished \/ UNCHANGED vars => UNCHANGED <<phase, offset, cursor, pc>>
  BY EnvironmentMoves DEF Finished, vars, trials, control
<1> QED BY <1>1, <1>2, <1>3, <1>4, <1>5, <1>6, <1>7, <1>8, RunStepMoves DEF Next

-------------------------------------------------------------------------------
(* What the trials have tried and what they hold.                          *)

(* A finished attempt follows the failures before it.                      *)
LEMMA AttemptAdded ==
  ASSUME IInv, NEW c \in Coordinate, pc[c] = "running", NEW outcome \in AttemptStatus,
         attempts' = [attempts EXCEPT ![c] = Append(@, outcome)]
  PROVE  /\ Len(attempts[c]) \in Nat /\ Len(attempts'[c]) = Len(attempts[c]) + 1
         /\ \A n \in 1 .. Len(attempts[c]) : attempts'[c][n] = "failed"
         /\ attempts'[c][Len(attempts'[c])] = outcome
         /\ attempts'[c] # <<>> /\ Len(attempts[c]) < MaxAttempts
<1>1. attempts'[c] = Append(attempts[c], outcome) /\ attempts[c] \in Seq(AttemptStatus)
  BY DEF IInv, TrialsTyped
<1>2. AttemptsInv(c)
  BY DEF IInv, TrialsInv
<1> QED BY <1>1, <1>2, AppendProperties DEF AttemptsInv

(* A trial keeps what it has tried, whatever another does.                 *)
LEMMA AttemptsStay ==
  ASSUME IInv, [Next]_vars, NEW c \in Coordinate, pc'[c] = pc[c], attempts'[c] = attempts[c],
         status' = status \/ status' # "budget-exhausted" \/ stop.kind = "budget-exhausted"
  PROVE  AttemptsInv(c)'
<1>1. AttemptsInv(c)
  BY DEF IInv, TrialsInv
<1>2. Aborted => Aborted' /\ stop.kind # "budget-exhausted"
  BY StopStep DEF StopMoves, Aborted, Stopped
<1> QED BY <1>1, <1>2 DEF AttemptsInv

(* And every move of its own follows the order of executeCoordinate.       *)
LEMMA AttemptsMove ==
  ASSUME IInv, [Next]_vars, NEW c \in Coordinate, TrialStep(c)
  PROVE  AttemptsInv(c)'
<1>0. /\ AttemptsInv(c) /\ TrialMoves(c) /\ StopMoves
      /\ attempts \in [Coordinate -> Seq(AttemptStatus)] /\ MaxAttempts \in Nat
      /\ pc \in [Coordinate -> SlotHolder \cup {"idle", "found", "cached", "waiting", "done"}]
  BY TrialStepMoves, StopStep, ScheduleAssumption DEF IInv, TrialsInv, TrialsTyped
<1>1. /\ Aborted => Aborted'
      /\ status' = "none"
  <2>1. Aborted => Aborted'
    BY <1>0 DEF StopMoves, Aborted, Stopped
  <2> QED BY <1>0, <2>1 DEF TrialMoves, IInv, StatusInv
<1>2. CASE \/ TakeGlobalSlot(c) \/ TakeExecutorSlot(c) \/ OpenTrial(c) \/ StartAttempt(c)
           \/ AbandonAttempt(c) \/ GiveUp(c) \/ RetryAdmitted(c) \/ RetryRefused(c) \/ CloseTrial(c)
  <2>1. attempts' = attempts /\ pc' = [pc EXCEPT ![c] = pc'[c]]
    BY <1>0, <1>2 DEF TakeGlobalSlot, TakeExecutorSlot, OpenTrial, StartAttempt, AbandonAttempt,
                      GiveUp, RetryAdmitted, RetryRefused, CloseTrial, TrialMoves
  <2>2. \/ /\ pc[c] \in {"waiting", "granted", "opening"}
           /\ pc'[c] \in {"granted", "opening", "ready"} \/ (pc'[c] = "done" /\ Aborted)
        \/ pc[c] = "ready" /\ (pc'[c] = "running" \/ (pc'[c] = "closing" /\ Aborted))
        \/ pc[c] = "backoff" /\ pc'[c] \in {"ready", "closing"}
        \/ pc[c] = "closing" /\ pc'[c] = "done"
    BY <1>0, <1>2
       DEF TakeGlobalSlot, TakeExecutorSlot, OpenTrial, StartAttempt, AbandonAttempt, GiveUp,
           RetryAdmitted, RetryRefused, CloseTrial, GoTo
  <2> QED BY <1>0, <1>1, <2>1, <2>2 DEF AttemptsInv
<1>3. CASE OpenFails(c)
  <2>1. stop'.kind = "failed"
    BY <1>3, SetStopMoves DEF OpenFails, IInv, StopKind, Resource
  <2>2. pc[c] = "opening" /\ pc'[c] = "done" /\ attempts' = attempts
    BY <1>0, <1>3 DEF OpenFails, GoTo
  <2> QED BY <1>0, <1>1, <2>1, <2>2 DEF AttemptsInv, Aborted
<1>4. ASSUME NEW outcome \in AttemptStatus, pc[c] = "running",
             attempts' = [attempts EXCEPT ![c] = Append(@, outcome)],
             \/ pc'[c] = "closing"
             \/ pc'[c] = "backoff" /\ outcome = "failed" /\ Len(attempts[c]) + 1 < MaxAttempts
      PROVE  AttemptsInv(c)'
  <2>1. /\ Len(attempts[c]) \in Nat /\ Len(attempts'[c]) = Len(attempts[c]) + 1
        /\ \A n \in 1 .. Len(attempts[c]) : attempts'[c][n] = "failed"
        /\ attempts'[c][Len(attempts'[c])] = outcome
        /\ attempts'[c] # <<>> /\ Len(attempts[c]) < MaxAttempts
    BY <1>4, AttemptAdded
  <2> DEFINE new == attempts'[c]
  <2>2. Len(new) \in Nat /\ Len(new) <= MaxAttempts /\ (pc'[c] = "backoff" => Len(new) < MaxAttempts)
    BY <1>0, <1>4, <2>1
  <2>3. \A n \in 1 .. Len(new) : n < Len(new) \/ pc'[c] = "backoff" => new[n] = "failed"
    <3> SUFFICES ASSUME NEW n \in 1 .. Len(new), n < Len(new) \/ pc'[c] = "backoff"
                 PROVE  new[n] = "failed"
      OBVIOUS
    <3>1. n \in 1 .. Len(attempts[c]) \/ n = Len(new)
      BY <2>1
    <3>2. n = Len(new) /\ ~(n < Len(new)) => outcome = "failed"
      BY <1>4
    <3> QED BY <2>1, <3>1, <3>2
  <2> HIDE DEF new
  <2> QED BY <1>1, <1>4, <2>1, <2>2, <2>3 DEF AttemptsInv, new
<1>5. ASSUME NEW charge \in PossibleCharge, InvalidResult(c, charge)
      PROVE  AttemptsInv(c)'
  <2>1. "failed" \in AttemptStatus /\ pc'[c] = "closing"
    BY <1>0, <1>5 DEF AttemptStatus, InvalidResult, GoTo
  <2> QED BY <1>4, <1>5, <2>1 DEF InvalidResult
<1>6. ASSUME NEW charge \in PossibleCharge, NEW outcome \in AttemptStatus,
             NEW retryable \in BOOLEAN, FinishAttempt(c, outcome, retryable, charge)
      PROVE  AttemptsInv(c)'
  <2>1. pc'[c] = IF retryable THEN "backoff" ELSE "closing"
    BY <1>0, <1>6 DEF FinishAttempt, GoTo
  <2> QED BY <1>4, <1>6, <2>1 DEF FinishAttempt
<1> QED BY <1>2, <1>3, <1>5, <1>6 DEF TrialStep

(* So every step keeps what every trial has tried in order.                *)
LEMMA AttemptsKept ==
  ASSUME IInv, [Next]_vars, NEW c \in Coordinate
  PROVE  AttemptsInv(c)'
<1>0. /\ AttemptsInv(c) /\ attempts \in [Coordinate -> Seq(AttemptStatus)]
      /\ pc \in [Coordinate -> SlotHolder \cup {"idle", "found", "cached", "waiting", "done"}]
  BY DEF IInv, TrialsInv, TrialsTyped
<1>1. ASSUME NEW d \in Coordinate, TrialStep(d) PROVE AttemptsInv(c)'
  <2>1. CASE c = d
    BY <1>1, <2>1, AttemptsMove
  <2>2. CASE c # d
    <3>1. pc'[c] = pc[c] /\ attempts'[c] = attempts[c] /\ status' = status
      BY <1>0, <1>1, <2>2, TrialStepMoves DEF TrialMoves
    <3> QED BY <3>1, AttemptsStay
  <2> QED BY <2>1, <2>2
<1>2. CASE RunStep
  <2>1. UNCHANGED attempts
    BY <1>2, RunStepMoves
  <2>2. status' = status \/ status' # "budget-exhausted" \/ stop.kind = "budget-exhausted"
    BY <1>2 DEF RunStep, LookUp, LookUpFails, AdmitBlock, RefuseBlock, Dispatch, EndBatch,
                Teardown, Assemble, Publish, Recover, BundleStatus, Stopped
  <2>3. CASE pc'[c] = pc[c]
    BY <2>1, <2>2, <2>3, AttemptsStay
  <2>4. CASE pc'[c] # pc[c]
    <3>1. LookUpMoves \/ ForgetMoves \/ AdmitMoves
      BY <1>2, <2>4, RunStepMoves DEF LaterPhase, EndBatch, trials
    <3>2. /\ pc[c] \in {"idle", "found", "cached", "waiting", "done"}
          /\ pc'[c] \in {"found", "idle", "waiting", "cached"}
      BY <2>4, <3>1 DEF LookUpMoves, ForgetMoves, AdmitMoves, Forgotten, IInv, TrialsInv, PhaseInv
    <3>3. attempts[c] = <<>>
      <4>1. pc[c] \in {"idle", "found"}
        <5>1. LookUpMoves => pc[c] = "idle"
          <6>1. ASSUME LookUpMoves, c \in Schedule[cursor] PROVE pc[c] = "idle"
            BY <6>1, ScheduleAssumption DEF LookUpMoves, IInv, TrialsInv, BlockInv, ControlTyped
          <6> QED BY <2>4, <6>1 DEF LookUpMoves
        <5> QED BY <2>4, <3>1, <5>1 DEF ForgetMoves, AdmitMoves, Forgotten
      <4> QED BY <1>0, <4>1 DEF AttemptsInv
    <3>4. MaxAttempts \in Nat /\ MaxAttempts > 0 /\ Len(<<>>) = 0
      BY ScheduleAssumption
    <3> QED BY <2>1, <3>2, <3>3, <3>4 DEF AttemptsInv
  <2> QED BY <2>3, <2>4
<1>3. CASE UNCHANGED <<trials, status>>
  BY <1>3, AttemptsStay DEF trials
<1>4. Environment \/ Finished \/ UNCHANGED vars => UNCHANGED <<trials, status>>
  BY EnvironmentMoves DEF Finished, vars, trials
<1> QED BY <1>1, <1>2, <1>3, <1>4 DEF Next

(* setStop moves no reservation and no entry.                              *)
LEMMA SetStopPositions ==
  ASSUME NEW b \in Budget, NEW kind, NEW resource, SetStop(b, kind, resource)
  PROVE  budget'.reservations = b.reservations /\ budget'.entries = b.entries
<1>1. budget' \in {b, AfterTermination(b, Failure), AfterTermination(b, Cancellation)}
  BY SetStopBudget
<1> QED BY <1>1, TerminationPositions

(* What a step of a trial does to its own reservation: it keeps it, gives  *)
(* it back, starts the invocation, settles it, or reserves a retry.        *)
Keeps(c) ==
  /\ budget'.reservations = budget.reservations /\ budget'.entries = budget.entries
  /\ UNCHANGED attempts
  /\ \/ pc[c] \in {"waiting", "granted", "opening"} /\ pc'[c] \in {"granted", "opening", "ready"}
     \/ pc[c] \in {"ready", "backoff"} /\ pc'[c] = "closing"

Returns(c) ==
  /\ \/ budget'.reservations = [budget.reservations EXCEPT ![Current(c)] = "none"]
     \/ Current(c) \notin Attempt /\ budget'.reservations = budget.reservations
  /\ budget'.entries = budget.entries
  /\ UNCHANGED attempts
  /\ pc[c] \in {"waiting", "granted", "opening", "closing"} /\ pc'[c] = "done"

Starts(c) ==
  /\ budget'.reservations = [budget.reservations EXCEPT ![Current(c)] = "consumed"]
  /\ budget'.entries = budget.entries
  /\ UNCHANGED attempts
  /\ pc[c] = "ready" /\ pc'[c] = "running"

Settles(c) ==
  /\ budget'.reservations = [budget.reservations EXCEPT ![Current(c)] = "none"]
  /\ \E charge \in Charge : budget'.entries = [budget.entries EXCEPT ![Current(c)] = charge]
  /\ \E outcome \in AttemptStatus : attempts' = [attempts EXCEPT ![c] = Append(@, outcome)]
  /\ pc[c] = "running" /\ pc'[c] \in {"backoff", "closing"}

Retries(c) ==
  /\ budget'.reservations = [budget.reservations EXCEPT ![Current(c)] = "reserved"]
  /\ budget'.entries = budget.entries
  /\ UNCHANGED attempts
  /\ pc[c] = "backoff" /\ pc'[c] = "ready"

(* Each handler of a trial changes its place, its reservation and its      *)
(* ledger entry in one of these five ways.                                 *)
LEMMA TrialPositions ==
  ASSUME IInv, NEW c \in Coordinate, TrialStep(c)
  PROVE  Keeps(c) \/ Returns(c) \/ Starts(c) \/ Settles(c) \/ Retries(c)
<1>0. /\ budget \in Budget
      /\ \A label : GoTo(c, label) => pc'[c] = label
  BY DEF IInv, LedgerOK, BudgetTyped, TrialsTyped, GoTo
<1>1. CASE TakeGlobalSlot(c) \/ TakeExecutorSlot(c) \/ OpenTrial(c) \/ AbandonAttempt(c)
  BY <1>0, <1>1 DEF TakeGlobalSlot, TakeExecutorSlot, OpenTrial, AbandonAttempt, Keeps
<1>2. CASE RetryRefused(c)
  <2>1. PICK t \in Denials(budget, {Current(c)}, expired) : StopRefused(t)
    BY <1>2 DEF RetryRefused
  <2>2. {Current(c)} \in SUBSET Attempt
    BY <1>2, CurrentAttempt DEF RetryRefused
  <2>3. AfterTermination(budget, t) \in Budget
    BY <1>0, <2>1, <2>2, DenialsTyped, TerminationTyped
  <2>4. budget'.reservations = budget.reservations /\ budget'.entries = budget.entries
    BY <1>0, <2>1, <2>3, SetStopPositions, TerminationPositions DEF StopRefused
  <2> QED BY <1>0, <1>2, <2>4 DEF RetryRefused, Keeps
<1>3. CASE GiveUp(c) \/ OpenFails(c)
  <2> DEFINE b == AfterRelease(budget, Current(c))
  <2>1. pc[c] \in {"waiting", "granted", "opening"} /\ Current(c) \in Attempt
    BY <1>3, CurrentAttempt DEF GiveUp, OpenFails
  <2>2. /\ b \in Budget
        /\ b.reservations = [budget.reservations EXCEPT ![Current(c)] = "none"]
        /\ b.entries = budget.entries
    BY <1>0, <2>1, ReleaseTyped, ReturnPositions
  <2>3. budget' = b \/ SetStop(b, "failed", "none")
    BY <1>3 DEF GiveUp, OpenFails
  <2>4. pc'[c] = "done" /\ UNCHANGED attempts
    BY <1>0, <1>3 DEF GiveUp, OpenFails
  <2> HIDE DEF b
  <2>5. budget'.reservations = b.reservations /\ budget'.entries = b.entries
    BY <2>2, <2>3, SetStopPositions
  <2> QED BY <2>1, <2>2, <2>4, <2>5 DEF Returns
<1>4. CASE CloseTrial(c)
  <2> DEFINE b == IF Current(c) \in Attempt THEN AfterRelease(budget, Current(c)) ELSE budget
  <2>1. pc[c] = "closing" /\ pc'[c] = "done" /\ UNCHANGED attempts
    BY <1>0, <1>4 DEF CloseTrial
  <2>2. /\ b \in Budget /\ b.entries = budget.entries
        /\ \/ b.reservations = [budget.reservations EXCEPT ![Current(c)] = "none"]
           \/ Current(c) \notin Attempt /\ b.reservations = budget.reservations
    BY <1>0, ReleaseTyped, ReturnPositions
  <2>3. budget' = b \/ SetStop(b, "failed", "none")
    BY <1>4 DEF CloseTrial
  <2> HIDE DEF b
  <2>4. budget'.reservations = b.reservations /\ budget'.entries = b.entries
    BY <2>2, <2>3, SetStopPositions
  <2> QED BY <2>1, <2>2, <2>4 DEF Returns
<1>5. CASE StartAttempt(c)
  BY <1>0, <1>5, ReturnPositions DEF StartAttempt, Starts
<1>6. ASSUME NEW charge \in PossibleCharge, NEW outcome \in AttemptStatus, pc[c] = "running",
             attempts' = [attempts EXCEPT ![c] = Append(@, outcome)],
             pc'[c] \in {"backoff", "closing"}, NEW kind, NEW resource,
             \/ budget' = AfterSettle(budget, Current(c), charge)
             \/ SetStop(AfterSettle(budget, Current(c), charge), kind, resource)
      PROVE  Settles(c)
  <2> DEFINE b == AfterSettle(budget, Current(c), charge)
  <2>1. Current(c) \in Attempt /\ charge \in Charge
    BY <1>6, CurrentAttempt, ChargeTyped
  <2>2. /\ b \in Budget
        /\ b.reservations = [budget.reservations EXCEPT ![Current(c)] = "none"]
        /\ b.entries = [budget.entries EXCEPT ![Current(c)] = charge]
    BY <1>0, <2>1, SettleTyped, SettlePositions
  <2>3. budget' = b \/ SetStop(b, kind, resource)
    BY <1>6
  <2> HIDE DEF b
  <2>4. budget'.reservations = b.reservations /\ budget'.entries = b.entries
    BY <2>2, <2>3, SetStopPositions
  <2> QED BY <1>6, <2>1, <2>2, <2>4 DEF Settles
<1>7. ASSUME NEW charge \in PossibleCharge, InvalidResult(c, charge)
      PROVE  Settles(c)
  <2>1. "failed" \in AttemptStatus /\ pc'[c] = "closing"
    BY <1>0, <1>7 DEF AttemptStatus, InvalidResult
  <2> QED BY <1>6, <1>7, <2>1 DEF InvalidResult
<1>8. ASSUME NEW charge \in PossibleCharge, NEW outcome \in AttemptStatus,
             NEW retryable \in BOOLEAN, FinishAttempt(c, outcome, retryable, charge)
      PROVE  Settles(c)
  <2>1. pc'[c] \in {"backoff", "closing"}
    BY <1>0, <1>8 DEF FinishAttempt
  <2>2. \E kind, resource :
          \/ budget' = AfterSettle(budget, Current(c), charge)
          \/ SetStop(AfterSettle(budget, Current(c), charge), kind, resource)
    BY <1>8 DEF FinishAttempt
  <2>3. /\ pc[c] = "running"
        /\ attempts' = [attempts EXCEPT ![c] = Append(@, outcome)]
    BY <1>8 DEF FinishAttempt
  <2> QED BY <1>6, <2>1, <2>2, <2>3
<1>9. CASE RetryAdmitted(c)
  <2>1. Current(c) \in Attempt /\ budget.reservations \in [Attempt -> {"none", "reserved", "consumed"}]
    BY <1>0, <1>9, CurrentAttempt DEF RetryAdmitted, Budget
  <2>2. /\ budget'.reservations
             = [a \in Attempt |-> IF a \in {Current(c)} THEN "reserved" ELSE budget.reservations[a]]
        /\ budget'.entries = budget.entries
    BY <1>0, <1>9, ReservePositions DEF RetryAdmitted
  <2>3. budget'.reservations = [budget.reservations EXCEPT ![Current(c)] = "reserved"]
    BY <2>1, <2>2
  <2> QED BY <1>0, <1>9, <2>2, <2>3 DEF RetryAdmitted, Retries
<1> QED BY <1>1, <1>2, <1>3, <1>4, <1>5, <1>7, <1>8, <1>9 DEF TrialStep

(* So the trial holds what its new position calls for.                     *)
LEMMA HoldingMove ==
  ASSUME IInv, NEW c \in Coordinate, TrialStep(c)
  PROVE  HoldingInv(c)'
<1> DEFINE len == Len(attempts[c])
           res(n) == budget.reservations[<<c, n>>]
           entry(n) == budget.entries[<<c, n>>]
<1>0. /\ \A n \in 1 .. MaxAttempts : <<c, n>> \in Attempt
      /\ budget.reservations \in [Attempt -> {"none", "reserved", "consumed"}]
      /\ budget.entries \in [Attempt -> Charge \cup {None}]
      /\ None \notin Charge /\ len \in Nat /\ Current(c) = <<c, len + 1>>
  BY ScheduleAssumption, LimitAssumption
     DEF IInv, LedgerOK, BudgetTyped, Budget, TrialsTyped, Current
<1>1. \A n \in 1 .. MaxAttempts :
        /\ entry(n) # None <=> n <= len
        /\ res(n) = "consumed" <=> n = len + 1 /\ pc[c] = "running"
        /\ n = len + 1 /\ pc[c] \in {"waiting", "granted", "opening", "ready"} =>
             res(n) = "reserved"
        /\ res(n) = "reserved" =>
             n = len + 1 /\ pc[c] \in {"waiting", "granted", "opening", "ready", "closing"}
  BY DEF IInv, TrialsInv, HoldingInv
<1>2. SUFFICES ASSUME NEW n \in 1 .. MaxAttempts
               PROVE  /\ budget'.entries[<<c, n>>] # None <=> n <= Len(attempts'[c])
                      /\ budget'.reservations[<<c, n>>] = "consumed"
                           <=> n = Len(attempts'[c]) + 1 /\ pc'[c] = "running"
                      /\ n = Len(attempts'[c]) + 1
                           /\ pc'[c] \in {"waiting", "granted", "opening", "ready"} =>
                             budget'.reservations[<<c, n>>] = "reserved"
                      /\ budget'.reservations[<<c, n>>] = "reserved" =>
                           /\ n = Len(attempts'[c]) + 1
                           /\ pc'[c] \in {"waiting", "granted", "opening", "ready", "closing"}
  BY DEF HoldingInv
<1>3. \A r : [budget.reservations EXCEPT ![Current(c)] = r][<<c, n>>]
               = IF n = len + 1 THEN r ELSE res(n)
  BY <1>0
<1>4. \A e : [budget.entries EXCEPT ![Current(c)] = e][<<c, n>>]
               = IF n = len + 1 THEN e ELSE entry(n)
  BY <1>0
<1>5. CASE Keeps(c)
  BY <1>1, <1>5 DEF Keeps
<1>6. CASE Returns(c)
  <2>1. Current(c) \notin Attempt => n # len + 1
    BY <1>0
  <2>2. /\ attempts' = attempts /\ budget'.entries[<<c, n>>] = entry(n)
        /\ \/ budget'.reservations[<<c, n>>] = IF n = len + 1 THEN "none" ELSE res(n)
           \/ n # len + 1 /\ budget'.reservations[<<c, n>>] = res(n)
    BY <1>3, <1>6, <2>1 DEF Returns
  <2>3. pc[c] # "running" /\ pc'[c] = "done"
    BY <1>6 DEF Returns
  <2> HIDE DEF res, entry
  <2> QED BY <1>1, <2>2, <2>3
<1>7. CASE Starts(c)
  <2>1. /\ attempts' = attempts /\ budget'.entries[<<c, n>>] = entry(n)
        /\ budget'.reservations[<<c, n>>] = IF n = len + 1 THEN "consumed" ELSE res(n)
        /\ pc[c] = "ready" /\ pc'[c] = "running"
    BY <1>3, <1>7 DEF Starts
  <2> HIDE DEF res, entry
  <2> QED BY <1>1, <2>1
<1>8. CASE Retries(c)
  <2>1. /\ attempts' = attempts /\ budget'.entries[<<c, n>>] = entry(n)
        /\ budget'.reservations[<<c, n>>] = IF n = len + 1 THEN "reserved" ELSE res(n)
        /\ pc[c] = "backoff" /\ pc'[c] = "ready"
    BY <1>3, <1>8 DEF Retries
  <2> HIDE DEF res, entry
  <2> QED BY <1>1, <2>1
<1>9. CASE Settles(c)
  <2>1. Len(attempts'[c]) = len + 1
    BY <1>9, AttemptAdded DEF Settles
  <2>2. budget'.entries[<<c, n>>] # None <=> n <= len + 1
    <3>1. n = len + 1 => budget'.entries[<<c, n>>] # None
      BY <1>0, <1>4, <1>9 DEF Settles
    <3>2. n # len + 1 => budget'.entries[<<c, n>>] = entry(n)
      BY <1>4, <1>9 DEF Settles
    <3> HIDE DEF len, entry
    <3> QED BY <1>0, <1>1, <3>1, <3>2
  <2>3. budget'.reservations[<<c, n>>] \notin {"consumed", "reserved"}
    <3>1. budget'.reservations[<<c, n>>] = IF n = len + 1 THEN "none" ELSE res(n)
      BY <1>3, <1>9 DEF Settles
    <3> QED BY <1>1, <1>9, <3>1 DEF Settles
  <2> QED BY <1>9, <2>1, <2>2, <2>3 DEF Settles
<1> QED BY <1>5, <1>6, <1>7, <1>8, <1>9, TrialPositions

(* And every other trial what it held.                                     *)
LEMMA HoldingStays ==
  ASSUME IInv, NEW c \in Coordinate,
         UNCHANGED attempts \/ attempts'[c] = attempts[c],
         \/ pc'[c] = pc[c]
         \/ pc[c] \in {"idle", "found"} /\ pc'[c] \in {"idle", "found", "cached"},
         \A n \in 1 .. MaxAttempts :
           /\ budget'.reservations[<<c, n>>] = budget.reservations[<<c, n>>]
           /\ budget'.entries[<<c, n>>] = budget.entries[<<c, n>>]
  PROVE  HoldingInv(c)'
BY DEF IInv, TrialsInv, HoldingInv

(* Every step.                                                             *)
LEMMA HoldingKept ==
  ASSUME IInv, [Next]_vars, NEW c \in Coordinate
  PROVE  HoldingInv(c)'
<1>0. /\ budget \in Budget /\ \A n \in 1 .. MaxAttempts : <<c, n>> \in Attempt
      /\ pc \in [Coordinate -> SlotHolder \cup {"idle", "found", "cached", "waiting", "done"}]
      /\ attempts \in [Coordinate -> Seq(AttemptStatus)]
  BY ScheduleAssumption DEF IInv, LedgerOK, BudgetTyped, TrialsTyped
<1>1. ASSUME NEW d \in Coordinate, TrialStep(d) PROVE HoldingInv(c)'
  <2>1. CASE c = d
    BY <1>1, <2>1, HoldingMove
  <2>2. CASE c # d
    <3>1. pc'[c] = pc[c] /\ attempts'[c] = attempts[c]
      BY <1>0, <1>1, <2>2, TrialStepMoves DEF TrialMoves
    <3>2. ASSUME NEW n \in 1 .. MaxAttempts
          PROVE  /\ budget'.reservations[<<c, n>>] = budget.reservations[<<c, n>>]
                 /\ budget'.entries[<<c, n>>] = budget.entries[<<c, n>>]
      <4>1. <<c, n>> # Current(d)
        BY <2>2 DEF Current
      <4>2. \A r : [budget.reservations EXCEPT ![Current(d)] = r][<<c, n>>]
                     = budget.reservations[<<c, n>>]
        BY <1>0, <4>1 DEF Budget
      <4>3. \A e : [budget.entries EXCEPT ![Current(d)] = e][<<c, n>>] = budget.entries[<<c, n>>]
        BY <1>0, <4>1 DEF Budget
      <4>4. /\ \/ budget'.reservations = budget.reservations
               \/ \E r : budget'.reservations = [budget.reservations EXCEPT ![Current(d)] = r]
            /\ \/ budget'.entries = budget.entries
               \/ \E e : budget'.entries = [budget.entries EXCEPT ![Current(d)] = e]
        <5>1. Keeps(d) \/ Returns(d) \/ Starts(d) \/ Settles(d) \/ Retries(d)
          BY <1>1, TrialPositions
        <5> QED BY <5>1, Zenon DEF Keeps, Returns, Starts, Settles, Retries
      <4> QED BY <4>2, <4>3, <4>4
    <3> QED BY <3>1, <3>2, HoldingStays
  <2> QED BY <2>1, <2>2
<1>2. CASE AdmitBlock
  <2>1. /\ attempts' = attempts /\ budget'.entries = budget.entries
        /\ budget'.reservations
             = [a \in Attempt |-> IF a \in FirstAttempts THEN "reserved" ELSE budget.reservations[a]]
    BY <1>0, <1>2, ReservePositions DEF AdmitBlock
  <2>2. \A n \in 1 .. MaxAttempts : <<c, n>> \in FirstAttempts <=> c \in Uncached /\ n = 1
    BY DEF FirstAttempts
  <2>3. pc'[c] = IF c \in Uncached THEN "waiting" ELSE IF pc[c] = "found" THEN "cached" ELSE pc[c]
    BY <1>2 DEF AdmitBlock
  <2>4. CASE c \notin Uncached
    <3>1. \/ pc'[c] = pc[c]
          \/ pc[c] = "found" /\ pc'[c] = "cached"
      BY <2>3, <2>4
    <3>2. \A n \in 1 .. MaxAttempts :
            budget'.reservations[<<c, n>>] = budget.reservations[<<c, n>>]
      BY <1>0, <2>1, <2>2, <2>4
    <3> QED BY <2>1, <3>1, <3>2, HoldingStays
  <2>5. CASE c \in Uncached
    <3>1. pc[c] = "idle" /\ pc'[c] = "waiting" /\ Len(attempts[c]) = 0
      BY <2>3, <2>5 DEF Uncached, IInv, TrialsInv, AttemptsInv
    <3>2. \A n \in 1 .. MaxAttempts :
            budget'.reservations[<<c, n>>]
              = IF n = 1 THEN "reserved" ELSE budget.reservations[<<c, n>>]
      BY <1>0, <2>1, <2>2, <2>5
    <3>3. HoldingInv(c)
      BY DEF IInv, TrialsInv
    <3>4. /\ attempts'[c] = attempts[c] /\ Len(attempts[c]) + 1 = 1
          /\ budget'.entries = budget.entries
      BY <2>1, <3>1
    <3>5. ASSUME NEW n \in 1 .. MaxAttempts
          PROVE  /\ budget'.entries[<<c, n>>] # None <=> n <= Len(attempts[c])
                 /\ n # 1 => budget'.reservations[<<c, n>>] \notin {"consumed", "reserved"}
                 /\ n = 1 => budget'.reservations[<<c, n>>] = "reserved"
      BY <3>1, <3>2, <3>3, <3>4 DEF HoldingInv
    <3> QED BY <3>1, <3>4, <3>5 DEF HoldingInv
  <2> QED BY <2>4, <2>5
<1>3. CASE RunStep /\ ~AdmitBlock
  <2>1. attempts' = attempts
    BY <1>3, RunStepMoves
  <2>2. \/ pc'[c] = pc[c]
        \/ pc[c] \in {"idle", "found"} /\ pc'[c] \in {"idle", "found", "cached"}
    <3>1. LookUp => LookUpMoves
      BY <1>3, RunStepMoves
         DEF LookUp, LookUpMoves, ForgetMoves, AdmitMoves, LaterPhase, EndBatch
    <3>2. ASSUME LookUpMoves, c \in Schedule[cursor] PROVE pc[c] = "idle"
      BY <3>2, ScheduleAssumption DEF LookUpMoves, IInv, TrialsInv, BlockInv, ControlTyped
    <3> QED BY <1>3, <3>1, <3>2
            DEF LookUpMoves, Forgotten, RunStep, LookUpFails, RefuseBlock, Dispatch, EndBatch,
                Teardown, Assemble, Publish, Recover, trials
  <2>3. budget'.reservations = budget.reservations /\ budget'.entries = budget.entries
    <3>1. CASE RefuseBlock
      <4>1. PICK t \in Denials(budget, FirstAttempts, expired) : StopRefused(t)
        BY <3>1 DEF RefuseBlock
      <4>2. FirstAttempts \in SUBSET Attempt
        <5>1. cursor \in DOMAIN Schedule
          BY <3>1, ScheduleAssumption DEF RefuseBlock, IInv, CursorInv, ControlTyped, BatchEnd
        <5>2. \A d \in Uncached : d \in Coordinate /\ <<d, 1>> \in Attempt
          BY <5>1, ScheduleAssumption DEF Uncached
        <5> QED BY <5>2 DEF FirstAttempts
      <4>3. AfterTermination(budget, t) \in Budget
        BY <1>0, <4>1, <4>2, DenialsTyped, TerminationTyped
      <4> QED BY <1>0, <4>1, <4>3, SetStopPositions, TerminationPositions DEF StopRefused
    <3>2. CASE ~RefuseBlock
      <4>1. budget' = budget \/ SetStop(budget, "failed", "none")
        BY <1>3, <3>2 DEF RunStep, LookUp, LookUpFails, Dispatch, EndBatch, Teardown, Assemble,
                          Publish, Recover
      <4> QED BY <1>0, <4>1, SetStopPositions
    <3> QED BY <3>1, <3>2
  <2> QED BY <2>1, <2>2, <2>3, HoldingStays
<1>4. CASE Environment
  <2>1. \/ budget' = budget \/ SetStop(budget, "failed", "none") \/ SetStop(budget, "cancelled", "none")
        \/ SetStop(AfterTermination(budget, WallClockExhaustion), "budget-exhausted", "wall-clock")
    BY <1>4 DEF Environment, ExternalCancel, WallClockElapses, WallClockTimer, WriterFails
  <2>2. WallClockExhaustion \in Termination
    BY DEF WallClockExhaustion, Ended, Termination, TerminationKind, Resource, ScopeKind
  <2>3. AfterTermination(budget, WallClockExhaustion) \in Budget
    BY <1>0, <2>2, TerminationTyped
  <2>4. budget'.reservations = budget.reservations /\ budget'.entries = budget.entries
    BY <1>0, <2>1, <2>3, SetStopPositions, TerminationPositions
  <2> QED BY <1>4, <2>4, EnvironmentMoves, HoldingStays DEF trials
<1>5. CASE UNCHANGED vars \/ Finished
  BY <1>5, HoldingStays DEF Finished, vars
<1> QED BY <1>1, <1>2, <1>3, <1>4, <1>5 DEF Next

-------------------------------------------------------------------------------
(* The Bundle's status and the failure limit.                              *)

(* Every step keeps the Bundle's status behind the reason to stop.         *)
LEMMA StatusKept ==
  ASSUME IInv, [Next]_vars
  PROVE  StatusInv'
<1>0. StatusInv /\ StopMoves /\ stop.kind \in StopKind
  BY StopStep DEF IInv, EndingTyped
<1>1. /\ stop.kind = "failed" => stop'.kind = "failed"
      /\ stop.kind \in {"budget-exhausted", "failed"} =>
           stop'.kind \in {"budget-exhausted", "failed"}
  BY <1>0 DEF StopMoves, Stopped
<1>2. CASE UNCHANGED <<phase, fatal, status>>
  BY <1>0, <1>1, <1>2 DEF StatusInv
<1>3. ASSUME UNCHANGED <<fatal, status>>,
             phase \in {"lookup", "admit", "running", "closing"},
             phase' \in {"lookup", "admit", "running", "closing", "assembling"}
      PROVE  StatusInv'
  BY <1>0, <1>1, <1>3 DEF StatusInv
<1>4. CASE Assemble
  <2>1. /\ UNCHANGED <<stop, fatal>> /\ phase' \in {"sealed", "rejected"}
        /\ status' \in {BundleStatus, "none"}
    BY <1>4 DEF Assemble
  <2> QED BY <1>0, <2>1 DEF StatusInv, BundleStatus, Stopped
<1>5. CASE Publish
  <2>1. /\ UNCHANGED <<stop, fatal, status>> /\ phase' = "published" /\ ~fatal
    BY <1>5 DEF Publish
  <2> QED BY <1>0, <2>1 DEF StatusInv
<1>6. CASE Recover
  <2>1. /\ UNCHANGED <<stop, fatal>> /\ phase' \in {"published", "rejected"} /\ fatal
        /\ status' \in {BundleStatus, "none"} /\ (phase' = "published" => status' = BundleStatus)
    BY <1>6 DEF Recover
  <2>2. BundleStatus = "failed" /\ stop.kind = "failed"
    BY <1>0, <2>1 DEF StatusInv, BundleStatus, Stopped
  <2> QED BY <2>1, <2>2 DEF StatusInv
<1>7. CASE WriterFails
  <2>1. stop'.kind = "failed" /\ UNCHANGED <<phase, status>> /\ phase # "published"
    BY <1>7, SetStopMoves DEF WriterFails, control, IInv, StopKind, Resource
  <2> QED BY <1>0, <2>1 DEF StatusInv
<1>8. CASE RunStep /\ ~(Assemble \/ Publish \/ Recover)
  BY <1>3, <1>8 DEF RunStep, LookUp, LookUpFails, AdmitBlock, RefuseBlock, Dispatch, EndBatch,
                    Teardown
<1>9. ASSUME NEW c \in Coordinate, TrialStep(c) PROVE UNCHANGED <<phase, fatal, status>>
  BY <1>9, TrialStepMoves DEF TrialMoves, control
<1>10. (Environment /\ ~WriterFails) \/ Finished \/ UNCHANGED vars =>
         UNCHANGED <<phase, fatal, status>>
  BY DEF Environment, ExternalCancel, WallClockElapses, WallClockTimer, Finished, vars, control
<1> QED BY <1>2, <1>4, <1>5, <1>6, <1>7, <1>8, <1>9, <1>10 DEF Next, RunStep

(* There are finitely many trials.                                         *)
LEMMA FiniteTrials == IsFiniteSet(Coordinate)
<1>1. \A c \in Coordinate : <<c, 1>> \in Attempt /\ CoordinateOf[<<c, 1>>] = c
  <2>1. 1 \in 1 .. MaxAttempts
    BY ScheduleAssumption
  <2> QED BY <2>1, ScheduleAssumption
<1>2. CoordinateOf \in Surjection(Attempt, Coordinate)
  BY <1>1, AttemptAssumption, Fun_IsSurj
<1> QED BY <1>2, AttemptAssumption, FS_Surjection

(* What counts as a failed trial.                                          *)
FailedRecord(c) == pc[c] # "cached" /\ attempts[c] # <<>> /\ attempts[c][Len(attempts[c])] = "failed"

(* A record is failed exactly if the trial's last attempt failed.          *)
LEMMA RecordFailed ==
  /\ \A c : RecordOf(c) = "failed" <=> FailedRecord(c)
  /\ \A c : RecordOf(c)' = "failed" <=> FailedRecord(c)'
BY DEF RecordOf, FailedRecord

(* The failures of the batches that are over are counted once and for all. *)
LEMMA FailuresStay ==
  ASSUME IInv, [Next]_vars, NEW n \in Nat, n <= offset \/ EndBatch
  PROVE  FailedIn(1 .. n)' = FailedIn(1 .. n)
<1>0. pc \in [Coordinate -> SlotHolder \cup {"idle", "found", "cached", "waiting", "done"}]
  BY DEF IInv, TrialsTyped
<1>1. ASSUME NEW i \in 1 .. n, NEW c \in Schedule[i], i \in DOMAIN Schedule
      PROVE  FailedRecord(c)' <=> FailedRecord(c)
  <2>0. c \in Coordinate /\ offset \in Nat /\ (~EndBatch => i <= offset)
    BY <1>1, OneBlock, ScheduleAssumption DEF IInv, ControlTyped
  <2>1. ~EndBatch => pc[c] \in {"idle", "cached", "done"}
    BY <1>1, <2>0 DEF IInv, TrialsInv, BlockInv
  <2>2. CASE UNCHANGED trials
    BY <2>2 DEF trials, FailedRecord
  <2>3. ASSUME NEW d \in Coordinate, TrialStep(d), ~EndBatch
        PROVE  FailedRecord(c)' <=> FailedRecord(c)
    <3>1. TrialMoves(d) /\ c # d
      BY <2>0, <2>1, <2>3, TrialStepMoves DEF TrialMoves, SlotHolder
    <3>2. pc'[c] = pc[c] /\ attempts'[c] = attempts[c]
      BY <1>0, <2>0, <3>1 DEF TrialMoves, IInv, TrialsTyped
    <3> QED BY <3>2 DEF FailedRecord
  <2>4. CASE RunStep /\ ~EndBatch
    <3>1. UNCHANGED attempts
      BY <2>4, RunStepMoves
    <3>2. pc'[c] = pc[c] \/ attempts[c] = <<>>
      <4>1. pc[c] = "idle" => attempts[c] = <<>>
        BY <2>0 DEF IInv, TrialsInv, AttemptsInv
      <4>2. pc[c] \in {"cached", "done"} => pc'[c] = pc[c]
        <5>1. LookUpMoves /\ pc[c] \in {"cached", "done"} => c \notin Schedule[cursor]
          BY ScheduleAssumption DEF LookUpMoves, IInv, TrialsInv, BlockInv, ControlTyped
        <5> QED BY <2>0, <2>4, <5>1, RunStepMoves
                DEF LookUpMoves, ForgetMoves, Forgotten, AdmitMoves, LaterPhase
      <4> QED BY <2>1, <2>4, <4>1, <4>2
    <3> QED BY <3>1, <3>2 DEF FailedRecord
  <2>5. Environment \/ Finished \/ UNCHANGED vars \/ EndBatch => UNCHANGED trials
    BY EnvironmentMoves DEF Finished, vars, trials, EndBatch
  <2>6. ASSUME NEW d \in Coordinate, TrialStep(d) PROVE ~EndBatch
    BY <2>6, TrialStepMoves DEF TrialMoves, EndBatch, Idle, SlotHolder
  <2> QED BY <2>2, <2>3, <2>4, <2>5, <2>6 DEF Next
<1>2. CASE \A i \in 1 .. n : i \in DOMAIN Schedule
  BY <1>1, <1>2, RecordFailed DEF FailedIn
<1>3. CASE EndBatch
  <2>1. UNCHANGED trials
    BY <1>3 DEF EndBatch
  <2> QED BY <2>1, RecordFailed DEF FailedIn, trials, FailedRecord
<1>4. n <= offset => \A i \in 1 .. n : i \in DOMAIN Schedule
  BY ScheduleAssumption DEF IInv, ControlTyped
<1> QED BY <1>2, <1>3, <1>4

(* The batches that are over stayed within the failure limit.              *)
LEMMA LimitKept ==
  ASSUME IInv, [Next]_vars
  PROVE  LimitInv'
<1>0. /\ offset \in Nat /\ LimitInv
      /\ BatchEnd \in Nat /\ offset <= BatchEnd
  BY BatchBounds, ScheduleAssumption DEF IInv, ControlTyped
<1>1. ASSUME NEW n \in Nat, offset' = n, n <= offset \/ EndBatch
      PROVE  FailedIn(1 .. offset)' = FailedIn(1 .. n)
  <2>1. FailedIn(1 .. n)' = FailedIn(1 .. n)
    BY <1>1, FailuresStay
  <2> QED BY <1>1, <2>1 DEF FailedIn
<1>2. CASE EndBatch
  <2>1. PICK n \in Nat : n = BatchEnd
    BY <1>0
  <2>2. FailedIn(1 .. offset)' = FailedIn(1 .. n)
    BY <1>1, <1>2, <2>1 DEF EndBatch
  <2>3. SUFFICES ASSUME phase' \in {"lookup", "admit", "running"}
                 PROVE  /\ FailureMode = "fail-fast" => FailedIn(1 .. n) = {}
                        /\ FailureMode = "failure-threshold" =>
                             Cardinality(FailedIn(1 .. n)) <= MaxFailures
    BY <2>2 DEF LimitInv
  <2>4. phase = "running" /\ stop'.kind = "none"
    BY <1>2, <2>3 DEF EndBatch
  <2>5. ~Stopped /\ ~FailureLimitReached
    <3>1. ~Stopped
      BY <2>4, StopStep DEF StopMoves, Stopped
    <3>2. ~SetStop(budget, "failed", "none")
      BY <2>4 DEF SetStop, StopIgnored, Stopped
    <3> QED BY <1>2, <3>1, <3>2 DEF EndBatch
  <2>6. ASSUME FailureMode = "fail-fast" PROVE FailedIn(1 .. n) = {}
    <3>1. FailedIn(1 .. offset) = {} /\ FailedIn(offset + 1 .. n) = {}
      BY <1>0, <2>1, <2>4, <2>5, <2>6 DEF LimitInv, FailureLimitReached
    <3>2. \A i \in 1 .. n : i \in 1 .. offset \/ i \in offset + 1 .. n
      BY <1>0, <2>1
    <3> QED BY <3>1, <3>2 DEF FailedIn
  <2>7. FailureMode = "failure-threshold" => Cardinality(FailedIn(1 .. n)) <= MaxFailures
    <3>1. FailedIn(1 .. n) \subseteq Coordinate
      BY <1>0, <2>1, BatchBounds, OneBlock DEF FailedIn, IInv, ControlTyped
    <3>2. Cardinality(FailedIn(1 .. n)) \in Nat
      BY <3>1, FiniteTrials, FS_Subset, FS_CardinalityType
    <3>3. FailureMode = "failure-threshold" =>
            MaxFailures \in Nat /\ ~(Cardinality(FailedIn(1 .. n)) > MaxFailures)
      BY <2>1, <2>5, ScheduleAssumption DEF FailureLimitReached
    <3> QED BY <3>2, <3>3
  <2> QED BY <2>6, <2>7
<1>3. CASE ~EndBatch
  <2>1. offset' = offset
    BY <1>3, TrialStepMoves, EnvironmentMoves
       DEF TrialMoves, control, Next, RunStep, LookUp, LookUpFails, AdmitBlock, RefuseBlock,
           Dispatch, Teardown, Assemble, Publish, Recover, Finished, vars
  <2>2. PICK n \in Nat : n = offset /\ n <= offset
    BY <1>0
  <2>3. FailedIn(1 .. offset)' = FailedIn(1 .. offset)
    BY <1>1, <2>1, <2>2
  <2>4. phase' \in {"lookup", "admit", "running"} => phase \in {"lookup", "admit", "running"}
    BY <1>3, TrialStepMoves, EnvironmentMoves
       DEF TrialMoves, control, Next, RunStep, LookUp, LookUpFails, AdmitBlock, RefuseBlock,
           Dispatch, Teardown, Assemble, Publish, Recover, Finished, vars
  <2> QED BY <1>0, <2>3, <2>4 DEF LimitInv
<1> QED BY <1>2, <1>3

-------------------------------------------------------------------------------
(* The invariant, and what is read off it.                                 *)

(* The stage starts with no trial admitted and an empty ledger.            *)
LEMMA InitInv == Init => IInv
<1> SUFFICES ASSUME Init PROVE IInv
  OBVIOUS
<1>1. /\ Len(Schedule) \in Nat /\ DOMAIN Schedule = 1 .. Len(Schedule)
      /\ MaxAttempts \in Nat /\ MaxAttempts >= 1
      /\ MaxConcurrency \in Nat /\ MaxConcurrency >= 1
  BY ScheduleAssumption
<1>2. BatchEnd \in Nat /\ 0 <= BatchEnd
  BY <1>1 DEF Init, BatchEnd
<1>3. ControlTyped /\ CursorInv
  BY <1>1, <1>2 DEF Init, ControlTyped, CursorInv
<1>4. TrialsTyped /\ EndingTyped
  <2>1. <<>> \in Seq(AttemptStatus)
    OBVIOUS
  <2>2. TrialsTyped
    BY <2>1 DEF Init, TrialsTyped
  <2> QED BY <2>2 DEF Init, EndingTyped, StopKind, Resource
<1>5. LedgerOK
  BY BudgetInitTyped, LedgerInit DEF Init, LedgerOK
<1>6. ASSUME NEW i \in DOMAIN Schedule PROVE BlockInv(i)
  <2>1. /\ i \in Nat /\ i >= 1 /\ offset = 0 /\ cursor = 1
        /\ \A c \in Schedule[i] : pc[c] = "idle"
    BY <1>1, <1>6, OneBlock DEF Init
  <2> QED BY <2>1 DEF BlockInv
<1>7. ASSUME NEW c \in Coordinate PROVE PhaseInv(c) /\ AttemptsInv(c)
  BY <1>1, <1>7 DEF Init, PhaseInv, AttemptsInv
<1>8. ASSUME NEW c \in Coordinate PROVE HoldingInv(c)
  <2>1. /\ budget.reservations = [a \in Attempt |-> "none"]
        /\ budget.entries = [a \in Attempt |-> None]
        /\ Len(attempts[c]) = 0 /\ pc[c] = "idle"
    BY <1>8 DEF Init, AuthorityInit, EmptyBudget
  <2>2. \A n \in 1 .. MaxAttempts : <<c, n>> \in Attempt
    BY <1>8, ScheduleAssumption
  <2> QED BY <2>1, <2>2 DEF HoldingInv
<1>9. StopInv
  BY DEF Init, AuthorityInit, EmptyBudget, StopInv, ReasonKept
<1>10. StatusInv
  BY DEF Init, StatusInv
<1>11. LimitInv
  <2>1. FailedIn(1 .. offset) = {}
    BY DEF Init, FailedIn
  <2>2. Cardinality({}) = 0
    BY FS_EmptySet
  <2>3. FailureMode = "failure-threshold" => 0 <= MaxFailures
    BY ScheduleAssumption
  <2> QED BY <2>1, <2>2, <2>3 DEF LimitInv
<1> QED BY <1>3, <1>4, <1>5, <1>6, <1>7, <1>8, <1>9, <1>10, <1>11 DEF IInv, TrialsInv

(* Every step preserves it.                                                *)
LEMMA StepInv ==
  ASSUME IInv, [Next]_vars
  PROVE  IInv'
<1>1. /\ \A i \in DOMAIN Schedule : BlockInv(i)'
      /\ \A c \in Coordinate : PhaseInv(c)' /\ AttemptsInv(c)' /\ HoldingInv(c)'
  BY BlockKept, PhaseKept, AttemptsKept, HoldingKept
<1>2. TrialsInv'
  BY <1>1 DEF TrialsInv
<1> QED BY <1>2, ControlKept, TrialsTypedKept, LedgerKept, StopKept, StatusKept, LimitKept
        DEF IInv

(* The inductive invariant of the stage holds of every schedule and every  *)
(* policy.                                                                 *)
THEOREM StageInvariant == Spec => []IInv
<1> QED BY InitInv, StepInv, PTL DEF Spec

(* Every variable of runExecution and its ledger stays in its type.        *)
THEOREM TypeCorrect == Spec => []TypeOK
<1>1. IInv => TypeOK
  BY DEF IInv, ControlTyped, TrialsTyped, EndingTyped, TrialsInv, AttemptsInv, LedgerOK,
         BudgetTyped, TypeOK
<1> QED BY <1>1, StageInvariant, PTL

(* The stage implements the authority's specification: with all its trials *)
(* interleaved it consumes, settles and returns each reservation once,     *)
(* notes every refusal and records every failure.                          *)
THEOREM ProtocolHolds == Spec => BudgetProtocol
<1>1. Init => AuthorityInit
  BY DEF Init
<1>2. IInv /\ [Next]_vars => [AuthorityNext]_authority
  BY AuthorityStep
<1> QED BY <1>1, <1>2, StageInvariant, PTL DEF Spec, BudgetProtocol, AuthoritySpec

(* Each trial holds exactly the reservation its position in                *)
(* executeCoordinate calls for.                                            *)
THEOREM ReservationsHold == Spec => []ReservationsFollowTrials
<1>1. ASSUME IInv, NEW c \in Coordinate, NEW n \in 1 .. MaxAttempts
      PROVE  <<c, n>> = Current(c) <=> n = Len(attempts[c]) + 1
  BY DEF Current
<1>2. IInv => ReservationsFollowTrials
  BY <1>1 DEF IInv, TrialsInv, HoldingInv, ReservationsFollowTrials
<1> QED BY <1>2, StageInvariant, PTL

(* The stage's reason to stop never contradicts the status the authority   *)
(* reports.                                                                *)
THEOREM StopAgrees == Spec => []StopAgreesWithLedger
<1>1. IInv => StopAgreesWithLedger
  BY DEF IInv, EndingTyped, StopKind, StopInv, ReasonKept, StopAgreesWithLedger, SummaryStatus
<1> QED BY <1>1, StageInvariant, PTL

(* A Run that lost a required event is never published as anything but     *)
(* failed.                                                                 *)
THEOREM LostEventHolds == Spec => []LostEventFailsRun
<1>1. IInv => LostEventFailsRun
  BY DEF IInv, StatusInv, LostEventFailsRun
<1> QED BY <1>1, StageInvariant, PTL

(* No block is admitted after a batch that reached the failure limit.      *)
THEOREM FailureLimitHolds == Spec => NoAdmissionPastFailureLimit
<1> DEFINE Limited == /\ FailureMode = "fail-fast" => FailedIn(1 .. offset) = {}
                      /\ FailureMode = "failure-threshold" =>
                           Cardinality(FailedIn(1 .. offset)) <= MaxFailures
           Kept == \A c \in Coordinate : pc[c] = "idle" /\ pc'[c] = "waiting" => Limited
<1>1. ASSUME IInv, [Next]_vars, NEW c \in Coordinate, pc[c] = "idle", pc'[c] = "waiting"
      PROVE  phase \in {"lookup", "admit", "running"}
  <2>1. ASSUME NEW d \in Coordinate, TrialStep(d) PROVE phase = "running"
    BY <1>1, <2>1, TrialStepMoves DEF TrialMoves
  <2>2. CASE RunStep
    BY <1>1, <2>2, RunStepMoves
       DEF LookUpMoves, ForgetMoves, AdmitMoves, LaterPhase, EndBatch, trials
  <2>3. Environment \/ Finished \/ UNCHANGED vars => UNCHANGED pc
    BY EnvironmentMoves DEF Finished, vars, trials
  <2> QED BY <1>1, <2>1, <2>2, <2>3 DEF Next
<1>2. IInv /\ [Next]_vars => [Kept]_vars
  BY <1>1 DEF IInv, LimitInv
<1> QED BY <1>2, StageInvariant, PTL DEF Spec, NoAdmissionPastFailureLimit

(* Once the Run is aborted the authority admits no batch, and of the steps *)
(* left to it only a start moves a reservation forward.                    *)
LEMMA AbortedAuthority ==
  ASSUME IInv, Aborted, [AuthorityNext]_authority, NEW a \in Attempt
  PROVE  \/ budget'.reservations[a] \in {budget.reservations[a], "none"}
         \/ budget.reservations[a] = "reserved" /\ budget'.reservations[a] = "consumed"
<1> DEFINE Quiet == budget'.reservations[a] \in {budget.reservations[a], "none"}
<1>1. /\ budget \in Budget /\ ReasonKept(stop.kind, budget)
      /\ budget.reservations \in [Attempt -> {"none", "reserved", "consumed"}]
  BY DEF IInv, LedgerOK, BudgetTyped, Budget, StopInv
<1>2. ASSUME NEW B \in SUBSET Attempt PROVE ~Reserve(B)
  <2>1. budget.failed \/ (budget.termination # None /\ budget.termination.kind = "cancelled")
    BY <1>1 DEF Aborted, ReasonKept
  <2>2. Denials(budget, B, expired) # {}
    BY <2>1 DEF Denials
  <2> QED BY <2>2 DEF Reserve, Admissible
<1>3. ASSUME NEW b \in Budget, NEW d \in PerhapsFailed(b)
      PROVE  d.reservations = b.reservations
  BY <1>3, TerminationPositions DEF PerhapsFailed
<1>4. ASSUME NEW B \in SUBSET Attempt, Refuse(B) PROVE Quiet
  <2>1. PICK t \in Denials(budget, B, expired) :
          budget' \in PerhapsFailed(AfterTermination(budget, t))
    BY <1>4 DEF Refuse
  <2>2. AfterTermination(budget, t) \in Budget
    BY <1>1, DenialsTyped, TerminationTyped
  <2> QED BY <1>1, <1>3, <2>1, <2>2, TerminationPositions
<1>5. ASSUME NEW x \in Attempt, Release(x) PROVE Quiet
  <2>1. AfterRelease(budget, x) \in Budget
    BY <1>1, <1>5, ReleaseTyped
  <2>2. budget'.reservations = AfterRelease(budget, x).reservations
    BY <1>3, <1>5, <2>1 DEF Release
  <2>3. budget'.reservations = [budget.reservations EXCEPT ![x] = "none"]
    BY <1>1, <2>2, ReturnPositions
  <2> QED BY <1>1, <2>3
<1>6. ASSUME NEW x \in Attempt, Settle(x) PROVE Quiet
  <2>1. PICK c \in PossibleCharge : budget' \in PerhapsFailed(AfterSettle(budget, x, c))
    BY <1>6 DEF Settle
  <2>2. c \in Charge /\ AfterSettle(budget, x, c) \in Budget
    BY <1>1, ChargeTyped, SettleTyped
  <2>3. budget'.reservations = AfterSettle(budget, x, c).reservations
    BY <1>3, <2>1, <2>2
  <2>4. budget'.reservations = [budget.reservations EXCEPT ![x] = "none"]
    BY <1>1, <2>2, <2>3, SettlePositions
  <2> QED BY <1>1, <2>4
<1>7. ASSUME NEW x \in Attempt, Consume(x)
      PROVE  Quiet \/ (budget.reservations[a] = "reserved" /\ budget'.reservations[a] = "consumed")
  <2>1. budget'.reservations = [budget.reservations EXCEPT ![x] = "consumed"]
    BY <1>1, <1>7, ReturnPositions DEF Consume
  <2> QED BY <1>1, <1>7, <2>1 DEF Consume
<1>8. NoteStop \/ DeadlineNoted => Quiet
  BY <1>1, TerminationPositions DEF NoteStop, DeadlineNoted
<1>9. DeadlinePasses \/ UNCHANGED authority => Quiet
  BY DEF DeadlinePasses, authority
<1>10. Handoff => Quiet
  BY <1>1, HandoffPositions DEF Handoff
<1> HIDE DEF Quiet
<1>11. Quiet \/ (budget.reservations[a] = "reserved" /\ budget'.reservations[a] = "consumed")
  BY <1>2, <1>4, <1>5, <1>6, <1>7, <1>8, <1>9, <1>10 DEF AuthorityNext
<1> QED BY <1>11 DEF Quiet

(* And no trial of an aborted Run starts an invocation.                    *)
LEMMA AbortedTrials ==
  ASSUME IInv, Aborted, [Next]_vars, NEW c \in Coordinate, pc'[c] = "running"
  PROVE  pc[c] = "running"
<1>1. CASE RunStep
  BY <1>1, RunStepMoves
     DEF LookUpMoves, ForgetMoves, Forgotten, AdmitMoves, LaterPhase, EndBatch, trials
<1>2. ASSUME NEW d \in Coordinate, TrialStep(d) PROVE pc[c] = "running"
  <2>1. pc' = [pc EXCEPT ![d] = pc'[d]]
    BY <1>2, TrialStepMoves DEF TrialMoves
  <2>2. pc \in [Coordinate -> SlotHolder \cup {"idle", "found", "cached", "waiting", "done"}]
    BY DEF IInv, TrialsTyped
  <2>3. CASE c # d
    BY <2>1, <2>2, <2>3
  <2>4. CASE c = d
    BY <1>2, <2>2, <2>4
       DEF TrialStep, TakeGlobalSlot, TakeExecutorSlot, GiveUp, OpenTrial, OpenFails, StartAttempt,
           AbandonAttempt, InvalidResult, FinishAttempt, RetryAdmitted, RetryRefused, CloseTrial,
           GoTo
  <2> QED BY <2>3, <2>4
<1>3. Environment \/ Finished \/ UNCHANGED vars => UNCHANGED pc
  BY EnvironmentMoves DEF Finished, vars, trials
<1> QED BY <1>1, <1>2, <1>3 DEF Next

(* Once the Run is aborted nothing is reserved or invoked any more.        *)
THEOREM NothingStartsHolds == Spec => NothingStartsOnceAborted
<1> DEFINE Still == \A a \in Attempt :
             budget'.reservations[a] \in {budget.reservations[a], "none"}
<1>1. ASSUME IInv, [Next]_vars, Aborted, NEW a \in Attempt
      PROVE  budget'.reservations[a] \in {budget.reservations[a], "none"}
  <2>1. \/ budget'.reservations[a] \in {budget.reservations[a], "none"}
        \/ budget.reservations[a] = "reserved" /\ budget'.reservations[a] = "consumed"
    BY <1>1, AuthorityStep, AbortedAuthority
  <2>2. PICK c \in Coordinate, n \in 1 .. MaxAttempts : a = <<c, n>>
    BY ScheduleAssumption
  <2>3. budget'.reservations[a] = "consumed" => pc'[c] = "running"
    BY <1>1, <2>2, StepInv DEF IInv, TrialsInv, HoldingInv
  <2>4. pc[c] = "running" => budget.reservations[a] # "reserved"
    BY <1>1, <2>2 DEF IInv, TrialsInv, HoldingInv
  <2> QED BY <1>1, <2>1, <2>3, <2>4, AbortedTrials
<1>2. IInv /\ [Next]_vars => [Aborted => Still]_vars
  BY <1>1
<1> QED BY <1>2, StageInvariant, PTL DEF Spec, NothingStartsOnceAborted

-------------------------------------------------------------------------------
(* What verifyExecutionBundle finds.  BundleAccepted as a whole does not   *)
(* hold of every policy (see ExhaustedRunYieldsBundle), but all that can   *)
(* go wrong is the cost of what was done: blocks, coverage, ledger,        *)
(* retries and invocations are always in order.                            *)

RecordsInOrder ==
  BlocksAtomic /\ StatusCovered /\ LedgerMatches /\ RetriesAllowed /\ InvocationsAllowed

Over == phase \in {"assembling", "sealed", "published", "rejected"}

(* When the trials are over, what is left of each is a replay, its         *)
(* attempts, or nothing.                                                   *)
LEMMA OverPlaces ==
  ASSUME IInv, Over, NEW c \in Coordinate
  PROVE  /\ pc[c] \in {"idle", "cached", "done"}
         /\ pc[c] = "idle" => attempts[c] = <<>> /\ Stopped
         /\ pc[c] = "done" /\ attempts[c] = <<>> => Aborted /\ status # "budget-exhausted"
         /\ Len(attempts[c]) \in 0 .. MaxAttempts /\ attempts[c] \in Seq(AttemptStatus)
<1>1. PICK i \in DOMAIN Schedule : c \in Schedule[i]
  BY OneBlock
<1>2. pc[c] \in {"idle", "cached", "done"}
  BY DEF IInv, TrialsInv, PhaseInv, Over
<1>3. ~Stopped => i < cursor
  BY ScheduleAssumption DEF IInv, CursorInv, ControlTyped, Over
<1>4. pc[c] = "idle" => Stopped
  BY <1>1, <1>3 DEF IInv, TrialsInv, BlockInv
<1>5. attempts[c] \in Seq(AttemptStatus) /\ Len(attempts[c]) <= MaxAttempts
  BY DEF IInv, TrialsTyped, TrialsInv, AttemptsInv
<1> QED BY <1>2, <1>4, <1>5, ScheduleAssumption DEF IInv, TrialsInv, AttemptsInv

(* Blocks are censored whole, and the status covers the records.           *)
LEMMA OverCoverage ==
  ASSUME IInv, Over
  PROVE  BlocksAtomic /\ StatusCovered
<1> DEFINE exhausted == "budget-exhausted" \in {stop.kind, status}
<1>1. exhausted => ~Aborted \/ status = "budget-exhausted"
  BY DEF Aborted
<1>2. ASSUME NEW c \in Coordinate
      PROVE  /\ RecordOf(c) = "budget-censored" <=> exhausted /\ pc[c] = "idle"
             /\ RecordOf(c) = "missing" => ~exhausted
             /\ ~Stopped => RecordOf(c) \in {"completed", "failed", "cancelled"}
  <2>1. attempts[c] # <<>> => attempts[c][Len(attempts[c])] \in {"completed", "failed", "cancelled"}
    <3>1. attempts[c] \in Seq({"completed", "failed", "cancelled"})
      BY OverPlaces DEF AttemptStatus
    <3>2. attempts[c] # <<>> => Len(attempts[c]) \in 1 .. Len(attempts[c])
      BY <3>1, EmptySeq
    <3> QED BY <3>1, <3>2
  <2> QED BY <1>1, <2>1, OverPlaces DEF RecordOf, Aborted, Stopped
<1> HIDE DEF exhausted
<1>3. BlocksAtomic
  <2> SUFFICES ASSUME NEW i \in DOMAIN Schedule, NEW c \in Schedule[i],
                      RecordOf(c) = "budget-censored", NEW d \in Schedule[i]
               PROVE  RecordOf(d) = "budget-censored"
    BY DEF BlocksAtomic
  <2>1. c \in Coordinate /\ d \in Coordinate
    BY OneBlock
  <2>2. pc[d] \in {"idle", "found"}
    BY <1>2, <2>1 DEF IInv, TrialsInv, BlockInv
  <2> QED BY <1>2, <2>1, <2>2, OverPlaces
<1>4. stop.kind = "cancelled" => ~exhausted
  BY DEF exhausted, IInv, StatusInv
<1>5. stop.kind = "budget-exhausted" => exhausted
  BY DEF exhausted
<1> QED BY <1>2, <1>3, <1>4, <1>5 DEF StatusCovered, Outcomes

(* The ledger holds the attempts of the records and nothing else.          *)
LEMMA OverLedger ==
  ASSUME IInv, Over
  PROVE  LedgerMatches /\ RetriesAllowed
<1>1. ASSUME NEW a \in Attempt
      PROVE  /\ budget.reservations[a] = "none"
             /\ budget.entries[a] # None <=> a \in NativeAttempts
  <2>1. PICK c \in Coordinate, n \in 1 .. MaxAttempts : a = <<c, n>>
    BY ScheduleAssumption
  <2>2. HoldingInv(c) /\ pc[c] \in {"idle", "cached", "done"} /\ Len(attempts[c]) \in Nat
    BY OverPlaces DEF IInv, TrialsInv
  <2>3. budget.reservations[a] \in {"none", "reserved", "consumed"}
    BY DEF IInv, LedgerOK, BudgetTyped, Budget
  <2>4. budget.reservations[a] = "none"
    BY <2>1, <2>2, <2>3 DEF HoldingInv
  <2>5. budget.entries[a] # None <=> n <= Len(attempts[c])
    BY <2>1, <2>2 DEF HoldingInv
  <2>6. a \in NativeAttempts <=> n \in 1 .. Len(attempts[c])
    <3>1. a \in NativeAttempts <=> c \in Native /\ a \in AttemptsMade(c)
      BY <2>1 DEF NativeAttempts, AttemptsMade
    <3>2. a \in AttemptsMade(c) <=> n \in 1 .. Len(attempts[c])
      BY <2>1 DEF AttemptsMade
    <3>3. n \in 1 .. Len(attempts[c]) => attempts[c] # <<>>
      OBVIOUS
    <3> QED BY <3>1, <3>2, <3>3 DEF Native
  <2> QED BY <2>2, <2>4, <2>5, <2>6
<1>2. NativeAttempts \subseteq Attempt
  BY OverPlaces, ScheduleAssumption DEF NativeAttempts, Native, AttemptsMade
<1>3. LedgerMatches
  BY <1>1, <1>2 DEF LedgerMatches, Outstanding, Settled
<1>4. RetriesAllowed
  <2>1. ASSUME NEW c \in Native, NEW n \in 1 .. Len(attempts[c]) - 1
        PROVE  attempts[c][n] = "failed"
    <3>1. c \in Coordinate /\ Len(attempts[c]) \in Nat
      BY OverPlaces DEF Native
    <3>2. n \in 1 .. Len(attempts[c]) /\ n < Len(attempts[c])
      BY <3>1
    <3> QED BY <3>1, <3>2 DEF IInv, TrialsInv, AttemptsInv
  <2> QED BY <2>1 DEF RetriesAllowed
<1> QED BY <1>3, <1>4

(* So no limit on invocations is passed by the records either.             *)
LEMMA OverInvocations ==
  ASSUME IInv, Over
  PROVE  InvocationsAllowed
<1>1. /\ LedgerInv(budget) /\ budget \in Budget /\ Settled(budget) = NativeAttempts
      /\ Outstanding(budget) = {}
  BY OverLedger DEF LedgerMatches, IInv, LedgerOK, BudgetTyped
<1>2. ASSUME NEW s \in {"run", "execution"}, MaxInvocations[s] # None
      PROVE  Cardinality(NativeAttempts) <= MaxInvocations[s]
  <2>1. s \in Scope
    BY DEF Scope, Stage
  <2>2. SettledOf(budget, s) = NativeAttempts /\ OutstandingOf(budget, s) = {}
    BY <1>1, ScheduleAssumption DEF SettledOf, OutstandingOf, Within, Charges, Settled
  <2>3. budget.invocations[s] = Cardinality(NativeAttempts)
    BY <1>1, <2>1, <2>2 DEF LedgerInv, TotalsExplained
  <2>4. budget.invocations[s] + Cardinality({}) <= MaxInvocations[s]
    BY <1>1, <1>2, <2>1, <2>2 DEF LedgerInv, LimitsKept
  <2>5. budget.invocations[s] \in Nat /\ Cardinality({}) = 0
    BY <1>1, <2>1, FS_EmptySet DEF Budget
  <2> QED BY <2>3, <2>4, <2>5
<1> QED BY <1>2 DEF InvocationsAllowed

(* The records a Run ends with are always in order: no block is censored   *)
(* in part, the status is covered by the records, the ledger has their     *)
(* attempts and nothing else, only failures were retried, and no limit on  *)
(* invocations is passed.                                                  *)
THEOREM RecordsVerify == Spec => [](Over => RecordsInOrder)
<1>1. IInv => (Over => RecordsInOrder)
  BY OverCoverage, OverLedger, OverInvocations DEF RecordsInOrder
<1> QED BY <1>1, StageInvariant, PTL

(* The Bundle is refused over its cost figures, or not at all.             *)
RefusedOverCost ==
  [][phase # "rejected" /\ phase' = "rejected" =>
       ~CompletedWithinCost \/ ~CostExhaustionBacked]_vars

(* So it is, when it is first assembled and when it is made again.         *)
THEOREM RefusalsAreAboutCost == Spec => RefusedOverCost
<1> DEFINE AboutCost == phase # "rejected" /\ phase' = "rejected" =>
                          ~CompletedWithinCost \/ ~CostExhaustionBacked
<1>1. ASSUME IInv, [Next]_vars, phase # "rejected", phase' = "rejected"
      PROVE  ~CompletedWithinCost \/ ~CostExhaustionBacked
  <2>1. Assemble \/ Recover
    <3>1. ASSUME NEW d \in Coordinate, TrialStep(d) PROVE phase' = phase
      BY <1>1, <3>1, TrialStepMoves DEF TrialMoves, control
    <3>2. Environment \/ Finished \/ UNCHANGED vars => phase' = phase
      BY EnvironmentMoves DEF Finished, vars, control
    <3>3. RunStep => Assemble \/ Recover
      BY <1>1 DEF RunStep, LookUp, LookUpFails, AdmitBlock, RefuseBlock, Dispatch, EndBatch,
                  Teardown, Publish
    <3> QED BY <1>1, <3>1, <3>2, <3>3 DEF Next
  <2>2. Over /\ ~Acceptable
    BY <1>1, <2>1 DEF Assemble, Recover, Over
  <2>3. RecordsInOrder
    BY <1>1, <2>2, OverCoverage, OverLedger, OverInvocations DEF RecordsInOrder
  <2> QED BY <2>2, <2>3 DEF RecordsInOrder, Acceptable
<1>2. IInv /\ [Next]_vars => [AboutCost]_vars
  BY <1>1
<1> QED BY <1>2, StageInvariant, PTL DEF Spec, RefusedOverCost

(* A policy without cost limits.                                           *)
NoCostLimits ==
  MaxAttemptCost = None /\ \A s \in Scope : MaxProviderCost[s] = None

(* Under such a policy every Bundle passes its own verification, whatever  *)
(* failed, was cancelled or ran out of invocations or time.                *)
THEOREM BundlesAcceptedWithoutCostLimits ==
  ASSUME NoCostLimits
  PROVE  Spec => []BundleAccepted
<1>1. CompletedWithinCost /\ CostExhaustionBacked
  <2>1. /\ {"run", "execution"} \subseteq Scope /\ Coordinate \subseteq Scope
        /\ \A a \in Attempt : {StageOf[a], CoordinateOf[a]} \subseteq Scope
    BY AttemptAssumption DEF Scope, Stage
  <2>2. ~AuditCost /\ CostLimits = {}
    BY <2>1 DEF AuditCost, CostTracked, CostLimits, NoCostLimits
  <2>3. \A c \in Native : MaxProviderCost[c] = None
    BY <2>1 DEF Native, NoCostLimits
  <2> QED BY <2>2, <2>3 DEF CompletedWithinCost, CostExhaustionBacked, NoCostLimits
<1>2. Init => BundleAccepted
  BY DEF Init, BundleAccepted
<1>3. /\ BundleAccepted
      /\ [phase # "rejected" /\ phase' = "rejected" =>
            ~CompletedWithinCost \/ ~CostExhaustionBacked]_vars
      => BundleAccepted'
  BY <1>1 DEF BundleAccepted, vars, control
<1> QED BY <1>2, <1>3, RefusalsAreAboutCost, PTL DEF Spec, RefusedOverCost

-------------------------------------------------------------------------------
(* Costs.  The figures the verification recomputes from the records are    *)
(* the ones the authority kept.                                            *)

(* The strict cost limit, of the authority with all trials interleaved.    *)
THEOREM StrictCostsWithinLimits == Spec => []StrictCostWithinLimit
BY ProtocolHolds, StrictCostHolds, PTL DEF BudgetProtocol

CostInvs == CostInv(budget) /\ NoticeInv(budget)

(* The invariants of the authority about money hold of the stage.          *)
LEMMA CostInvsHold == Spec => []CostInvs
<1>1. CostInv(budget) /\ NoticeInv(budget) => CostInvs
  BY DEF CostInvs
<1> QED BY <1>1, ProtocolHolds, CostInvariant, NoticeInvariant, PTL DEF BudgetProtocol

(* The trials over, an attempt that was made has a charge.                 *)
LEMMA MadeAttempts ==
  ASSUME IInv, Over, NEW c \in Coordinate
  PROVE  /\ AttemptsMade(c) \subseteq Settled(budget)
         /\ AttemptsMade(c) \subseteq Attempt /\ IsFiniteSet(AttemptsMade(c))
         /\ \A a \in AttemptsMade(c) : Amounts(budget)[a] \in Nat
         /\ \A a \in AttemptsMade(c) : a[1] = c
         /\ AttemptsMade(c) # {} <=> c \in Native
<1>1. Len(attempts[c]) \in 0 .. MaxAttempts /\ attempts[c] \in Seq(AttemptStatus)
  BY OverPlaces
<1>2. AttemptsMade(c) # {} <=> c \in Native
  <2>1. Len(attempts[c]) \in Nat /\ (attempts[c] = <<>> <=> Len(attempts[c]) = 0)
    BY <1>1, EmptySeq
  <2>2. 1 .. Len(attempts[c]) # {} <=> Len(attempts[c]) # 0
    <3>1. Len(attempts[c]) # 0 => 1 \in 1 .. Len(attempts[c])
      BY <2>1
    <3> QED BY <2>1, <3>1
  <2>3. AttemptsMade(c) # {} <=> 1 .. Len(attempts[c]) # {}
    BY DEF AttemptsMade
  <2> QED BY <2>1, <2>2, <2>3 DEF Native
<1>3. AttemptsMade(c) \subseteq NativeAttempts
  BY <1>2 DEF NativeAttempts
<1>4. AttemptsMade(c) \subseteq Settled(budget)
  BY <1>3, OverLedger DEF LedgerMatches
<1>5. AttemptsMade(c) \subseteq Attempt
  BY <1>4 DEF Settled
<1>6. IsFiniteSet(AttemptsMade(c))
  BY <1>5, AttemptAssumption, FS_Subset
<1>7. \A a \in Settled(budget) : Amounts(budget)[a] \in Nat
  BY DEF Settled, Amounts, IInv, LedgerOK, BudgetTyped, Budget, Charge
<1> QED BY <1>2, <1>4, <1>5, <1>6, <1>7 DEF AttemptsMade

CostBy == [c \in Coordinate |-> CostOf(c)]
MadeBy(S) == UNION {AttemptsMade(c) : c \in S}

(* The cost of a trial is the sum over its attempts.                       *)
LEMMA TrialCost ==
  ASSUME IInv, Over, NEW c \in Coordinate
  PROVE  CostBy[c] = SumOver(Amounts(budget), AttemptsMade(c)) /\ CostBy[c] \in Nat
<1>1. CostOf(c) = SumOver(Amounts(budget), AttemptsMade(c))
  BY MadeAttempts, AmountsSum DEF CostOf
<1>2. SumOver(Amounts(budget), AttemptsMade(c)) \in Nat
  BY MadeAttempts, SumNat
<1> QED BY <1>1, <1>2 DEF CostBy

(* So the cost of some trials is the sum over all their attempts.          *)
LEMMA TrialsCost ==
  ASSUME IInv, Over, NEW S \in SUBSET Coordinate
  PROVE  SumOver(CostBy, S) = SumOver(Amounts(budget), MadeBy(S))
<1> DEFINE Q == {U \in SUBSET S : SumOver(CostBy, U) # SumOver(Amounts(budget), MadeBy(U))}
<1>1. SUFFICES ASSUME Q # {} PROVE FALSE
  OBVIOUS
<1>2. IsFiniteSet(S)
  BY FiniteTrials, FS_Subset
<1>3. PICK U \in Q : \A V \in Q : ~(V \subseteq U /\ V # U)
  <2>1. Q \subseteq SUBSET S
    OBVIOUS
  <2> HIDE DEF Q
  <2> QED BY <1>1, <1>2, <2>1, SmallestSubset
<1>4. U # {} /\ IsFiniteSet(U) /\ U \subseteq Coordinate
  <2>1. MadeBy({}) = {}
    BY DEF MadeBy
  <2> QED BY <1>2, <1>3, <2>1, SumEmpty, FS_Subset
<1> DEFINE c == Peeled(U)
           R == U \ {c}
<1>5. c \in U /\ R \subseteq U /\ R # U
  BY <1>4, PeeledIn
<1>6. SumOver(CostBy, U) = CostBy[c] + SumOver(CostBy, R)
  BY <1>4, SumPeeled
<1>7. SumOver(CostBy, R) = SumOver(Amounts(budget), MadeBy(R))
  BY <1>3, <1>5
<1> HIDE DEF c, R
<1>8. MadeBy(U) = AttemptsMade(c) \cup MadeBy(R) /\ AttemptsMade(c) \cap MadeBy(R) = {}
  <2>1. U = {c} \cup R /\ c \notin R /\ R \subseteq Coordinate /\ c \in Coordinate
    BY <1>4, <1>5 DEF R
  <2>2. \A a \in MadeBy(R) : a[1] \in R
    BY <2>1, MadeAttempts DEF MadeBy
  <2>3. \A a \in AttemptsMade(c) : a[1] = c
    BY <2>1, MadeAttempts
  <2> QED BY <2>1, <2>2, <2>3 DEF MadeBy
<1>9. \A a \in MadeBy(U) : a \in Attempt /\ Amounts(budget)[a] \in Nat
  BY <1>4, MadeAttempts DEF MadeBy
<1>10. IsFiniteSet(AttemptsMade(c)) /\ IsFiniteSet(MadeBy(R))
  <2>1. MadeBy(R) \subseteq Attempt
    BY <1>8, <1>9
  <2> QED BY <1>4, <1>5, <2>1, MadeAttempts, AttemptAssumption, FS_Subset
<1>11. SumOver(Amounts(budget), MadeBy(U))
         = SumOver(Amounts(budget), AttemptsMade(c)) + SumOver(Amounts(budget), MadeBy(R))
  BY <1>8, <1>9, <1>10, SumUnion
<1>12. CostBy[c] = SumOver(Amounts(budget), AttemptsMade(c))
  BY <1>4, <1>5, TrialCost
<1> QED BY <1>3, <1>6, <1>7, <1>11, <1>12

(* The verification's sum over trials is one of those.                     *)
LEMMA CostBySum ==
  ASSUME NEW S \in SUBSET Coordinate
  PROVE  Sums!MapThenSumSet(CostOf, S) = SumOver(CostBy, S)
<1> DEFINE Rec(g) == g = [T \in SUBSET S |-> IF T = {} THEN 0
                                    ELSE CostOf(Peeled(T)) + g[T \ {Peeled(T)}]]
<1>0. IsFiniteSet(S)
  BY FiniteTrials, FS_Subset
<1>1. Sums!MapThenSumSet(CostOf, S) = (CHOOSE g : Rec(g))[S]
  BY DEF Peeled, Sums!MapThenSumSet, Sums!MapThenFoldSet
<1>2. ASSUME NEW T \in SUBSET S, T # {}
      PROVE  CostBy[Peeled(T)] = CostOf(Peeled(T))
  BY <1>2, PeeledIn DEF CostBy
<1>3. \A g : Rec(g) <=> IsFold(g, CostBy, S)
  BY <1>2 DEF IsFold
<1> HIDE DEF Rec
<1>4. \E g : Rec(g)
  BY <1>0, <1>3, FoldExists
<1>5. IsFold(CHOOSE g : Rec(g), CostBy, S)
  BY <1>3, <1>4
<1>6. SumOver(CostBy, S) = (CHOOSE g : Rec(g))[S]
  BY <1>0, <1>5, SumIsFold
<1> QED BY <1>1, <1>6

(* What the verification adds up never exceeds what the authority counted, *)
(* of the Run, of the stage and of a trial; and equals it when every trial *)
(* reported its cost.                                                      *)
LEMMA CountedCosts ==
  ASSUME IInv, CostInvs, Over
  PROVE  /\ \A c \in Native : CostKnown(c) => c \in Scope /\ CostOf(c) = budget.cost[c]
         /\ \A s \in {"run", "execution"} :
              /\ s \in Scope /\ ReportedCost \in Nat /\ budget.cost[s] \in Nat
              /\ ReportedCost <= budget.cost[s]
              /\ (\A c \in Native : CostKnown(c)) => ReportedCost = budget.cost[s]
              /\ SettledOf(budget, s) = NativeAttempts
<1>1. /\ \A s \in Scope : budget.cost[s] = SumOver(Amounts(budget), ReportedOf(budget, s))
      /\ \A s \in Scope : budget.cost[s] \in Nat
  BY DEF CostInvs, CostInv, CostExplained, Budget
<1>2. /\ Settled(budget) = NativeAttempts /\ NativeAttempts \subseteq Attempt
      /\ \A a \in NativeAttempts : Amounts(budget)[a] \in Nat
  <2>1. Settled(budget) = NativeAttempts
    BY OverLedger DEF LedgerMatches
  <2>2. \A c \in Native : /\ AttemptsMade(c) \subseteq Attempt
                          /\ \A a \in AttemptsMade(c) : Amounts(budget)[a] \in Nat
    BY MadeAttempts DEF Native
  <2> QED BY <2>1, <2>2 DEF NativeAttempts
<1>3. ASSUME NEW c \in Native, CostKnown(c)
      PROVE  c \in Scope /\ CostOf(c) = budget.cost[c]
  <2>1. c \in Coordinate /\ c \in Scope
    BY DEF Native, Scope
  <2>2. \A a \in Attempt : Charges(a, c) <=> a[1] = c
    <3>1. c \notin {"run"} \cup Stage /\ "execution" \in Stage
      BY <2>1, AttemptAssumption DEF Stage
    <3> QED BY <3>1, ScheduleAssumption DEF Charges
  <2>3. \A a \in NativeAttempts : a[1] = c <=> a \in AttemptsMade(c)
    <3>1. \A d \in Native : \A a \in AttemptsMade(d) : a[1] = d
      BY MadeAttempts DEF Native
    <3> QED BY <2>1, <3>1, MadeAttempts DEF NativeAttempts
  <2>4. AttemptsMade(c) \subseteq NativeAttempts
    BY DEF NativeAttempts
  <2>5. ReportedOf(budget, c) = AttemptsMade(c)
    BY <1>2, <1>3, <2>2, <2>3, <2>4 DEF ReportedOf, SettledOf, Within, CostKnown
  <2>6. CostOf(c) = SumOver(Amounts(budget), AttemptsMade(c))
    BY <2>1, TrialCost DEF CostBy
  <2> QED BY <1>1, <2>1, <2>5, <2>6
<1>4. ASSUME NEW s \in {"run", "execution"}
      PROVE  /\ s \in Scope /\ ReportedCost \in Nat /\ budget.cost[s] \in Nat
             /\ ReportedCost <= budget.cost[s]
             /\ (\A c \in Native : CostKnown(c)) => ReportedCost = budget.cost[s]
             /\ SettledOf(budget, s) = NativeAttempts
  <2> DEFINE K == {c \in Native : CostKnown(c)}
  <2>1. s \in Scope
    BY DEF Scope, Stage
  <2>2. SettledOf(budget, s) = NativeAttempts
    BY <1>2, ScheduleAssumption DEF SettledOf, Within, Charges
  <2>3. MadeBy(K) \subseteq ReportedOf(budget, s)
    BY <2>2 DEF MadeBy, ReportedOf, CostKnown, NativeAttempts
  <2>4. K = Native => MadeBy(K) = NativeAttempts
    BY DEF MadeBy, NativeAttempts
  <2>5. /\ ReportedOf(budget, s) \subseteq NativeAttempts
        /\ IsFiniteSet(ReportedOf(budget, s))
    <3>1. ReportedOf(budget, s) \subseteq NativeAttempts
      BY <2>2 DEF ReportedOf
    <3> QED BY <1>2, <3>1, AttemptAssumption, FS_Subset
  <2>6. ReportedCost = SumOver(Amounts(budget), MadeBy(K))
    <3>1. K \in SUBSET Coordinate
      BY DEF Native
    <3>2. ReportedCost = Sums!MapThenSumSet(CostOf, K)
      BY DEF ReportedCost
    <3> HIDE DEF K
    <3> QED BY <3>1, <3>2, CostBySum, TrialsCost
  <2>7. \A a \in ReportedOf(budget, s) : Amounts(budget)[a] \in Nat
    BY <1>2, <2>5
  <2>8. K = Native => MadeBy(K) = ReportedOf(budget, s)
    BY <2>3, <2>4, <2>5
  <2> HIDE DEF K
  <2>9. SumOver(Amounts(budget), MadeBy(K)) <= SumOver(Amounts(budget), ReportedOf(budget, s))
    BY <2>3, <2>5, <2>7, SumMonotone
  <2>10. SumOver(Amounts(budget), MadeBy(K)) \in Nat
    <3>1. IsFiniteSet(MadeBy(K))
      BY <2>3, <2>5, FS_Subset
    <3>2. \A a \in MadeBy(K) : Amounts(budget)[a] \in Nat
      BY <2>3, <2>7
    <3> QED BY <3>1, <3>2, SumNat
  <2>11. (\A c \in Native : CostKnown(c)) => K = Native
    BY DEF K
  <2> QED BY <1>1, <2>1, <2>2, <2>6, <2>8, <2>9, <2>10, <2>11
<1> QED BY <1>3, <1>4

(* The limit the verification compares with is the lower of the two.       *)
LEMMA LowerLimit ==
  ASSUME CostLimits # {}
  PROVE  /\ AggregateLimit \in CostLimits /\ AggregateLimit \in Nat
         /\ \A s \in {"run", "execution"} :
              MaxProviderCost[s] # None => AggregateLimit <= MaxProviderCost[s]
<1> DEFINE r == MaxProviderCost["run"]
           x == MaxProviderCost["execution"]
<1>1. r \in Nat \cup {None} /\ x \in Nat \cup {None}
  BY LimitAssumption DEF Scope, Stage, OptionalNat
<1>2. CostLimits = {r, x} \ {None}
  BY DEF CostLimits
<1> HIDE DEF r, x
<1>3. \E m \in CostLimits : \A n \in CostLimits : m <= n
  <2>1. CASE r = None
    BY <1>1, <1>2, <2>1
  <2>2. CASE r # None /\ x = None
    BY <1>1, <1>2, <2>2
  <2>3. CASE r # None /\ x # None /\ r <= x
    BY <1>1, <1>2, <2>3
  <2>4. CASE r # None /\ x # None /\ ~(r <= x)
    BY <1>1, <1>2, <2>4
  <2> QED BY <2>1, <2>2, <2>3, <2>4
<1>4. AggregateLimit \in CostLimits /\ \A n \in CostLimits : AggregateLimit <= n
  BY <1>3 DEF AggregateLimit
<1>5. CostLimits \subseteq Nat
  BY <1>1, <1>2
<1> QED BY <1>2, <1>4, <1>5 DEF r, x

(* The policies a completed Run is verified under: the limits of trials    *)
(* leave no attempt untracked that the report has to account for, and a    *)
(* limit is not zero.                                                      *)
LimitsInUse ==
  /\ UnknownCostMode = "fail-run" /\ AuditCost => \A a \in Attempt : CostTracked(a)
  /\ \A s \in Scope : MaxProviderCost[s] # 0

(* Every report of a tracked attempt was accepted or failed the Run.       *)
LEMMA TrackedReports ==
  ASSUME IInv, CostInvs, budget.failed = FALSE, NEW a \in Settled(budget), CostTracked(a)
  PROVE  \/ budget.entries[a].report = "reported"
         \/ budget.entries[a].report = "unreported" /\ UnknownCostMode = "mark-unverifiable"
<1>1. ~Rejected(a, budget.entries[a])
  BY DEF CostInvs, NoticeInv, ChargesSound
<1>2. budget.entries[a] \in Charge
  BY DEF IInv, LedgerOK, BudgetTyped, Budget, Settled
<1> QED BY <1>1, <1>2, ModeAssumption DEF Rejected, Charge, CostReport

(* With a limit of the Run or of the stage every attempt is tracked.       *)
LEMMA AllTracked ==
  ASSUME CostLimits # {}, NEW a \in Attempt
  PROVE  CostTracked(a)
BY ScheduleAssumption DEF CostLimits, CostTracked

(* A completed Run is within its cost limits by the verification's count.  *)
LEMMA CompletedCosts ==
  ASSUME IInv, CostInvs, Over, LimitsInUse
  PROVE  CompletedWithinCost
<1>1. SUFFICES ASSUME ~Stopped PROVE CompletedWithinCost
  BY DEF CompletedWithinCost
<1>2. budget.failed = FALSE /\ budget.termination = None /\ GoesOn(budget)
  BY <1>1 DEF IInv, StopInv, ReasonKept, Stopped, GoesOn
<1>3. /\ CostInv(budget) /\ NoticeInv(budget) /\ budget \in Budget
  BY DEF CostInvs, NoticeInv
<1>4. \A c \in Native : \A a \in AttemptsMade(c) : a \in Settled(budget) /\ a \in Attempt
  BY MadeAttempts DEF Native
<1>5. AuditCost /\ UnknownCostMode = "fail-run" => \A c \in Native : CostKnown(c)
  <2>1. SUFFICES ASSUME AuditCost, UnknownCostMode = "fail-run", NEW c \in Native,
                        NEW a \in AttemptsMade(c)
                 PROVE  budget.entries[a].report = "reported"
    BY DEF CostKnown
  <2>2. a \in Settled(budget) /\ CostTracked(a)
    BY <1>4, <2>1 DEF LimitsInUse
  <2> QED BY <1>2, <2>1, <2>2, TrackedReports
<1>6. ASSUME NEW c \in Native, CostKnown(c)
      PROVE  /\ MaxProviderCost[c] # None => CostOf(c) < MaxProviderCost[c]
             /\ MaxAttemptCost # None =>
                  \A a \in AttemptsMade(c) : budget.entries[a].amount < MaxAttemptCost
  <2>1. c \in Scope /\ CostOf(c) = budget.cost[c]
    BY <1>6, CountedCosts
  <2>2. MaxProviderCost[c] # None => budget.cost[c] < MaxProviderCost[c]
    BY <1>2, <1>3, <2>1, UnspentWhileGoing DEF LimitsInUse
  <2>3. ASSUME MaxAttemptCost # None, NEW a \in AttemptsMade(c)
        PROVE  budget.entries[a].amount < MaxAttemptCost
    <3>1. a \in Settled(budget) /\ budget.entries[a].report = "reported"
      BY <1>4, <1>6 DEF CostKnown
    <3>2. ~AttemptExhausted(budget.entries[a])
      BY <1>2, <1>3, <3>1 DEF NoticeInv, CostNoticed
    <3>3. budget.entries[a].amount \in Nat /\ MaxAttemptCost \in Nat
      BY <1>3, <2>3, <3>1, LimitAssumption DEF Budget, Settled, Charge, OptionalNat
    <3> QED BY <2>3, <3>1, <3>2, <3>3 DEF AttemptExhausted
  <2> QED BY <2>1, <2>2, <2>3
<1>7. ASSUME CostLimits # {}
      PROVE  /\ ReportedCost < AggregateLimit
             /\ (\A c \in Native : CostKnown(c)) \/ SummaryStatus(budget) = "unverifiable"
  <2>1. PICK s \in {"run", "execution"} :
             MaxProviderCost[s] # None /\ AggregateLimit = MaxProviderCost[s]
    BY <1>7, LowerLimit DEF CostLimits
  <2>2. /\ s \in Scope /\ ReportedCost \in Nat /\ budget.cost[s] \in Nat
        /\ ReportedCost <= budget.cost[s]
    BY CountedCosts
  <2>3. budget.cost[s] < MaxProviderCost[s]
    BY <1>2, <1>3, <2>1, <2>2, UnspentWhileGoing DEF LimitsInUse
  <2>4. ReportedCost < AggregateLimit
    BY <1>7, <2>1, <2>2, <2>3, LowerLimit
  <2>5. ASSUME NEW c \in Native, ~CostKnown(c)
        PROVE  SummaryStatus(budget) = "unverifiable"
    <3>1. PICK a \in AttemptsMade(c) : budget.entries[a].report # "reported"
      BY <2>5 DEF CostKnown
    <3>2. a \in Settled(budget) /\ CostTracked(a)
      BY <1>4, <1>7, AllTracked
    <3>3. budget.entries[a].report = "unreported" /\ UnknownCostMode = "mark-unverifiable"
      BY <1>2, <3>1, <3>2, TrackedReports
    <3>4. budget.unverifiable = TRUE
      BY <1>2, <1>3, <3>2, <3>3 DEF NoticeInv, ChargesAccounted, Unaccounted
    <3> QED BY <1>2, <3>4 DEF SummaryStatus
  <2> QED BY <2>4, <2>5
<1> QED BY <1>5, <1>6, <1>7 DEF CompletedWithinCost

(* A Run that completes is never refused its Bundle, whichever reservation *)
(* and whichever treatment of unknown costs its policy has.                *)
THEOREM CompletedBundlesAccepted ==
  ASSUME LimitsInUse
  PROVE  Spec => [](Over /\ ~Stopped => Acceptable)
<1>1. IInv /\ CostInvs => (Over /\ ~Stopped => Acceptable)
  <2>1. ~Stopped => CostExhaustionBacked
    BY DEF Stopped, CostExhaustionBacked
  <2> QED BY <2>1, CompletedCosts, OverCoverage, OverLedger, OverInvocations DEF Acceptable
<1> QED BY <1>1, StageInvariant, CostInvsHold, PTL

-------------------------------------------------------------------------------
(* A Run stopped by its cost.                                              *)

(* The policies whose every refusal over cost is of a limit that is spent, *)
(* of the Run or of a stage, by costs that are all known.                  *)
SpentLimitsOnly ==
  /\ BoundedOvershoot /\ UnknownCostMode = "fail-run"
  /\ MaxAttemptCost = None
  /\ \A c \in Coordinate : MaxProviderCost[c] = None
  /\ \A s \in Scope : MaxProviderCost[s] # 0

CostStop == [kind |-> "budget-exhausted", resource |-> "provider-cost"]

StopCost == stop = CostStop => \E s \in {"run", "execution"} : CostExhausted(budget, s)

(* Evaluation has spent nothing yet, so the limit is one of the two.       *)
LEMMA SpentBeforeEvaluation ==
  ASSUME IInv, CostInvs, SpentLimitsOnly, NEW B \in SUBSET Attempt,
         NEW s \in CheckedScopes(B), CostExhausted(budget, s)
  PROVE  s \in {"run", "execution"}
<1>1. \A c \in Coordinate : ~CostExhausted(budget, c)
  BY DEF SpentLimitsOnly, CostExhausted
<1>2. ~CostExhausted(budget, "evaluation")
  <2>1. SettledOf(budget, "evaluation") = {}
    BY ScheduleAssumption, AttemptAssumption DEF SettledOf, Settled, Within, Charges, Stage
  <2>2. "evaluation" \in Scope
    BY DEF Scope, Stage
  <2>3. budget.cost["evaluation"] = 0
    BY <2>1, <2>2, NothingSpent DEF CostInvs
  <2> QED BY <2>2, <2>3, LimitAssumption DEF CostExhausted, SpentLimitsOnly, OptionalNat
<1> QED BY <1>1, <1>2, AttemptAssumption DEF CheckedScopes, Stage

(* Refusing a batch over cost.                                             *)
LEMMA RefusalCost ==
  ASSUME IInv, CostInvs, SpentLimitsOnly, ~Stopped, NEW B \in SUBSET Attempt,
         NEW t \in Denials(budget, B, expired), StopRefused(t), stop' = CostStop
  PROVE  \E s \in {"run", "execution"} : CostExhausted(budget, s)
<1>1. budget.failed = FALSE /\ budget.termination = None
  BY DEF IInv, StopInv, ReasonKept, Stopped
<1>2. t.resource = "provider-cost"
  BY DEF StopRefused, SetStop, StopIgnored, Stopped, CostStop
<1>3. \E s \in CheckedScopes(B) : CostExhausted(budget, s)
  BY <1>1, <1>2, RefusedOverSpentLimit DEF SpentLimitsOnly
<1> QED BY <1>3, SpentBeforeEvaluation

(* Settling an attempt.                                                    *)
LEMMA FinishCost ==
  ASSUME IInv, SpentLimitsOnly, ~Stopped, NEW c \in Coordinate, NEW charge \in PossibleCharge,
         NEW outcome, NEW retryable, FinishAttempt(c, outcome, retryable, charge),
         stop' = CostStop
  PROVE  \E s \in {"run", "execution"} : CostExhausted(budget', s)
<1> DEFINE error == SettlementError(budget, Current(c), charge)
           settled == AfterSettle(budget, Current(c), charge)
           kind == IF SummaryStatus(settled) = "failed" THEN "failed" ELSE "budget-exhausted"
<1>1. budget \in Budget /\ Current(c) \in Attempt /\ charge \in Charge
  BY CurrentAttempt, ChargeTyped DEF FinishAttempt, IInv, LedgerOK, BudgetTyped
<1>2. error # None
  BY DEF FinishAttempt, Stopped, CostStop
<1>3. SetStop(settled, kind, error.resource)
  BY <1>2 DEF FinishAttempt
<1>4. error.resource = "provider-cost" /\ budget' = settled
  <2> HIDE DEF error, settled, kind
  <2> QED BY <1>3 DEF SetStop, StopIgnored, Stopped, CostStop
<1>5. \E s \in {"run", StageOf[Current(c)], CoordinateOf[Current(c)]} : CostExhausted(settled, s)
  BY <1>1, <1>2, <1>4, SettledOverSpentLimit DEF SpentLimitsOnly
<1>6. StageOf[Current(c)] = "execution" /\ CoordinateOf[Current(c)] \in Coordinate
  BY <1>1, AttemptAssumption, ScheduleAssumption
<1>7. ~CostExhausted(settled, CoordinateOf[Current(c)])
  BY <1>6 DEF CostExhausted, SpentLimitsOnly
<1> HIDE DEF settled
<1> QED BY <1>4, <1>5, <1>6, <1>7

(* So while the stop stands, the limit it named is spent.                  *)
LEMMA StopCostKept ==
  ASSUME IInv, CostInvs, SpentLimitsOnly, StopCost, [Next]_vars
  PROVE  StopCost'
<1>1. SUFFICES ASSUME stop' = CostStop
               PROVE  \E s \in {"run", "execution"} : CostExhausted(budget', s)
  BY DEF StopCost, CostStop
<1>2. ASSUME NEW s \in {"run", "execution"}, CostExhausted(budget, s)
      PROVE  CostExhausted(budget', s)
  <2>1. s \in Scope
    BY DEF Scope, Stage
  <2>2. /\ budget.cost[s] \in Nat /\ budget'.cost[s] \in Nat
        /\ budget'.cost[s] >= budget.cost[s]
    BY <2>1, AuthorityStep, CostGrows DEF IInv, LedgerOK
  <2>3. MaxProviderCost[s] \in Nat
    BY <1>2, <2>1, LimitAssumption DEF CostExhausted, OptionalNat
  <2> QED BY <1>2, <2>2, <2>3 DEF CostExhausted
<1>3. CASE stop = CostStop
  BY <1>2, <1>3 DEF StopCost
<1>4. CASE stop # CostStop
  <2>1. ~Stopped
    <3>1. CostStop.kind # "failed"
      BY DEF CostStop
    <3> QED BY <1>1, <1>4, <3>1, StopStep DEF StopMoves
  <2>2. ASSUME NEW b, NEW kind, NEW resource, SetStop(b, kind, resource)
        PROVE  resource = "provider-cost"
    BY <1>1, <2>1, <2>2 DEF SetStop, StopIgnored, Stopped, CostStop
  <2>3. stop' # stop
    BY <1>1, <1>4
  <2>4. CASE RefuseBlock
    <3>1. FirstAttempts \in SUBSET Attempt
      <4>1. cursor \in DOMAIN Schedule
        BY <2>4, ScheduleAssumption DEF RefuseBlock, IInv, CursorInv, ControlTyped, BatchEnd
      <4>2. \A c \in Uncached : c \in Coordinate /\ <<c, 1>> \in Attempt
        BY <4>1, ScheduleAssumption DEF Uncached
      <4> QED BY <4>2 DEF FirstAttempts
    <3>2. \E s \in {"run", "execution"} : CostExhausted(budget, s)
      BY <1>1, <2>1, <2>4, <3>1, RefusalCost DEF RefuseBlock
    <3> QED BY <1>2, <3>2
  <2>5. ASSUME NEW c \in Coordinate, TrialStep(c)
        PROVE  \E s \in {"run", "execution"} : CostExhausted(budget', s)
    <3>1. CASE \E charge \in PossibleCharge, outcome \in AttemptStatus, retryable \in BOOLEAN :
                 FinishAttempt(c, outcome, retryable, charge)
      BY <1>1, <2>1, <3>1, FinishCost
    <3>2. CASE RetryRefused(c)
      <4>1. {Current(c)} \in SUBSET Attempt
        BY <3>2, CurrentAttempt DEF RetryRefused
      <4>2. \E s \in {"run", "execution"} : CostExhausted(budget, s)
        BY <1>1, <2>1, <3>2, <4>1, RefusalCost DEF RetryRefused
      <4> QED BY <1>2, <4>2
    <3>3. ~(CloseTrial(c) \/ OpenFails(c) \/ \E charge \in PossibleCharge : InvalidResult(c, charge))
      BY <2>2, <2>3 DEF CloseTrial, OpenFails, InvalidResult
    <3>4. ~(\/ TakeGlobalSlot(c) \/ TakeExecutorSlot(c) \/ GiveUp(c) \/ OpenTrial(c)
            \/ StartAttempt(c) \/ AbandonAttempt(c) \/ RetryAdmitted(c))
      BY <2>3 DEF TakeGlobalSlot, TakeExecutorSlot, GiveUp, OpenTrial, StartAttempt,
                  AbandonAttempt, RetryAdmitted
    <3> QED BY <2>5, <3>1, <3>2, <3>3, <3>4 DEF TrialStep
  <2>6. RunStep => RefuseBlock
    BY <2>2, <2>3 DEF RunStep, LookUp, LookUpFails, AdmitBlock, Dispatch, EndBatch, Teardown,
                      Assemble, Publish, Recover
  <2>7. ~Environment
    BY <2>2, <2>3 DEF Environment, ExternalCancel, WallClockElapses, WallClockTimer, WriterFails
  <2>8. ~(UNCHANGED vars \/ Finished)
    BY <2>3 DEF vars, Finished
  <2> QED BY <2>4, <2>5, <2>6, <2>7, <2>8 DEF Next
<1> QED BY <1>3, <1>4

(* By the verification's own count the lower limit is spent, then.         *)
LEMMA ExhaustionCosts ==
  ASSUME IInv, CostInvs, Over, SpentLimitsOnly, StopCost
  PROVE  CostExhaustionBacked
<1>1. SUFFICES ASSUME stop = CostStop, CostLimits # {}
               PROVE  (\A c \in Native : CostKnown(c)) /\ ReportedCost >= AggregateLimit
  BY DEF CostExhaustionBacked, CostStop
<1>2. budget.failed = FALSE
  BY <1>1 DEF IInv, StopInv, ReasonKept, CostStop
<1>3. ASSUME NEW c \in Native PROVE CostKnown(c)
  <2>1. ASSUME NEW a \in AttemptsMade(c) PROVE budget.entries[a].report = "reported"
    <3>1. a \in Settled(budget) /\ CostTracked(a)
      BY <1>1, MadeAttempts, AllTracked DEF Native
    <3> QED BY <1>2, <3>1, TrackedReports DEF SpentLimitsOnly
  <2> QED BY <2>1 DEF CostKnown
<1>4. PICK s \in {"run", "execution"} : CostExhausted(budget, s)
  BY <1>1 DEF StopCost
<1>5. s \in Scope /\ ReportedCost = budget.cost[s] /\ budget.cost[s] \in Nat
  BY <1>3, CountedCosts
<1>6. MaxProviderCost[s] \in Nat /\ budget.cost[s] >= MaxProviderCost[s]
  BY <1>4, <1>5, LimitAssumption DEF CostExhausted, OptionalNat
<1>7. AggregateLimit \in Nat /\ AggregateLimit <= MaxProviderCost[s]
  BY <1>1, <1>6, LowerLimit, LimitAssumption
<1> QED BY <1>3, <1>5, <1>6, <1>7

(* Under bounded overshoot and fail-run, with limits of the Run and the    *)
(* stages only and none of them zero, every Bundle passes its own          *)
(* verification, the ones of a Run stopped by its cost included.           *)
THEOREM BundlesAcceptedWithSpentLimits ==
  ASSUME SpentLimitsOnly
  PROVE  Spec => []BundleAccepted
<1>1. Init => StopCost /\ BundleAccepted
  BY DEF Init, StopCost, CostStop, BundleAccepted
<1>2. IInv /\ CostInvs /\ StopCost /\ [Next]_vars => StopCost'
  BY StopCostKept
<1>3. LimitsInUse
  <2>1. UnknownCostMode = "fail-run" /\ AuditCost => \A a \in Attempt : CostTracked(a)
    BY ScheduleAssumption, AttemptAssumption DEF AuditCost, CostTracked, SpentLimitsOnly
  <2> QED BY <2>1 DEF LimitsInUse, SpentLimitsOnly
<1>4. IInv /\ CostInvs /\ StopCost => (Over => CompletedWithinCost /\ CostExhaustionBacked)
  BY <1>3, CompletedCosts, ExhaustionCosts
<1>5. ASSUME IInv, CostInvs, StopCost, BundleAccepted, [Next]_vars
      PROVE  BundleAccepted'
  <2>1. CASE Assemble \/ Recover
    <3>1. Over
      BY <2>1 DEF Assemble, Recover, Over
    <3>2. Acceptable
      BY <1>4, <1>5, <3>1, OverCoverage, OverLedger, OverInvocations DEF Acceptable
    <3> QED BY <2>1, <3>2 DEF Assemble, Recover, BundleAccepted
  <2>2. CASE ~(Assemble \/ Recover)
    <3>1. ASSUME NEW d \in Coordinate, TrialStep(d) PROVE phase' = phase
      BY <1>5, <3>1, TrialStepMoves DEF TrialMoves, control
    <3>2. Environment \/ Finished \/ UNCHANGED vars => phase' = phase
      BY EnvironmentMoves DEF Finished, vars, control
    <3>3. RunStep => phase' # "rejected"
      BY <2>2 DEF RunStep, LookUp, LookUpFails, AdmitBlock, RefuseBlock, Dispatch, EndBatch,
                  Teardown, Publish
    <3> QED BY <1>5, <3>1, <3>2, <3>3 DEF Next, BundleAccepted
  <2> QED BY <2>1, <2>2
<1> QED BY <1>1, <1>2, <1>5, StageInvariant, CostInvsHold, PTL DEF Spec
===============================================================================
