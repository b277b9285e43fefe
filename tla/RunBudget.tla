------------------------------- MODULE RunBudget -------------------------------
(***************************************************************************)
(* The budget authority of one Run as its callers see it: a ledger that    *)
(* admits batches of invocations, is told when each one starts, is dropped *)
(* or settles, and records the first reason to stop.  Many trials of two   *)
(* stages call it in any order; the calls themselves are synchronous, so   *)
(* one call is one step.  The stages extend this module: they share its    *)
(* two variables, and AuthoritySpec is what every step of theirs has to    *)
(* implement.                                                              *)
(***************************************************************************)
EXTENDS BudgetLedger

CONSTANTS
  Duration,           \* active durations an invocation may take
  Report,             \* the cost reports the runtimes may give
  CostCeiling         \* the most a single invocation ever reports

ASSUME InputAssumption ==
  Duration \subseteq Nat /\ Report \subseteq CostReport /\ CostCeiling \in Nat

VARIABLES
  budget,             \* the private state of RunBudgetAuthority
  expired             \* the wall clock has passed run.maxWallClockMs

authority == <<budget, expired>>

AuthorityInit == budget = EmptyBudget /\ expired = FALSE

PossibleCharge ==
  {c \in [duration : Duration, report : Report, amount : 0 .. CostCeiling] :
     c.report = "unreported" => c.amount = 0}

(* Attempts nobody has asked for yet, or whose reservation was returned.   *)
Requestable == {a \in Attempt : budget.reservations[a] = "none" /\ budget.entries[a] = None}

(* setStop("failed", ...) runs in the same synchronous segment as the call *)
(* that caused it.                                                         *)
PerhapsFailed(b) == {b, AfterTermination(b, Failure)}

Reserve(B) ==
  /\ B # {}
  /\ B \subseteq Requestable
  /\ Admissible(budget, B, expired)
  /\ budget' = AfterReserve(budget, B)
  /\ UNCHANGED expired

(* A refused caller always notes the termination it was given.             *)
Refuse(B) ==
  /\ B # {}
  /\ B \subseteq Requestable
  /\ \E t \in Denials(budget, B, expired) :
       budget' \in PerhapsFailed(AfterTermination(budget, t))
  /\ UNCHANGED expired

Consume(a) ==
  /\ budget.reservations[a] = "reserved"
  /\ budget' = AfterConsume(budget, a)
  /\ UNCHANGED expired

Release(a) ==
  /\ budget.reservations[a] = "reserved"
  /\ budget' \in PerhapsFailed(AfterRelease(budget, a))
  /\ UNCHANGED expired

Settle(a) ==
  /\ budget.reservations[a] = "consumed"
  /\ \E c \in PossibleCharge : budget' \in PerhapsFailed(AfterSettle(budget, a, c))
  /\ UNCHANGED expired

(* setStop("cancelled" | "failed") of a stage.                             *)
NoteStop ==
  /\ \E t \in {Cancellation, Failure} : budget' = AfterTermination(budget, t)
  /\ UNCHANGED expired

DeadlinePasses ==
  /\ ~expired
  /\ expired' = TRUE
  /\ UNCHANGED budget

DeadlineNoted ==
  /\ expired
  /\ budget' = AfterTermination(budget, WallClockExhaustion)
  /\ UNCHANGED expired

(* startEvaluation without a live budget source: only a quiescent snapshot *)
(* is accepted.                                                            *)
Handoff ==
  /\ Outstanding(budget) = {}
  /\ budget' = AfterHandoff(budget)
  /\ UNCHANGED expired

AuthorityNext ==
  \/ \E B \in SUBSET Attempt : Reserve(B) \/ Refuse(B)
  \/ \E a \in Attempt : Consume(a) \/ Release(a) \/ Settle(a)
  \/ NoteStop
  \/ DeadlinePasses
  \/ DeadlineNoted
  \/ Handoff

AuthoritySpec == AuthorityInit /\ [][AuthorityNext]_authority

-------------------------------------------------------------------------------
BudgetTyped == budget \in Budget /\ expired \in BOOLEAN

OutstandingIn(s) == Within(Outstanding(budget), s)
SettledIn(s) == Within(Settled(budget), s)

(* No scope ever spends or holds more invocations than its sealed limit,   *)
(* whatever batches the two stages ask for and however they interleave:    *)
(* what reserve promises a caller stays true until it settles.             *)
InvocationsWithinLimit ==
  \A s \in Scope : MaxInvocations[s] # None =>
    budget.invocations[s] + Cardinality(OutstandingIn(s)) <= MaxInvocations[s]

(* The counter of unreserved cost-bearing invocations is the number of     *)
(* reservations it stands for (its clamp at zero never hides a miscount),  *)
(* and strict reservation never reports one.                               *)
UnreservedCountsReservations ==
  /\ budget.unreserved = IF BoundedOvershoot
                           THEN Cardinality(Tracked(Outstanding(budget))) ELSE 0
  /\ budget.unreserved <= budget.maxUnreserved

(* Invocations are the ledger's entries, the concurrent ones what is       *)
(* reserved, and no attempt is charged while it holds a reservation.       *)
CountsExplained ==
  /\ Settled(budget) \cap Outstanding(budget) = {}
  /\ \A s \in Scope :
       budget.invocations[s] = Cardinality(SettledIn(s))
  /\ UnreservedCountsReservations

(* The same for money: only reported charges in the sealed currency count. *)
MoneyExplained ==
  \A s \in Scope :
    budget.cost[s] =
      Sums!MapThenSumSet(LAMBDA a : budget.entries[a].amount,
                         {a \in SettledIn(s) : budget.entries[a].report = "reported"})

(* The running totals are exactly what a reader recomputes from the ledger *)
(* entries, through concurrent batches, returned and settled reservations, *)
(* rejected reports and a hand-over (BudgetSummarySchema refuses any other *)
(* snapshot).                                                              *)
LedgerExplainsTotals == CountsExplained /\ MoneyExplained

(* Bounded overshoot: a scope that was not spent when it was first used    *)
(* ends up over its limit by less than what the largest number of          *)
(* concurrent unreserved invocations can cost.                             *)
OvershootBounded ==
  BoundedOvershoot =>
    \A s \in Scope : MaxProviderCost[s] # None =>
      \/ budget.cost[s] = 0
      \/ budget.cost[s] < MaxProviderCost[s] + budget.maxUnreserved * CostCeiling

(* Strict reservation: while every settled invocation honoured its bound   *)
(* and reported its cost, what a scope spent plus what is still reserved   *)
(* in it never passes the sealed limit.                                    *)
StrictCostWithinLimit ==
  StrictReservation /\ ~budget.failed /\ ~budget.unverifiable =>
    \A s \in Scope : MaxProviderCost[s] # None =>
      budget.cost[s] + TotalBound(OutstandingIn(s)) <= MaxProviderCost[s]

Severity(status) ==
  CASE status = "within-budget" -> 0
    [] status = "exhausted"     -> 1
    [] status = "unverifiable"  -> 1
    [] status = "cancelled"     -> 2
    [] status = "failed"        -> 3

(* A Run never looks healthier than it did: failed stays failed, a         *)
(* cancelled Run can only become failed, an exhausted one never returns to *)
(* within-budget, and handing the ledger to the next stage keeps that too. *)
(* The first recorded reason to stop is kept; only a failure replaces it.  *)
EndingStands ==
  [][/\ Severity(SummaryStatus(budget')) >= Severity(SummaryStatus(budget))
     /\ budget.termination # None /\ budget'.termination # budget.termination
          => budget'.termination.kind = "failed"]_authority
===============================================================================
