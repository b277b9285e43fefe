----------------------------- MODULE BudgetLedger -----------------------------
(***************************************************************************)
(* The arithmetic of one Run budget: what RunBudgetAuthority               *)
(* (src/eval-core/budget/index.ts) computes from its reservations,         *)
(* its ledger and the sealed policy.  Everything here is a value or an     *)
(* operator from one budget value to the next, so that the stand-alone     *)
(* authority (RunBudget) and the stages that call it (ExecutionRun) use    *)
(* the same definitions.                                                   *)
(*                                                                         *)
(* A reservation is named by the attempt it pays for: every caller derives *)
(* the attempt id from the trial and the attempt number, so an attempt has *)
(* at most one reservation.  Money and time are natural numbers.           *)
(***************************************************************************)
EXTENDS Naturals, FiniteSets

CONSTANTS
  Attempt,            \* the native invocations a Run may ask to make
  Coordinate,         \* the trials they belong to
  StageOf,            \* the stage that makes an attempt
  CoordinateOf,       \* the trial an attempt belongs to
  UpperBound,         \* the trusted cost bound the runtime declares, or None
  MaxInvocations,     \* sealed limits by scope, None where the policy has none
  MaxProviderCost,
  MaxActiveDuration,
  MaxAttemptCost,     \* the sealed cost limit of a single attempt
  AdmissionMode,      \* "strict-reservation" or "bounded-overshoot"
  UnknownCostMode,    \* "fail-run" or "mark-unverifiable"
  None                \* an absent limit, bound, entry or termination

Sums == INSTANCE FiniteSetsExt

Stage == {"execution", "evaluation"}
Scope == {"run"} \cup Stage \cup Coordinate
OptionalNat == Nat \cup {None}

(* What an invocation reports when it settles.                             *)
CostReport == {"reported", "unreported", "foreign-currency"}
Charge == [duration : Nat, report : CostReport, amount : Nat]

(* Why a Run stops: the kind, the resource that ran out and where.         *)
TerminationKind == {"budget-censored", "active-budget-exhausted",
                    "wall-clock-exhausted", "cancelled", "failed"}
Resource == {"invocations", "provider-cost", "active-duration", "wall-clock", "none"}
ScopeKind == {"run", "stage", "coordinate", "attempt", "none"}
Termination == [kind : TerminationKind, resource : Resource, scope : ScopeKind]

ASSUME AttemptAssumption ==
  /\ IsFiniteSet(Attempt)
  /\ StageOf \in [Attempt -> Stage]
  /\ CoordinateOf \in [Attempt -> Coordinate]
  /\ UpperBound \in [Attempt -> OptionalNat]
  /\ Coordinate \cap ({"run"} \cup Stage) = {}

ASSUME LimitAssumption ==
  /\ None \notin Nat
  /\ MaxInvocations \in [Scope -> OptionalNat]
  /\ MaxProviderCost \in [Scope -> OptionalNat]
  /\ MaxActiveDuration \in [Scope -> OptionalNat]
  /\ MaxAttemptCost \in OptionalNat
  /\ None \notin Charge \cup Termination

ASSUME ModeAssumption ==
  /\ AdmissionMode \in {"strict-reservation", "bounded-overshoot"}
  /\ UnknownCostMode \in {"fail-run", "mark-unverifiable"}

-------------------------------------------------------------------------------
(* The reasons to stop by name, and the state of the authority.            *)
(* A definition introduced as a fault is a mistake the checks must catch.  *)

Ended(kind, resource, scope) ==
  [kind |-> kind, resource |-> resource, scope |-> scope]

Cancellation == Ended("cancelled", "none", "none")
Failure == Ended("failed", "none", "none")
WallClockExhaustion == Ended("wall-clock-exhausted", "wall-clock", "run")

KindOf(s) == IF s = "run" THEN "run" ELSE IF s \in Stage THEN "stage" ELSE "coordinate"

Budget == [ reservations  : [Attempt -> {"none", "reserved", "consumed"}],
            entries       : [Attempt -> Charge \cup {None}],
            invocations   : [Scope -> Nat],
            duration      : [Scope -> Nat],
            cost          : [Scope -> Nat],
            unreserved    : Nat,
            maxUnreserved : Nat,
            failed        : BOOLEAN,
            unverifiable  : BOOLEAN,
            termination   : Termination \cup {None} ]

EmptyBudget == [ reservations  |-> [a \in Attempt |-> "none"],
                 entries       |-> [a \in Attempt |-> None],
                 invocations   |-> [s \in Scope |-> 0],
                 duration      |-> [s \in Scope |-> 0],
                 cost          |-> [s \in Scope |-> 0],
                 unreserved    |-> 0,
                 maxUnreserved |-> 0,
                 failed        |-> FALSE,
                 unverifiable  |-> FALSE,
                 termination   |-> None ]

Charges(a, s) == s = "run" \/ s = StageOf[a] \/ s = CoordinateOf[a]
Within(B, s) == {a \in B : Charges(a, s)}

Outstanding(b) == {a \in Attempt : b.reservations[a] # "none"}
Settled(b) == {a \in Attempt : b.entries[a] # None}

(* costCurrency(plan, stage): some cost limit applies to the attempt.      *)
CostTracked(a) ==
  \/ MaxProviderCost["run"] # None
  \/ MaxProviderCost[StageOf[a]] # None
  \/ MaxProviderCost[CoordinateOf[a]] # None
  \/ MaxAttemptCost # None

Tracked(B) == {a \in B : CostTracked(a)}
BoundedOvershoot == AdmissionMode = "bounded-overshoot"
StrictReservation == AdmissionMode = "strict-reservation"

TotalBound(B) == Sums!MapThenSumSet(LAMBDA a : UpperBound[a], B)

SummaryStatus(b) ==
  IF b.failed THEN "failed"
  ELSE IF b.termination # None /\ b.termination.kind = "cancelled" THEN "cancelled"
  ELSE IF b.unverifiable THEN "unverifiable"
  ELSE IF b.termination = None THEN "within-budget"
  ELSE "exhausted"

-------------------------------------------------------------------------------
(* Admission: why reserve(requests) may refuse the batch B.                *)

DurationExhausted(b, s) ==
  MaxActiveDuration[s] # None /\ b.duration[s] >= MaxActiveDuration[s]

(* Fault: a scope is spent only past its limit.                            *)
CostPassed(b, s) == MaxProviderCost[s] # None /\ b.cost[s] > MaxProviderCost[s]

CostExhausted(b, s) ==
  MaxProviderCost[s] # None /\ b.cost[s] >= MaxProviderCost[s]

(* Fault: what is already reserved is forgotten.                           *)
RequestedAlone(b, B, s) == Within(B, s)

Projected(b, B, s) == Within(Outstanding(b) \cup B, s)

InvocationsExceeded(b, B, s) ==
  /\ MaxInvocations[s] # None
  /\ b.invocations[s] + Cardinality(Projected(b, B, s)) > MaxInvocations[s]

BoundMissing(b, B, s) ==
  /\ MaxProviderCost[s] # None
  /\ \E a \in Projected(b, B, s) : UpperBound[a] = None

ReservedCostExceeded(b, B, s) ==
  /\ MaxProviderCost[s] # None
  /\ b.cost[s] + TotalBound(Projected(b, B, s)) > MaxProviderCost[s]

(* The first check of scope s that refuses B, in the order of the loop.    *)
ScopeDenial(b, B, s) ==
  IF DurationExhausted(b, s)
    THEN Ended("budget-censored", "active-duration", KindOf(s))
  ELSE IF BoundedOvershoot /\ CostExhausted(b, s)
    THEN Ended("budget-censored", "provider-cost", KindOf(s))
  ELSE IF InvocationsExceeded(b, B, s)
    THEN Ended("budget-censored", "invocations", KindOf(s))
  ELSE IF StrictReservation /\ BoundMissing(b, B, s)
    THEN Ended("failed", "provider-cost", KindOf(s))
  ELSE IF StrictReservation /\ ReservedCostExceeded(b, B, s)
    THEN Ended("budget-censored", "provider-cost", KindOf(s))
  ELSE None

AttemptDenial(a) ==
  IF MaxAttemptCost = None THEN None
  ELSE IF StrictReservation /\ UpperBound[a] = None
    THEN Ended("failed", "provider-cost", "attempt")
  ELSE IF UpperBound[a] # None /\ UpperBound[a] > MaxAttemptCost
    THEN Ended("budget-censored", "provider-cost", "attempt")
  ELSE None

CheckedScopes(B) == {"run"} \cup Stage \cup {CoordinateOf[a] : a \in B}

(* Refusals of a batch.  The loop visits run, execution, evaluation and    *)
(* then the trials in request order, and the single attempts last; which   *)
(* trial of a batch is named first is left open.                           *)
Denials(b, B, expired) ==
  LET scopes(S) == {ScopeDenial(b, B, s) : s \in S} \ {None}
      attempts == {AttemptDenial(a) : a \in B} \ {None}
  IN  IF b.failed \/ (b.termination # None /\ b.termination.kind = "cancelled")
        THEN {IF b.termination # None THEN b.termination ELSE Failure}
      ELSE IF expired THEN {WallClockExhaustion}
      ELSE IF scopes({"run"}) # {} THEN scopes({"run"})
      ELSE IF scopes({"execution"}) # {} THEN scopes({"execution"})
      ELSE IF scopes({"evaluation"}) # {} THEN scopes({"evaluation"})
      ELSE IF scopes(CheckedScopes(B)) # {} THEN scopes(CheckedScopes(B))
      ELSE attempts

Admissible(b, B, expired) == B = {} \/ Denials(b, B, expired) = {}

-------------------------------------------------------------------------------
(* The operations of the authority, as functions of the budget value.      *)

MaxOf(m, n) == IF m >= n THEN m ELSE n
Decrement(n) == IF n > 0 THEN n - 1 ELSE 0

AfterReserve(b, B) ==
  LET unreserved == b.unreserved + (IF BoundedOvershoot THEN Cardinality(Tracked(B)) ELSE 0)
  IN  [b EXCEPT !.reservations = [a \in Attempt |-> IF a \in B THEN "reserved" ELSE @[a]],
                !.unreserved = unreserved,
                !.maxUnreserved = MaxOf(@, unreserved)]

AfterConsume(b, a) == [b EXCEPT !.reservations[a] = "consumed"]

(* Fault: the reservation of a settled attempt is kept.                    *)
WithKeptReservation(b, a) == [b EXCEPT !.reservations[a] = "reserved"]

WithoutReservation(b, a) ==
  [b EXCEPT !.reservations[a] = "none",
            !.unreserved = IF BoundedOvershoot /\ CostTracked(a) THEN Decrement(@) ELSE @]

AfterRelease(b, a) == IF b.reservations[a] = "none" THEN b ELSE WithoutReservation(b, a)

AfterTermination(b, t) ==
  [b EXCEPT !.termination = IF @ = None \/ t.kind = "failed" THEN t ELSE @,
            !.failed = @ \/ t.kind = "failed"]

(* The settlement errors: a report the sealed policy cannot accept.        *)
Rejected(a, charge) ==
  \/ charge.report = "foreign-currency" /\ CostTracked(a)
  \/ charge.report = "unreported" /\ CostTracked(a) /\ UnknownCostMode = "fail-run"
  \/ charge.report # "unreported" /\ UpperBound[a] # None /\ charge.amount > UpperBound[a]

Unaccounted(a, charge) ==
  charge.report = "unreported" /\ CostTracked(a) /\ UnknownCostMode = "mark-unverifiable"

Posted(b, a, charge) ==
  LET paid == WithoutReservation(b, a)
      amount == IF charge.report = "reported" THEN charge.amount ELSE 0
  IN  [paid EXCEPT
         !.entries[a] = charge,
         !.failed = @ \/ Rejected(a, charge),
         !.unverifiable = @ \/ Unaccounted(a, charge),
         !.invocations = [s \in Scope |-> IF Charges(a, s) THEN @[s] + 1 ELSE @[s]],
         !.duration = [s \in Scope |-> IF Charges(a, s) THEN @[s] + charge.duration ELSE @[s]],
         !.cost = [s \in Scope |-> IF Charges(a, s) THEN @[s] + amount ELSE @[s]]]

(* exhaustionAfter(entry): the first exhausted scope, cost before time.    *)
ScopeExhaustion(b, s) ==
  IF CostExhausted(b, s)
    THEN Ended("active-budget-exhausted", "provider-cost", KindOf(s))
  ELSE IF DurationExhausted(b, s)
    THEN Ended("active-budget-exhausted", "active-duration", KindOf(s))
  ELSE None

AttemptExhausted(charge) ==
  /\ MaxAttemptCost # None
  /\ charge.report # "unreported"
  /\ charge.amount >= MaxAttemptCost

ExhaustionAfter(b, a, charge) ==
  IF ScopeExhaustion(b, "run") # None THEN ScopeExhaustion(b, "run")
  ELSE IF ScopeExhaustion(b, StageOf[a]) # None THEN ScopeExhaustion(b, StageOf[a])
  ELSE IF ScopeExhaustion(b, CoordinateOf[a]) # None
    THEN ScopeExhaustion(b, CoordinateOf[a])
  ELSE IF AttemptExhausted(charge)
    THEN Ended("active-budget-exhausted", "provider-cost", "attempt")
  ELSE None

(* What settle returns to its caller: an error, an exhaustion, or nothing. *)
SettlementError(b, a, charge) ==
  IF Rejected(a, charge) THEN Failure
  ELSE ExhaustionAfter(Posted(b, a, charge), a, charge)

AfterSettle(b, a, charge) ==
  LET error == SettlementError(b, a, charge)
  IN  IF Rejected(a, charge) \/ error = None
        THEN Posted(b, a, charge)
        ELSE AfterTermination(Posted(b, a, charge), error)

(* Fault: the flags of the first stage are lost.                          *)
AfterUnflaggedHandoff(b) == [b EXCEPT !.failed = FALSE, !.unverifiable = FALSE]

(* A stage started from a stored snapshot gets a fresh authority that      *)
(* keeps the ledger and rebuilds its flags from the one summary status.    *)
AfterHandoff(b) ==
  [b EXCEPT !.reservations = [a \in Attempt |-> "none"],
            !.unreserved = 0,
            !.failed = SummaryStatus(b) = "failed",
            !.unverifiable = SummaryStatus(b) = "unverifiable"]
===============================================================================
