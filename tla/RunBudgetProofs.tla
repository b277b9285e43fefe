---------------------------- MODULE RunBudgetProofs ----------------------------
(***************************************************************************)
(* Theorems about RunBudget for every set of attempts and every policy.    *)
(* First typing; then the safety invariants, proved together: LedgerInv    *)
(* collects what one budget value has to satisfy, each operation of the    *)
(* authority is shown to preserve it, and the invariants of RunBudget are  *)
(* read off at the end.  The lemmas speak of any budget value b, so that   *)
(* the proofs about the stages that share the authority can use them.      *)
(***************************************************************************)
EXTENDS RunBudget, FiniteSetTheorems, WellFoundedInduction, TLAPS

-------------------------------------------------------------------------------
(* Typing: every operation of the ledger maps budgets to budgets.          *)

(* Reserving a batch keeps the budget well formed.                         *)
LEMMA ReserveTyped ==
  ASSUME NEW b \in Budget, NEW B \in SUBSET Attempt
  PROVE  AfterReserve(b, B) \in Budget
<1>1. Cardinality(Tracked(B)) \in Nat
  <2>1. IsFiniteSet(Tracked(B))
    BY AttemptAssumption, FS_Subset DEF Tracked
  <2> QED BY <2>1, FS_CardinalityType
<1> DEFINE unreserved == b.unreserved + (IF BoundedOvershoot THEN Cardinality(Tracked(B)) ELSE 0)
           reservations == [a \in Attempt |-> IF a \in B THEN "reserved" ELSE b.reservations[a]]
<1>2. unreserved \in Nat /\ MaxOf(b.maxUnreserved, unreserved) \in Nat
  BY <1>1 DEF Budget, MaxOf
<1>3. reservations \in [Attempt -> {"none", "reserved", "consumed"}]
  BY DEF Budget
<1>4. AfterReserve(b, B) = [b EXCEPT !.reservations = reservations,
                                     !.unreserved = unreserved,
                                     !.maxUnreserved = MaxOf(b.maxUnreserved, unreserved)]
  BY DEF AfterReserve
<1> HIDE DEF unreserved, reservations
<1> QED BY <1>2, <1>3, <1>4 DEF Budget

(* Starting a reserved invocation keeps it well formed.                    *)
LEMMA ConsumeTyped ==
  ASSUME NEW b \in Budget, NEW a \in Attempt
  PROVE  AfterConsume(b, a) \in Budget
BY DEF AfterConsume, Budget

(* So does returning a reservation, also inside a settlement.              *)
LEMMA ReleaseTyped ==
  ASSUME NEW b \in Budget, NEW a \in Attempt
  PROVE  /\ WithoutReservation(b, a) \in Budget
         /\ AfterRelease(b, a) \in Budget
<1>1. \A n \in Nat : Decrement(n) \in Nat
  BY DEF Decrement
<1>2. WithoutReservation(b, a) \in Budget
  BY <1>1 DEF WithoutReservation, Budget
<1> QED BY <1>2 DEF AfterRelease

(* A termination built for a scope is a termination.                       *)
LEMMA EndedTyped ==
  ASSUME NEW kind \in TerminationKind, NEW resource \in Resource, NEW s
  PROVE  Ended(kind, resource, KindOf(s)) \in Termination
BY DEF Ended, Termination, KindOf, ScopeKind

(* Recording a reason to stop keeps the budget well formed.                *)
LEMMA TerminationTyped ==
  ASSUME NEW b \in Budget, NEW t \in Termination
  PROVE  AfterTermination(b, t) \in Budget
BY DEF AfterTermination, Budget, Termination

(* Posting a charge to the ledger and the totals keeps it well formed.     *)
LEMMA PostedTyped ==
  ASSUME NEW b \in Budget, NEW a \in Attempt, NEW c \in Charge
  PROVE  Posted(b, a, c) \in Budget
<1>1. WithoutReservation(b, a) \in Budget
  BY ReleaseTyped
<1>2. Rejected(a, c) \in BOOLEAN /\ Unaccounted(a, c) \in BOOLEAN
  BY DEF Rejected, Unaccounted
<1> DEFINE p == WithoutReservation(b, a)
           amount == IF c.report = "reported" THEN c.amount ELSE 0
           entries == [p.entries EXCEPT ![a] = c]
           failed == p.failed \/ Rejected(a, c)
           unverifiable == p.unverifiable \/ Unaccounted(a, c)
           inv == [s \in Scope |-> IF Charges(a, s) THEN p.invocations[s] + 1 ELSE p.invocations[s]]
           dur == [s \in Scope |-> IF Charges(a, s) THEN p.duration[s] + c.duration ELSE p.duration[s]]
           cost == [s \in Scope |-> IF Charges(a, s) THEN p.cost[s] + amount ELSE p.cost[s]]
<1>3. amount \in Nat
  BY DEF Charge
<1>4. entries \in [Attempt -> Charge \cup {None}]
  BY <1>1 DEF Budget
<1>5. inv \in [Scope -> Nat] /\ dur \in [Scope -> Nat] /\ cost \in [Scope -> Nat]
  BY <1>1, <1>3 DEF Budget, Charge
<1>6. Posted(b, a, c) = [p EXCEPT !.entries = entries,
                                  !.failed = failed,
                                  !.unverifiable = unverifiable,
                                  !.invocations = inv, !.duration = dur, !.cost = cost]
  BY DEF Posted
<1>7. p \in Budget
  BY <1>1
<1>8. failed \in BOOLEAN /\ unverifiable \in BOOLEAN
  BY <1>2
<1> HIDE DEF p, entries, failed, unverifiable, inv, dur, cost
<1> QED BY <1>4, <1>5, <1>6, <1>7, <1>8 DEF Budget

(* The check of a scope yields a termination or admits.                    *)
LEMMA ScopeDenialTyped ==
  ASSUME NEW b, NEW B, NEW s
  PROVE  ScopeDenial(b, B, s) \in Termination \cup {None}
<1>1. ASSUME NEW kind \in TerminationKind, NEW resource \in Resource
      PROVE  Ended(kind, resource, KindOf(s)) \in Termination
  BY EndedTyped
<1>2. /\ {"budget-censored", "failed"} \subseteq TerminationKind
      /\ {"active-duration", "provider-cost", "invocations"} \subseteq Resource
  BY DEF TerminationKind, Resource
<1> QED BY <1>1, <1>2 DEF ScopeDenial

(* Whatever reserve refuses with is a termination.                         *)
LEMMA DenialsTyped ==
  ASSUME NEW b \in Budget, NEW B \in SUBSET Attempt, NEW e, NEW t \in Denials(b, B, e)
  PROVE  t \in Termination
<1>1. \A a : AttemptDenial(a) \in Termination \cup {None}
  BY DEF AttemptDenial, Ended, Termination, TerminationKind, Resource, ScopeKind
<1>2. Failure \in Termination /\ WallClockExhaustion \in Termination
  BY DEF Failure, WallClockExhaustion, Ended, Termination, TerminationKind, Resource, ScopeKind
<1>3. b.termination \in Termination \cup {None}
  BY DEF Budget
<1> QED BY <1>1, <1>2, <1>3, ScopeDenialTyped DEF Denials

(* Whatever settle returns is a termination or nothing.                    *)
LEMMA SettlementErrorTyped ==
  ASSUME NEW b, NEW a, NEW c
  PROVE  SettlementError(b, a, c) \in Termination \cup {None}
<1>1. \A bb, s : ScopeExhaustion(bb, s) \in Termination \cup {None}
  BY DEF ScopeExhaustion, Ended, KindOf, Termination, TerminationKind, Resource, ScopeKind
<1>2. /\ Failure \in Termination
      /\ Ended("active-budget-exhausted", "provider-cost", "attempt") \in Termination
  BY DEF Failure, Ended, Termination, TerminationKind, Resource, ScopeKind
<1> QED BY <1>1, <1>2 DEF SettlementError, ExhaustionAfter

(* Settling keeps the budget well formed.                                  *)
LEMMA SettleTyped ==
  ASSUME NEW b \in Budget, NEW a \in Attempt, NEW c \in Charge
  PROVE  AfterSettle(b, a, c) \in Budget
<1>1. Posted(b, a, c) \in Budget
  BY PostedTyped
<1>2. SettlementError(b, a, c) \in Termination \cup {None}
  BY SettlementErrorTyped
<1> QED BY <1>1, <1>2, TerminationTyped DEF AfterSettle

(* Resuming from a snapshot keeps the budget well formed.                  *)
LEMMA HandoffTyped ==
  ASSUME NEW b \in Budget
  PROVE  AfterHandoff(b) \in Budget
<1> DEFINE failed == SummaryStatus(b) = "failed"
           unverifiable == SummaryStatus(b) = "unverifiable"
           reservations == [a \in Attempt |-> "none"]
<1>1. /\ failed \in BOOLEAN /\ unverifiable \in BOOLEAN
      /\ reservations \in [Attempt -> {"none", "reserved", "consumed"}]
  OBVIOUS
<1>2. AfterHandoff(b) = [b EXCEPT !.reservations = reservations,
                                  !.unreserved = 0, !.failed = failed,
                                  !.unverifiable = unverifiable]
  BY DEF AfterHandoff
<1> HIDE DEF failed, unverifiable, reservations
<1>3. [b EXCEPT !.reservations = reservations, !.unreserved = 0] \in Budget
  BY <1>1 DEF Budget
<1>4. \A d \in Budget : [d EXCEPT !.failed = failed, !.unverifiable = unverifiable] \in Budget
  BY <1>1 DEF Budget
<1>5. AfterHandoff(b) = [[b EXCEPT !.reservations = reservations, !.unreserved = 0]
                           EXCEPT !.failed = failed, !.unverifiable = unverifiable]
  BY <1>2
<1> QED BY <1>3, <1>4, <1>5

(* So does the failure a caller may record in the same segment.            *)
LEMMA PerhapsFailedTyped ==
  ASSUME NEW b \in Budget, NEW r \in PerhapsFailed(b)
  PROVE  r \in Budget
<1>1. Failure \in Termination
  BY DEF Failure, Ended, Termination, TerminationKind, Resource, ScopeKind
<1> QED BY <1>1, TerminationTyped DEF PerhapsFailed

(* A possible charge is a charge, and costs at most the ceiling.           *)
LEMMA ChargeTyped ==
  ASSUME NEW c \in PossibleCharge
  PROVE  c \in Charge /\ c.amount <= CostCeiling
<1>1. c \in [duration : Duration, report : Report, amount : 0 .. CostCeiling]
  BY DEF PossibleCharge
<1>2. 0 .. CostCeiling \subseteq Nat /\ Duration \subseteq Nat /\ Report \subseteq CostReport
  BY InputAssumption
<1>3. c = [duration |-> c.duration, report |-> c.report, amount |-> c.amount]
  BY <1>1
<1>4. c.duration \in Nat /\ c.report \in CostReport /\ c.amount \in 0 .. CostCeiling
  BY <1>1, <1>2
<1> QED BY <1>2, <1>3, <1>4 DEF Charge

(* The empty budget is well formed.                                        *)
LEMMA BudgetInitTyped == AuthorityInit => BudgetTyped
<1>1. /\ [a \in Attempt |-> "none"] \in [Attempt -> {"none", "reserved", "consumed"}]
      /\ [a \in Attempt |-> None] \in [Attempt -> Charge \cup {None}]
      /\ [s \in Scope |-> 0] \in [Scope -> Nat]
  OBVIOUS
<1>2. EmptyBudget \in Budget
  BY <1>1 DEF EmptyBudget, Budget
<1> QED BY <1>2 DEF AuthorityInit, BudgetTyped

(* Every step of the authority keeps its budget well formed.               *)
LEMMA BudgetStepTyped ==
  ASSUME BudgetTyped, [AuthorityNext]_authority
  PROVE  BudgetTyped'
<1>0. {Cancellation, Failure, WallClockExhaustion} \subseteq Termination
  BY DEF Cancellation, Failure, WallClockExhaustion, Ended, Termination,
         TerminationKind, Resource, ScopeKind
<1>1. ASSUME NEW B \in SUBSET Attempt, Reserve(B) PROVE BudgetTyped'
  BY <1>1, ReserveTyped DEF BudgetTyped, Reserve
<1>2. ASSUME NEW B \in SUBSET Attempt, Refuse(B) PROVE BudgetTyped'
  <2>1. PICK t \in Denials(budget, B, expired) :
               budget' \in PerhapsFailed(AfterTermination(budget, t))
    BY <1>2 DEF Refuse
  <2>2. AfterTermination(budget, t) \in Budget
    BY DenialsTyped, TerminationTyped DEF BudgetTyped
  <2> QED BY <1>2, <2>1, <2>2, PerhapsFailedTyped DEF BudgetTyped, Refuse
<1>3. ASSUME NEW a \in Attempt, Consume(a) PROVE BudgetTyped'
  BY <1>3, ConsumeTyped DEF BudgetTyped, Consume
<1>4. ASSUME NEW a \in Attempt, Release(a) PROVE BudgetTyped'
  BY <1>4, ReleaseTyped, PerhapsFailedTyped DEF BudgetTyped, Release
<1>5. ASSUME NEW a \in Attempt, Settle(a) PROVE BudgetTyped'
  <2>1. PICK c \in PossibleCharge : budget' \in PerhapsFailed(AfterSettle(budget, a, c))
    BY <1>5 DEF Settle
  <2>2. AfterSettle(budget, a, c) \in Budget
    BY ChargeTyped, SettleTyped DEF BudgetTyped
  <2> QED BY <1>5, <2>1, <2>2, PerhapsFailedTyped DEF BudgetTyped, Settle
<1>6. CASE NoteStop
  BY <1>0, <1>6, TerminationTyped DEF BudgetTyped, NoteStop
<1>7. CASE DeadlinePasses
  BY <1>7 DEF BudgetTyped, DeadlinePasses
<1>8. CASE DeadlineNoted
  BY <1>0, <1>8, TerminationTyped DEF BudgetTyped, DeadlineNoted
<1>9. CASE Handoff
  BY <1>9, HandoffTyped DEF BudgetTyped, Handoff
<1>10. CASE UNCHANGED authority
  BY <1>10 DEF BudgetTyped, authority
<1> QED BY <1>1, <1>2, <1>3, <1>4, <1>5, <1>6, <1>7, <1>8, <1>9, <1>10 DEF AuthorityNext

(* The authority's state is always a well-formed budget, whatever the      *)
(* policy and whatever its callers ask for and report.                     *)
THEOREM BudgetTypeCorrect == AuthoritySpec => []BudgetTyped
<1>1. BudgetTyped /\ [AuthorityNext]_authority => BudgetTyped'
  BY BudgetStepTyped
<1> QED BY <1>1, BudgetInitTyped, PTL DEF AuthoritySpec

-------------------------------------------------------------------------------
OutstandingOf(b, s) == Within(Outstanding(b), s)
SettledOf(b, s) == Within(Settled(b), s)

LimitsKept(b) ==
  \A s \in Scope : MaxInvocations[s] # None =>
    b.invocations[s] + Cardinality(OutstandingOf(b, s)) <= MaxInvocations[s]

TotalsExplained(b) ==
  /\ Settled(b) \cap Outstanding(b) = {}
  /\ \A s \in Scope : b.invocations[s] = Cardinality(SettledOf(b, s))

UnreservedExplained(b) ==
  /\ b.unreserved = IF BoundedOvershoot THEN Cardinality(Tracked(Outstanding(b))) ELSE 0
  /\ b.unreserved <= b.maxUnreserved

(* What makes the overshoot bound inductive: an invocation still in flight *)
(* was admitted while its scope was not spent, so the scope can be over    *)
(* its limit by no more than the others in flight at the time; those in    *)
(* flight now have yet to be paid for.                                     *)
Headroom(b) ==
  BoundedOvershoot =>
    \A s \in Scope : MaxProviderCost[s] # None =>
      \/ b.cost[s] = 0 /\ OutstandingOf(b, s) = {}
      \/ b.cost[s] + Cardinality(OutstandingOf(b, s)) * CostCeiling
           < MaxProviderCost[s] + b.maxUnreserved * CostCeiling

LedgerInv(b) ==
  /\ b \in Budget
  /\ LimitsKept(b)
  /\ TotalsExplained(b)
  /\ UnreservedExplained(b)
  /\ Headroom(b)

-------------------------------------------------------------------------------
(* The operations on the fields the invariants mention.                    *)

SameLedger(d, b) ==
  /\ Outstanding(d) = Outstanding(b)
  /\ d.entries = b.entries
  /\ d.invocations = b.invocations
  /\ d.cost = b.cost
  /\ d.unreserved = b.unreserved
  /\ d.maxUnreserved = b.maxUnreserved

(* The invariant depends on those fields only.                             *)
LEMMA SameLedgerInv ==
  ASSUME NEW b, NEW d \in Budget, LedgerInv(b), SameLedger(d, b)
  PROVE  LedgerInv(d)
<1>1. Outstanding(d) = Outstanding(b) /\ Settled(d) = Settled(b)
  BY DEF SameLedger, Settled
<1>2. \A s : OutstandingOf(d, s) = OutstandingOf(b, s) /\ SettledOf(d, s) = SettledOf(b, s)
  BY <1>1 DEF OutstandingOf, SettledOf
<1>3. LimitsKept(d) /\ TotalsExplained(d)
  BY <1>1, <1>2 DEF LedgerInv, SameLedger, LimitsKept, TotalsExplained
<1>4. UnreservedExplained(d) /\ Headroom(d)
  BY <1>1, <1>2 DEF LedgerInv, SameLedger, UnreservedExplained, Headroom
<1> QED BY <1>3, <1>4 DEF LedgerInv

(* Recording a reason to stop leaves the ledger alone.                     *)
LEMMA TerminationSame ==
  ASSUME NEW b \in Budget, NEW t
  PROVE  SameLedger(AfterTermination(b, t), b)
BY DEF SameLedger, AfterTermination, Budget, Outstanding

(* So does the failure a caller may record in the same segment.            *)
LEMMA PerhapsFailedSame ==
  ASSUME NEW b \in Budget, NEW d \in PerhapsFailed(b)
  PROVE  SameLedger(d, b)
<1>1. SameLedger(AfterTermination(b, Failure), b)
  BY TerminationSame
<1>2. SameLedger(b, b)
  BY DEF SameLedger
<1> QED BY <1>1, <1>2 DEF PerhapsFailed

(* A set of attempts, restricted to a scope, is finite.                    *)
LEMMA WithinFinite ==
  ASSUME NEW B \in SUBSET Attempt, NEW s
  PROVE  /\ IsFiniteSet(B) /\ IsFiniteSet(Within(B, s)) /\ IsFiniteSet(Tracked(B))
         /\ Cardinality(Within(B, s)) \in Nat /\ Cardinality(Tracked(B)) \in Nat
<1>1. IsFiniteSet(B)
  BY AttemptAssumption, FS_Subset
<1>2. Within(B, s) \subseteq B /\ Tracked(B) \subseteq B
  BY DEF Within, Tracked
<1>3. IsFiniteSet(Within(B, s)) /\ IsFiniteSet(Tracked(B))
  BY <1>1, <1>2, FS_Subset
<1> QED BY <1>1, <1>3, FS_CardinalityType

(* More invocations at the ceiling never cost less.                        *)
LEMMA CeilingMonotone ==
  ASSUME NEW m \in Nat, NEW n \in Nat, m <= n
  PROVE  /\ m * CostCeiling \in Nat /\ n * CostCeiling \in Nat
         /\ m * CostCeiling <= n * CostCeiling
<1>1. CostCeiling \in Nat
  BY InputAssumption
<1> QED BY <1>1

-------------------------------------------------------------------------------
(* Admission.                                                              *)

(* An admitted batch passed the checks of every scope the loop visits.     *)
LEMMA AdmissibleChecks ==
  ASSUME NEW b \in Budget, NEW B \in SUBSET Attempt, B # {}, NEW e,
         Admissible(b, B, e), NEW s \in CheckedScopes(B)
  PROVE  /\ ~InvocationsExceeded(b, B, s)
         /\ BoundedOvershoot => ~CostExhausted(b, s)
         /\ StrictReservation => ~BoundMissing(b, B, s) /\ ~ReservedCostExceeded(b, B, s)
<1>1. ScopeDenial(b, B, s) = None
  <2> DEFINE scopes(S) == {ScopeDenial(b, B, x) : x \in S} \ {None}
             run == scopes({"run"})
             execution == scopes({"execution"})
             evaluation == scopes({"evaluation"})
             checked == scopes(CheckedScopes(B))
             attempts == {AttemptDenial(a) : a \in B} \ {None}
             first == IF b.termination # None THEN b.termination ELSE Failure
             ended == b.failed \/ (b.termination # None /\ b.termination.kind = "cancelled")
  <2>1. Denials(b, B, e) = {}
    BY DEF Admissible
  <2>2. Denials(b, B, e) = IF ended THEN {first}
                           ELSE IF e THEN {WallClockExhaustion}
                           ELSE IF run # {} THEN run
                           ELSE IF execution # {} THEN execution
                           ELSE IF evaluation # {} THEN evaluation
                           ELSE IF checked # {} THEN checked
                           ELSE attempts
    BY DEF Denials
  <2>3. checked = {}
    <3> HIDE DEF run, execution, evaluation, checked, attempts, first, ended
    <3>1. {first} # {} /\ {WallClockExhaustion} # {}
      OBVIOUS
    <3> QED BY <2>1, <2>2, <3>1
  <2> QED BY <2>3
<1>2. \A kind \in TerminationKind, resource \in Resource :
        Ended(kind, resource, KindOf(s)) # None
  BY EndedTyped, LimitAssumption
<1>3. /\ {"budget-censored", "failed"} \subseteq TerminationKind
      /\ {"active-duration", "provider-cost", "invocations"} \subseteq Resource
  BY DEF TerminationKind, Resource
<1> QED BY <1>1, <1>2, <1>3 DEF ScopeDenial

(* Admitting a batch of fresh attempts preserves the invariant.            *)
LEMMA ReserveInv ==
  ASSUME NEW b, LedgerInv(b), NEW B \in SUBSET Attempt, B # {}, NEW e,
         Admissible(b, B, e), B \cap (Outstanding(b) \cup Settled(b)) = {}
  PROVE  LedgerInv(AfterReserve(b, B))
<1> DEFINE d == AfterReserve(b, B)
           added == IF BoundedOvershoot THEN Cardinality(Tracked(B)) ELSE 0
<1>0. b \in Budget /\ d \in Budget
  BY ReserveTyped DEF LedgerInv
<1>1. Outstanding(b) \in SUBSET Attempt /\ Outstanding(d) \in SUBSET Attempt
  BY DEF Outstanding
<1>2. /\ d.entries = b.entries /\ d.invocations = b.invocations /\ d.cost = b.cost
      /\ d.unreserved = b.unreserved + added
      /\ d.maxUnreserved = MaxOf(b.maxUnreserved, b.unreserved + added)
      /\ d.reservations = [a \in Attempt |-> IF a \in B THEN "reserved" ELSE b.reservations[a]]
  BY <1>0 DEF AfterReserve, Budget
<1>3. Outstanding(d) = Outstanding(b) \cup B /\ Settled(d) = Settled(b)
  BY <1>2 DEF Outstanding, Settled
<1>4. ASSUME NEW s \in Scope
      PROVE  /\ OutstandingOf(d, s) = Projected(b, B, s)
             /\ s \notin CheckedScopes(B) => OutstandingOf(d, s) = OutstandingOf(b, s)
  <2>1. OutstandingOf(d, s) = Projected(b, B, s)
    BY <1>3 DEF OutstandingOf, Projected
  <2>2. s \notin CheckedScopes(B) => Within(B, s) = {}
    BY AttemptAssumption DEF CheckedScopes, Within, Charges
  <2> QED BY <1>3, <2>1, <2>2 DEF OutstandingOf, Within
<1>5. b.unreserved \in Nat /\ b.maxUnreserved \in Nat /\ added \in Nat
  BY <1>0, WithinFinite DEF Budget
<1> HIDE DEF d
<1>6. d.unreserved <= d.maxUnreserved /\ b.maxUnreserved <= d.maxUnreserved
  <2> HIDE DEF added
  <2> QED BY <1>2, <1>5 DEF MaxOf
<1>7. LimitsKept(d)
  <2> SUFFICES ASSUME NEW s \in Scope, MaxInvocations[s] # None
               PROVE  d.invocations[s] + Cardinality(OutstandingOf(d, s)) <= MaxInvocations[s]
    BY DEF LimitsKept
  <2>1. CASE s \in CheckedScopes(B)
    <3>1. ~InvocationsExceeded(b, B, s)
      BY <1>0, <2>1, AdmissibleChecks
    <3>2. /\ b.invocations[s] \in Nat /\ MaxInvocations[s] \in Nat
          /\ Cardinality(Projected(b, B, s)) \in Nat
      BY <1>0, <1>1, <1>3, LimitAssumption, WithinFinite DEF Budget, OptionalNat, Projected
    <3> QED BY <1>2, <1>4, <3>1, <3>2 DEF InvocationsExceeded
  <2>2. CASE s \notin CheckedScopes(B)
    BY <1>2, <1>4, <2>2 DEF LedgerInv, LimitsKept
  <2> QED BY <2>1, <2>2
<1>8. TotalsExplained(d)
  BY <1>2, <1>3 DEF LedgerInv, TotalsExplained, SettledOf
<1>9. UnreservedExplained(d)
  <2>1. CASE ~BoundedOvershoot
    BY <1>2, <1>5, <1>6, <2>1 DEF LedgerInv, UnreservedExplained
  <2>2. CASE BoundedOvershoot
    <3>1. Tracked(Outstanding(d)) = Tracked(Outstanding(b)) \cup Tracked(B)
      BY <1>3 DEF Tracked
    <3>2. Tracked(Outstanding(b)) \cap Tracked(B) = {}
      BY DEF Tracked
    <3>3. Cardinality({}) = 0
      BY FS_EmptySet
    <3>4. IsFiniteSet(Tracked(Outstanding(b))) /\ IsFiniteSet(Tracked(B))
      BY <1>1, WithinFinite
    <3>5. Cardinality(Tracked(Outstanding(d)))
            = Cardinality(Tracked(Outstanding(b))) + Cardinality(Tracked(B)) - 0
      BY <3>1, <3>2, <3>3, <3>4, FS_Union
    <3>6. Cardinality(Tracked(Outstanding(b))) \in Nat /\ Cardinality(Tracked(B)) \in Nat
      BY <1>1, WithinFinite
    <3>7. b.unreserved = Cardinality(Tracked(Outstanding(b)))
      BY <2>2 DEF LedgerInv, UnreservedExplained
    <3> QED BY <1>2, <1>6, <2>2, <3>5, <3>6, <3>7 DEF UnreservedExplained
  <2> QED BY <2>1, <2>2
<1>10. Headroom(d)
  <2> SUFFICES ASSUME BoundedOvershoot, NEW s \in Scope, MaxProviderCost[s] # None
               PROVE  \/ d.cost[s] = 0 /\ OutstandingOf(d, s) = {}
                      \/ d.cost[s] + Cardinality(OutstandingOf(d, s)) * CostCeiling
                           < MaxProviderCost[s] + d.maxUnreserved * CostCeiling
    BY DEF Headroom
  <2>1. /\ b.cost[s] \in Nat /\ MaxProviderCost[s] \in Nat /\ d.maxUnreserved \in Nat
        /\ Cardinality(OutstandingOf(d, s)) \in Nat
        /\ Cardinality(OutstandingOf(b, s)) \in Nat
    BY <1>0, <1>1, LimitAssumption, WithinFinite DEF Budget, OptionalNat, OutstandingOf
  <2>2. CASE s \in CheckedScopes(B)
    <3>1. b.cost[s] < MaxProviderCost[s]
      BY <1>0, <2>1, <2>2, AdmissibleChecks DEF CostExhausted
    <3>2. OutstandingOf(d, s) \subseteq Tracked(Outstanding(d))
      BY DEF OutstandingOf, Within, Tracked, CostTracked, Charges
    <3>3. /\ Cardinality(OutstandingOf(d, s)) <= Cardinality(Tracked(Outstanding(d)))
          /\ Cardinality(Tracked(Outstanding(d))) \in Nat
      BY <1>1, <3>2, WithinFinite, FS_Subset
    <3>4. Cardinality(OutstandingOf(d, s)) <= d.maxUnreserved
      BY <1>9, <2>1, <3>3 DEF UnreservedExplained
    <3>5. /\ Cardinality(OutstandingOf(d, s)) * CostCeiling <= d.maxUnreserved * CostCeiling
          /\ Cardinality(OutstandingOf(d, s)) * CostCeiling \in Nat
          /\ d.maxUnreserved * CostCeiling \in Nat
      BY <2>1, <3>4, CeilingMonotone
    <3> QED BY <1>2, <2>1, <3>1, <3>5
  <2>3. CASE s \notin CheckedScopes(B)
    <3>1. OutstandingOf(d, s) = OutstandingOf(b, s) /\ d.cost[s] = b.cost[s]
      BY <1>2, <1>4, <2>3
    <3>2. /\ b.maxUnreserved * CostCeiling <= d.maxUnreserved * CostCeiling
          /\ b.maxUnreserved * CostCeiling \in Nat
          /\ d.maxUnreserved * CostCeiling \in Nat
          /\ Cardinality(OutstandingOf(b, s)) * CostCeiling \in Nat
      BY <1>5, <1>6, <2>1, CeilingMonotone
    <3>3. \/ b.cost[s] = 0 /\ OutstandingOf(b, s) = {}
          \/ b.cost[s] + Cardinality(OutstandingOf(b, s)) * CostCeiling
                < MaxProviderCost[s] + b.maxUnreserved * CostCeiling
      BY DEF LedgerInv, Headroom
    <3> QED BY <2>1, <3>1, <3>2, <3>3
  <2> QED BY <2>2, <2>3
<1> QED BY <1>0, <1>7, <1>8, <1>9, <1>10 DEF LedgerInv, d

-------------------------------------------------------------------------------
(* Returning a reservation, unused or settled.                             *)

(* One reservation less: the set, the counter and the sizes in each scope. *)
LEMMA ReturnEffect ==
  ASSUME NEW b, LedgerInv(b), NEW a \in Outstanding(b), NEW d \in Budget,
         d = WithoutReservation(b, a)
  PROVE  /\ d.entries = b.entries /\ d.invocations = b.invocations
         /\ d.cost = b.cost /\ d.maxUnreserved = b.maxUnreserved
         /\ Outstanding(d) = Outstanding(b) \ {a}
         /\ UnreservedExplained(d)
         /\ \A s : Cardinality(OutstandingOf(d, s))
                   = IF Charges(a, s) THEN Cardinality(OutstandingOf(b, s)) - 1
                                      ELSE Cardinality(OutstandingOf(b, s))
<1>0. b \in Budget /\ a \in Attempt
  BY DEF LedgerInv, Outstanding
<1>1. /\ d.entries = b.entries /\ d.invocations = b.invocations
      /\ d.cost = b.cost /\ d.maxUnreserved = b.maxUnreserved
      /\ d.reservations = [b.reservations EXCEPT ![a] = "none"]
      /\ d.unreserved = IF BoundedOvershoot /\ CostTracked(a)
                          THEN Decrement(b.unreserved) ELSE b.unreserved
  BY <1>0 DEF WithoutReservation, Budget
<1>2. Outstanding(d) = Outstanding(b) \ {a}
  BY <1>0, <1>1 DEF Outstanding, Budget
<1>3. Outstanding(b) \in SUBSET Attempt /\ Outstanding(d) \in SUBSET Attempt
  BY DEF Outstanding
<1>4. UnreservedExplained(d)
  <2>1. CASE ~BoundedOvershoot
    BY <1>1, <2>1 DEF LedgerInv, UnreservedExplained
  <2>2. CASE BoundedOvershoot
    <3>1. Tracked(Outstanding(d)) = Tracked(Outstanding(b)) \ {a}
      BY <1>2 DEF Tracked
    <3>2. a \in Tracked(Outstanding(b)) <=> CostTracked(a)
      BY DEF Tracked
    <3>3. IsFiniteSet(Tracked(Outstanding(b)))
      BY <1>3, WithinFinite
    <3>4. Cardinality(Tracked(Outstanding(d)))
            = IF CostTracked(a) THEN Cardinality(Tracked(Outstanding(b))) - 1
                                ELSE Cardinality(Tracked(Outstanding(b)))
      BY <3>1, <3>2, <3>3, FS_RemoveElement
    <3>5. CostTracked(a) => Cardinality(Tracked(Outstanding(b))) # 0
      BY <3>2, <3>3, FS_EmptySet
    <3>6. Cardinality(Tracked(Outstanding(b))) \in Nat /\ b.maxUnreserved \in Nat
      BY <1>0, <1>3, WithinFinite DEF Budget
    <3>7. /\ b.unreserved = Cardinality(Tracked(Outstanding(b)))
          /\ b.unreserved <= b.maxUnreserved
      BY <2>2 DEF LedgerInv, UnreservedExplained
    <3>8. CASE CostTracked(a)
      BY <1>1, <2>2, <3>4, <3>5, <3>6, <3>7, <3>8 DEF UnreservedExplained, Decrement
    <3>9. CASE ~CostTracked(a)
      BY <1>1, <2>2, <3>4, <3>6, <3>7, <3>9 DEF UnreservedExplained
    <3> QED BY <3>8, <3>9
  <2> QED BY <2>1, <2>2
<1>5. ASSUME NEW s
      PROVE  Cardinality(OutstandingOf(d, s))
               = IF Charges(a, s) THEN Cardinality(OutstandingOf(b, s)) - 1
                                  ELSE Cardinality(OutstandingOf(b, s))
  <2>1. OutstandingOf(d, s) = OutstandingOf(b, s) \ {a}
    BY <1>2 DEF OutstandingOf, Within
  <2>2. a \in OutstandingOf(b, s) <=> Charges(a, s)
    BY DEF OutstandingOf, Within
  <2>3. IsFiniteSet(OutstandingOf(b, s))
    BY <1>3, WithinFinite DEF OutstandingOf
  <2> QED BY <2>1, <2>2, <2>3, FS_RemoveElement
<1> QED BY <1>1, <1>2, <1>4, <1>5

(* Returning an unused reservation preserves the invariant.                *)
LEMMA ReturnInv ==
  ASSUME NEW b, LedgerInv(b), NEW a \in Outstanding(b)
  PROVE  LedgerInv(AfterRelease(b, a))
<1> DEFINE d == WithoutReservation(b, a)
<1>0. b \in Budget /\ a \in Attempt /\ d \in Budget /\ AfterRelease(b, a) = d
  BY ReleaseTyped DEF LedgerInv, Outstanding, AfterRelease
<1> HIDE DEF d
<1>1. /\ d.entries = b.entries /\ d.invocations = b.invocations
      /\ d.cost = b.cost /\ d.maxUnreserved = b.maxUnreserved
      /\ Outstanding(d) = Outstanding(b) \ {a}
      /\ UnreservedExplained(d)
  BY <1>0, ReturnEffect DEF d
<1>2. ASSUME NEW s
      PROVE  /\ Cardinality(OutstandingOf(b, s)) \in Nat
             /\ Cardinality(OutstandingOf(d, s)) \in Nat
             /\ Cardinality(OutstandingOf(d, s)) <= Cardinality(OutstandingOf(b, s))
             /\ OutstandingOf(d, s) \subseteq OutstandingOf(b, s)
  <2>1. OutstandingOf(d, s) \subseteq OutstandingOf(b, s)
    BY <1>1 DEF OutstandingOf, Within
  <2>2. Outstanding(b) \in SUBSET Attempt /\ Outstanding(d) \in SUBSET Attempt
    BY DEF Outstanding
  <2> QED BY <2>1, <2>2, WithinFinite, FS_Subset DEF OutstandingOf
<1>3. LimitsKept(d)
  <2> SUFFICES ASSUME NEW s \in Scope, MaxInvocations[s] # None
               PROVE  d.invocations[s] + Cardinality(OutstandingOf(d, s)) <= MaxInvocations[s]
    BY DEF LimitsKept
  <2>1. b.invocations[s] \in Nat /\ MaxInvocations[s] \in Nat
    BY <1>0, LimitAssumption DEF Budget, OptionalNat
  <2>2. b.invocations[s] + Cardinality(OutstandingOf(b, s)) <= MaxInvocations[s]
    BY DEF LedgerInv, LimitsKept
  <2> QED BY <1>1, <1>2, <2>1, <2>2
<1>4. TotalsExplained(d)
  BY <1>1 DEF LedgerInv, TotalsExplained, SettledOf, Settled
<1>5. Headroom(d)
  <2> SUFFICES ASSUME BoundedOvershoot, NEW s \in Scope, MaxProviderCost[s] # None
               PROVE  \/ d.cost[s] = 0 /\ OutstandingOf(d, s) = {}
                      \/ d.cost[s] + Cardinality(OutstandingOf(d, s)) * CostCeiling
                           < MaxProviderCost[s] + d.maxUnreserved * CostCeiling
    BY DEF Headroom
  <2>1. \/ b.cost[s] = 0 /\ OutstandingOf(b, s) = {}
        \/ b.cost[s] + Cardinality(OutstandingOf(b, s)) * CostCeiling
              < MaxProviderCost[s] + b.maxUnreserved * CostCeiling
    BY DEF LedgerInv, Headroom
  <2>2. /\ Cardinality(OutstandingOf(d, s)) * CostCeiling
             <= Cardinality(OutstandingOf(b, s)) * CostCeiling
        /\ Cardinality(OutstandingOf(d, s)) * CostCeiling \in Nat
        /\ Cardinality(OutstandingOf(b, s)) * CostCeiling \in Nat
    BY <1>2, CeilingMonotone
  <2>3. b.cost[s] \in Nat /\ MaxProviderCost[s] \in Nat /\ b.maxUnreserved * CostCeiling \in Nat
    BY <1>0, LimitAssumption, CeilingMonotone DEF Budget, OptionalNat
  <2> QED BY <1>1, <1>2, <2>1, <2>2, <2>3
<1> QED BY <1>0, <1>1, <1>3, <1>4, <1>5 DEF LedgerInv

(* Posting the charge of an invocation in flight preserves the invariant.  *)
LEMMA PostedInv ==
  ASSUME NEW b, LedgerInv(b), NEW a \in Outstanding(b),
         NEW c \in Charge, c.amount <= CostCeiling
  PROVE  LedgerInv(Posted(b, a, c))
<1> DEFINE p == WithoutReservation(b, a)
           d == Posted(b, a, c)
           amount == IF c.report = "reported" THEN c.amount ELSE 0
<1>0. b \in Budget /\ a \in Attempt /\ p \in Budget /\ d \in Budget
  BY ReleaseTyped, PostedTyped DEF LedgerInv, Outstanding
<1>1. /\ p.entries = b.entries /\ p.invocations = b.invocations
      /\ p.cost = b.cost /\ p.maxUnreserved = b.maxUnreserved
      /\ Outstanding(p) = Outstanding(b) \ {a}
      /\ UnreservedExplained(p)
      /\ \A s : Cardinality(OutstandingOf(p, s))
                = IF Charges(a, s) THEN Cardinality(OutstandingOf(b, s)) - 1
                                   ELSE Cardinality(OutstandingOf(b, s))
  BY <1>0, ReturnEffect
<1>2. /\ d.reservations = p.reservations
      /\ d.unreserved = p.unreserved /\ d.maxUnreserved = p.maxUnreserved
      /\ d.entries = [p.entries EXCEPT ![a] = c]
      /\ d.invocations = [s \in Scope |-> IF Charges(a, s) THEN p.invocations[s] + 1
                                                          ELSE p.invocations[s]]
      /\ d.cost = [s \in Scope |-> IF Charges(a, s) THEN p.cost[s] + amount ELSE p.cost[s]]
  <2> HIDE DEF p
  <2> QED BY <1>0 DEF Posted, Budget, p
<1>3. amount \in Nat /\ CostCeiling \in Nat /\ amount <= CostCeiling
  BY InputAssumption DEF Charge
<1> HIDE DEF p, d, amount
<1>4. Outstanding(d) = Outstanding(p) /\ \A s : OutstandingOf(d, s) = OutstandingOf(p, s)
  BY <1>2 DEF Outstanding, OutstandingOf
<1>5. Settled(d) = Settled(b) \cup {a} /\ a \notin Settled(b)
  <2>1. Settled(b) \cap Outstanding(b) = {}
    BY DEF LedgerInv, TotalsExplained
  <2>2. c # None
    BY LimitAssumption
  <2> QED BY <1>0, <1>1, <1>2, <2>1, <2>2 DEF Settled, Budget
<1>6. UnreservedExplained(d)
  BY <1>1, <1>2, <1>4 DEF UnreservedExplained
<1>7. TotalsExplained(d)
  <2>1. Settled(d) \cap Outstanding(d) = {}
    BY <1>1, <1>4, <1>5 DEF LedgerInv, TotalsExplained
  <2>2. ASSUME NEW s \in Scope
        PROVE  d.invocations[s] = Cardinality(SettledOf(d, s))
    <3>1. SettledOf(d, s) = IF Charges(a, s) THEN SettledOf(b, s) \cup {a} ELSE SettledOf(b, s)
      BY <1>5 DEF SettledOf, Within
    <3>2. a \notin SettledOf(b, s)
      BY <1>5 DEF SettledOf, Within
    <3>3. Settled(b) \in SUBSET Attempt
      BY DEF Settled
    <3>4. IsFiniteSet(SettledOf(b, s))
      BY <3>3, WithinFinite DEF SettledOf
    <3>5. b.invocations[s] = Cardinality(SettledOf(b, s))
      BY DEF LedgerInv, TotalsExplained
    <3>6. d.invocations[s] = IF Charges(a, s) THEN b.invocations[s] + 1 ELSE b.invocations[s]
      BY <1>1, <1>2
    <3>7. Cardinality(SettledOf(b, s) \cup {a}) = Cardinality(SettledOf(b, s)) + 1
      BY <3>2, <3>4, FS_AddElement
    <3>8. CASE Charges(a, s)
      BY <3>1, <3>5, <3>6, <3>7, <3>8
    <3>9. CASE ~Charges(a, s)
      BY <3>1, <3>5, <3>6, <3>9
    <3> QED BY <3>8, <3>9
  <2> QED BY <2>1, <2>2 DEF TotalsExplained
<1>8. ASSUME NEW s
      PROVE  /\ Cardinality(OutstandingOf(b, s)) \in Nat
             /\ Charges(a, s) => /\ OutstandingOf(b, s) # {}
                                /\ Cardinality(OutstandingOf(b, s)) # 0
  <2>1. Outstanding(b) \in SUBSET Attempt
    BY DEF Outstanding
  <2>2. IsFiniteSet(OutstandingOf(b, s)) /\ Cardinality(OutstandingOf(b, s)) \in Nat
    BY <2>1, WithinFinite DEF OutstandingOf
  <2>3. Charges(a, s) => a \in OutstandingOf(b, s)
    BY DEF OutstandingOf, Within
  <2> QED BY <2>2, <2>3, FS_EmptySet
<1>9. LimitsKept(d)
  <2> SUFFICES ASSUME NEW s \in Scope, MaxInvocations[s] # None
               PROVE  d.invocations[s] + Cardinality(OutstandingOf(d, s)) <= MaxInvocations[s]
    BY DEF LimitsKept
  <2>1. b.invocations[s] \in Nat /\ MaxInvocations[s] \in Nat
    BY <1>0, LimitAssumption DEF Budget, OptionalNat
  <2>2. b.invocations[s] + Cardinality(OutstandingOf(b, s)) <= MaxInvocations[s]
    BY DEF LedgerInv, LimitsKept
  <2>3. /\ d.invocations[s] = IF Charges(a, s) THEN b.invocations[s] + 1 ELSE b.invocations[s]
        /\ Cardinality(OutstandingOf(d, s))
             = IF Charges(a, s) THEN Cardinality(OutstandingOf(b, s)) - 1
                                ELSE Cardinality(OutstandingOf(b, s))
    BY <1>1, <1>2, <1>4
  <2>4. Cardinality(OutstandingOf(b, s)) \in Nat
    BY <1>8
  <2> QED BY <2>1, <2>2, <2>3, <2>4
<1>10. Headroom(d)
  <2> SUFFICES ASSUME BoundedOvershoot, NEW s \in Scope, MaxProviderCost[s] # None
               PROVE  \/ d.cost[s] = 0 /\ OutstandingOf(d, s) = {}
                      \/ d.cost[s] + Cardinality(OutstandingOf(d, s)) * CostCeiling
                           < MaxProviderCost[s] + d.maxUnreserved * CostCeiling
    BY DEF Headroom
  <2> DEFINE n == Cardinality(OutstandingOf(b, s))
             ceiling == d.maxUnreserved * CostCeiling
  <2>1. \/ b.cost[s] = 0 /\ OutstandingOf(b, s) = {}
        \/ b.cost[s] + n * CostCeiling < MaxProviderCost[s] + ceiling
    BY <1>1, <1>2 DEF LedgerInv, Headroom
  <2>2. b.cost[s] \in Nat /\ MaxProviderCost[s] \in Nat /\ ceiling \in Nat /\ n \in Nat
    BY <1>0, <1>8, LimitAssumption, CeilingMonotone DEF Budget, OptionalNat
  <2>3. CASE Charges(a, s)
    <3>1. /\ d.cost[s] = b.cost[s] + amount
          /\ Cardinality(OutstandingOf(d, s)) = n - 1
          /\ n # 0 /\ OutstandingOf(b, s) # {}
      BY <1>1, <1>2, <1>4, <1>8, <2>3
    <3> HIDE DEF n, ceiling
    <3>2. (n - 1) * CostCeiling + CostCeiling = n * CostCeiling
      BY <1>3, <2>2
    <3>3. (n - 1) * CostCeiling \in Nat /\ n * CostCeiling \in Nat
      BY <1>3, <2>2, <3>1
    <3>4. b.cost[s] + n * CostCeiling < MaxProviderCost[s] + ceiling
      BY <2>1, <3>1
    <3>5. b.cost[s] + amount + (n - 1) * CostCeiling < MaxProviderCost[s] + ceiling
      BY <1>3, <2>2, <3>2, <3>3, <3>4
    <3> QED BY <3>1, <3>5 DEF ceiling
  <2>4. CASE ~Charges(a, s)
    <3>1. d.cost[s] = b.cost[s] /\ Cardinality(OutstandingOf(d, s)) = n
      BY <1>1, <1>2, <1>4, <2>4
    <3>2. OutstandingOf(b, s) = {} => OutstandingOf(d, s) = {}
      BY <1>1, <1>4 DEF OutstandingOf, Within
    <3> QED BY <2>1, <3>1, <3>2
  <2> QED BY <2>3, <2>4
<1> QED BY <1>0, <1>6, <1>7, <1>9, <1>10 DEF LedgerInv, d

(* So does settling it, whatever settle returns.                           *)
LEMMA SettleInv ==
  ASSUME NEW b, LedgerInv(b), NEW a \in Outstanding(b),
         NEW c \in Charge, c.amount <= CostCeiling
  PROVE  LedgerInv(AfterSettle(b, a, c))
<1>1. LedgerInv(Posted(b, a, c))
  BY PostedInv
<1>2. AfterSettle(b, a, c) \in Budget
  BY SettleTyped DEF LedgerInv, Outstanding
<1>3. Posted(b, a, c) \in Budget
  BY <1>1 DEF LedgerInv
<1>4. SameLedger(AfterSettle(b, a, c), Posted(b, a, c))
  <2>1. SameLedger(Posted(b, a, c), Posted(b, a, c))
    BY DEF SameLedger
  <2> QED BY <1>3, <2>1, TerminationSame DEF AfterSettle
<1> QED BY <1>1, <1>2, <1>4, SameLedgerInv

-------------------------------------------------------------------------------
(* Starting an invocation and resuming from a snapshot.                    *)

(* Starting a reserved invocation changes none of those fields.            *)
LEMMA ConsumeSame ==
  ASSUME NEW b \in Budget, NEW a \in Outstanding(b)
  PROVE  SameLedger(AfterConsume(b, a), b)
BY DEF SameLedger, AfterConsume, Outstanding, Budget

(* Nor does resuming from a snapshot that holds no reservation.            *)
LEMMA HandoffSame ==
  ASSUME NEW b, LedgerInv(b), Outstanding(b) = {}
  PROVE  SameLedger(AfterHandoff(b), b)
<1>1. Tracked({}) = {} /\ Cardinality({}) = 0
  BY FS_EmptySet DEF Tracked
<1>2. b.unreserved = 0
  BY <1>1 DEF LedgerInv, UnreservedExplained
<1>3. Outstanding(AfterHandoff(b)) = {}
  BY DEF AfterHandoff, Outstanding, LedgerInv, Budget
<1> QED BY <1>2, <1>3 DEF SameLedger, AfterHandoff, LedgerInv, Budget

(* The empty budget satisfies the invariant.                               *)
LEMMA LedgerInit ==
  ASSUME AuthorityInit
  PROVE  LedgerInv(budget)
<1>1. Outstanding(budget) = {} /\ Settled(budget) = {}
  BY DEF AuthorityInit, EmptyBudget, Outstanding, Settled
<1>2. \A s : OutstandingOf(budget, s) = {} /\ SettledOf(budget, s) = {}
  BY <1>1 DEF OutstandingOf, SettledOf, Within
<1>3. Tracked({}) = {} /\ Cardinality({}) = 0
  BY FS_EmptySet DEF Tracked
<1>4. /\ budget.unreserved = 0 /\ budget.maxUnreserved = 0
      /\ \A s \in Scope : budget.invocations[s] = 0 /\ budget.cost[s] = 0
  BY DEF AuthorityInit, EmptyBudget
<1>5. LimitsKept(budget)
  BY <1>2, <1>3, <1>4, LimitAssumption DEF LimitsKept, OptionalNat
<1>6. TotalsExplained(budget) /\ UnreservedExplained(budget)
  <2>1. \A s \in Scope : Cardinality(SettledOf(budget, s)) = 0
    BY <1>2, <1>3
  <2>2. TotalsExplained(budget)
    BY <1>1, <1>4, <2>1 DEF TotalsExplained
  <2>3. Cardinality(Tracked(Outstanding(budget))) = 0
    BY <1>1, <1>3
  <2> QED BY <1>4, <2>2, <2>3 DEF UnreservedExplained
<1>7. Headroom(budget)
  BY <1>2, <1>4 DEF Headroom
<1> QED BY <1>5, <1>6, <1>7, BudgetInitTyped DEF LedgerInv, BudgetTyped

(* Every step of the authority preserves it.                               *)
LEMMA LedgerStep ==
  ASSUME LedgerInv(budget), BudgetTyped, [AuthorityNext]_authority
  PROVE  LedgerInv(budget')
<1>0. budget \in Budget /\ budget' \in Budget
  BY BudgetStepTyped DEF LedgerInv, BudgetTyped
<1>1. ASSUME NEW B \in SUBSET Attempt, Reserve(B) PROVE LedgerInv(budget')
  <2>1. B \cap (Outstanding(budget) \cup Settled(budget)) = {}
    BY <1>1 DEF Reserve, Requestable, Outstanding, Settled
  <2> QED BY <1>1, <2>1, ReserveInv DEF Reserve
<1>2. ASSUME NEW B \in SUBSET Attempt, Refuse(B) PROVE LedgerInv(budget')
  <2>1. PICK t \in Denials(budget, B, expired) :
               budget' \in PerhapsFailed(AfterTermination(budget, t))
    BY <1>2 DEF Refuse
  <2>2. AfterTermination(budget, t) \in Budget
    BY <1>0, DenialsTyped, TerminationTyped
  <2>3. LedgerInv(AfterTermination(budget, t))
    BY <1>0, <2>2, TerminationSame, SameLedgerInv
  <2> QED BY <1>0, <2>1, <2>2, <2>3, PerhapsFailedSame, SameLedgerInv
<1>3. ASSUME NEW a \in Attempt, Consume(a) PROVE LedgerInv(budget')
  <2>1. a \in Outstanding(budget)
    BY <1>3 DEF Consume, Outstanding
  <2> QED BY <1>0, <1>3, <2>1, ConsumeSame, SameLedgerInv DEF Consume
<1>4. ASSUME NEW a \in Attempt, Release(a) PROVE LedgerInv(budget')
  <2>1. a \in Outstanding(budget)
    BY <1>4 DEF Release, Outstanding
  <2>2. LedgerInv(AfterRelease(budget, a)) /\ AfterRelease(budget, a) \in Budget
    BY <2>1, ReturnInv DEF LedgerInv
  <2>3. budget' \in PerhapsFailed(AfterRelease(budget, a))
    BY <1>4 DEF Release
  <2> QED BY <1>0, <2>2, <2>3, PerhapsFailedSame, SameLedgerInv
<1>5. ASSUME NEW a \in Attempt, Settle(a) PROVE LedgerInv(budget')
  <2>1. a \in Outstanding(budget)
    BY <1>5 DEF Settle, Outstanding
  <2>2. PICK c \in PossibleCharge : budget' \in PerhapsFailed(AfterSettle(budget, a, c))
    BY <1>5 DEF Settle
  <2>3. LedgerInv(AfterSettle(budget, a, c))
    BY <2>1, ChargeTyped, SettleInv
  <2>4. AfterSettle(budget, a, c) \in Budget
    BY <2>3 DEF LedgerInv
  <2> QED BY <1>0, <2>2, <2>3, <2>4, PerhapsFailedSame, SameLedgerInv
<1>6. CASE NoteStop
  BY <1>0, <1>6, TerminationSame, SameLedgerInv DEF NoteStop
<1>7. CASE DeadlinePasses
  BY <1>7 DEF DeadlinePasses
<1>8. CASE DeadlineNoted
  BY <1>0, <1>8, TerminationSame, SameLedgerInv DEF DeadlineNoted
<1>9. CASE Handoff
  BY <1>0, <1>9, HandoffSame, SameLedgerInv DEF Handoff
<1>10. CASE UNCHANGED authority
  BY <1>10 DEF authority
<1> QED BY <1>1, <1>2, <1>3, <1>4, <1>5, <1>6, <1>7, <1>8, <1>9, <1>10 DEF AuthorityNext

(* Every reachable budget satisfies the inductive invariant.               *)
THEOREM LedgerInvariant == AuthoritySpec => [](LedgerInv(budget) /\ BudgetTyped)
<1> DEFINE Inv == LedgerInv(budget) /\ BudgetTyped
<1>1. AuthorityInit => Inv
  BY LedgerInit, BudgetInitTyped
<1>2. Inv /\ [AuthorityNext]_authority => Inv'
  BY LedgerStep, BudgetStepTyped
<1> QED BY <1>1, <1>2, PTL DEF AuthoritySpec

(* No scope ever spends and holds more invocations than its limit, for     *)
(* every policy, every number of trials and every order of the calls.      *)
THEOREM LimitsHold == AuthoritySpec => []InvocationsWithinLimit
<1>1. LedgerInv(budget) => InvocationsWithinLimit
  BY DEF LedgerInv, LimitsKept, InvocationsWithinLimit, OutstandingIn, OutstandingOf
<1> QED BY <1>1, LedgerInvariant, PTL

(* The invocations of every scope are the ones its ledger entries explain, *)
(* and the counter of unreserved invocations never drifts from the         *)
(* reservations it counts.                                                 *)
LEMMA CountsHold == AuthoritySpec => []CountsExplained
<1>1. LedgerInv(budget) => UnreservedCountsReservations
  BY DEF LedgerInv, UnreservedExplained, UnreservedCountsReservations
<1>2. LedgerInv(budget) => CountsExplained
  BY <1>1 DEF LedgerInv, TotalsExplained, CountsExplained, SettledIn, SettledOf
<1> QED BY <1>2, LedgerInvariant, PTL

(* Bounded overshoot is bounded: by the largest number of cost-bearing     *)
(* invocations that were in flight together, times what one can cost.      *)
THEOREM OvershootHolds == AuthoritySpec => []OvershootBounded
<1>1. LedgerInv(budget) /\ BudgetTyped => OvershootBounded
  <2> SUFFICES ASSUME LedgerInv(budget), BudgetTyped, BoundedOvershoot,
                      NEW s \in Scope, MaxProviderCost[s] # None, budget.cost[s] # 0
               PROVE  budget.cost[s] < MaxProviderCost[s] + budget.maxUnreserved * CostCeiling
    BY DEF OvershootBounded
  <2> DEFINE n == Cardinality(OutstandingOf(budget, s))
             ceiling == budget.maxUnreserved * CostCeiling
  <2>1. budget.cost[s] + n * CostCeiling < MaxProviderCost[s] + ceiling
    BY DEF LedgerInv, Headroom
  <2>2. Outstanding(budget) \in SUBSET Attempt
    BY DEF Outstanding
  <2>3. n * CostCeiling \in Nat /\ ceiling \in Nat
    <3>1. n \in Nat /\ budget.maxUnreserved \in Nat
      BY <2>2, WithinFinite DEF OutstandingOf, BudgetTyped, Budget
    <3> HIDE DEF n
    <3> QED BY <3>1, CeilingMonotone
  <2>4. budget.cost[s] \in Nat /\ MaxProviderCost[s] \in Nat
    BY LimitAssumption DEF BudgetTyped, Budget, OptionalNat
  <2> HIDE DEF n, ceiling
  <2>5. budget.cost[s] < MaxProviderCost[s] + ceiling
    BY <2>1, <2>3, <2>4
  <2> QED BY <2>5 DEF ceiling
<1> QED BY <1>1, LedgerInvariant, PTL

-------------------------------------------------------------------------------
(* The action properties.                                                  *)

(* What an operation may do to the facts the summary status is made of.    *)
Worsens(d, b) ==
  /\ b.failed => d.failed
  /\ b.unverifiable => d.unverifiable
  /\ \/ d.termination = b.termination
     \/ b.termination = None
     \/ d.termination.kind = "failed" /\ d.failed

(* Recording a reason to stop only worsens a budget, now or after a        *)
(* failure recorded in the same segment.                                   *)
LEMMA TerminationWorsens ==
  ASSUME NEW b \in Budget, NEW t \in Termination
  PROVE  /\ Worsens(AfterTermination(b, t), b)
         /\ \A d \in PerhapsFailed(b) : Worsens(d, b)
         /\ \A d \in PerhapsFailed(AfterTermination(b, t)) : Worsens(d, b)
<1>1. \A x \in Budget, u \in Termination : Worsens(AfterTermination(x, u), x)
  BY DEF Worsens, AfterTermination, Budget, Termination
<1>2. Failure \in Termination /\ Failure.kind = "failed"
  BY DEF Failure, Ended, Termination, TerminationKind, Resource, ScopeKind
<1>3. AfterTermination(b, t) \in Budget
  BY TerminationTyped
<1>4. \A x \in Budget : /\ AfterTermination(x, Failure).termination.kind = "failed"
                        /\ AfterTermination(x, Failure).failed
                        /\ AfterTermination(x, Failure).unverifiable = x.unverifiable
  BY <1>2 DEF AfterTermination, Budget
<1>5. Worsens(b, b)
  BY DEF Worsens
<1>6. Worsens(AfterTermination(AfterTermination(b, t), Failure), b)
  BY <1>1, <1>3, <1>4 DEF Worsens
<1> QED BY <1>1, <1>2, <1>5, <1>6 DEF PerhapsFailed

(* So does settling an invocation.                                         *)
LEMMA SettleWorsens ==
  ASSUME NEW b \in Budget, NEW a \in Attempt, NEW c \in Charge
  PROVE  \A d \in PerhapsFailed(AfterSettle(b, a, c)) : Worsens(d, b)
<1> DEFINE p == Posted(b, a, c)
<1>1. p \in Budget
  BY PostedTyped
<1>2. /\ b.failed => p.failed
      /\ b.unverifiable => p.unverifiable
      /\ p.termination = b.termination
  <2>1. WithoutReservation(b, a) \in Budget
    BY ReleaseTyped
  <2>2. /\ WithoutReservation(b, a).failed = b.failed
        /\ WithoutReservation(b, a).unverifiable = b.unverifiable
        /\ WithoutReservation(b, a).termination = b.termination
    BY DEF WithoutReservation, Budget
  <2>3. /\ p.failed = (WithoutReservation(b, a).failed \/ Rejected(a, c))
        /\ p.unverifiable = (WithoutReservation(b, a).unverifiable \/ Unaccounted(a, c))
        /\ p.termination = WithoutReservation(b, a).termination
    BY <2>1 DEF Posted, Budget
  <2> QED BY <2>2, <2>3
<1> HIDE DEF p
<1>3. AfterSettle(b, a, c) = p
      \/ \E t \in Termination : AfterSettle(b, a, c) = AfterTermination(p, t)
  BY SettlementErrorTyped DEF AfterSettle, p
<1>4. Failure \in Termination
  BY DEF Failure, Ended, Termination, TerminationKind, Resource, ScopeKind
<1>5. \A d \in PerhapsFailed(AfterSettle(b, a, c)) : Worsens(d, p)
  BY <1>1, <1>3, <1>4, TerminationWorsens
<1> QED BY <1>2, <1>5 DEF Worsens

(* A worse budget never has a better status.                               *)
LEMMA WorseStatus ==
  ASSUME NEW b, NEW d, Worsens(d, b)
  PROVE  Severity(SummaryStatus(d)) >= Severity(SummaryStatus(b))
BY DEF Worsens, SummaryStatus, Severity

(* Resuming from a snapshot keeps the status it was stored with.           *)
LEMMA HandoffStatus ==
  ASSUME NEW b \in Budget
  PROVE  SummaryStatus(AfterHandoff(b)) = SummaryStatus(b)
<1>1. /\ AfterHandoff(b).failed = (SummaryStatus(b) = "failed")
      /\ AfterHandoff(b).unverifiable = (SummaryStatus(b) = "unverifiable")
      /\ AfterHandoff(b).termination = b.termination
  BY DEF AfterHandoff, Budget
<1> HIDE DEF AfterHandoff
<1> QED BY <1>1 DEF SummaryStatus

(* Every step worsens the budget, except for a handoff or a batch of       *)
(* bookkeeping that leaves status and termination alone.                   *)
LEMMA StepWorsens ==
  ASSUME BudgetTyped, [AuthorityNext]_authority
  PROVE  \/ Worsens(budget', budget)
         \/ budget' = AfterHandoff(budget)
<1>0. budget \in Budget /\ {Cancellation, Failure, WallClockExhaustion} \subseteq Termination
  BY DEF BudgetTyped, Cancellation, Failure, WallClockExhaustion, Ended, Termination,
         TerminationKind, Resource, ScopeKind
<1>1. ASSUME NEW d \in Budget, d.failed = budget.failed,
             d.unverifiable = budget.unverifiable, d.termination = budget.termination
      PROVE  Worsens(d, budget)
  BY <1>1 DEF Worsens
<1>2. ASSUME NEW B \in SUBSET Attempt, Reserve(B) PROVE Worsens(budget', budget)
  BY <1>0, <1>1, <1>2, ReserveTyped DEF Reserve, AfterReserve, Budget
<1>3. ASSUME NEW B \in SUBSET Attempt, Refuse(B) PROVE Worsens(budget', budget)
  BY <1>0, <1>3, DenialsTyped, TerminationWorsens DEF Refuse
<1>4. ASSUME NEW a \in Attempt, Consume(a) PROVE Worsens(budget', budget)
  BY <1>0, <1>1, <1>4, ConsumeTyped DEF Consume, AfterConsume, Budget
<1>5. ASSUME NEW a \in Attempt, Release(a) PROVE Worsens(budget', budget)
  <2>1. AfterRelease(budget, a) \in Budget
    BY <1>0, ReleaseTyped
  <2>2. /\ AfterRelease(budget, a).failed = budget.failed
        /\ AfterRelease(budget, a).unverifiable = budget.unverifiable
        /\ AfterRelease(budget, a).termination = budget.termination
    BY <1>0 DEF AfterRelease, WithoutReservation, Budget
  <2>3. \A d \in PerhapsFailed(AfterRelease(budget, a)) : Worsens(d, AfterRelease(budget, a))
    BY <1>0, <2>1, TerminationWorsens
  <2> QED BY <1>5, <2>2, <2>3 DEF Release, Worsens
<1>6. ASSUME NEW a \in Attempt, Settle(a) PROVE Worsens(budget', budget)
  BY <1>0, <1>6, ChargeTyped, SettleWorsens DEF Settle
<1>7. CASE NoteStop
  BY <1>0, <1>7, TerminationWorsens DEF NoteStop
<1>8. CASE DeadlinePasses
  BY <1>8 DEF DeadlinePasses, Worsens
<1>9. CASE DeadlineNoted
  BY <1>0, <1>9, TerminationWorsens DEF DeadlineNoted
<1>10. CASE Handoff
  BY <1>10 DEF Handoff
<1>11. CASE UNCHANGED authority
  BY <1>11 DEF authority, Worsens
<1> QED BY <1>2, <1>3, <1>4, <1>5, <1>6, <1>7, <1>8, <1>9, <1>10, <1>11 DEF AuthorityNext

(* A Run never looks healthier than it did, across both stages and every   *)
(* handoff between them, and the first recorded reason to stop is replaced *)
(* by a failure only.                                                      *)
THEOREM EndingStandsHolds == AuthoritySpec => EndingStands
<1>1. ASSUME BudgetTyped, [AuthorityNext]_authority
      PROVE  Severity(SummaryStatus(budget')) >= Severity(SummaryStatus(budget))
  <2>1. CASE Worsens(budget', budget)
    BY <2>1, WorseStatus
  <2>2. CASE budget' = AfterHandoff(budget)
    <3>1. SummaryStatus(budget') = SummaryStatus(budget)
      BY <1>1, <2>2, HandoffStatus DEF BudgetTyped
    <3> QED BY <3>1 DEF Severity, SummaryStatus
  <2> QED BY <1>1, <2>1, <2>2, StepWorsens
<1>2. ASSUME BudgetTyped, [AuthorityNext]_authority, budget.termination # None,
             budget'.termination # budget.termination
      PROVE  budget'.termination.kind = "failed"
  <2>1. budget' # AfterHandoff(budget)
    BY <1>2 DEF AfterHandoff, BudgetTyped, Budget
  <2> QED BY <1>2, <2>1, StepWorsens DEF Worsens
<1>3. BudgetTyped /\ [AuthorityNext]_authority =>
        [/\ Severity(SummaryStatus(budget')) >= Severity(SummaryStatus(budget))
         /\ budget.termination # None /\ budget'.termination # budget.termination
              => budget'.termination.kind = "failed"]_authority
  BY <1>1, <1>2
<1> QED BY <1>3, BudgetTypeCorrect, PTL DEF AuthoritySpec, EndingStands

-------------------------------------------------------------------------------
(* What the stages rely on: the reason to stop they keep themselves and    *)
(* what the authority recorded of it.                                      *)

ReasonKept(kind, b) ==
  /\ kind = "none" => b.termination = None /\ b.failed = FALSE
  /\ kind = "cancelled" =>
       b.termination # None /\ b.termination.kind = "cancelled" /\ b.failed = FALSE
  /\ kind = "failed" => b.failed = TRUE
  /\ kind = "budget-exhausted" =>
       /\ b.termination # None /\ b.termination.kind \notin {"cancelled", "failed"}
       /\ b.failed = FALSE

(* Only the termination and the failure flag matter.                       *)
LEMMA SameReason ==
  ASSUME NEW kind, NEW b, NEW d, ReasonKept(kind, b),
         d.termination = b.termination, d.failed = b.failed
  PROVE  ReasonKept(kind, d)
BY DEF ReasonKept

(* Reserving, starting and returning an invocation give no reason to stop. *)
LEMMA BookkeepingReason ==
  ASSUME NEW b \in Budget
  PROVE  /\ \A B : /\ AfterReserve(b, B).termination = b.termination
                   /\ AfterReserve(b, B).failed = b.failed
         /\ \A a : /\ AfterConsume(b, a).termination = b.termination
                   /\ AfterConsume(b, a).failed = b.failed
                   /\ AfterRelease(b, a).termination = b.termination
                   /\ AfterRelease(b, a).failed = b.failed
BY DEF AfterReserve, AfterConsume, AfterRelease, WithoutReservation, Budget

(* What recording a termination does to the two.                           *)
LEMMA TerminationReason ==
  ASSUME NEW b \in Budget, NEW t \in Termination
  PROVE  /\ AfterTermination(b, t).termination
              = IF b.termination = None \/ t.kind = "failed" THEN t ELSE b.termination
         /\ t.kind = "failed" => AfterTermination(b, t).failed = TRUE
         /\ t.kind # "failed" => AfterTermination(b, t).failed = b.failed
<1>1. b.failed \in BOOLEAN
  BY DEF Budget
<1>2. AfterTermination(b, t).failed = (b.failed \/ t.kind = "failed")
  BY DEF AfterTermination, Budget
<1>3. /\ t.kind = "failed" => AfterTermination(b, t).failed = TRUE
      /\ t.kind # "failed" => AfterTermination(b, t).failed = b.failed
  BY <1>1, <1>2
<1> QED BY <1>3 DEF AfterTermination, Budget

(* A refusal repeats the reason that ended the Run, or gives a new one.    *)
LEMMA DenialReason ==
  ASSUME NEW b \in Budget, NEW B \in SUBSET Attempt, NEW e, NEW t \in Denials(b, B, e)
  PROVE  /\ t \in Termination
         /\ b.failed = FALSE /\ b.termination # None /\ b.termination.kind = "cancelled" =>
              t = b.termination
         /\ b.failed = FALSE /\ (b.termination = None \/ b.termination.kind # "cancelled") =>
              t.kind # "cancelled"
<1>1. t \in Termination
  BY DenialsTyped
<1>2. \A x, C, s : ScopeDenial(x, C, s) = None \/ ScopeDenial(x, C, s).kind # "cancelled"
  BY DEF ScopeDenial, Ended
<1>3. \A a : AttemptDenial(a) = None \/ AttemptDenial(a).kind # "cancelled"
  BY DEF AttemptDenial, Ended
<1>4. WallClockExhaustion.kind # "cancelled"
  BY DEF WallClockExhaustion, Ended
<1>5. ASSUME b.failed = FALSE, b.termination # None, b.termination.kind = "cancelled"
      PROVE  t = b.termination
  BY <1>5 DEF Denials
<1>6. ASSUME b.failed = FALSE, b.termination = None \/ b.termination.kind # "cancelled"
      PROVE  t.kind # "cancelled"
  BY <1>2, <1>3, <1>4, <1>6 DEF Denials
<1> QED BY <1>1, <1>5, <1>6

(* So a stage that records the refusal keeps a reason that matches.        *)
LEMMA RefusalReason ==
  ASSUME NEW b \in Budget, NEW B \in SUBSET Attempt, NEW e, NEW t \in Denials(b, B, e),
         NEW kind, ReasonKept(kind, b)
  PROVE  /\ t.kind = "failed" => AfterTermination(b, t).failed = TRUE
         /\ t.kind # "failed" =>
              /\ kind = "none" => ReasonKept("budget-exhausted", AfterTermination(b, t))
              /\ kind # "none" => ReasonKept(kind, AfterTermination(b, t))
<1> DEFINE d == AfterTermination(b, t)
<1>1. t \in Termination
  BY DenialReason
<1>2. t # None
  BY <1>1, LimitAssumption
<1>3. /\ d.termination = IF b.termination = None \/ t.kind = "failed" THEN t ELSE b.termination
      /\ t.kind = "failed" => d.failed = TRUE
      /\ t.kind # "failed" => d.failed = b.failed
  BY <1>1, TerminationReason
<1> HIDE DEF d
<1>4. kind = "none" /\ t.kind # "failed" => ReasonKept("budget-exhausted", d)
  <2>1. kind = "none" => t.kind # "cancelled"
    BY DenialReason DEF ReasonKept
  <2> QED BY <1>2, <1>3, <2>1 DEF ReasonKept
<1>5. kind # "none" /\ t.kind # "failed" => ReasonKept(kind, d)
  BY <1>3 DEF ReasonKept
<1> QED BY <1>3, <1>4, <1>5 DEF d

(* A settlement gives a reason to stop exactly when it returns an error.   *)
LEMMA SettleReason ==
  ASSUME NEW b \in Budget, NEW a \in Attempt, NEW c \in Charge, NEW kind, ReasonKept(kind, b)
  PROVE  /\ SettlementError(b, a, c) = None => ReasonKept(kind, AfterSettle(b, a, c))
         /\ SummaryStatus(AfterSettle(b, a, c)) = "failed" <=> AfterSettle(b, a, c).failed = TRUE
         /\ SettlementError(b, a, c) # None /\ SummaryStatus(AfterSettle(b, a, c)) # "failed" =>
              /\ kind = "none" => ReasonKept("budget-exhausted", AfterSettle(b, a, c))
              /\ kind # "none" => ReasonKept(kind, AfterSettle(b, a, c))
         /\ b.failed = TRUE => AfterSettle(b, a, c).failed = TRUE
<1> DEFINE p == Posted(b, a, c)
           error == SettlementError(b, a, c)
           d == AfterSettle(b, a, c)
<1>1. p \in Budget /\ d \in Budget
  BY PostedTyped, SettleTyped
<1>2. /\ p.termination = b.termination
      /\ p.failed = (b.failed \/ Rejected(a, c))
  <2>1. WithoutReservation(b, a) \in Budget
    BY ReleaseTyped
  <2>2. /\ WithoutReservation(b, a).failed = b.failed
        /\ WithoutReservation(b, a).termination = b.termination
    BY DEF WithoutReservation, Budget
  <2>3. /\ p.failed = (WithoutReservation(b, a).failed \/ Rejected(a, c))
        /\ p.termination = WithoutReservation(b, a).termination
    BY <2>1 DEF Posted, Budget
  <2> QED BY <2>2, <2>3
<1>3. b.failed \in BOOLEAN /\ d.failed \in BOOLEAN
  BY <1>1 DEF Budget
<1>4. /\ Rejected(a, c) => p.failed = TRUE
      /\ ~Rejected(a, c) => p.failed = b.failed
      /\ b.failed = TRUE => p.failed = TRUE
  BY <1>2, <1>3
<1>5. Failure # None
  BY LimitAssumption DEF Failure, Ended, Termination, TerminationKind, Resource, ScopeKind
<1>6. Rejected(a, c) => error # None /\ d = p
  BY <1>5 DEF SettlementError, AfterSettle
<1>7. error = None => d = p
  BY DEF AfterSettle
<1>8. ~Rejected(a, c) /\ error # None =>
        /\ error \in Termination /\ error.kind = "active-budget-exhausted"
        /\ d = AfterTermination(p, error)
  <2>1. error \in Termination \cup {None}
    BY SettlementErrorTyped
  <2>2. ~Rejected(a, c) => error = None \/ error.kind = "active-budget-exhausted"
    BY DEF SettlementError, ExhaustionAfter, ScopeExhaustion, Ended
  <2> QED BY <2>1, <2>2 DEF AfterSettle
<1>9. SummaryStatus(d) = "failed" <=> d.failed = TRUE
  BY <1>3 DEF SummaryStatus
<1> HIDE DEF p, error, d
<1>10. ~Rejected(a, c) /\ error # None =>
         /\ d.termination = IF p.termination = None THEN error ELSE p.termination
         /\ d.failed = p.failed
  BY <1>1, <1>8, TerminationReason
<1>11. error = None => ReasonKept(kind, d)
  BY <1>2, <1>4, <1>6, <1>7 DEF ReasonKept
<1>12. b.failed = TRUE => d.failed = TRUE
  BY <1>4, <1>6, <1>7, <1>10
<1>13. ASSUME error # None, SummaryStatus(d) # "failed"
       PROVE  /\ kind = "none" => ReasonKept("budget-exhausted", d)
              /\ kind # "none" => ReasonKept(kind, d)
  <2>1. d.failed # TRUE
    BY <1>9, <1>13
  <2>2. ~Rejected(a, c)
    BY <1>4, <1>6, <2>1
  <2>3. /\ d.termination = IF b.termination = None THEN error ELSE b.termination
        /\ d.failed = b.failed /\ error # None /\ error.kind = "active-budget-exhausted"
    BY <1>2, <1>4, <1>8, <1>10, <1>13, <2>2
  <2> QED BY <2>3 DEF ReasonKept
<1> QED BY <1>9, <1>11, <1>12, <1>13 DEF d, error

-------------------------------------------------------------------------------
(* What each operation does to the reservations and the entries.           *)

(* A reason to stop touches neither.                                       *)
LEMMA TerminationPositions ==
  ASSUME NEW b \in Budget, NEW t
  PROVE  /\ AfterTermination(b, t).reservations = b.reservations
         /\ AfterTermination(b, t).entries = b.entries
BY DEF AfterTermination, Budget

(* A batch is reserved whole.                                              *)
LEMMA ReservePositions ==
  ASSUME NEW b \in Budget, NEW B
  PROVE  /\ AfterReserve(b, B).reservations
              = [a \in Attempt |-> IF a \in B THEN "reserved" ELSE b.reservations[a]]
         /\ AfterReserve(b, B).entries = b.entries
BY DEF AfterReserve, Budget

(* A start and a return move one reservation, if there is one to move.     *)
LEMMA ReturnPositions ==
  ASSUME NEW b \in Budget, NEW a
  PROVE  /\ AfterConsume(b, a).reservations = [b.reservations EXCEPT ![a] = "consumed"]
         /\ AfterConsume(b, a).entries = b.entries
         /\ WithoutReservation(b, a).reservations = [b.reservations EXCEPT ![a] = "none"]
         /\ WithoutReservation(b, a).entries = b.entries
         /\ AfterRelease(b, a).entries = b.entries
         /\ a \in Attempt =>
              AfterRelease(b, a).reservations = [b.reservations EXCEPT ![a] = "none"]
<1>1. /\ AfterConsume(b, a).reservations = [b.reservations EXCEPT ![a] = "consumed"]
      /\ AfterConsume(b, a).entries = b.entries
  BY DEF AfterConsume, Budget
<1>2. /\ WithoutReservation(b, a).reservations = [b.reservations EXCEPT ![a] = "none"]
      /\ WithoutReservation(b, a).entries = b.entries
  BY DEF WithoutReservation, Budget
<1>3. b.reservations \in [Attempt -> {"none", "reserved", "consumed"}]
  BY DEF Budget
<1>4. a \in Attempt /\ b.reservations[a] = "none" =>
        b.reservations = [b.reservations EXCEPT ![a] = "none"]
  BY <1>3
<1>5. CASE b.reservations[a] = "none"
  BY <1>1, <1>2, <1>4, <1>5 DEF AfterRelease
<1>6. CASE b.reservations[a] # "none"
  <2>1. AfterRelease(b, a) = WithoutReservation(b, a)
    BY <1>6 DEF AfterRelease
  <2> QED BY <1>1, <1>2, <2>1
<1> QED BY <1>5, <1>6

(* A settlement turns one reservation into one entry.                      *)
LEMMA SettlePositions ==
  ASSUME NEW b \in Budget, NEW a \in Attempt, NEW c \in Charge
  PROVE  /\ AfterSettle(b, a, c).reservations = [b.reservations EXCEPT ![a] = "none"]
         /\ AfterSettle(b, a, c).entries = [b.entries EXCEPT ![a] = c]
<1>1. WithoutReservation(b, a) \in Budget /\ Posted(b, a, c) \in Budget
  BY ReleaseTyped, PostedTyped
<1>2. /\ Posted(b, a, c).reservations = WithoutReservation(b, a).reservations
      /\ Posted(b, a, c).entries = [WithoutReservation(b, a).entries EXCEPT ![a] = c]
  BY <1>1 DEF Posted, Budget
<1>3. /\ AfterSettle(b, a, c).reservations = Posted(b, a, c).reservations
      /\ AfterSettle(b, a, c).entries = Posted(b, a, c).entries
  BY <1>1, TerminationPositions DEF AfterSettle
<1> QED BY <1>2, <1>3, ReturnPositions

(* A snapshot that is handed on holds no reservation, so none is lost.     *)
LEMMA HandoffPositions ==
  ASSUME NEW b \in Budget, Outstanding(b) = {}
  PROVE  /\ AfterHandoff(b).reservations = b.reservations
         /\ AfterHandoff(b).entries = b.entries
<1>1. /\ AfterHandoff(b).reservations = [a \in Attempt |-> "none"]
      /\ AfterHandoff(b).entries = b.entries
  BY DEF AfterHandoff, Budget
<1>2. b.reservations = [a \in Attempt |-> "none"]
  BY DEF Outstanding, Budget
<1> QED BY <1>1, <1>2

-------------------------------------------------------------------------------
(* Sums.  What is spent and what is held in a scope are sums over sets of  *)
(* attempts, folds of the community modules; what the proofs need of them  *)
(* follows by taking a smallest subset for which it would fail.            *)

(* The sum of w over S is a fold, that is a recursive function of the      *)
(* subsets of S.                                                           *)
SumOver(w, S) == Sums!MapThenSumSet(LAMBDA a : w[a], S)
Peeled(S) == CHOOSE x \in S : TRUE
IsFold(g, w, S) ==
  g = [T \in SUBSET S |-> IF T = {} THEN 0 ELSE w[Peeled(T)] + g[T \ {Peeled(T)}]]

(* It is the fold the community module chooses.                            *)
LEMMA FoldFact ==
  ASSUME NEW w, NEW S
  PROVE  SumOver(w, S) = (CHOOSE g : IsFold(g, w, S))[S]
BY DEF SumOver, IsFold, Peeled, Sums!MapThenSumSet, Sums!MapThenFoldSet

(* Induction on subsets: a set of them has a smallest one.                 *)
LEMMA SmallestSubset ==
  ASSUME NEW S, IsFiniteSet(S), NEW Q, Q \subseteq SUBSET S, Q # {}
  PROVE  \E U \in Q : \A V \in Q : ~(V \subseteq U /\ V # U)
<1>1. IsWellFoundedOn(StrictSubsetOrdering(S), SUBSET S)
  BY FS_StrictSubsetOrderingWellFounded, FS_FiniteSubsetsOfFinite
<1>2. PICK U \in Q : \A V \in Q : ~(<<V, U>> \in StrictSubsetOrdering(S))
  BY <1>1, WFMin
<1> QED BY <1>2 DEF StrictSubsetOrdering

(* The element the fold takes first is one, and leaves fewer.              *)
LEMMA PeeledIn ==
  ASSUME NEW S, S # {}
  PROVE  Peeled(S) \in S /\ S \ {Peeled(S)} \subseteq S /\ S \ {Peeled(S)} # S
BY DEF Peeled

(* There is one such function, and subsets have the same one.              *)
LEMMA FoldUnique ==
  ASSUME NEW w, NEW S, IsFiniteSet(S), NEW T \in SUBSET S, NEW g, NEW h,
         IsFold(g, w, S), IsFold(h, w, T)
  PROVE  \A U \in SUBSET T : g[U] = h[U]
<1> DEFINE Q == {U \in SUBSET T : g[U] # h[U]}
<1>1. SUFFICES ASSUME Q # {} PROVE FALSE
  OBVIOUS
<1>2. IsFiniteSet(T)
  BY FS_Subset
<1>3. PICK U \in Q : \A V \in Q : ~(V \subseteq U /\ V # U)
  <2>1. Q \subseteq SUBSET T
    OBVIOUS
  <2> HIDE DEF Q
  <2> QED BY <1>1, <1>2, <2>1, SmallestSubset
<1>4. U # {}
  BY <1>3 DEF IsFold
<1>5. g[U \ {Peeled(U)}] = h[U \ {Peeled(U)}]
  BY <1>3, <1>4, PeeledIn
<1>6. /\ g[U] = w[Peeled(U)] + g[U \ {Peeled(U)}]
      /\ h[U] = w[Peeled(U)] + h[U \ {Peeled(U)}]
  BY <1>3, <1>4 DEF IsFold
<1> QED BY <1>3, <1>5, <1>6

(* There is one for every finite set.                                      *)
LEMMA FoldExists ==
  ASSUME NEW w, NEW S, IsFiniteSet(S)
  PROVE  \E g : IsFold(g, w, S)
<1> DEFINE Q == {U \in SUBSET S : ~\E g : IsFold(g, w, U)}
           fold(V) == CHOOSE g : IsFold(g, w, V)
           value(V) == IF V = {} THEN 0 ELSE w[Peeled(V)] + fold(V \ {Peeled(V)})[V \ {Peeled(V)}]
<1>1. SUFFICES ASSUME Q # {} PROVE FALSE
  OBVIOUS
<1>2. PICK U \in Q : \A V \in Q : ~(V \subseteq U /\ V # U)
  <2>1. Q \subseteq SUBSET S
    OBVIOUS
  <2> HIDE DEF Q
  <2> QED BY <1>1, <2>1, SmallestSubset
<1>3. \A V \in SUBSET U : V # U => IsFold(fold(V), w, V)
  BY <1>2
<1> DEFINE g == [V \in SUBSET U |-> value(V)]
<1> HIDE DEF fold, value
<1>4. ASSUME NEW V \in SUBSET U, V # U
      PROVE  g[V] = fold(V)[V]
  <2>0. IsFold(fold(V), w, V) /\ g[V] = value(V)
    BY <1>3, <1>4
  <2>1. CASE V = {}
    BY <2>0, <2>1 DEF IsFold, value
  <2>2. CASE V # {}
    <3>1. V \ {Peeled(V)} \in SUBSET U /\ V \ {Peeled(V)} # U /\ V \ {Peeled(V)} \in SUBSET V
      BY <1>4, <2>2, PeeledIn
    <3>2. IsFold(fold(V \ {Peeled(V)}), w, V \ {Peeled(V)})
      BY <1>3, <3>1
    <3>3. IsFiniteSet(V)
      BY <1>2, FS_Subset
    <3>4. fold(V)[V \ {Peeled(V)}] = fold(V \ {Peeled(V)})[V \ {Peeled(V)}]
      <4>1. \A X \in SUBSET (V \ {Peeled(V)}) : fold(V)[X] = fold(V \ {Peeled(V)})[X]
        BY <2>0, <3>1, <3>2, <3>3, FoldUnique
      <4> QED BY <4>1
    <3>5. fold(V)[V] = w[Peeled(V)] + fold(V)[V \ {Peeled(V)}]
      BY <2>0, <2>2 DEF IsFold
    <3> QED BY <2>0, <2>2, <3>4, <3>5 DEF value
  <2> QED BY <2>1, <2>2
<1>5. ASSUME NEW V \in SUBSET U, V # {}
      PROVE  g[V] = w[Peeled(V)] + g[V \ {Peeled(V)}]
  <2>1. V \ {Peeled(V)} \in SUBSET U /\ V \ {Peeled(V)} # U
    BY <1>5, PeeledIn
  <2>2. g[V \ {Peeled(V)}] = fold(V \ {Peeled(V)})[V \ {Peeled(V)}]
    BY <1>4, <2>1
  <2>3. g[V] = value(V)
    OBVIOUS
  <2> QED BY <1>5, <2>2, <2>3 DEF value
<1>6. {} \in SUBSET U => g[{}] = 0
  BY DEF value
<1>7. g = [V \in SUBSET U |-> g[V]]
  OBVIOUS
<1> HIDE DEF g
<1>8. IsFold(g, w, U)
  BY <1>5, <1>6, <1>7 DEF IsFold
<1> QED BY <1>2, <1>8

(* The sum of any subset is what the fold of the whole says of it.         *)
LEMMA SumIsFold ==
  ASSUME NEW w, NEW S, IsFiniteSet(S), NEW T \in SUBSET S, NEW g, IsFold(g, w, S)
  PROVE  SumOver(w, T) = g[T]
<1> DEFINE h == CHOOSE f : IsFold(f, w, T)
<1>1. IsFiniteSet(T)
  BY FS_Subset
<1>2. IsFold(h, w, T)
  BY <1>1, FoldExists
<1>3. SumOver(w, T) = h[T]
  BY FoldFact
<1> HIDE DEF h
<1> QED BY <1>2, <1>3, FoldUnique

(* Nothing sums to zero.                                                   *)
LEMMA SumEmpty ==
  ASSUME NEW w
  PROVE  SumOver(w, {}) = 0
<1>1. PICK g : IsFold(g, w, {})
  BY FS_EmptySet, FoldExists
<1>2. SumOver(w, {}) = g[{}]
  BY <1>1, FS_EmptySet, SumIsFold
<1> QED BY <1>1, <1>2 DEF IsFold

(* The fold peels off the element it takes first.                          *)
LEMMA SumPeeled ==
  ASSUME NEW w, NEW S, IsFiniteSet(S), S # {}
  PROVE  SumOver(w, S) = w[Peeled(S)] + SumOver(w, S \ {Peeled(S)})
<1>1. PICK g : IsFold(g, w, S)
  BY FoldExists
<1>2. SumOver(w, S) = g[S] /\ SumOver(w, S \ {Peeled(S)}) = g[S \ {Peeled(S)}]
  BY <1>1, SumIsFold, PeeledIn
<1> QED BY <1>1, <1>2 DEF IsFold

(* A sum of natural numbers is one.                                        *)
LEMMA SumNat ==
  ASSUME NEW w, NEW S, IsFiniteSet(S), \A a \in S : w[a] \in Nat
  PROVE  SumOver(w, S) \in Nat
<1> DEFINE Q == {U \in SUBSET S : SumOver(w, U) \notin Nat}
<1>1. SUFFICES ASSUME Q # {} PROVE FALSE
  OBVIOUS
<1>2. PICK U \in Q : \A V \in Q : ~(V \subseteq U /\ V # U)
  <2>1. Q \subseteq SUBSET S
    OBVIOUS
  <2> HIDE DEF Q
  <2> QED BY <1>1, <2>1, SmallestSubset
<1>3. U # {} /\ IsFiniteSet(U) /\ U \subseteq S
  <2>1. SumOver(w, {}) \in Nat
    BY SumEmpty
  <2>2. U # {}
    BY <1>2, <2>1
  <2> QED BY <1>2, <2>2, FS_Subset
<1>4. SumOver(w, U \ {Peeled(U)}) \in Nat
  BY <1>2, <1>3, PeeledIn
<1>5. w[Peeled(U)] \in Nat
  BY <1>3, PeeledIn
<1>6. SumOver(w, U) = w[Peeled(U)] + SumOver(w, U \ {Peeled(U)})
  BY <1>3, SumPeeled
<1> QED BY <1>2, <1>4, <1>5, <1>6

(* A sum depends on the values at its elements only.                       *)
LEMMA SumSame ==
  ASSUME NEW w, NEW v, NEW S, IsFiniteSet(S), \A a \in S : w[a] = v[a]
  PROVE  SumOver(w, S) = SumOver(v, S)
<1> DEFINE Q == {U \in SUBSET S : SumOver(w, U) # SumOver(v, U)}
<1>1. SUFFICES ASSUME Q # {} PROVE FALSE
  OBVIOUS
<1>2. PICK U \in Q : \A V \in Q : ~(V \subseteq U /\ V # U)
  <2>1. Q \subseteq SUBSET S
    OBVIOUS
  <2> HIDE DEF Q
  <2> QED BY <1>1, <2>1, SmallestSubset
<1>3. U # {} /\ IsFiniteSet(U) /\ U \subseteq S
  BY <1>2, SumEmpty, FS_Subset
<1>4. SumOver(w, U \ {Peeled(U)}) = SumOver(v, U \ {Peeled(U)})
  BY <1>2, <1>3, PeeledIn
<1>5. w[Peeled(U)] = v[Peeled(U)]
  BY <1>3, PeeledIn
<1>6. /\ SumOver(w, U) = w[Peeled(U)] + SumOver(w, U \ {Peeled(U)})
      /\ SumOver(v, U) = v[Peeled(U)] + SumOver(v, U \ {Peeled(U)})
  BY <1>3, SumPeeled
<1> QED BY <1>2, <1>4, <1>5, <1>6

(* Any element may be peeled off first.                                    *)
LEMMA SumRemove ==
  ASSUME NEW w, NEW S, IsFiniteSet(S), \A a \in S : w[a] \in Nat, NEW x \in S
  PROVE  SumOver(w, S) = w[x] + SumOver(w, S \ {x})
<1> DEFINE Q == {U \in SUBSET S : \E y \in U : SumOver(w, U) # w[y] + SumOver(w, U \ {y})}
<1>1. SUFFICES ASSUME Q # {} PROVE FALSE
  OBVIOUS
<1>2. PICK U \in Q : \A V \in Q : ~(V \subseteq U /\ V # U)
  <2>1. Q \subseteq SUBSET S
    OBVIOUS
  <2> HIDE DEF Q
  <2> QED BY <1>1, <2>1, SmallestSubset
<1>3. PICK y \in U : SumOver(w, U) # w[y] + SumOver(w, U \ {y})
  BY <1>2
<1> DEFINE z == Peeled(U)
           R == (U \ {y}) \ {z}
<1>4. IsFiniteSet(U) /\ U \subseteq S /\ z \in U
  BY <1>2, <1>3, PeeledIn, FS_Subset
<1>5. SumOver(w, U) = w[z] + SumOver(w, U \ {z})
  BY <1>3, <1>4, SumPeeled
<1>6. z # y
  BY <1>3, <1>5
<1>7. \A V \in SUBSET U : V # U => V \notin Q
  BY <1>2
<1>8. SumOver(w, U \ {z}) = w[y] + SumOver(w, (U \ {z}) \ {y})
  BY <1>3, <1>4, <1>6, <1>7
<1>9. SumOver(w, U \ {y}) = w[z] + SumOver(w, (U \ {y}) \ {z})
  BY <1>3, <1>4, <1>6, <1>7
<1>10. (U \ {z}) \ {y} = R
  OBVIOUS
<1>11. w[y] \in Nat /\ w[z] \in Nat /\ SumOver(w, R) \in Nat
  <2>1. R \subseteq S
    BY <1>4
  <2>2. IsFiniteSet(R)
    BY <2>1, FS_Subset
  <2> QED BY <1>3, <1>4, <2>1, <2>2, SumNat
<1> HIDE DEF z, R, Q
<1>12. SumOver(w, U) = w[z] + (w[y] + SumOver(w, R)) /\ SumOver(w, U \ {y}) = w[z] + SumOver(w, R)
  BY <1>5, <1>8, <1>9, <1>10 DEF R
<1> QED BY <1>3, <1>11, <1>12

(* The sum of a disjoint union.                                            *)
LEMMA SumUnion ==
  ASSUME NEW w, NEW A, NEW B, IsFiniteSet(A), IsFiniteSet(B), A \cap B = {},
         \A a \in A \cup B : w[a] \in Nat
  PROVE  SumOver(w, A \cup B) = SumOver(w, A) + SumOver(w, B)
<1> DEFINE Q == {U \in SUBSET A : SumOver(w, U \cup B) # SumOver(w, U) + SumOver(w, B)}
<1>1. SUFFICES ASSUME Q # {} PROVE FALSE
  OBVIOUS
<1>2. PICK U \in Q : \A V \in Q : ~(V \subseteq U /\ V # U)
  <2>1. Q \subseteq SUBSET A
    OBVIOUS
  <2> HIDE DEF Q
  <2> QED BY <1>1, <2>1, SmallestSubset
<1>3. SumOver(w, B) \in Nat /\ IsFiniteSet(U) /\ IsFiniteSet(U \cup B) /\ U \subseteq A
  BY <1>2, SumNat, FS_Subset, FS_Union
<1>4. U # {}
  <2>1. {} \cup B = B /\ SumOver(w, {}) = 0 /\ 0 + SumOver(w, B) = SumOver(w, B)
    BY <1>3, SumEmpty
  <2>2. {} \notin Q
    BY <2>1
  <2> QED BY <1>2, <2>2
<1> DEFINE x == Peeled(U)
<1>5. x \in U
  BY <1>4, PeeledIn
<1>6. SumOver(w, U) = w[x] + SumOver(w, U \ {x})
  BY <1>3, <1>4, SumPeeled
<1>7. SumOver(w, U \cup B) = w[x] + SumOver(w, (U \cup B) \ {x})
  BY <1>3, <1>5, SumRemove
<1>8. (U \cup B) \ {x} = (U \ {x}) \cup B
  BY <1>3, <1>5
<1>9. SumOver(w, (U \ {x}) \cup B) = SumOver(w, U \ {x}) + SumOver(w, B)
  BY <1>2, <1>3, <1>5
<1>10. w[x] \in Nat /\ SumOver(w, U \ {x}) \in Nat
  <2>1. U \ {x} \subseteq A
    BY <1>3
  <2>2. IsFiniteSet(U \ {x})
    BY <2>1, FS_Subset
  <2> QED BY <1>3, <1>5, <2>1, <2>2, SumNat
<1> HIDE DEF x
<1>11. SumOver(w, U \cup B) # SumOver(w, U) + SumOver(w, B)
  BY <1>2
<1>12. PICK m \in Nat, n \in Nat, k \in Nat :
         m = w[x] /\ n = SumOver(w, U \ {x}) /\ k = SumOver(w, B)
  BY <1>3, <1>10
<1>13. SumOver(w, U \cup B) = m + (n + k) /\ SumOver(w, U) = m + n
  BY <1>6, <1>7, <1>8, <1>9, <1>12
<1>14. m + (n + k) = (m + n) + k
  OBVIOUS
<1> QED BY <1>11, <1>12, <1>13, <1>14

(* One element more.                                                       *)
LEMMA SumAdd ==
  ASSUME NEW w, NEW S, IsFiniteSet(S), NEW x, x \notin S, \A a \in S \cup {x} : w[a] \in Nat
  PROVE  SumOver(w, S \cup {x}) = SumOver(w, S) + w[x]
<1>1. IsFiniteSet(S \cup {x})
  BY FS_AddElement
<1>2. SumOver(w, S \cup {x}) = w[x] + SumOver(w, (S \cup {x}) \ {x})
  BY <1>1, SumRemove
<1>3. (S \cup {x}) \ {x} = S
  OBVIOUS
<1>4. SumOver(w, S) \in Nat /\ w[x] \in Nat
  BY SumNat
<1> QED BY <1>2, <1>3, <1>4

(* A part never costs more than the whole.                                 *)
LEMMA SumMonotone ==
  ASSUME NEW w, NEW S, IsFiniteSet(S), \A a \in S : w[a] \in Nat, NEW T \in SUBSET S
  PROVE  SumOver(w, T) <= SumOver(w, S)
<1>1. IsFiniteSet(T) /\ IsFiniteSet(S \ T) /\ S = T \cup (S \ T)
  BY FS_Subset
<1>2. SumOver(w, T \cup (S \ T)) = SumOver(w, T) + SumOver(w, S \ T)
  BY <1>1, SumUnion
<1>3. SumOver(w, T) \in Nat /\ SumOver(w, S \ T) \in Nat
  BY <1>1, SumNat
<1>4. PICK m \in Nat, n \in Nat : m = SumOver(w, T) /\ n = SumOver(w, S \ T)
  BY <1>3
<1>5. SumOver(w, S) = m + n
  BY <1>1, <1>2, <1>4
<1> QED BY <1>4, <1>5

Amounts(b) == [a \in Attempt |-> b.entries[a].amount]

(* The sum of charges of MoneyExplained is a sum over their amounts.       *)
LEMMA AmountsSum ==
  ASSUME NEW b, NEW S, IsFiniteSet(S), S \subseteq Attempt
  PROVE  Sums!MapThenSumSet(LAMBDA a : b.entries[a].amount, S) = SumOver(Amounts(b), S)
<1> DEFINE Rec(g) == g = [T \in SUBSET S |-> IF T = {} THEN 0
                                    ELSE b.entries[Peeled(T)].amount + g[T \ {Peeled(T)}]]
<1>1. Sums!MapThenSumSet(LAMBDA a : b.entries[a].amount, S) = (CHOOSE g : Rec(g))[S]
  BY DEF Peeled, Sums!MapThenSumSet, Sums!MapThenFoldSet
<1>2. ASSUME NEW T \in SUBSET S, T # {}
      PROVE  Amounts(b)[Peeled(T)] = b.entries[Peeled(T)].amount
  BY <1>2, PeeledIn DEF Amounts
<1>3. \A g : Rec(g) <=> IsFold(g, Amounts(b), S)
  BY <1>2 DEF IsFold
<1> HIDE DEF Rec
<1>4. \E g : Rec(g)
  BY <1>3, FoldExists
<1>5. IsFold(CHOOSE g : Rec(g), Amounts(b), S)
  BY <1>3, <1>4
<1>6. SumOver(Amounts(b), S) = (CHOOSE g : Rec(g))[S]
  BY <1>5, SumIsFold
<1> QED BY <1>1, <1>6

-------------------------------------------------------------------------------
(* Money: what the entries explain and what strict reservation promises.   *)

ReportedOf(b, s) == {a \in SettledOf(b, s) : b.entries[a].report = "reported"}

CostExplained(b) ==
  \A s \in Scope : b.cost[s] = SumOver(Amounts(b), ReportedOf(b, s))

(* What makes the strict limit inductive: until the Run fails, everything  *)
(* in flight has a bound, and paying every bound would still fit.          *)
StrictRoom(b) ==
  StrictReservation /\ b.failed = FALSE =>
    \A s \in Scope : MaxProviderCost[s] # None =>
      /\ \A a \in OutstandingOf(b, s) : UpperBound[a] # None
      /\ b.cost[s] + SumOver(UpperBound, OutstandingOf(b, s)) <= MaxProviderCost[s]

CostInv(b) == b \in Budget /\ CostExplained(b) /\ StrictRoom(b)

(* It depends on the ledger and on whether the Run has failed.             *)
LEMMA SameCostInv ==
  ASSUME NEW b, NEW d \in Budget, CostInv(b), SameLedger(d, b), b.failed => d.failed
  PROVE  CostInv(d)
<1>1. Outstanding(d) = Outstanding(b) /\ Settled(d) = Settled(b) /\ Amounts(d) = Amounts(b)
  BY DEF SameLedger, Settled, Amounts
<1>2. \A s : /\ OutstandingOf(d, s) = OutstandingOf(b, s)
             /\ SettledOf(d, s) = SettledOf(b, s)
             /\ ReportedOf(d, s) = ReportedOf(b, s)
  BY <1>1 DEF OutstandingOf, SettledOf, ReportedOf, SameLedger
<1>3. CostExplained(d)
  BY <1>1, <1>2 DEF CostInv, SameLedger, CostExplained
<1>4. d.failed = FALSE => b.failed = FALSE
  BY DEF CostInv, Budget
<1>5. StrictRoom(d)
  BY <1>2, <1>4 DEF CostInv, SameLedger, StrictRoom
<1> QED BY <1>3, <1>5 DEF CostInv

(* Attempts with a bound hold a natural number of it together.             *)
LEMMA BoundsNat ==
  ASSUME NEW B \in SUBSET Attempt, \A a \in B : UpperBound[a] # None
  PROVE  /\ IsFiniteSet(B)
         /\ \A a \in B : UpperBound[a] \in Nat
         /\ SumOver(UpperBound, B) \in Nat
<1>1. IsFiniteSet(B)
  BY AttemptAssumption, FS_Subset
<1>2. \A a \in B : UpperBound[a] \in Nat
  BY AttemptAssumption DEF OptionalNat
<1> QED BY <1>1, <1>2, SumNat

(* Admitting a batch of fresh attempts preserves it.                       *)
LEMMA ReserveCost ==
  ASSUME NEW b, CostInv(b), NEW B \in SUBSET Attempt, B # {}, NEW e, Admissible(b, B, e)
  PROVE  CostInv(AfterReserve(b, B))
<1> DEFINE d == AfterReserve(b, B)
<1>0. b \in Budget /\ d \in Budget
  BY ReserveTyped DEF CostInv
<1>1. /\ d.entries = b.entries /\ d.cost = b.cost /\ d.failed = b.failed
      /\ d.reservations = [a \in Attempt |-> IF a \in B THEN "reserved" ELSE b.reservations[a]]
  BY <1>0 DEF AfterReserve, Budget
<1> HIDE DEF d
<1>2. Outstanding(d) = Outstanding(b) \cup B /\ Settled(d) = Settled(b)
  BY <1>1 DEF Outstanding, Settled
<1>3. CostExplained(d)
  BY <1>1, <1>2 DEF CostInv, CostExplained, ReportedOf, SettledOf, Amounts
<1>4. ASSUME StrictReservation, b.failed = FALSE, NEW s \in Scope, MaxProviderCost[s] # None
      PROVE  /\ \A a \in OutstandingOf(d, s) : UpperBound[a] # None
             /\ b.cost[s] + SumOver(UpperBound, OutstandingOf(d, s)) <= MaxProviderCost[s]
  <2>1. CASE s \in CheckedScopes(B)
    <3>1. ~BoundMissing(b, B, s) /\ ~ReservedCostExceeded(b, B, s)
      BY <1>0, <1>4, <2>1, AdmissibleChecks
    <3>2. OutstandingOf(d, s) = Projected(b, B, s)
      BY <1>2 DEF OutstandingOf, Projected
    <3>3. \A a \in OutstandingOf(d, s) : UpperBound[a] # None
      BY <1>4, <3>1, <3>2 DEF BoundMissing
    <3>4. OutstandingOf(d, s) \in SUBSET Attempt
      BY DEF OutstandingOf, Within, Outstanding
    <3>5. ~(b.cost[s] + SumOver(UpperBound, OutstandingOf(d, s)) > MaxProviderCost[s])
      BY <1>4, <3>1, <3>2 DEF ReservedCostExceeded, TotalBound, SumOver
    <3>6. SumOver(UpperBound, OutstandingOf(d, s)) \in Nat
      BY <3>3, <3>4, BoundsNat
    <3>7. b.cost[s] \in Nat /\ MaxProviderCost[s] \in Nat
      BY <1>0, <1>4, LimitAssumption DEF Budget, OptionalNat
    <3> QED BY <3>3, <3>5, <3>6, <3>7
  <2>2. CASE s \notin CheckedScopes(B)
    <3>1. Within(B, s) = {}
      BY <2>2, AttemptAssumption DEF CheckedScopes, Within, Charges
    <3>2. OutstandingOf(d, s) = OutstandingOf(b, s)
      BY <1>2, <3>1 DEF OutstandingOf, Within
    <3> QED BY <1>4, <3>2 DEF CostInv, StrictRoom
  <2> QED BY <2>1, <2>2
<1>5. StrictRoom(d)
  BY <1>1, <1>4 DEF StrictRoom
<1> QED BY <1>0, <1>3, <1>5 DEF CostInv, d

(* Giving one reservation back frees its bound in the scopes it is held.   *)
LEMMA FreedBound ==
  ASSUME NEW b, CostInv(b), StrictReservation, b.failed = FALSE,
         NEW s \in Scope, MaxProviderCost[s] # None, NEW a \in Outstanding(b), NEW d,
         Outstanding(d) = Outstanding(b) \ {a}
  PROVE  /\ \A x \in OutstandingOf(d, s) : UpperBound[x] # None
         /\ \E n \in Nat :
              /\ n = SumOver(UpperBound, OutstandingOf(d, s))
              /\ Charges(a, s) => /\ UpperBound[a] \in Nat
                                 /\ b.cost[s] + UpperBound[a] + n <= MaxProviderCost[s]
              /\ ~Charges(a, s) => b.cost[s] + n <= MaxProviderCost[s]
<1>1. /\ \A x \in OutstandingOf(b, s) : UpperBound[x] # None
      /\ b.cost[s] + SumOver(UpperBound, OutstandingOf(b, s)) <= MaxProviderCost[s]
  BY DEF CostInv, StrictRoom
<1>2. OutstandingOf(d, s) = OutstandingOf(b, s) \ {a}
  BY DEF OutstandingOf, Within
<1>3. OutstandingOf(b, s) \in SUBSET Attempt /\ OutstandingOf(d, s) \in SUBSET Attempt
  BY <1>2 DEF OutstandingOf, Within, Outstanding
<1>4. /\ IsFiniteSet(OutstandingOf(b, s))
      /\ \A x \in OutstandingOf(b, s) : UpperBound[x] \in Nat
      /\ SumOver(UpperBound, OutstandingOf(d, s)) \in Nat
  BY <1>1, <1>2, <1>3, BoundsNat
<1>5. PICK n \in Nat : n = SumOver(UpperBound, OutstandingOf(d, s))
  BY <1>4
<1>6. b.cost[s] \in Nat /\ MaxProviderCost[s] \in Nat
  BY LimitAssumption DEF CostInv, Budget, OptionalNat
<1>7. CASE Charges(a, s)
  <2>1. a \in OutstandingOf(b, s)
    BY <1>7 DEF OutstandingOf, Within
  <2>2. SumOver(UpperBound, OutstandingOf(b, s)) = UpperBound[a] + n
    BY <1>2, <1>4, <1>5, <2>1, SumRemove
  <2>3. UpperBound[a] \in Nat
    BY <1>4, <2>1
  <2>4. b.cost[s] + UpperBound[a] + n <= MaxProviderCost[s]
    BY <1>1, <1>6, <2>2, <2>3
  <2> QED BY <1>1, <1>2, <1>5, <1>7, <2>3, <2>4
<1>8. CASE ~Charges(a, s)
  <2>1. OutstandingOf(d, s) = OutstandingOf(b, s)
    BY <1>2, <1>8 DEF OutstandingOf, Within
  <2> QED BY <1>1, <1>5, <1>8, <2>1
<1> QED BY <1>7, <1>8

(* Returning an unused reservation preserves it.                           *)
LEMMA ReturnCost ==
  ASSUME NEW b, LedgerInv(b), CostInv(b), NEW a \in Outstanding(b)
  PROVE  CostInv(AfterRelease(b, a))
<1> DEFINE d == WithoutReservation(b, a)
<1>0. b \in Budget /\ a \in Attempt /\ d \in Budget /\ AfterRelease(b, a) = d
  BY ReleaseTyped DEF LedgerInv, Outstanding, AfterRelease
<1>1. d.entries = b.entries /\ d.cost = b.cost /\ Outstanding(d) = Outstanding(b) \ {a}
  BY <1>0, ReturnEffect
<1>2. d.failed = b.failed
  BY <1>0 DEF WithoutReservation, Budget
<1> HIDE DEF d
<1>3. CostExplained(d)
  BY <1>1 DEF CostInv, CostExplained, ReportedOf, SettledOf, Settled, Amounts
<1>4. ASSUME StrictReservation, b.failed = FALSE, NEW s \in Scope, MaxProviderCost[s] # None
      PROVE  /\ \A x \in OutstandingOf(d, s) : UpperBound[x] # None
             /\ b.cost[s] + SumOver(UpperBound, OutstandingOf(d, s)) <= MaxProviderCost[s]
  <2>1. b.cost[s] \in Nat /\ MaxProviderCost[s] \in Nat
    BY <1>0, <1>4, LimitAssumption DEF Budget, OptionalNat
  <2>2. PICK n \in Nat :
          /\ n = SumOver(UpperBound, OutstandingOf(d, s))
          /\ Charges(a, s) => /\ UpperBound[a] \in Nat
                             /\ b.cost[s] + UpperBound[a] + n <= MaxProviderCost[s]
          /\ ~Charges(a, s) => b.cost[s] + n <= MaxProviderCost[s]
    BY <1>1, <1>4, FreedBound
  <2>3. b.cost[s] + n <= MaxProviderCost[s]
    BY <2>1, <2>2
  <2> QED BY <1>1, <1>4, <2>2, <2>3, FreedBound
<1>5. StrictRoom(d)
  BY <1>1, <1>2, <1>4 DEF StrictRoom
<1> QED BY <1>0, <1>3, <1>5 DEF CostInv

(* Posting a charge moves at most its bound from held to spent.            *)
LEMMA PostedCost ==
  ASSUME NEW b, LedgerInv(b), CostInv(b), NEW a \in Outstanding(b), NEW c \in Charge
  PROVE  CostInv(Posted(b, a, c))
<1> DEFINE p == WithoutReservation(b, a)
           d == Posted(b, a, c)
           amount == IF c.report = "reported" THEN c.amount ELSE 0
<1>0. b \in Budget /\ a \in Attempt /\ p \in Budget /\ d \in Budget
  BY ReleaseTyped, PostedTyped DEF LedgerInv, Outstanding
<1>1. /\ p.entries = b.entries /\ p.cost = b.cost
      /\ Outstanding(p) = Outstanding(b) \ {a}
  BY <1>0, ReturnEffect
<1>2. p.failed = b.failed
  BY <1>0 DEF WithoutReservation, Budget
<1>3. /\ d.reservations = p.reservations
      /\ d.entries = [p.entries EXCEPT ![a] = c]
      /\ d.failed = (p.failed \/ Rejected(a, c))
      /\ d.cost = [s \in Scope |-> IF Charges(a, s) THEN p.cost[s] + amount ELSE p.cost[s]]
  <2> HIDE DEF p
  <2> QED BY <1>0 DEF Posted, Budget, p
<1>4. amount \in Nat /\ c.amount \in Nat
  BY DEF Charge
<1> HIDE DEF p, d, amount
<1>5. Outstanding(d) = Outstanding(b) \ {a}
  BY <1>1, <1>3 DEF Outstanding
<1>6. c # None
  BY LimitAssumption
<1>7. Settled(d) = Settled(b) \cup {a} /\ a \notin Settled(b)
  <2>1. Settled(b) \cap Outstanding(b) = {}
    BY DEF LedgerInv, TotalsExplained
  <2> QED BY <1>0, <1>1, <1>3, <1>6, <2>1 DEF Settled, Budget
<1>8. ASSUME NEW s \in Scope
      PROVE  d.cost[s] = SumOver(Amounts(d), ReportedOf(d, s))
  <2> DEFINE R == ReportedOf(b, s)
  <2>1. R \subseteq Attempt /\ a \notin R /\ IsFiniteSet(R)
    <3>1. R \subseteq Attempt /\ a \notin R
      BY <1>7 DEF ReportedOf, SettledOf, Settled, Within
    <3> QED BY <3>1, AttemptAssumption, FS_Subset
  <2>2. ReportedOf(d, s) = IF Charges(a, s) /\ c.report = "reported" THEN R \cup {a} ELSE R
    BY <1>0, <1>1, <1>3, <1>7 DEF ReportedOf, SettledOf, Settled, Within, Budget
  <2>3. /\ \A x \in R : Amounts(d)[x] = Amounts(b)[x]
        /\ Amounts(d)[a] = c.amount
    BY <1>0, <1>1, <1>3, <2>1 DEF Amounts, Budget
  <2>4. \A x \in R : Amounts(b)[x] \in Nat
    BY <1>0, <2>1 DEF Amounts, ReportedOf, SettledOf, Settled, Within, Budget, Charge
  <2>5. b.cost[s] = SumOver(Amounts(b), R)
    BY DEF CostInv, CostExplained
  <2>6. d.cost[s] = IF Charges(a, s) THEN b.cost[s] + amount ELSE b.cost[s]
    BY <1>1, <1>3
  <2> HIDE DEF R
  <2>7. SumOver(Amounts(d), R) = b.cost[s] /\ b.cost[s] \in Nat
    BY <1>0, <2>1, <2>3, <2>5, SumSame DEF Budget
  <2>8. SumOver(Amounts(d), R \cup {a}) = SumOver(Amounts(d), R) + Amounts(d)[a]
    BY <1>4, <2>1, <2>3, <2>4, SumAdd
  <2>9. CASE Charges(a, s) /\ c.report = "reported"
    BY <2>2, <2>3, <2>6, <2>7, <2>8, <2>9 DEF amount
  <2>10. CASE ~(Charges(a, s) /\ c.report = "reported")
    BY <2>2, <2>6, <2>7, <2>10 DEF amount
  <2> QED BY <2>9, <2>10
<1>9. CostExplained(d)
  BY <1>8 DEF CostExplained
<1>10. ASSUME StrictReservation, d.failed = FALSE, NEW s \in Scope, MaxProviderCost[s] # None
       PROVE  /\ \A x \in OutstandingOf(d, s) : UpperBound[x] # None
              /\ d.cost[s] + SumOver(UpperBound, OutstandingOf(d, s)) <= MaxProviderCost[s]
  <2>1. b.failed = FALSE /\ ~Rejected(a, c)
    BY <1>0, <1>2, <1>3, <1>10 DEF Budget
  <2>2. b.cost[s] \in Nat /\ MaxProviderCost[s] \in Nat
    BY <1>0, <1>10, LimitAssumption DEF Budget, OptionalNat
  <2>3. PICK n \in Nat :
          /\ n = SumOver(UpperBound, OutstandingOf(d, s))
          /\ Charges(a, s) => /\ UpperBound[a] \in Nat
                             /\ b.cost[s] + UpperBound[a] + n <= MaxProviderCost[s]
          /\ ~Charges(a, s) => b.cost[s] + n <= MaxProviderCost[s]
    BY <1>5, <1>10, <2>1, FreedBound
  <2>4. d.cost[s] = IF Charges(a, s) THEN b.cost[s] + amount ELSE b.cost[s]
    BY <1>1, <1>3
  <2>5. Charges(a, s) => amount <= UpperBound[a]
    BY <1>4, <2>1, <2>3, LimitAssumption DEF Rejected, amount
  <2>6. d.cost[s] + n <= MaxProviderCost[s]
    BY <1>4, <2>2, <2>3, <2>4, <2>5
  <2> QED BY <1>5, <1>10, <2>1, <2>3, <2>6, FreedBound
<1>11. StrictRoom(d)
  BY <1>10 DEF StrictRoom
<1> QED BY <1>0, <1>9, <1>11 DEF CostInv, d

(* So does settling an invocation, whatever settle returns.                *)
LEMMA SettleCost ==
  ASSUME NEW b, LedgerInv(b), CostInv(b), NEW a \in Outstanding(b), NEW c \in Charge
  PROVE  CostInv(AfterSettle(b, a, c))
<1> DEFINE p == Posted(b, a, c)
           d == AfterSettle(b, a, c)
<1>1. CostInv(p) /\ p \in Budget /\ d \in Budget
  BY PostedCost, SettleTyped DEF CostInv, Outstanding
<1>2. d = p \/ \E t \in Termination : d = AfterTermination(p, t)
  BY SettlementErrorTyped DEF AfterSettle
<1> HIDE DEF p, d
<1>3. \A t \in Termination : /\ SameLedger(AfterTermination(p, t), p)
                             /\ p.failed => AfterTermination(p, t).failed
  BY <1>1, TerminationSame, TerminationWorsens DEF Worsens
<1> QED BY <1>1, <1>2, <1>3, SameCostInv DEF d

(* The empty budget satisfies it: nothing spent, nothing held.             *)
LEMMA CostInit ==
  ASSUME AuthorityInit
  PROVE  CostInv(budget)
<1>1. Outstanding(budget) = {} /\ Settled(budget) = {}
  BY DEF AuthorityInit, EmptyBudget, Outstanding, Settled
<1>2. \A s : OutstandingOf(budget, s) = {} /\ ReportedOf(budget, s) = {}
  BY <1>1 DEF OutstandingOf, SettledOf, ReportedOf, Within
<1>3. \A s \in Scope : budget.cost[s] = 0
  BY DEF AuthorityInit, EmptyBudget
<1>4. \A s \in Scope : MaxProviderCost[s] # None => MaxProviderCost[s] \in Nat
  BY LimitAssumption DEF OptionalNat
<1>5. CostExplained(budget) /\ StrictRoom(budget)
  BY <1>2, <1>3, <1>4, SumEmpty DEF CostExplained, StrictRoom
<1> QED BY <1>5, BudgetInitTyped DEF CostInv, BudgetTyped

(* Every step of the authority preserves it.                               *)
LEMMA CostStep ==
  ASSUME LedgerInv(budget), CostInv(budget), BudgetTyped, [AuthorityNext]_authority
  PROVE  CostInv(budget')
<1>0. budget \in Budget /\ budget' \in Budget
  BY BudgetStepTyped DEF BudgetTyped
<1>1. \A b \in Budget, t \in Termination :
        /\ AfterTermination(b, t) \in Budget
        /\ SameLedger(AfterTermination(b, t), b)
        /\ b.failed => AfterTermination(b, t).failed
  BY TerminationTyped, TerminationSame, TerminationWorsens DEF Worsens
<1>2. {Cancellation, Failure, WallClockExhaustion} \subseteq Termination
  BY DEF Cancellation, Failure, WallClockExhaustion, Ended, Termination,
         TerminationKind, Resource, ScopeKind
<1>3. ASSUME NEW b, CostInv(b), NEW t \in Termination
      PROVE  CostInv(AfterTermination(b, t))
  BY <1>1, <1>3, SameCostInv DEF CostInv
<1>4. ASSUME NEW b, CostInv(b), NEW d \in PerhapsFailed(b)
      PROVE  CostInv(d)
  BY <1>2, <1>3, <1>4 DEF PerhapsFailed
<1>5. ASSUME NEW B \in SUBSET Attempt, Reserve(B) PROVE CostInv(budget')
  BY <1>5, ReserveCost DEF Reserve
<1>6. ASSUME NEW B \in SUBSET Attempt, Refuse(B) PROVE CostInv(budget')
  BY <1>0, <1>3, <1>4, <1>6, DenialsTyped DEF Refuse
<1>7. ASSUME NEW a \in Attempt, Consume(a) PROVE CostInv(budget')
  <2>1. a \in Outstanding(budget)
    BY <1>7 DEF Consume, Outstanding
  <2>2. budget'.failed = budget.failed
    BY <1>0, <1>7 DEF Consume, AfterConsume, Budget
  <2> QED BY <1>0, <1>7, <2>1, <2>2, ConsumeSame, SameCostInv DEF Consume
<1>8. ASSUME NEW a \in Attempt, Release(a) PROVE CostInv(budget')
  <2>1. a \in Outstanding(budget)
    BY <1>8 DEF Release, Outstanding
  <2> QED BY <1>4, <1>8, <2>1, ReturnCost DEF Release
<1>9. ASSUME NEW a \in Attempt, Settle(a) PROVE CostInv(budget')
  <2>1. a \in Outstanding(budget)
    BY <1>9 DEF Settle, Outstanding
  <2>2. PICK c \in PossibleCharge : budget' \in PerhapsFailed(AfterSettle(budget, a, c))
    BY <1>9 DEF Settle
  <2> QED BY <1>4, <2>1, <2>2, ChargeTyped, SettleCost
<1>10. CASE NoteStop
  BY <1>2, <1>3, <1>10 DEF NoteStop
<1>11. CASE DeadlinePasses
  BY <1>11 DEF DeadlinePasses
<1>12. CASE DeadlineNoted
  BY <1>2, <1>3, <1>12 DEF DeadlineNoted
<1>13. CASE Handoff
  <2>1. budget' = AfterHandoff(budget) /\ Outstanding(budget) = {}
    BY <1>13 DEF Handoff
  <2>2. budget.failed => AfterHandoff(budget).failed
    BY <1>0 DEF AfterHandoff, SummaryStatus, Budget
  <2> QED BY <1>0, <2>1, <2>2, HandoffSame, SameCostInv
<1>14. CASE UNCHANGED authority
  BY <1>14 DEF authority
<1> QED BY <1>5, <1>6, <1>7, <1>8, <1>9, <1>10, <1>11, <1>12, <1>13, <1>14 DEF AuthorityNext

(* Every reachable budget explains its money and keeps its room.           *)
THEOREM CostInvariant == AuthoritySpec => []CostInv(budget)
<1> DEFINE Inv == LedgerInv(budget) /\ BudgetTyped
           Cost == CostInv(budget)
<1>1. AuthorityInit => Cost
  BY CostInit
<1>2. Inv /\ Cost /\ [AuthorityNext]_authority => Cost'
  BY CostStep
<1>3. AuthoritySpec => []Inv
  BY LedgerInvariant
<1> QED BY <1>1, <1>2, <1>3, PTL DEF AuthoritySpec

(* What a scope has spent is the sum of the charges reported in its        *)
(* entries: no charge is lost or counted twice when a reservation is       *)
(* settled, refused, dropped or handed to the next stage.                  *)
LEMMA MoneyHolds == AuthoritySpec => []MoneyExplained
<1>1. CostInv(budget) => MoneyExplained
  <2> SUFFICES ASSUME CostInv(budget), NEW s \in Scope
               PROVE  budget.cost[s] =
                        Sums!MapThenSumSet(LAMBDA a : budget.entries[a].amount,
                                           {a \in SettledIn(s) : budget.entries[a].report = "reported"})
    BY DEF MoneyExplained
  <2>1. ReportedOf(budget, s) = {a \in SettledIn(s) : budget.entries[a].report = "reported"}
    BY DEF ReportedOf, SettledOf, SettledIn
  <2>2. ReportedOf(budget, s) \subseteq Attempt
    BY DEF ReportedOf, SettledOf, Settled, Within
  <2>3. IsFiniteSet(ReportedOf(budget, s))
    BY <2>2, AttemptAssumption, FS_Subset
  <2>4. budget.cost[s] = SumOver(Amounts(budget), ReportedOf(budget, s))
    BY DEF CostInv, CostExplained
  <2> QED BY <2>1, <2>2, <2>3, <2>4, AmountsSum
<1> QED BY <1>1, CostInvariant, PTL

(* What a reader recomputes from the ledger entries of a scope is what the *)
(* authority reports of it, invocations, concurrent ones and money, after  *)
(* any sequence of batches, returns, rejected reports and hand-overs       *)
(* (reserve, release, settle, snapshot).                                   *)
THEOREM TotalsHold == AuthoritySpec => []LedgerExplainsTotals
<1>1. CountsExplained /\ MoneyExplained => LedgerExplainsTotals
  BY DEF LedgerExplainsTotals
<1> QED BY <1>1, CountsHold, MoneyHolds, PTL

(* Strict reservation never passes a sealed cost limit: until the Run      *)
(* fails, what a scope spent and all it still holds fit in it together,    *)
(* for every policy, every set of bounds and every order of the calls.     *)
THEOREM StrictCostHolds == AuthoritySpec => []StrictCostWithinLimit
<1>1. CostInv(budget) => StrictCostWithinLimit
  <2>1. CostInv(budget) /\ ~budget.failed => budget.failed = FALSE
    BY DEF CostInv, Budget
  <2>2. \A s : OutstandingOf(budget, s) = OutstandingIn(s)
    BY DEF OutstandingOf, OutstandingIn
  <2>3. \A B : TotalBound(B) = SumOver(UpperBound, B)
    BY DEF TotalBound, SumOver
  <2> QED BY <2>1, <2>2, <2>3 DEF CostInv, StrictRoom, StrictCostWithinLimit
<1> QED BY <1>1, CostInvariant, PTL

-------------------------------------------------------------------------------
(* What a Run that goes on has noticed: it has accepted every report, and  *)
(* no settled charge spent a limit.                                        *)

ChargesSound(b) ==
  b.failed = FALSE => \A a \in Settled(b) : ~Rejected(a, b.entries[a])

GoesOn(b) == b.failed = FALSE /\ b.termination = None

ChargesAccounted(b) ==
  GoesOn(b) => \A a \in Settled(b) : Unaccounted(a, b.entries[a]) => b.unverifiable = TRUE

(* A limit of zero is spent from the start: it is noticed by the first     *)
(* charge only.                                                            *)
CostNoticed(b) ==
  GoesOn(b) =>
    /\ \A s \in Scope : CostExhausted(b, s) => SettledOf(b, s) = {}
    /\ \A a \in Settled(b) : ~AttemptExhausted(b.entries[a])

NoticeInv(b) == b \in Budget /\ ChargesSound(b) /\ ChargesAccounted(b) /\ CostNoticed(b)

(* It survives what keeps the entries and the money, and forgets neither a *)
(* failure nor, while the Run goes on, an unverifiable charge.             *)
LEMMA SameNoticeInv ==
  ASSUME NEW b, NEW d \in Budget, NoticeInv(b),
         d.entries = b.entries, d.cost = b.cost, d.failed = FALSE => b.failed = FALSE,
         GoesOn(d) => b.termination = None /\ (b.unverifiable = TRUE => d.unverifiable = TRUE)
  PROVE  NoticeInv(d)
<1>1. Settled(d) = Settled(b) /\ \A s : SettledOf(d, s) = SettledOf(b, s)
  BY DEF Settled, SettledOf
<1>2. \A s : CostExhausted(d, s) <=> CostExhausted(b, s)
  BY DEF CostExhausted
<1>3. GoesOn(d) => GoesOn(b)
  BY DEF GoesOn
<1>4. ChargesSound(d)
  BY <1>1 DEF NoticeInv, ChargesSound
<1>5. ChargesAccounted(d)
  BY <1>1, <1>3 DEF NoticeInv, ChargesAccounted
<1>6. CostNoticed(d)
  BY <1>1, <1>2, <1>3 DEF NoticeInv, CostNoticed
<1> QED BY <1>4, <1>5, <1>6 DEF NoticeInv

(* Recording a reason to stop preserves it.                                *)
LEMMA TerminationNotice ==
  ASSUME NEW b, NoticeInv(b), NEW t \in Termination
  PROVE  NoticeInv(AfterTermination(b, t))
<1> DEFINE d == AfterTermination(b, t)
<1>1. b \in Budget /\ d \in Budget
  BY TerminationTyped DEF NoticeInv
<1>2. d.entries = b.entries /\ d.cost = b.cost
  BY <1>1, TerminationSame DEF SameLedger
<1>3. /\ d.termination = IF b.termination = None \/ t.kind = "failed" THEN t ELSE b.termination
      /\ t.kind = "failed" => d.failed = TRUE
      /\ t.kind # "failed" => d.failed = b.failed
  BY <1>1, TerminationReason
<1> HIDE DEF d
<1>4. d.failed = FALSE => b.failed = FALSE
  BY <1>3
<1>5. d.termination # None
  BY <1>3, LimitAssumption
<1>6. NoticeInv(d)
  BY <1>1, <1>2, <1>4, <1>5, SameNoticeInv DEF GoesOn
<1> QED BY <1>6 DEF d

(* A settlement that returns no error was accepted and spent no limit.     *)
LEMMA SettledUnspent ==
  ASSUME NEW b \in Budget, NEW a \in Attempt, NEW c \in Charge, SettlementError(b, a, c) = None
  PROVE  LET d == AfterSettle(b, a, c)
         IN  /\ ~Rejected(a, c) /\ d = Posted(b, a, c) /\ d.failed = b.failed
             /\ \A s \in Scope : Charges(a, s) => ~CostExhausted(d, s)
             /\ ~AttemptExhausted(c)
<1> DEFINE p == Posted(b, a, c)
<1>1. Failure # None
  BY LimitAssumption DEF Failure, Ended, Termination, TerminationKind, Resource, ScopeKind
<1>2. ~Rejected(a, c) /\ ExhaustionAfter(p, a, c) = None
  BY <1>1 DEF SettlementError
<1>3. AfterSettle(b, a, c) = p
  BY DEF AfterSettle
<1>4. p.failed = b.failed
  <2> DEFINE w == WithoutReservation(b, a)
  <2>1. w \in Budget /\ w.failed = b.failed
    BY ReleaseTyped DEF WithoutReservation, Budget
  <2>2. p.failed = (w.failed \/ Rejected(a, c))
    BY <2>1 DEF Posted, Budget
  <2> HIDE DEF w, p
  <2>3. b.failed = TRUE \/ b.failed = FALSE
    BY DEF Budget
  <2> QED BY <1>2, <2>1, <2>2, <2>3
<1> HIDE DEF p
<1>5. \A kind \in TerminationKind, resource \in Resource :
        \A s : Ended(kind, resource, KindOf(s)) # None
  BY EndedTyped, LimitAssumption
<1>6. "active-budget-exhausted" \in TerminationKind /\ "provider-cost" \in Resource
  BY DEF TerminationKind, Resource
<1>7. \A s : ScopeExhaustion(p, s) = None => ~CostExhausted(p, s)
  BY <1>5, <1>6 DEF ScopeExhaustion
<1>8. Ended("active-budget-exhausted", "provider-cost", "attempt") # None
  BY LimitAssumption DEF Ended, Termination, TerminationKind, Resource, ScopeKind
<1>9. ScopeExhaustion(p, "run") = None
  BY <1>2 DEF ExhaustionAfter
<1>10. ScopeExhaustion(p, StageOf[a]) = None
  BY <1>2, <1>9 DEF ExhaustionAfter
<1>11. ScopeExhaustion(p, CoordinateOf[a]) = None
  BY <1>2, <1>9, <1>10 DEF ExhaustionAfter
<1>12. ~AttemptExhausted(c)
  BY <1>2, <1>8, <1>9, <1>10, <1>11 DEF ExhaustionAfter
<1>13. \A s : Charges(a, s) => ~CostExhausted(p, s)
  BY <1>7, <1>9, <1>10, <1>11 DEF Charges
<1> QED BY <1>2, <1>3, <1>4, <1>12, <1>13 DEF p

(* A charge that leaves the Run going on was accepted and spent no limit.  *)
LEMMA AcceptedCharge ==
  ASSUME NEW b \in Budget, NEW a \in Attempt, NEW c \in Charge
  PROVE  LET d == AfterSettle(b, a, c)
             amount == IF c.report = "reported" THEN c.amount ELSE 0
         IN  /\ d.cost = [s \in Scope |-> IF Charges(a, s) THEN b.cost[s] + amount ELSE b.cost[s]]
             /\ d.failed = FALSE => b.failed = FALSE /\ ~Rejected(a, c)
             /\ GoesOn(d) =>
                  /\ GoesOn(b)
                  /\ b.unverifiable = TRUE \/ Unaccounted(a, c) => d.unverifiable = TRUE
                  /\ \A s \in Scope : Charges(a, s) => ~CostExhausted(d, s)
                  /\ ~AttemptExhausted(c)
<1> DEFINE w == WithoutReservation(b, a)
           p == Posted(b, a, c)
           d == AfterSettle(b, a, c)
           error == SettlementError(b, a, c)
           amount == IF c.report = "reported" THEN c.amount ELSE 0
           cost == [s \in Scope |-> IF Charges(a, s) THEN b.cost[s] + amount ELSE b.cost[s]]
<1>1. w \in Budget /\ p \in Budget /\ d \in Budget
  BY ReleaseTyped, PostedTyped, SettleTyped
<1>2. /\ w.failed = b.failed /\ w.unverifiable = b.unverifiable
      /\ w.termination = b.termination /\ w.cost = b.cost
  BY DEF WithoutReservation, Budget
<1>3. /\ p.failed = (w.failed \/ Rejected(a, c))
      /\ p.unverifiable = (w.unverifiable \/ Unaccounted(a, c))
      /\ p.termination = w.termination
      /\ p.cost = [s \in Scope |-> IF Charges(a, s) THEN w.cost[s] + amount ELSE w.cost[s]]
  <2> HIDE DEF w
  <2> QED BY <1>1 DEF Posted, Budget, w
<1>4. /\ p.failed = FALSE => b.failed = FALSE /\ ~Rejected(a, c)
      /\ b.unverifiable = TRUE \/ Unaccounted(a, c) => p.unverifiable = TRUE
      /\ p.termination = b.termination /\ p.cost = cost
  <2> HIDE DEF w, p
  <2>1. /\ p.failed = FALSE => b.failed = FALSE /\ ~Rejected(a, c)
        /\ p.termination = b.termination /\ p.cost = cost
    BY <1>1, <1>2, <1>3 DEF Budget
  <2>2. b.unverifiable = TRUE \/ Unaccounted(a, c) => p.unverifiable = TRUE
    BY <1>1, <1>2, <1>3 DEF Budget
  <2> QED BY <2>1, <2>2
<1>5. error \in Termination \cup {None} /\ None \notin Termination
  BY SettlementErrorTyped, LimitAssumption
<1>6. d = IF Rejected(a, c) \/ error = None THEN p ELSE AfterTermination(p, error)
  BY DEF AfterSettle
<1>7. error # None => LET t == AfterTermination(p, error)
                      IN  /\ t.cost = p.cost /\ t.termination # None
                          /\ t.failed = FALSE => p.failed = FALSE
  <2> SUFFICES ASSUME error # None
               PROVE  /\ AfterTermination(p, error).cost = p.cost
                      /\ AfterTermination(p, error).termination # None
                      /\ AfterTermination(p, error).failed = FALSE => p.failed = FALSE
    OBVIOUS
  <2> HIDE DEF p, error
  <2>1. AfterTermination(p, error).cost = p.cost
    BY <1>1, TerminationSame DEF SameLedger
  <2>2. AfterTermination(p, error).failed = (p.failed \/ error.kind = "failed")
    BY <1>1 DEF AfterTermination, Budget
  <2>3. AfterTermination(p, error).termination # None
    BY <1>1, <1>5, TerminationReason
  <2> QED BY <1>1, <2>1, <2>2, <2>3 DEF Budget
<1>8. error = None =>
        /\ ~Rejected(a, c) /\ d = p
        /\ \A s \in Scope : Charges(a, s) => ~CostExhausted(d, s)
        /\ ~AttemptExhausted(c)
  BY SettledUnspent
<1> HIDE DEF w, p, d, error, amount, cost
<1>9. d.cost = cost
  BY <1>4, <1>6, <1>7
<1>10. d.failed = FALSE => b.failed = FALSE /\ ~Rejected(a, c)
  BY <1>4, <1>6, <1>7
<1>11. ASSUME GoesOn(d)
       PROVE  d = p /\ ~Rejected(a, c) /\ error = None /\ GoesOn(b)
  BY <1>4, <1>6, <1>7, <1>10, <1>11 DEF GoesOn
<1>12. GoesOn(d) =>
         /\ GoesOn(b)
         /\ b.unverifiable = TRUE \/ Unaccounted(a, c) => d.unverifiable = TRUE
         /\ \A s \in Scope : Charges(a, s) => ~CostExhausted(d, s)
         /\ ~AttemptExhausted(c)
  BY <1>4, <1>8, <1>11
<1> QED BY <1>9, <1>10, <1>12 DEF d, cost, amount

(* So settling an invocation preserves the invariant.                      *)
LEMMA SettleNotice ==
  ASSUME NEW b, NoticeInv(b), NEW a \in Attempt, NEW c \in Charge
  PROVE  NoticeInv(AfterSettle(b, a, c))
<1> DEFINE d == AfterSettle(b, a, c)
           amount == IF c.report = "reported" THEN c.amount ELSE 0
<1>0. b \in Budget /\ d \in Budget /\ c # None
  BY SettleTyped, LimitAssumption DEF NoticeInv
<1>1. /\ d.cost = [s \in Scope |-> IF Charges(a, s) THEN b.cost[s] + amount ELSE b.cost[s]]
      /\ d.failed = FALSE => b.failed = FALSE /\ ~Rejected(a, c)
      /\ GoesOn(d) =>
           /\ GoesOn(b)
           /\ b.unverifiable = TRUE \/ Unaccounted(a, c) => d.unverifiable = TRUE
           /\ \A s \in Scope : Charges(a, s) => ~CostExhausted(d, s)
           /\ ~AttemptExhausted(c)
  BY <1>0, AcceptedCharge
<1>2. /\ d.reservations = [b.reservations EXCEPT ![a] = "none"]
      /\ d.entries = [b.entries EXCEPT ![a] = c]
  BY <1>0, SettlePositions
<1> HIDE DEF d, amount
<1>3. /\ Settled(d) = Settled(b) \cup {a}
      /\ d.entries[a] = c
      /\ \A x \in Settled(b) \ {a} : d.entries[x] = b.entries[x]
  BY <1>0, <1>2 DEF Settled, Budget
<1>4. ChargesSound(d)
  BY <1>1, <1>3 DEF NoticeInv, ChargesSound
<1>5. ChargesAccounted(d)
  BY <1>1, <1>3 DEF NoticeInv, ChargesAccounted
<1>6. ASSUME GoesOn(d), NEW s \in Scope, CostExhausted(d, s)
      PROVE  SettledOf(d, s) = {}
  <2>1. ~Charges(a, s)
    BY <1>1, <1>6
  <2>2. d.cost[s] = b.cost[s]
    BY <1>1, <2>1
  <2>3. CostExhausted(b, s)
    BY <1>6, <2>2 DEF CostExhausted
  <2>4. SettledOf(b, s) = {}
    BY <1>1, <1>6, <2>3 DEF NoticeInv, CostNoticed
  <2> QED BY <1>3, <2>1, <2>4 DEF SettledOf, Within
<1>7. CostNoticed(d)
  BY <1>1, <1>3, <1>6 DEF NoticeInv, CostNoticed
<1> QED BY <1>0, <1>4, <1>5, <1>7 DEF NoticeInv, d

(* Every step of the authority preserves it.                               *)
LEMMA NoticeStep ==
  ASSUME NoticeInv(budget), BudgetTyped, [AuthorityNext]_authority
  PROVE  NoticeInv(budget')
<1>0. budget \in Budget /\ budget' \in Budget
  BY BudgetStepTyped DEF BudgetTyped
<1>1. {Cancellation, Failure, WallClockExhaustion} \subseteq Termination
  BY DEF Cancellation, Failure, WallClockExhaustion, Ended, Termination,
         TerminationKind, Resource, ScopeKind
<1>2. ASSUME NEW b, NoticeInv(b), NEW d \in PerhapsFailed(b)
      PROVE  NoticeInv(d)
  BY <1>1, <1>2, TerminationNotice DEF PerhapsFailed
<1>3. ASSUME NEW d \in Budget, d.entries = budget.entries, d.cost = budget.cost,
             d.failed = budget.failed, d.termination = budget.termination,
             d.unverifiable = budget.unverifiable
      PROVE  NoticeInv(d)
  BY <1>3, SameNoticeInv DEF GoesOn
<1>4. ASSUME NEW B \in SUBSET Attempt, Reserve(B) PROVE NoticeInv(budget')
  BY <1>0, <1>3, <1>4 DEF Reserve, AfterReserve, Budget
<1>5. ASSUME NEW B \in SUBSET Attempt, Refuse(B) PROVE NoticeInv(budget')
  BY <1>0, <1>2, <1>5, TerminationNotice, DenialsTyped DEF Refuse
<1>6. ASSUME NEW a \in Attempt, Consume(a) PROVE NoticeInv(budget')
  BY <1>0, <1>3, <1>6 DEF Consume, AfterConsume, Budget
<1>7. ASSUME NEW a \in Attempt, Release(a) PROVE NoticeInv(budget')
  <2>1. AfterRelease(budget, a) \in Budget
    BY <1>0, ReleaseTyped
  <2>2. /\ AfterRelease(budget, a).entries = budget.entries
        /\ AfterRelease(budget, a).cost = budget.cost
        /\ AfterRelease(budget, a).failed = budget.failed
        /\ AfterRelease(budget, a).termination = budget.termination
        /\ AfterRelease(budget, a).unverifiable = budget.unverifiable
    BY <1>0 DEF AfterRelease, WithoutReservation, Budget
  <2> QED BY <1>2, <1>3, <1>7, <2>1, <2>2 DEF Release
<1>8. ASSUME NEW a \in Attempt, Settle(a) PROVE NoticeInv(budget')
  BY <1>2, <1>8, ChargeTyped, SettleNotice DEF Settle
<1>9. CASE NoteStop
  BY <1>1, <1>9, TerminationNotice DEF NoteStop
<1>10. CASE DeadlinePasses
  BY <1>10 DEF DeadlinePasses
<1>11. CASE DeadlineNoted
  BY <1>1, <1>11, TerminationNotice DEF DeadlineNoted
<1>12. CASE Handoff
  <2> DEFINE d == AfterHandoff(budget)
  <2>1. budget' = d
    BY <1>12 DEF Handoff
  <2>2. /\ d.entries = budget.entries /\ d.cost = budget.cost
        /\ d.termination = budget.termination
        /\ d.failed = (SummaryStatus(budget) = "failed")
        /\ d.unverifiable = (SummaryStatus(budget) = "unverifiable")
    BY <1>0 DEF AfterHandoff, Budget
  <2> HIDE DEF d
  <2>3. d.failed = FALSE => budget.failed = FALSE
    BY <1>0, <2>2 DEF SummaryStatus, Budget
  <2>4. GoesOn(d) => budget.termination = None /\ (budget.unverifiable = TRUE => d.unverifiable = TRUE)
    BY <1>0, <2>2, <2>3 DEF GoesOn, SummaryStatus
  <2> QED BY <1>0, <2>1, <2>2, <2>3, <2>4, SameNoticeInv
<1>13. CASE UNCHANGED authority
  BY <1>13 DEF authority
<1> QED BY <1>4, <1>5, <1>6, <1>7, <1>8, <1>9, <1>10, <1>11, <1>12, <1>13 DEF AuthorityNext

(* A Run that goes on has neither accepted a report its policy rejects nor *)
(* spent a limit without noticing it.                                      *)
THEOREM NoticeInvariant == AuthoritySpec => []NoticeInv(budget)
<1> DEFINE Inv == NoticeInv(budget)
<1>1. AuthorityInit => Inv
  <2>1. AuthorityInit => Settled(budget) = {}
    BY DEF AuthorityInit, EmptyBudget, Settled
  <2>2. \A s : Within({}, s) = {}
    BY DEF Within
  <2> QED BY <2>1, <2>2, BudgetInitTyped
        DEF BudgetTyped, NoticeInv, ChargesSound, ChargesAccounted, CostNoticed, SettledOf
<1>2. Inv /\ BudgetTyped /\ [AuthorityNext]_authority => Inv'
  BY NoticeStep
<1> QED BY <1>1, <1>2, BudgetTypeCorrect, PTL DEF AuthoritySpec

(* So while a Run goes on no limit is spent, but for a limit of zero.      *)
LEMMA UnspentWhileGoing ==
  ASSUME NEW b, CostInv(b), NoticeInv(b), GoesOn(b), NEW s \in Scope,
         MaxProviderCost[s] # None, MaxProviderCost[s] # 0
  PROVE  b.cost[s] < MaxProviderCost[s]
<1>1. b.cost[s] \in Nat /\ MaxProviderCost[s] \in Nat
  BY LimitAssumption DEF CostInv, Budget, OptionalNat
<1>2. CASE CostExhausted(b, s)
  <2>1. SettledOf(b, s) = {}
    BY <1>2 DEF NoticeInv, CostNoticed
  <2>2. ReportedOf(b, s) = {}
    BY <2>1 DEF ReportedOf
  <2>3. b.cost[s] = 0
    BY <2>2, SumEmpty DEF CostInv, CostExplained
  <2> QED BY <1>1, <1>2, <2>3 DEF CostExhausted
<1>3. CASE ~CostExhausted(b, s)
  BY <1>1, <1>3 DEF CostExhausted
<1> QED BY <1>2, <1>3

(* A scope without attempts of the Run has spent nothing.                  *)
LEMMA NothingSpent ==
  ASSUME NEW b, CostInv(b), NEW s \in Scope, SettledOf(b, s) = {}
  PROVE  b.cost[s] = 0
<1>1. ReportedOf(b, s) = {}
  BY DEF ReportedOf
<1> QED BY <1>1, SumEmpty DEF CostInv, CostExplained

(* Money is only ever added.                                               *)
LEMMA CostGrows ==
  ASSUME BudgetTyped, [AuthorityNext]_authority
  PROVE  \A s \in Scope : /\ budget.cost[s] \in Nat /\ budget'.cost[s] \in Nat
                          /\ budget'.cost[s] >= budget.cost[s]
<1>0. budget \in Budget /\ budget' \in Budget
  BY BudgetStepTyped DEF BudgetTyped
<1>1. \A b \in Budget : \A t : AfterTermination(b, t).cost = b.cost
  BY TerminationSame DEF SameLedger
<1>2. \A b \in Budget : \A d \in PerhapsFailed(b) : d.cost = b.cost
  BY <1>1 DEF PerhapsFailed
<1>3. ASSUME budget'.cost # budget.cost
      PROVE  \E a \in Attempt : Settle(a)
  <2>1. ASSUME NEW B \in SUBSET Attempt PROVE ~Reserve(B)
    BY <1>0, <1>3 DEF Reserve, AfterReserve, Budget
  <2>2. ASSUME NEW B \in SUBSET Attempt PROVE ~Refuse(B)
    BY <1>0, <1>1, <1>2, <1>3, DenialsTyped, TerminationTyped DEF Refuse
  <2>3. ASSUME NEW a \in Attempt PROVE ~Consume(a)
    BY <1>0, <1>3 DEF Consume, AfterConsume, Budget
  <2>4. ASSUME NEW a \in Attempt PROVE ~Release(a)
    <3>1. AfterRelease(budget, a) \in Budget /\ AfterRelease(budget, a).cost = budget.cost
      BY <1>0, ReleaseTyped DEF AfterRelease, WithoutReservation, Budget
    <3> QED BY <1>2, <1>3, <3>1 DEF Release
  <2>5. ~NoteStop /\ ~DeadlinePasses /\ ~DeadlineNoted
    BY <1>0, <1>1, <1>3 DEF NoteStop, DeadlinePasses, DeadlineNoted
  <2>6. ~Handoff
    BY <1>0, <1>3 DEF Handoff, AfterHandoff, Budget
  <2>7. ~UNCHANGED authority
    BY <1>3 DEF authority
  <2> QED BY <2>1, <2>2, <2>3, <2>4, <2>5, <2>6, <2>7 DEF AuthorityNext
<1>4. ASSUME NEW a \in Attempt, Settle(a), NEW s \in Scope
      PROVE  budget'.cost[s] >= budget.cost[s]
  <2>1. PICK c \in PossibleCharge : budget' \in PerhapsFailed(AfterSettle(budget, a, c))
    BY <1>4 DEF Settle
  <2> DEFINE amount == IF c.report = "reported" THEN c.amount ELSE 0
             d == AfterSettle(budget, a, c)
  <2>2. d.cost = [x \in Scope |-> IF Charges(a, x) THEN budget.cost[x] + amount ELSE budget.cost[x]]
    BY <1>0, ChargeTyped, AcceptedCharge
  <2>3. d \in Budget /\ amount \in Nat
    BY <1>0, ChargeTyped, SettleTyped DEF Charge
  <2> HIDE DEF d, amount
  <2>4. budget'.cost = d.cost
    BY <1>2, <2>1, <2>3 DEF d
  <2>5. budget.cost[s] \in Nat
    BY <1>0 DEF Budget
  <2> QED BY <2>2, <2>3, <2>4, <2>5
<1> QED BY <1>0, <1>3, <1>4 DEF Budget

(* What refuses a batch over its cost: a limit that is spent, when nothing *)
(* is reserved for and no single attempt is limited.                       *)
LEMMA RefusedOverSpentLimit ==
  ASSUME BoundedOvershoot, MaxAttemptCost = None, NEW b,
         ~(b.failed \/ (b.termination # None /\ b.termination.kind = "cancelled")),
         NEW B, NEW e, NEW t \in Denials(b, B, e), t.resource = "provider-cost"
  PROVE  \E s \in CheckedScopes(B) : CostExhausted(b, s) /\ t.scope = KindOf(s)
<1>1. ~StrictReservation
  BY DEF BoundedOvershoot, StrictReservation
<1>2. \A s : ScopeDenial(b, B, s) # None /\ ScopeDenial(b, B, s).resource = "provider-cost"
              => CostExhausted(b, s) /\ ScopeDenial(b, B, s).scope = KindOf(s)
  BY <1>1 DEF ScopeDenial, Ended
<1>3. \A a : AttemptDenial(a) = None
  BY DEF AttemptDenial
<1>4. {"run"} \subseteq CheckedScopes(B) /\ Stage \subseteq CheckedScopes(B)
  BY DEF CheckedScopes
<1>5. t # WallClockExhaustion
  BY DEF WallClockExhaustion, Ended
<1>6. \E s \in CheckedScopes(B) : t = ScopeDenial(b, B, s) /\ t # None
  BY <1>3, <1>4, <1>5 DEF Denials, Stage
<1> QED BY <1>2, <1>6

(* And what stops a Run over the cost of a settled attempt.                *)
LEMMA SettledOverSpentLimit ==
  ASSUME MaxAttemptCost = None, NEW b \in Budget, NEW a \in Attempt, NEW c \in Charge,
         SettlementError(b, a, c) # None, SettlementError(b, a, c).resource = "provider-cost"
  PROVE  \E s \in {"run", StageOf[a], CoordinateOf[a]} :
           CostExhausted(AfterSettle(b, a, c), s) /\ SettlementError(b, a, c).scope = KindOf(s)
<1> DEFINE p == Posted(b, a, c)
           d == AfterSettle(b, a, c)
           error == SettlementError(b, a, c)
<1>1. Failure.resource # "provider-cost"
  BY DEF Failure, Ended
<1>2. ~Rejected(a, c) /\ error = ExhaustionAfter(p, a, c)
  BY <1>1 DEF SettlementError
<1>3. \A x, s : ScopeExhaustion(x, s) # None /\ ScopeExhaustion(x, s).resource = "provider-cost"
                  => CostExhausted(x, s) /\ ScopeExhaustion(x, s).scope = KindOf(s)
  BY DEF ScopeExhaustion, Ended
<1>4. ~AttemptExhausted(c)
  BY DEF AttemptExhausted
<1>5. \E s \in {"run", StageOf[a], CoordinateOf[a]} : error = ScopeExhaustion(p, s)
  BY <1>2, <1>4 DEF ExhaustionAfter
<1>6. p \in Budget
  BY PostedTyped
<1>7. d.cost = p.cost
  BY <1>6, TerminationSame DEF AfterSettle, SameLedger
<1> HIDE DEF p, d, error
<1>8. error # None /\ error.resource = "provider-cost"
  BY DEF error
<1>9. PICK s \in {"run", StageOf[a], CoordinateOf[a]} :
             CostExhausted(p, s) /\ error.scope = KindOf(s)
  BY <1>3, <1>5, <1>8
<1>10. CostExhausted(d, s)
  BY <1>7, <1>9 DEF CostExhausted
<1> QED BY <1>9, <1>10 DEF d, error
===============================================================================
