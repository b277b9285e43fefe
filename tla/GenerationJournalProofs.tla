------------------------- MODULE GenerationJournalProofs -------------------------
(***************************************************************************)
(* What GenerationJournal promises, for every set of processes and every   *)
(* number of phases, windows, records and faults.                          *)
(***************************************************************************)
EXTENDS GenerationJournal, TLAPS

-----------------------------------------------------------------------------
(***************************************************************************)
(* The inductive invariant.                                                *)
(***************************************************************************)

Unpublished == {"absent", "prepared", "claimed", "archived", "failed"}
PastClaim == {"claimed"} \cup Answered

\* A journal that the application wrote, or none.
WellFormed(j) ==
  /\ j \in Journal
  /\ j.count = 0 => j = NoJournal
  /\ j.count > 0 => j.generation > 0 /\ j.mode \in Mode /\ j.count <= Planned(j)
  /\ j.windows # 0 => j.mode = "generate"
  /\ \A i \in Phase :
       /\ j.state[i] = "absent" <=> i > j.count
       /\ i < j.count => j.state[i] = "completed"
       /\ j.state[i] \in Unpublished => j.intents[i] = NoIntents /\ j.committed[i] = 0
       /\ j.state[i] = "prepared_writes" => j.intents[i] \in Intents
       /\ j.committed[i] <= j.intents[i].size

\* What a process read is the journal or an earlier version of it.
Behind(j) ==
  /\ j.generation <= journal.generation
  /\ j.generation = journal.generation => j = journal
  /\ \A i \in Phase :
       /\ j.intents[i] # NoIntents => journal.intents[i] = j.intents[i]
       /\ j.committed[i] <= journal.committed[i]
       /\ j.state[i] \in PastClaim => journal.state[i] \in PastClaim

JournalInv ==
  /\ WellFormed(journal)
  /\ \A p \in Process : WellFormed(seen[p]) /\ Behind(seen[p])

\* What the place of a process says of the journal it works on.
Placed(p) ==
  LET j == seen[p]
  IN  /\ pc[p] = "idle" => j = NoJournal
      /\ pc[p] \notin {"idle", "preparing"} => j.count > 0
      /\ pc[p] = "preparing" /\ j.count > 0 =>
           Unfinished(j) /\ LastState(j) = "completed"
      /\ pc[p] = "opening" => LastState(j) = "prepared"
      /\ pc[p] \in {"dispatching", "calling"} => LastState(j) = "claimed"
      /\ pc[p] \in {"archiving", "recording"} => LastState(j) \in PastClaim
      /\ pc[p] = "settling" => LastState(j) = "archived"
      /\ pc[p] \in {"publishing", "committing"} => LastState(j) = "prepared_writes"
      /\ pc[p] = "committing" => Pending(j) /\ NextRecord(j) \in store

\* A process between the claim and the answer of a phase.
Invoking(p, i) == pc[p] \in {"dispatching", "calling"} /\ seen[p].count = i

CallsInv ==
  /\ CalledOnce
  /\ \A i \in Phase : answer[i] # "none" => calls[i] = 1
  /\ \A p \in Process :
       /\ pc[p] = "dispatching" => calls[seen[p].count] = 0
       /\ pc[p] = "calling" => calls[seen[p].count] = 1 /\ answer[seen[p].count] = "none"
  /\ \A p, q \in Process, i \in Phase : Invoking(p, i) /\ Invoking(q, i) => p = q

\* What a process archives or records is at hand.
Supplied(p) ==
  LET i == seen[p].count
  IN  /\ pc[p] = "archiving" => Holds(p, i) \/ archive[i] # "none"
      /\ pc[p] = "recording" => archive[i] # "none"

OutcomeInv ==
  /\ ArchiveBacksPhase
  /\ \A i \in Phase : archive[i] # "none" => archive[i] = answer[i]
  /\ \A p \in Process : held[p] # NotHeld => held[p].outcome = answer[held[p].phase]
  /\ \A p \in Process : Supplied(p)

IInv == TypeOK /\ JournalInv /\ (\A p \in Process : Placed(p))
        /\ CallsInv /\ OutcomeInv /\ StoreFollowsJournal

-----------------------------------------------------------------------------
(***************************************************************************)
(* Journals.                                                               *)
(***************************************************************************)
LEMMA PhaseFacts ==
  /\ Phase \subseteq Nat \ {0}
  /\ 1 \in Phase
  /\ \A i \in Phase : i <= MaxPhases
BY JournalAssumption DEF Phase

LEMMA JournalFields ==
  ASSUME NEW j \in Journal
  PROVE  /\ j.generation \in Nat
         /\ j.mode \in Mode \cup {"none"}
         /\ j.windows \in {0} \cup Windows
         /\ j.windows \in Nat
         /\ j.windows <= MaxPhases - 1
         /\ j.count \in 0 .. MaxPhases
         /\ j.count \in Nat
         /\ j.count # 0 <=> j.count \in Phase
         /\ j.state \in [Phase -> State \cup {"absent"}]
         /\ j.intents \in [Phase -> Intents \cup {NoIntents}]
         /\ j.committed \in [Phase -> 0 .. MaxWrites]
<1>1. /\ j.generation \in Nat
      /\ j.mode \in Mode \cup {"none"}
      /\ j.windows \in {0} \cup Windows
      /\ j.count \in 0 .. MaxPhases
      /\ j.state \in [Phase -> State \cup {"absent"}]
      /\ j.intents \in [Phase -> Intents \cup {NoIntents}]
      /\ j.committed \in [Phase -> 0 .. MaxWrites]
  BY DEF Journal
<1>2. j.windows \in Nat /\ j.windows <= MaxPhases - 1
  <2>1. CASE j.windows = 0
    BY <2>1, JournalAssumption
  <2>2. CASE j.windows \in Windows
    <3>1. j.windows \in 1 .. (MaxPhases - 1)
      BY <2>2, JournalAssumption
    <3> QED
      BY <3>1, JournalAssumption
  <2> QED
    BY <1>1, <2>1, <2>2
<1>3. j.count \in Nat /\ (j.count # 0 <=> j.count \in Phase)
  BY <1>1, JournalAssumption DEF Phase
<1> QED
  BY <1>1, <1>2, <1>3

LEMMA IntentFields ==
  ASSUME NEW n \in Intents \cup {NoIntents}
  PROVE  /\ n.size \in 0 .. MaxWrites
         /\ n.size \in Nat
         /\ n \in Intents <=> n.author \in Process
         /\ n = NoIntents <=> n.author = Nobody
<1>1. CASE n \in Intents
  BY <1>1, JournalAssumption DEF Intents, NoIntents
<1>2. CASE n = NoIntents
  BY <1>2, JournalAssumption DEF Intents, NoIntents
<1> QED
  BY <1>1, <1>2

LEMMA MovedFields ==
  ASSUME NEW j \in Journal, j.count > 0, NEW s \in State
  PROVE  LET new == Moved(j, s)
         IN  /\ new \in Journal
             /\ new.generation = j.generation + 1
             /\ new.mode = j.mode
             /\ new.windows = j.windows
             /\ new.count = j.count
             /\ new.state = [j.state EXCEPT ![j.count] = s]
             /\ new.intents = j.intents
             /\ new.committed = j.committed
<1>1. [j.state EXCEPT ![j.count] = s] \in [Phase -> State \cup {"absent"}]
  BY JournalFields
<1>2. j.generation + 1 \in Nat
  BY JournalFields
<1> QED
  BY <1>1, <1>2 DEF Moved, Journal

LEMMA PinnedFields ==
  ASSUME NEW j \in Journal, j.count > 0, NEW p \in Process, NEW n \in 0 .. MaxWrites
  PROVE  LET new == Pinned(j, p, n)
         IN  /\ new \in Journal
             /\ new.generation = j.generation + 1
             /\ new.mode = j.mode
             /\ new.windows = j.windows
             /\ new.count = j.count
             /\ new.state = [j.state EXCEPT ![j.count] = "prepared_writes"]
             /\ new.intents = [j.intents EXCEPT ![j.count] = [author |-> p, size |-> n]]
             /\ new.committed = j.committed
<1>1. "prepared_writes" \in State
  BY DEF State
<1>2. [author |-> p, size |-> n] \in Intents
  BY DEF Intents
<1>3. [j.intents EXCEPT ![j.count] = [author |-> p, size |-> n]]
        \in [Phase -> Intents \cup {NoIntents}]
  BY <1>2, JournalFields
<1> QED
  BY <1>1, <1>3, MovedFields DEF Pinned, Journal

\* Pinning touches the last phase alone.
LEMMA PinnedKeeps ==
  ASSUME NEW j \in Journal, j.count > 0, NEW p \in Process, NEW n \in 0 .. MaxWrites
  PROVE  /\ Pinned(j, p, n).count = j.count
         /\ Pinned(j, p, n).committed = j.committed
         /\ \A i \in Phase : i # j.count => Pinned(j, p, n).state[i] = j.state[i]
<1> DEFINE new == Pinned(j, p, n)
<1> HIDE DEF new
<1>1. /\ new \in Journal
      /\ new.generation = j.generation + 1
      /\ new.mode = j.mode
      /\ new.windows = j.windows
      /\ new.count = j.count
      /\ new.state = [j.state EXCEPT ![j.count] = "prepared_writes"]
      /\ new.intents = [j.intents EXCEPT ![j.count] = [author |-> p, size |-> n]]
      /\ new.committed = j.committed
  BY PinnedFields DEF new
<1>2. \A i \in Phase : i # j.count => new.state[i] = j.state[i]
  BY <1>1, JournalFields
<1> QED
  BY <1>1, <1>2 DEF new

LEMMA CountedFields ==
  ASSUME NEW j \in Journal, j.count > 0, Pending(j)
  PROVE  LET new == [Moved(j, "prepared_writes") EXCEPT !.committed[j.count] = @ + 1]
         IN  /\ new \in Journal
             /\ new.generation = j.generation + 1
             /\ new.mode = j.mode
             /\ new.windows = j.windows
             /\ new.count = j.count
             /\ new.state = [j.state EXCEPT ![j.count] = "prepared_writes"]
             /\ new.intents = j.intents
             /\ new.committed = [j.committed EXCEPT ![j.count] = @ + 1]
<1>1. "prepared_writes" \in State
  BY DEF State
<1>2. j.committed[j.count] + 1 \in 0 .. MaxWrites
  BY JournalFields, IntentFields, JournalAssumption DEF Pending
<1>3. [j.committed EXCEPT ![j.count] = @ + 1] \in [Phase -> 0 .. MaxWrites]
  BY <1>2, JournalFields
<1> QED
  BY <1>1, <1>3, MovedFields DEF Journal

LEMMA NoJournalFields ==
  /\ WellFormed(NoJournal)
  /\ NoJournal.generation = 0
  /\ NoJournal.count = 0
  /\ \A i \in Phase :
       /\ NoJournal.state[i] = "absent"
       /\ NoJournal.intents[i] = NoIntents
       /\ NoJournal.committed[i] = 0
<1>1. /\ NoJournal.generation = 0
      /\ NoJournal.count = 0
      /\ NoJournal.windows = 0
      /\ \A i \in Phase :
           /\ NoJournal.state[i] = "absent"
           /\ NoJournal.intents[i] = NoIntents
           /\ NoJournal.committed[i] = 0
  BY DEF NoJournal
<1>2. NoJournal \in Journal
  BY JournalAssumption DEF NoJournal, Journal
<1>3. NoIntents.size = 0
  BY DEF NoIntents
<1> QED
  BY <1>1, <1>2, <1>3, PhaseFacts DEF WellFormed, Unpublished

LEMMA Ranks ==
  /\ Rank("absent") = 0
  /\ Rank("prepared") = 1
  /\ Rank("claimed") = 2
  /\ Rank("archived") = 3
  /\ Rank("prepared_writes") = 4
  /\ Rank("completed") = 5
  /\ Rank("failed") = 6
BY DEF Rank

LEMMA PastClaimStays ==
  ASSUME NEW s \in State \cup {"absent"}, NEW t \in State \cup {"absent"},
         s \in PastClaim, Rank(t) >= Rank(s)
  PROVE  t \in PastClaim
BY Ranks DEF State, PastClaim, Answered

LEMMA PlannedValues ==
  ASSUME NEW j
  PROVE  /\ j.mode = "generate" /\ j.windows = 0 => Planned(j) = 2
         /\ j.mode = "generate" /\ j.windows # 0 => Planned(j) = 1 + j.windows
         /\ j.mode = "review_sources" => Planned(j) = 2
         /\ j.mode \notin {"generate", "review_sources"} => Planned(j) = 1
<1>1. j.mode = "generate" => Planned(j) = 1 + (IF j.windows = 0 THEN 1 ELSE j.windows)
  BY DEF Planned
<1>2. j.mode = "review_sources" => Planned(j) = 2
  BY DEF Planned
<1>3. j.mode \notin {"generate", "review_sources"} => Planned(j) = 1
  BY DEF Planned
<1> QED
  BY <1>1, <1>2, <1>3

LEMMA PlannedBound ==
  ASSUME NEW j \in Journal
  PROVE  Planned(j) \in Nat /\ Planned(j) >= 1 /\ Planned(j) <= MaxPhases
BY JournalFields, PlannedValues, JournalAssumption

LEMMA MovedWellFormed ==
  ASSUME NEW j, WellFormed(j), j.count > 0,
         NEW s \in State,
         s = "prepared_writes" => LastState(j) = "prepared_writes",
         s \in Unpublished => LastState(j) \in Unpublished
  PROVE  WellFormed(Moved(j, s)) /\ Moved(j, s).generation = j.generation + 1
<1> DEFINE new == Moved(j, s)
<1> HIDE DEF new
<1>1. j \in Journal
  BY DEF WellFormed
<1>2. /\ new \in Journal
      /\ new.generation = j.generation + 1
      /\ new.mode = j.mode
      /\ new.windows = j.windows
      /\ new.count = j.count
      /\ new.state = [j.state EXCEPT ![j.count] = s]
      /\ new.intents = j.intents
      /\ new.committed = j.committed
  BY <1>1, MovedFields DEF new
<1>3. Planned(new) = Planned(j)
  BY <1>2 DEF Planned
<1>4. j.generation \in Nat /\ j.count \in Phase /\ s # "absent"
  BY <1>1, JournalFields DEF State
<1>5. ASSUME NEW i \in Phase
      PROVE  /\ new.state[i] = "absent" <=> i > new.count
             /\ i < new.count => new.state[i] = "completed"
             /\ new.state[i] \in Unpublished => new.intents[i] = NoIntents /\ new.committed[i] = 0
             /\ new.state[i] = "prepared_writes" => new.intents[i] \in Intents
             /\ new.committed[i] <= new.intents[i].size
  <2>1. new.state[i] = IF i = j.count THEN s ELSE j.state[i]
    BY <1>1, <1>2, JournalFields
  <2> QED
    BY <1>2, <1>4, <2>1, PhaseFacts DEF WellFormed, LastState
<1> QED
  BY <1>2, <1>3, <1>4, <1>5 DEF WellFormed, new

LEMMA PinnedWellFormed ==
  ASSUME NEW j, WellFormed(j), j.count > 0, LastState(j) = "archived",
         NEW p \in Process, NEW n \in 0 .. MaxWrites
  PROVE  WellFormed(Pinned(j, p, n)) /\ Pinned(j, p, n).generation = j.generation + 1
<1> DEFINE new == Pinned(j, p, n)
           x == [author |-> p, size |-> n]
<1> HIDE DEF new
<1>1. j \in Journal
  BY DEF WellFormed
<1>2. /\ new \in Journal
      /\ new.generation = j.generation + 1
      /\ new.mode = j.mode
      /\ new.windows = j.windows
      /\ new.count = j.count
      /\ new.state = [j.state EXCEPT ![j.count] = "prepared_writes"]
      /\ new.intents = [j.intents EXCEPT ![j.count] = x]
      /\ new.committed = j.committed
  BY <1>1, PinnedFields DEF new
<1>3. Planned(new) = Planned(j)
  BY <1>2 DEF Planned
<1>4. /\ j.generation \in Nat /\ j.count \in Phase
      /\ x \in Intents /\ x.size = n /\ n \in Nat
  BY <1>1, JournalFields, JournalAssumption DEF Intents
<1>5. ASSUME NEW i \in Phase
      PROVE  /\ new.state[i] = "absent" <=> i > new.count
             /\ i < new.count => new.state[i] = "completed"
             /\ new.state[i] \in Unpublished => new.intents[i] = NoIntents /\ new.committed[i] = 0
             /\ new.state[i] = "prepared_writes" => new.intents[i] \in Intents
             /\ new.committed[i] <= new.intents[i].size
  <2>1. /\ new.state[i] = IF i = j.count THEN "prepared_writes" ELSE j.state[i]
        /\ new.intents[i] = IF i = j.count THEN x ELSE j.intents[i]
    BY <1>1, <1>2, JournalFields
  <2>2. CASE i = j.count
    <3>1. j.state[i] = "archived" /\ j.committed[i] = 0
      BY <2>2 DEF WellFormed, LastState, Unpublished
    <3> HIDE DEF x
    <3> QED
      BY <1>2, <1>4, <2>1, <2>2, <3>1, PhaseFacts DEF Unpublished
  <2>3. CASE i # j.count
    BY <1>2, <1>4, <2>1, <2>3, PhaseFacts DEF WellFormed
  <2> QED
    BY <2>2, <2>3
<1> QED
  BY <1>2, <1>3, <1>4, <1>5 DEF WellFormed, new

Counted(j) == [Moved(j, "prepared_writes") EXCEPT !.committed[j.count] = @ + 1]

LEMMA CountedWellFormed ==
  ASSUME NEW j, WellFormed(j), j.count > 0, LastState(j) = "prepared_writes", Pending(j)
  PROVE  WellFormed(Counted(j)) /\ Counted(j).generation = j.generation + 1
<1> DEFINE new == Counted(j)
<1> HIDE DEF new
<1>1. j \in Journal
  BY DEF WellFormed
<1>2. /\ new \in Journal
      /\ new.generation = j.generation + 1
      /\ new.mode = j.mode
      /\ new.windows = j.windows
      /\ new.count = j.count
      /\ new.state = [j.state EXCEPT ![j.count] = "prepared_writes"]
      /\ new.intents = j.intents
      /\ new.committed = [j.committed EXCEPT ![j.count] = @ + 1]
  BY <1>1, CountedFields DEF new, Counted
<1>3. Planned(new) = Planned(j)
  BY <1>2 DEF Planned
<1>4. j.generation \in Nat /\ j.count \in Phase
  BY <1>1, JournalFields
<1>5. ASSUME NEW i \in Phase
      PROVE  /\ new.state[i] = "absent" <=> i > new.count
             /\ i < new.count => new.state[i] = "completed"
             /\ new.state[i] \in Unpublished => new.intents[i] = NoIntents /\ new.committed[i] = 0
             /\ new.state[i] = "prepared_writes" => new.intents[i] \in Intents
             /\ new.committed[i] <= new.intents[i].size
  <2>1. /\ new.state[i] = IF i = j.count THEN "prepared_writes" ELSE j.state[i]
        /\ new.committed[i] = IF i = j.count THEN j.committed[i] + 1 ELSE j.committed[i]
    BY <1>1, <1>2, JournalFields
  <2>2. CASE i = j.count
    <3>1. /\ j.state[i] = "prepared_writes" /\ j.intents[i] \in Intents
          /\ j.committed[i] < j.intents[i].size
      BY <2>2 DEF WellFormed, LastState, Pending
    <3>2. j.committed[i] \in Nat /\ j.intents[i].size \in Nat
      BY <1>1, JournalFields, IntentFields, JournalAssumption
    <3> QED
      BY <1>2, <1>4, <2>1, <2>2, <3>1, <3>2, PhaseFacts DEF Unpublished
  <2>3. CASE i # j.count
    BY <1>2, <1>4, <2>1, <2>3, PhaseFacts DEF WellFormed
  <2> QED
    BY <2>2, <2>3
<1> QED
  BY <1>2, <1>3, <1>4, <1>5 DEF WellFormed, new

LEMMA StartedWellFormed ==
  ASSUME NEW m \in Mode
  PROVE  WellFormed(Started(m)) /\ Started(m).generation = 1
<1> DEFINE new == Started(m)
<1> HIDE DEF new
<1>1. NoJournal \in Journal /\ 1 \in Phase
  BY NoJournalFields, PhaseFacts DEF WellFormed
<1>2. [NoJournal.state EXCEPT ![1] = "prepared"] \in [Phase -> State \cup {"absent"}]
  BY <1>1, JournalFields DEF State
<1>3. 1 \in 0 .. MaxPhases
  BY JournalAssumption
<1>4. new \in Journal
  BY <1>1, <1>2, <1>3 DEF Journal, new, Started
<1>5. /\ new.generation = 1
      /\ new.mode = m
      /\ new.windows = 0
      /\ new.count = 1
      /\ new.state = [NoJournal.state EXCEPT ![1] = "prepared"]
      /\ new.intents = NoJournal.intents
      /\ new.committed = NoJournal.committed
  BY DEF NoJournal, new, Started
<1>6. new.count <= Planned(new)
  BY <1>4, <1>5, PlannedBound
<1>7. NoIntents.size = 0
  BY DEF NoIntents
<1>8. ASSUME NEW i \in Phase
      PROVE  /\ new.state[i] = "absent" <=> i > new.count
             /\ i < new.count => new.state[i] = "completed"
             /\ new.state[i] \in Unpublished => new.intents[i] = NoIntents /\ new.committed[i] = 0
             /\ new.state[i] = "prepared_writes" => new.intents[i] \in Intents
             /\ new.committed[i] <= new.intents[i].size
  <2>1. new.state[i] = IF i = 1 THEN "prepared" ELSE "absent"
    BY <1>1, <1>5, JournalFields, NoJournalFields
  <2> QED
    BY <1>5, <1>7, <2>1, NoJournalFields, PhaseFacts DEF Unpublished
<1>9. WellFormed(new)
  BY <1>4, <1>5, <1>6, <1>8 DEF WellFormed
<1> QED
  BY <1>5, <1>9 DEF new

LEMMA ContinuedWellFormed ==
  ASSUME NEW j, WellFormed(j), j.count > 0, Unfinished(j), LastState(j) = "completed",
         NEW w \in IF j.mode = "generate" /\ j.count = 1 THEN {0} \cup Windows
                   ELSE {j.windows}
  PROVE  WellFormed(Continued(j, w)) /\ Continued(j, w).generation = j.generation + 1
<1> DEFINE new == Continued(j, w)
<1> HIDE DEF new
<1>1. j \in Journal
  BY DEF WellFormed
<1>2. /\ j.generation \in Nat /\ j.count \in Nat /\ j.generation > 0 /\ j.mode \in Mode
      /\ j.count < Planned(j)
  <2>1. j.generation \in Nat /\ j.count \in Nat /\ Planned(j) \in Nat
    BY <1>1, JournalFields, PlannedBound
  <2> QED
    BY <2>1 DEF WellFormed, Unfinished
<1>3. j.count + 1 \in Phase /\ j.count + 1 \in 0 .. MaxPhases
  <2>1. Planned(j) \in Nat /\ Planned(j) <= MaxPhases
    BY <1>1, PlannedBound
  <2> QED
    BY <1>2, <2>1, JournalAssumption DEF Phase
<1>4. w \in {0} \cup Windows /\ (w # 0 => j.mode = "generate")
  BY <1>1, JournalFields DEF WellFormed
<1>5. /\ new \in Journal
      /\ new.generation = j.generation + 1
      /\ new.mode = j.mode
      /\ new.windows = w
      /\ new.count = j.count + 1
      /\ new.state = [j.state EXCEPT ![j.count + 1] = "prepared"]
      /\ new.intents = j.intents
      /\ new.committed = j.committed
  <2>1. [j.state EXCEPT ![j.count + 1] = "prepared"] \in [Phase -> State \cup {"absent"}]
    BY <1>1, JournalFields DEF State
  <2>2. j.generation + 1 \in Nat
    BY <1>2
  <2> QED
    BY <1>1, <1>3, <1>4, <2>1, <2>2 DEF Journal, new, Continued
<1>6. new.count <= Planned(new)
  <2>1. CASE w = j.windows
    <3>1. Planned(new) = Planned(j)
      BY <1>5, <2>1 DEF Planned
    <3>2. Planned(j) \in Nat
      BY <1>1, PlannedBound
    <3> QED
      BY <1>2, <1>5, <3>1, <3>2
  <2>2. CASE w # j.windows
    <3>1. j.mode = "generate" /\ j.count = 1
      BY <2>2
    <3>2. w \in Nat
      BY <1>5, JournalFields
    <3> QED
      BY <1>5, <3>1, <3>2, PlannedValues
  <2> QED
    BY <2>1, <2>2
<1>7. ASSUME NEW i \in Phase
      PROVE  /\ new.state[i] = "absent" <=> i > new.count
             /\ i < new.count => new.state[i] = "completed"
             /\ new.state[i] \in Unpublished => new.intents[i] = NoIntents /\ new.committed[i] = 0
             /\ new.state[i] = "prepared_writes" => new.intents[i] \in Intents
             /\ new.committed[i] <= new.intents[i].size
  <2>1. /\ new.state[i] = IF i = j.count + 1 THEN "prepared" ELSE j.state[i]
        /\ new.intents[i] = j.intents[i] /\ new.committed[i] = j.committed[i]
    BY <1>1, <1>3, <1>5, JournalFields
  <2>2. j.count \in Nat /\ i \in Nat
    BY <1>2, PhaseFacts
  <2>3. CASE i = j.count + 1
    <3>1. j.state[i] = "absent"
      BY <2>2, <2>3 DEF WellFormed
    <3> QED
      BY <1>5, <2>1, <2>2, <2>3, <3>1 DEF WellFormed, Unpublished
  <2>4. CASE i # j.count + 1
    BY <1>5, <2>1, <2>2, <2>4 DEF WellFormed, LastState
  <2> QED
    BY <2>3, <2>4
<1>8. WellFormed(new)
  BY <1>2, <1>4, <1>5, <1>6, <1>7 DEF WellFormed
<1> QED
  BY <1>5, <1>8 DEF new

LEMMA ExtendedWellFormed ==
  ASSUME NEW j, WellFormed(j), NEW new \in Extended(j),
         j.count > 0 => Unfinished(j) /\ LastState(j) = "completed"
  PROVE  WellFormed(new) /\ new.generation = j.generation + 1
<1>1. j.count \in Nat
  BY JournalFields DEF WellFormed
<1>2. CASE j.count = 0
  <2>1. j = NoJournal
    BY <1>2 DEF WellFormed
  <2>2. PICK m \in Mode : new = Started(m)
    BY <1>2 DEF Extended
  <2>3. WellFormed(new) /\ new.generation = 1
    BY <2>2, StartedWellFormed
  <2> QED
    BY <2>1, <2>3, NoJournalFields
<1>3. CASE j.count > 0
  <2>1. PICK w \in IF j.mode = "generate" /\ j.count = 1 THEN {0} \cup Windows
                   ELSE {j.windows} : new = Continued(j, w)
    BY <1>3 DEF Extended
  <2> QED
    BY <1>3, <2>1, ContinuedWellFormed
<1> QED
  BY <1>1, <1>2, <1>3

-----------------------------------------------------------------------------
(***************************************************************************)
(* Reading and writing the journal file.                                   *)
(***************************************************************************)

\* What a step may do to the journal, as far as the other processes rely on it.
Grown ==
  \A i \in Phase :
    /\ journal.state[i] \in PastClaim => journal'.state[i] \in PastClaim
    /\ journal.intents[i] # NoIntents => journal'.intents[i] = journal.intents[i]
    /\ journal.committed[i] <= journal'.committed[i]

\* What a call of write() leaves, whether it went on, was refused or threw.
Persisted(p, new, to) ==
  /\ faults' \in 0 .. MaxFaults
  /\ pc' \in [Process -> Stations]
  /\ seen' \in [Process -> Journal]
  /\ \A q \in Process : q # p => pc'[q] = pc[q] /\ seen'[q] = seen[q]
  /\ pc'[p] = "idle" => seen'[p] = NoJournal
  /\ pc'[p] # "idle" => pc'[p] = to /\ seen'[p] = new /\ journal' = new
  /\ journal' # journal \/ pc'[p] # "idle" =>
       /\ journal = seen[p]
       /\ Legal(journal, new)
       /\ journal' = new

LEMMA LegalGrows ==
  ASSUME WellFormed(journal), WellFormed(journal'), Legal(journal, journal')
  PROVE  Grown
<1>1. journal \in Journal /\ journal' \in Journal
  BY DEF WellFormed
<1>2. ASSUME NEW i \in Phase
      PROVE  /\ journal.state[i] \in PastClaim => journal'.state[i] \in PastClaim
             /\ journal.intents[i] # NoIntents => journal'.intents[i] = journal.intents[i]
             /\ journal.committed[i] <= journal'.committed[i]
  <2>1. journal.state[i] \in State \cup {"absent"} /\ journal'.state[i] \in State \cup {"absent"}
    BY <1>1, JournalFields
  <2>2. journal.committed[i] \in Nat /\ journal'.committed[i] \in Nat
    BY <1>1, JournalFields, JournalAssumption
  <2> QED
    BY <2>1, <2>2, PastClaimStays DEF Legal
<1> QED
  BY <1>2 DEF Grown

LEMMA SameGrows ==
  ASSUME WellFormed(journal), journal' = journal
  PROVE  Grown
<1>1. \A i \in Phase : journal.committed[i] \in Nat
  BY JournalFields, JournalAssumption DEF WellFormed
<1> QED
  BY <1>1 DEF Grown

\* No journal is an earlier version of any.
LEMMA NothingIsBehind ==
  ASSUME WellFormed(journal)
  PROVE  Behind(NoJournal)
<1>1. journal.generation \in Nat /\ \A i \in Phase : journal.committed[i] \in Nat
  BY JournalFields, JournalAssumption DEF WellFormed
<1>2. journal.generation = 0 => journal = NoJournal
  <2>1. journal.count \in Nat
    BY JournalFields DEF WellFormed
  <2> QED
    BY <1>1, <2>1 DEF WellFormed
<1> QED
  BY <1>1, <1>2, NoJournalFields DEF Behind, PastClaim, Answered

LEMMA ItselfIsBehind ==
  ASSUME WellFormed(journal)
  PROVE  Behind(journal)
<1>1. journal.generation \in Nat /\ \A i \in Phase : journal.committed[i] \in Nat
  BY JournalFields, JournalAssumption DEF WellFormed
<1> QED
  BY <1>1 DEF Behind

\* A journal that was behind stays so when the file grows by one version.
LEMMA StillBehind ==
  ASSUME WellFormed(journal), WellFormed(journal'), Grown,
         journal'.generation = journal.generation + 1,
         NEW j, WellFormed(j), Behind(j)
  PROVE  Behind(j)'
<1>1. j.generation \in Nat /\ journal.generation \in Nat
  BY JournalFields DEF WellFormed
<1>2. \A i \in Phase : /\ j.committed[i] \in Nat
                       /\ journal.committed[i] \in Nat
                       /\ journal'.committed[i] \in Nat
  BY JournalFields, JournalAssumption DEF WellFormed
<1> QED
  BY <1>1, <1>2 DEF Behind, Grown

LEMMA PersistKeepsJournal ==
  ASSUME TypeOK, JournalInv, NEW p \in Process, NEW new, NEW to \in Stations,
         Persist(p, new, to),
         journal = seen[p] /\ Legal(journal, new) =>
           WellFormed(new) /\ new.generation = journal.generation + 1
  PROVE  JournalInv' /\ Grown /\ Persisted(p, new, to)
<1>1. WellFormed(journal) /\ WellFormed(seen[p]) /\ Behind(seen[p])
  BY DEF JournalInv
<1>2. Accepted(p, new) => journal = seen[p] /\ Legal(journal, new)
  BY <1>1 DEF Accepted, Behind
<1>3. faults' \in 0 .. MaxFaults
  BY JournalAssumption DEF Persist, Failing, TypeOK
<1>4. /\ pc \in [Process -> Stations] /\ seen \in [Process -> Journal]
      /\ "idle" \in Stations /\ NoJournal \in Journal
  BY NoJournalFields DEF TypeOK, Stations, WellFormed
<1>5. \/ Thrown(p) /\ journal' = journal
      \/ Thrown(p) /\ Accepted(p, new) /\ journal' = new
      \/ /\ Accepted(p, new) /\ journal' = new
         /\ pc' = [pc EXCEPT ![p] = to] /\ seen' = [seen EXCEPT ![p] = new]
         /\ to # "idle"
  BY DEF Persist, Thrown
<1>6. CASE Thrown(p) /\ journal' = journal
  <2>1. \A q \in Process : seen'[q] = IF q = p THEN NoJournal ELSE seen[q]
    BY <1>4, <1>6 DEF Thrown
  <2>2. JournalInv'
    <3>1. Behind(NoJournal)
      BY <1>1, NothingIsBehind
    <3> QED
      BY <1>6, <2>1, <3>1, NoJournalFields DEF JournalInv, Behind
  <2>3. Persisted(p, new, to)
    BY <1>3, <1>4, <1>6 DEF Persisted, Thrown
  <2> QED
    BY <1>1, <1>6, <2>2, <2>3, SameGrows
<1>7. ASSUME Accepted(p, new), journal' = new, NEW x \in {NoJournal, new},
             seen' = [seen EXCEPT ![p] = x]
      PROVE  JournalInv' /\ Grown
  <2>1. WellFormed(new) /\ new.generation = journal.generation + 1 /\ Legal(journal, new)
    BY <1>2, <1>7
  <2>2. Grown
    BY <1>1, <1>7, <2>1, LegalGrows
  <2>3. WellFormed(journal')
    BY <1>7, <2>1
  <2>4. Behind(x)'
    <3>1. CASE x = new
      <4>1. journal'.generation \in Nat /\ \A i \in Phase : journal'.committed[i] \in Nat
        BY <2>3, JournalFields, JournalAssumption DEF WellFormed
      <4> QED
        BY <1>7, <3>1, <4>1 DEF Behind
    <3>2. CASE x = NoJournal
      <4>1. Behind(NoJournal)
        BY <1>1, NothingIsBehind
      <4> QED
        BY <1>1, <1>7, <2>1, <2>2, <2>3, <3>2, <4>1, NoJournalFields, StillBehind
    <3> QED
      BY <1>7, <3>1, <3>2
  <2>5. ASSUME NEW q \in Process, q # p
        PROVE  WellFormed(seen[q])' /\ Behind(seen[q])'
    <3>1. seen'[q] = seen[q] /\ WellFormed(seen[q]) /\ Behind(seen[q])
      BY <1>4, <1>7, <2>5 DEF JournalInv
    <3>2. PICK j : j = seen[q]
      OBVIOUS
    <3>3. Behind(j)'
      BY <1>1, <1>7, <2>1, <2>2, <2>3, <3>1, <3>2, StillBehind
    <3> QED
      BY <3>1, <3>2, <3>3 DEF Behind
  <2>6. seen'[p] = x /\ WellFormed(x)
    BY <1>4, <1>7, <2>1, NoJournalFields
  <2> QED
    BY <2>2, <2>3, <2>4, <2>5, <2>6 DEF JournalInv, Behind
<1>8. CASE Thrown(p) /\ Accepted(p, new) /\ journal' = new
  <2>1. JournalInv' /\ Grown
    BY <1>7, <1>8 DEF Thrown
  <2>2. Persisted(p, new, to)
    BY <1>2, <1>3, <1>4, <1>8 DEF Persisted, Thrown
  <2> QED
    BY <2>1, <2>2
<1>9. CASE /\ Accepted(p, new) /\ journal' = new
           /\ pc' = [pc EXCEPT ![p] = to] /\ seen' = [seen EXCEPT ![p] = new]
           /\ to # "idle"
  <2>1. JournalInv' /\ Grown
    BY <1>7, <1>9
  <2>2. new \in Journal
    BY <1>2, <1>9 DEF WellFormed
  <2>3. Persisted(p, new, to)
    BY <1>2, <1>3, <1>4, <1>9, <2>2 DEF Persisted
  <2> QED
    BY <2>1, <2>3
<1> QED
  BY <1>5, <1>6, <1>8, <1>9

-----------------------------------------------------------------------------
(***************************************************************************)
(* What a step leaves alone.                                               *)
(***************************************************************************)
LEMMA StaysPlaced ==
  ASSUME NEW q \in Process, Placed(q), pc'[q] = pc[q], seen'[q] = seen[q],
         store \subseteq store'
  PROVE  Placed(q)'
BY DEF Placed

LEMMA IdleIsPlaced ==
  ASSUME NEW q \in Process, pc'[q] = "idle", seen'[q] = NoJournal
  PROVE  Placed(q)'
BY DEF Placed

\* The phase that a process works on was claimed before it calls.
LEMMA InvokersClaimed ==
  ASSUME JournalInv, NEW q \in Process, Placed(q), NEW i, Invoking(q, i)
  PROVE  i \in Phase /\ journal.state[i] \in PastClaim
<1>1. /\ seen[q].count > 0 /\ seen[q].count = i /\ LastState(seen[q]) = "claimed"
      /\ WellFormed(seen[q]) /\ Behind(seen[q])
  BY DEF Placed, Invoking, JournalInv
<1>2. i \in Phase
  BY <1>1, JournalFields DEF WellFormed
<1> QED
  BY <1>1, <1>2 DEF Behind, LastState, PastClaim

LEMMA CallsKept ==
  ASSUME CallsInv, Grown, NEW p \in Process,
         calls' = calls, answer' = answer,
         \A q \in Process : q # p => pc'[q] = pc[q] /\ seen'[q] = seen[q],
         \/ pc'[p] \notin {"dispatching", "calling"}
         \/ /\ pc'[p] = "dispatching"
            /\ calls[seen'[p].count] = 0
            /\ \A q \in Process \ {p} : ~ Invoking(q, seen'[p].count)
  PROVE  CallsInv'
<1>1. CalledOnce'
  BY DEF CallsInv, CalledOnce, Grown, PastClaim
<1>2. ASSUME NEW q \in Process
      PROVE  /\ pc'[q] = "dispatching" => calls'[seen'[q].count] = 0
             /\ pc'[q] = "calling" => calls'[seen'[q].count] = 1 /\ answer'[seen'[q].count] = "none"
  BY DEF CallsInv
<1>3. ASSUME NEW q \in Process, NEW r \in Process, NEW i \in Phase,
             Invoking(q, i)', Invoking(r, i)'
      PROVE  q = r
  <2>1. CASE q # p /\ r # p
    BY <1>3, <2>1 DEF CallsInv, Invoking
  <2>2. CASE q = p \/ r = p
    BY <1>3, <2>2 DEF Invoking
  <2> QED
    BY <2>1, <2>2
<1> QED
  BY <1>1, <1>2, <1>3 DEF CallsInv

LEMMA OutcomesKept ==
  ASSUME OutcomeInv, NEW p \in Process, archive' = archive, answer' = answer,
         \A i \in Phase : journal'.state[i] \in Answered =>
           journal.state[i] \in Answered \/ archive[i] # "none",
         \A q \in Process : q # p =>
           pc'[q] = pc[q] /\ seen'[q] = seen[q] /\ held'[q] = held[q],
         held'[p] \in {held[p], NotHeld},
         pc'[p] \in {"archiving", "recording"} =>
           archive[seen'[p].count] # "none"
  PROVE  OutcomeInv'
<1>1. ArchiveBacksPhase'
  BY DEF OutcomeInv, ArchiveBacksPhase
<1>2. \A q \in Process : held'[q] # NotHeld => held'[q].outcome = answer'[held'[q].phase]
  BY DEF OutcomeInv
<1>3. ASSUME NEW q \in Process
      PROVE  Supplied(q)'
  BY DEF OutcomeInv, Supplied, Holds
<1> QED
  BY <1>1, <1>2, <1>3 DEF OutcomeInv

LEMMA StoreKept ==
  ASSUME TypeOK, StoreFollowsJournal, Grown, store' = store, WellFormed(journal'),
         \A i \in Phase : journal'.committed[i] = journal.committed[i]
  PROVE  StoreFollowsJournal'
<1>1. store \subseteq Phase \X Process \X (1 .. MaxWrites) /\ journal \in Journal
  BY DEF TypeOK
<1>2. ASSUME NEW r \in store
      PROVE  /\ r[1] \in Phase /\ r[2] \in Process
             /\ journal'.intents[r[1]] = journal.intents[r[1]]
  <2>1. r[1] \in Phase /\ r[2] \in Process
    BY <1>1
  <2>2. journal.intents[r[1]].author = r[2]
    BY DEF StoreFollowsJournal
  <2>3. journal.intents[r[1]] # NoIntents
    BY <2>1, <2>2, JournalAssumption DEF NoIntents
  <2> QED
    BY <2>1, <2>3 DEF Grown
<1>3. ASSUME NEW i \in Phase, NEW k \in 1 .. journal'.committed[i]
      PROVE  <<i, journal'.intents[i].author, k>> \in store
  <2>1. <<i, journal.intents[i].author, k>> \in store
    BY <1>3 DEF StoreFollowsJournal
  <2>2. journal'.intents[i] = journal.intents[i]
    BY <1>2, <2>1
  <2> QED
    BY <2>1, <2>2
<1> QED
  BY <1>2, <1>3 DEF StoreFollowsJournal

-----------------------------------------------------------------------------
(***************************************************************************)
(* The steps that write the journal.                                       *)
(***************************************************************************)

\* A version of the journal that keeps what the others rely on and suits the
\* place its writer goes to.
Fitting(new, to) ==
  /\ WellFormed(new)
  /\ new.generation = journal.generation + 1
  /\ \A i \in Phase : new.state[i] \in Answered =>
       journal.state[i] \in Answered \/ archive[i] # "none"
  /\ to # "idle" => new.count > 0
  /\ to = "dispatching" => LastState(new) = "claimed"
  /\ to = "settling" => LastState(new) = "archived"
  /\ to = "publishing" => LastState(new) = "prepared_writes"

LEMMA PersistStep ==
  ASSUME IInv, NEW p \in Process, NEW new,
         NEW to \in {"idle", "dispatching", "settling", "publishing"},
         Persist(p, new, to), UNCHANGED <<archive, store, outside>>,
         held' \in {held, [held EXCEPT ![p] = NotHeld]},
         journal = seen[p] /\ Legal(journal, new) => Fitting(new, to)
  PROVE  /\ TypeOK' /\ JournalInv' /\ OutcomeInv'
         /\ \A q \in Process : Placed(q)'
         /\ Grown /\ Persisted(p, new, to)
<1>1. TypeOK /\ JournalInv /\ OutcomeInv /\ to \in Stations
  BY DEF IInv, Stations
<1>2. JournalInv' /\ Grown /\ Persisted(p, new, to)
  <2>1. journal = seen[p] /\ Legal(journal, new) =>
          WellFormed(new) /\ new.generation = journal.generation + 1
    BY DEF Fitting
  <2> QED
    BY <1>1, <2>1, PersistKeepsJournal
<1>3. \A q \in Process : held'[q] \in {held[q], NotHeld} /\ (q # p => held'[q] = held[q])
  BY <1>1 DEF TypeOK
<1>4. TypeOK'
  <2>1. held' \in [Process -> {NotHeld} \cup [phase : Phase, outcome : Outcome]]
    BY <1>1 DEF TypeOK
  <2> QED
    BY <1>1, <1>2, <2>1 DEF TypeOK, JournalInv, WellFormed, Persisted, outside
<1>5. ASSUME NEW q \in Process
      PROVE  Placed(q)'
  <2>1. CASE q # p
    BY <1>2, <2>1, StaysPlaced DEF IInv, Persisted
  <2>2. CASE q = p /\ pc'[p] = "idle"
    BY <1>2, <2>2, IdleIsPlaced DEF Persisted
  <2>3. CASE q = p /\ pc'[p] # "idle"
    BY <1>2, <2>3 DEF Persisted, Fitting, Placed, LastState
  <2> QED
    BY <2>1, <2>2, <2>3
<1>6. OutcomeInv'
  <2>1. \A i \in Phase : journal'.state[i] \in Answered =>
          journal.state[i] \in Answered \/ archive[i] # "none"
    BY <1>2 DEF Persisted, Fitting
  <2>2. pc'[p] \notin {"archiving", "recording"}
    BY <1>2 DEF Persisted
  <2> QED
    BY <1>1, <1>2, <1>3, <2>1, <2>2, OutcomesKept DEF Persisted, outside
<1> QED
  BY <1>2, <1>4, <1>5, <1>6

\* A write that neither claims nor counts a record.
LEMMA QuietPersistStep ==
  ASSUME IInv, NEW p \in Process, NEW new, NEW to \in {"idle", "settling", "publishing"},
         Persist(p, new, to), UNCHANGED <<archive, store, outside>>,
         held' \in {held, [held EXCEPT ![p] = NotHeld]},
         journal = seen[p] /\ Legal(journal, new) =>
           /\ Fitting(new, to)
           /\ \A i \in Phase : new.committed[i] = journal.committed[i]
  PROVE  IInv'
<1>1. /\ TypeOK' /\ JournalInv' /\ OutcomeInv'
      /\ \A q \in Process : Placed(q)'
      /\ Grown /\ Persisted(p, new, to)
  BY PersistStep
<1>2. CallsInv'
  BY <1>1, CallsKept DEF IInv, Persisted, outside
<1>3. StoreFollowsJournal'
  <2>1. \A i \in Phase : journal'.committed[i] = journal.committed[i]
    BY <1>1 DEF Persisted
  <2>2. WellFormed(journal')
    BY <1>1 DEF JournalInv
  <2> QED
    BY <1>1, <2>1, <2>2, StoreKept DEF IInv
<1> QED
  BY <1>1, <1>2, <1>3 DEF IInv

LEMMA PrepareStep ==
  ASSUME IInv, NEW p \in Process, Prepare(p)
  PROVE  IInv'
<1>1. PICK new \in Extended(seen[p]) : Persist(p, new, "idle")
  BY DEF Prepare
<1>2. WellFormed(seen[p]) /\ seen[p] \in Journal
  BY DEF IInv, JournalInv, WellFormed
<1>3. seen[p].count > 0 => Unfinished(seen[p]) /\ LastState(seen[p]) = "completed"
  BY DEF IInv, Placed, Prepare
<1>4. WellFormed(new) /\ new.generation = seen[p].generation + 1
  BY <1>1, <1>2, <1>3, ExtendedWellFormed
<1>5. /\ \A i \in Phase : new.state[i] \in {seen[p].state[i], "prepared"}
      /\ \A i \in Phase : new.committed[i] = seen[p].committed[i]
  <2>1. CASE seen[p].count = 0
    <3>1. PICK m \in Mode : new = Started(m)
      BY <1>1, <2>1 DEF Extended
    <3>2. seen[p] = NoJournal
      BY <1>2, <2>1 DEF WellFormed
    <3>3. new.state = [NoJournal.state EXCEPT ![1] = "prepared"] /\ new.committed = NoJournal.committed
      BY <3>1 DEF Started, NoJournal
    <3> QED
      BY <1>2, <3>2, <3>3, JournalFields
  <2>2. CASE seen[p].count # 0
    <3>1. PICK w : new = Continued(seen[p], w)
      BY <1>1, <2>2 DEF Extended
    <3>2. /\ new.state = [seen[p].state EXCEPT ![seen[p].count + 1] = "prepared"]
          /\ new.committed = seen[p].committed
      BY <1>2, <3>1 DEF Continued, Journal
    <3> QED
      BY <1>2, <3>2, JournalFields
  <2> QED
    BY <2>1, <2>2
<1>6. journal = seen[p] => Fitting(new, "idle")
  BY <1>4, <1>5 DEF Fitting, Answered
<1> QED
  BY <1>1, <1>5, <1>6, QuietPersistStep DEF Prepare

LEMMA RecordStep ==
  ASSUME IInv, NEW p \in Process, Record(p)
  PROVE  IInv'
<1> DEFINE j == seen[p]
           new == Moved(j, "archived")
<1> HIDE DEF new
<1>1. /\ WellFormed(j) /\ j \in Journal /\ j.count > 0 /\ j.count \in Phase
      /\ LastState(j) \in PastClaim /\ archive[j.count] # "none"
  <2>1. WellFormed(j) /\ j \in Journal /\ j.count > 0 /\ LastState(j) \in PastClaim
    BY DEF IInv, JournalInv, WellFormed, Placed, Record
  <2>2. archive[j.count] # "none"
    BY DEF IInv, OutcomeInv, Supplied, Record
  <2> QED
    BY <2>1, <2>2, JournalFields
<1>2. ASSUME journal = j, Legal(journal, new)
      PROVE  /\ Fitting(new, "settling")
             /\ \A i \in Phase : new.committed[i] = journal.committed[i]
  <2>1. /\ new.count = j.count
        /\ new.state = [j.state EXCEPT ![j.count] = "archived"]
        /\ new.committed = j.committed
    BY <1>1, MovedFields DEF new, State
  <2>2. new.state[j.count] = "archived" /\ LastState(new) = "archived"
    BY <1>1, <2>1, JournalFields DEF LastState
  <2>3. LastState(j) \in {"claimed", "archived"}
    BY <1>1, <1>2, <2>2, Ranks DEF Legal, LastState, PastClaim, Answered, Ended
  <2>4. WellFormed(new) /\ new.generation = j.generation + 1
    BY <1>1, <2>3, MovedWellFormed DEF new, State, Unpublished
  <2>5. \A i \in Phase : i # j.count => new.state[i] = j.state[i]
    BY <1>1, <2>1, JournalFields
  <2> QED
    BY <1>1, <1>2, <2>1, <2>2, <2>4, <2>5 DEF Fitting
<1> QED
  BY <1>2, QuietPersistStep DEF Record, new

LEMMA CompleteStep ==
  ASSUME IInv, NEW p \in Process, Complete(p)
  PROVE  IInv'
<1> DEFINE j == seen[p]
           new == Moved(j, "completed")
<1> HIDE DEF new
<1>1. /\ WellFormed(j) /\ j \in Journal /\ j.count > 0 /\ j.count \in Phase
      /\ LastState(j) = "prepared_writes"
  <2>1. WellFormed(j) /\ j \in Journal /\ j.count > 0 /\ LastState(j) = "prepared_writes"
    BY DEF IInv, JournalInv, WellFormed, Placed, Complete
  <2> QED
    BY <2>1, JournalFields
<1>2. /\ new.state = [j.state EXCEPT ![j.count] = "completed"]
      /\ new.committed = j.committed
      /\ WellFormed(new) /\ new.generation = j.generation + 1
  BY <1>1, MovedFields, MovedWellFormed DEF new, State, Unpublished
<1>3. \A i \in Phase : new.state[i] \in Answered => j.state[i] \in Answered
  BY <1>1, <1>2, JournalFields DEF LastState, Answered
<1>4. journal = j => Fitting(new, "idle")
  BY <1>2, <1>3 DEF Fitting
<1> QED
  BY <1>2, <1>4, QuietPersistStep DEF Complete, new

LEMMA SettleStep ==
  ASSUME IInv, NEW p \in Process, Settle(p)
  PROVE  IInv'
<1> DEFINE j == seen[p]
<1>1. PICK new \in Settled(p) :
        Persist(p, new, IF LastState(new) = "prepared_writes" THEN "publishing" ELSE "idle")
  BY DEF Settle
<1>2. /\ WellFormed(j) /\ j \in Journal /\ j.count > 0 /\ j.count \in Phase
      /\ LastState(j) = "archived" /\ j.state[j.count] = "archived"
  <2>1. WellFormed(j) /\ j \in Journal /\ j.count > 0 /\ LastState(j) = "archived"
    BY DEF IInv, JournalInv, WellFormed, Placed, Settle
  <2> QED
    BY <2>1, JournalFields DEF LastState
<1>3. /\ WellFormed(new) /\ new.generation = j.generation + 1 /\ new.count = j.count
      /\ new.committed = j.committed
      /\ \A i \in Phase : i # j.count => new.state[i] = j.state[i]
  <2>1. CASE new = Moved(j, "failed") \/ new = Moved(j, "completed")
    <3>1. PICK s \in {"failed", "completed"} : new = Moved(j, s)
      BY <2>1
    <3>2. s \in State /\ s # "prepared_writes"
      BY DEF State
    <3>3. WellFormed(new) /\ new.generation = j.generation + 1
      BY <1>2, <3>1, <3>2, MovedWellFormed DEF Unpublished
    <3>4. new.count = j.count /\ new.committed = j.committed
          /\ new.state = [j.state EXCEPT ![j.count] = s]
      BY <1>2, <3>1, <3>2, MovedFields
    <3> QED
      BY <1>2, <3>3, <3>4, JournalFields
  <2>2. CASE \E n \in 0 .. MaxWrites : new = Pinned(j, p, n)
    <3>1. PICK n \in 0 .. MaxWrites : new = Pinned(j, p, n)
      BY <2>2
    <3>2. WellFormed(new) /\ new.generation = j.generation + 1
      BY <1>2, <3>1, PinnedWellFormed
    <3>3. /\ new.count = j.count
          /\ new.committed = j.committed
          /\ \A i \in Phase : i # j.count => new.state[i] = j.state[i]
      BY <1>2, <3>1, PinnedKeeps
    <3> QED
      BY <3>2, <3>3
  <2>3. \A o : Sizes(j, o) \subseteq 0 .. MaxWrites
    <3>1. ASSUME NEW o
          PROVE  \/ Sizes(j, o) = 1 .. MaxWrites
                 \/ Sizes(j, o) = {}
                 \/ Sizes(j, o) = 0 .. MaxWrites
                 \/ Sizes(j, o) = {1}
      <4>1. CASE j.mode = "rebuild_associations"
        BY <4>1 DEF Sizes
      <4>2. CASE j.mode # "rebuild_associations" /\ o = "invalid"
        BY <4>2 DEF Sizes
      <4>3. CASE j.mode = "generate" /\ o # "invalid"
        BY <4>3 DEF Sizes
      <4>4. CASE j.mode \notin {"rebuild_associations", "generate"} /\ o # "invalid"
        BY <4>4 DEF Sizes
      <4> QED
        BY <4>1, <4>2, <4>3, <4>4
    <3>2. 1 \in 0 .. MaxWrites /\ 1 .. MaxWrites \subseteq 0 .. MaxWrites
      BY JournalAssumption
    <3> QED
      BY <3>1, <3>2
  <2>4. \/ new = Moved(j, "failed") \/ new = Moved(j, "completed")
        \/ \E n \in Sizes(j, archive[j.count]) : new = Pinned(j, p, n)
    BY <1>1 DEF Settled
  <2> QED
    BY <2>1, <2>2, <2>3, <2>4
<1> DEFINE to == IF LastState(new) = "prepared_writes" THEN "publishing" ELSE "idle"
<1>4. journal = j => Fitting(new, to)
  BY <1>2, <1>3 DEF Fitting, Answered
<1>5. to \in {"idle", "settling", "publishing"}
  OBVIOUS
<1>6. held' \in {held, [held EXCEPT ![p] = NotHeld]} /\ UNCHANGED <<archive, store, outside>>
  BY DEF Settle
<1> HIDE DEF to
<1>7. Persist(p, new, to)
  BY <1>1 DEF to
<1> QED
  BY <1>3, <1>4, <1>5, <1>6, <1>7, QuietPersistStep

LEMMA GateStep ==
  ASSUME IInv, NEW p \in Process, Gate(p)
  PROVE  IInv'
<1> DEFINE j == seen[p]
           new == Moved(j, "claimed")
<1> HIDE DEF new
<1>1. /\ WellFormed(j) /\ j \in Journal /\ j.count > 0 /\ j.count \in Phase
      /\ LastState(j) = "prepared"
  <2>1. WellFormed(j) /\ j \in Journal /\ j.count > 0 /\ LastState(j) = "prepared"
    BY DEF IInv, JournalInv, WellFormed, Placed, Gate
  <2> QED
    BY <2>1, JournalFields
<1>2. /\ new.count = j.count
      /\ new.state = [j.state EXCEPT ![j.count] = "claimed"]
      /\ new.committed = j.committed
      /\ WellFormed(new) /\ new.generation = j.generation + 1
  BY <1>1, MovedFields, MovedWellFormed DEF new, State, Unpublished
<1>3. /\ \A i \in Phase : new.state[i] \in Answered => j.state[i] \in Answered
      /\ LastState(new) = "claimed"
  BY <1>1, <1>2, JournalFields DEF LastState, Answered
<1>4. journal = j => Fitting(new, "dispatching")
  BY <1>1, <1>2, <1>3 DEF Fitting
<1>5. Persist(p, new, "dispatching") /\ UNCHANGED <<archive, store, held, outside>>
  BY DEF Gate, new
<1>6. /\ TypeOK' /\ JournalInv' /\ OutcomeInv'
      /\ \A q \in Process : Placed(q)'
      /\ Grown /\ Persisted(p, new, "dispatching")
  BY <1>4, <1>5, PersistStep
<1>7. StoreFollowsJournal'
  <2>1. \A i \in Phase : journal'.committed[i] = journal.committed[i]
    BY <1>2, <1>6 DEF Persisted
  <2>2. WellFormed(journal')
    BY <1>6 DEF JournalInv
  <2> QED
    BY <1>5, <1>6, <2>1, <2>2, StoreKept DEF IInv
<1>8. CallsInv'
  <2>1. CASE pc'[p] = "idle"
    BY <1>5, <1>6, <2>1, CallsKept DEF IInv, Persisted, outside
  <2>2. CASE pc'[p] # "idle"
    <3>1. /\ pc'[p] = "dispatching" /\ seen'[p] = new /\ journal = j
      BY <1>6, <2>2 DEF Persisted
    <3>2. journal.state[j.count] \notin PastClaim
      BY <1>1, <3>1 DEF LastState, PastClaim, Answered
    <3>3. calls[j.count] = 0
      <4>1. calls[j.count] \in Nat /\ calls[j.count] <= 1 /\ calls[j.count] # 1
        BY <1>1, <3>2 DEF IInv, TypeOK, CallsInv, CalledOnce, PastClaim
      <4> QED
        BY <4>1
    <3>4. \A q \in Process \ {p} : ~ Invoking(q, j.count)
      BY <3>2, InvokersClaimed DEF IInv
    <3> QED
      BY <1>2, <1>5, <1>6, <3>1, <3>3, <3>4, CallsKept DEF IInv, Persisted, outside
  <2> QED
    BY <2>1, <2>2
<1> QED
  BY <1>6, <1>7, <1>8 DEF IInv

LEMMA CommitStep ==
  ASSUME IInv, NEW p \in Process, Commit(p)
  PROVE  IInv'
<1> DEFINE j == seen[p]
           c == j.count
           new == Counted(j)
<1> HIDE DEF new
<1>1. /\ WellFormed(j) /\ j \in Journal /\ j.count > 0 /\ c \in Phase
      /\ LastState(j) = "prepared_writes" /\ Pending(j) /\ NextRecord(j) \in store
  <2>1. /\ WellFormed(j) /\ j \in Journal /\ j.count > 0 /\ LastState(j) = "prepared_writes"
        /\ Pending(j) /\ NextRecord(j) \in store
    BY DEF IInv, JournalInv, WellFormed, Placed, Commit
  <2> QED
    BY <2>1, JournalFields
<1>2. /\ new.count = c
      /\ new.state = [j.state EXCEPT ![c] = "prepared_writes"]
      /\ new.intents = j.intents
      /\ new.committed = [j.committed EXCEPT ![c] = @ + 1]
      /\ WellFormed(new) /\ new.generation = j.generation + 1
  BY <1>1, CountedFields, CountedWellFormed DEF new, Counted
<1>3. /\ \A i \in Phase : new.state[i] \in Answered => j.state[i] \in Answered
      /\ LastState(new) = "prepared_writes"
  BY <1>1, <1>2, JournalFields DEF LastState, Answered
<1>4. journal = j => Fitting(new, "publishing")
  BY <1>1, <1>2, <1>3 DEF Fitting
<1>5. Persist(p, new, "publishing") /\ UNCHANGED <<archive, store, held, outside>>
  BY DEF Commit, new, Counted
<1>6. /\ TypeOK' /\ JournalInv' /\ OutcomeInv'
      /\ \A q \in Process : Placed(q)'
      /\ Grown /\ Persisted(p, new, "publishing")
  BY <1>4, <1>5, PersistStep
<1>7. CallsInv'
  BY <1>5, <1>6, CallsKept DEF IInv, Persisted, outside
<1>8. StoreFollowsJournal'
  <2>1. WellFormed(journal')
    BY <1>6 DEF JournalInv
  <2>2. CASE journal' = journal
    BY <1>5, <1>6, <2>1, <2>2, StoreKept DEF IInv
  <2>3. CASE journal' # journal
    <3>1. journal = j /\ journal' = new
      BY <1>6, <2>3 DEF Persisted
    <3>2. \A i \in Phase : j.committed[i] \in Nat
      BY <1>1, JournalFields, JournalAssumption
    <3>3. \A r \in store : r[1] \in Phase
      BY DEF IInv, TypeOK
    <3>4. \A i \in Phase : new.committed[i] = IF i = c THEN j.committed[i] + 1 ELSE j.committed[i]
      BY <1>1, <1>2, JournalFields
    <3>5. ASSUME NEW r \in store
          PROVE  /\ new.intents[r[1]].author = r[2]
                 /\ r[3] <= new.intents[r[1]].size
                 /\ r[3] <= new.committed[r[1]] + 1
      <4>1. r[3] \in Nat
        BY JournalAssumption DEF IInv, TypeOK
      <4> QED
        BY <1>2, <3>1, <3>2, <3>3, <3>4, <4>1 DEF IInv, StoreFollowsJournal
    <3>6. ASSUME NEW i \in Phase, NEW k \in 1 .. new.committed[i]
          PROVE  <<i, new.intents[i].author, k>> \in store
      <4>1. CASE i = c /\ k = j.committed[c] + 1
        BY <1>1, <1>2, <4>1 DEF NextRecord
      <4>2. CASE ~ (i = c /\ k = j.committed[c] + 1)
        <5>1. k \in 1 .. j.committed[i]
          BY <3>2, <3>4, <3>6, <4>2
        <5> QED
          BY <1>2, <3>1, <5>1 DEF IInv, StoreFollowsJournal
      <4> QED
        BY <4>1, <4>2
    <3> QED
      BY <1>5, <3>1, <3>5, <3>6 DEF StoreFollowsJournal
  <2> QED
    BY <2>2, <2>3
<1> QED
  BY <1>6, <1>7, <1>8 DEF IInv

-----------------------------------------------------------------------------
(***************************************************************************)
(* The steps that leave the journal alone.                                 *)
(***************************************************************************)
LEMMA JournalKept ==
  ASSUME JournalInv, NEW p \in Process, journal' = journal,
         \A q \in Process : q # p => seen'[q] = seen[q],
         seen'[p] \in {seen[p], journal, NoJournal}
  PROVE  JournalInv'
<1>1. WellFormed(journal) /\ Behind(journal) /\ Behind(NoJournal) /\ WellFormed(NoJournal)
  BY ItselfIsBehind, NothingIsBehind, NoJournalFields DEF JournalInv
<1>2. ASSUME NEW q \in Process
      PROVE  WellFormed(seen'[q]) /\ Behind(seen'[q])
  BY <1>1 DEF JournalInv
<1> QED
  BY <1>1, <1>2 DEF JournalInv, Behind

\* The process reads the journal, or forgets what it read.
LEMMA LocalStep ==
  ASSUME IInv, NEW p \in Process, UNCHANGED <<disk, outside>>,
         TypeOK',
         \A q \in Process : q # p =>
           pc'[q] = pc[q] /\ seen'[q] = seen[q] /\ held'[q] = held[q],
         held'[p] \in {held[p], NotHeld},
         seen'[p] \in {journal, NoJournal},
         pc'[p] \notin {"dispatching", "calling"},
         Placed(p)', Supplied(p)'
  PROVE  IInv'
<1>1. JournalInv' /\ Grown
  <2>1. WellFormed(journal) /\ journal' = journal
    BY DEF IInv, JournalInv, disk
  <2> QED
    BY <2>1, JournalKept, SameGrows DEF IInv
<1>2. \A q \in Process : Placed(q)'
  BY StaysPlaced DEF IInv, disk
<1>3. CallsInv'
  BY <1>1, CallsKept DEF IInv, outside
<1>4. OutcomeInv'
  <2>1. ArchiveBacksPhase' /\ \A i \in Phase : archive'[i] # "none" => archive'[i] = answer'[i]
    BY DEF IInv, OutcomeInv, ArchiveBacksPhase, disk, outside
  <2>2. \A q \in Process : held'[q] # NotHeld => held'[q].outcome = answer'[held'[q].phase]
    BY DEF IInv, OutcomeInv, outside
  <2>3. ASSUME NEW q \in Process
        PROVE  Supplied(q)'
    BY DEF IInv, OutcomeInv, Supplied, Holds, disk
  <2> QED
    BY <2>1, <2>2, <2>3 DEF OutcomeInv
<1>5. StoreFollowsJournal'
  BY DEF IInv, StoreFollowsJournal, disk
<1> QED
  BY <1>1, <1>2, <1>3, <1>4, <1>5 DEF IInv

LEMMA ReadStep ==
  ASSUME IInv, NEW p \in Process,
         NEW to \in Stations \ {"dispatching", "calling"}, Read(p, to),
         Placed(p)', Supplied(p)'
  PROVE  IInv'
<1>1. TypeOK
  BY DEF IInv
<1>2. /\ pc' = [pc EXCEPT ![p] = to] /\ seen' = [seen EXCEPT ![p] = journal]
      /\ UNCHANGED <<disk, held, outside, faults>>
  BY DEF Read
<1>3. TypeOK'
  BY <1>1, <1>2 DEF TypeOK, disk, outside
<1>4. /\ pc'[p] = to /\ seen'[p] = journal
      /\ \A q \in Process : q # p => pc'[q] = pc[q] /\ seen'[q] = seen[q] /\ held'[q] = held[q]
  BY <1>1, <1>2 DEF TypeOK
<1> QED
  BY <1>2, <1>3, <1>4, LocalStep

LEMMA ReadToPrepareStep ==
  ASSUME IInv, NEW p \in Process, ReadToPrepare(p)
  PROVE  IInv'
<1>1. pc'[p] = "preparing" /\ seen'[p] = journal /\ Read(p, "preparing")
  BY DEF ReadToPrepare, Read, IInv, TypeOK
<1>2. journal.count = 0 \/ (Unfinished(journal) /\ LastState(journal) = "completed")
  BY DEF ReadToPrepare
<1>3. Placed(p)'
  BY <1>1, <1>2 DEF Placed, Unfinished, LastState, Planned
<1>4. Supplied(p)'
  BY <1>1 DEF Supplied
<1> QED
  BY <1>1, <1>3, <1>4, ReadStep DEF Stations

LEMMA ReadToInvokeStep ==
  ASSUME IInv, NEW p \in Process, ReadToInvoke(p)
  PROVE  IInv'
<1>1. pc'[p] = "opening" /\ seen'[p] = journal /\ Read(p, "opening")
  BY DEF ReadToInvoke, Read, IInv, TypeOK
<1>2. journal.count > 0 /\ LastState(journal) = "prepared"
  BY DEF ReadToInvoke, Unfinished
<1>3. Placed(p)'
  BY <1>1, <1>2 DEF Placed, LastState
<1>4. Supplied(p)'
  BY <1>1 DEF Supplied
<1> QED
  BY <1>1, <1>3, <1>4, ReadStep DEF Stations

LEMMA EntryValues ==
  ASSUME NEW p \in Process
  PROVE  \/ Entry(p) = "archiving" /\ Holds(p, journal.count)
         \/ /\ Entry(p) = "archiving"
            /\ LastState(journal) = "claimed" /\ archive[journal.count] # "none"
         \/ Entry(p) = "settling" /\ LastState(journal) = "archived"
         \/ Entry(p) = "publishing" /\ LastState(journal) = "prepared_writes"
         \/ Entry(p) = "idle"
<1> DEFINE i == journal.count
           s == LastState(journal)
<1>1. CASE Holds(p, i)
  BY <1>1 DEF Entry
<1>2. CASE ~ Holds(p, i) /\ s = "claimed" /\ archive[i] # "none"
  BY <1>2 DEF Entry
<1>3. CASE ~ Holds(p, i) /\ s = "archived"
  BY <1>3 DEF Entry
<1>4. CASE ~ Holds(p, i) /\ s = "prepared_writes"
  BY <1>4 DEF Entry
<1>5. CASE /\ ~ Holds(p, i) /\ ~ (s = "claimed" /\ archive[i] # "none")
           /\ s # "archived" /\ s # "prepared_writes"
  BY <1>5 DEF Entry
<1> QED
  BY <1>1, <1>2, <1>3, <1>4, <1>5

LEMMA ResumeStep ==
  ASSUME IInv, NEW p \in Process, Resume(p)
  PROVE  IInv'
<1> DEFINE to == Entry(p)
<1> HIDE DEF to
<1>1. /\ pc'[p] = to /\ seen'[p] = journal /\ Read(p, to) /\ to # "idle"
      /\ journal.count > 0
      /\ UNCHANGED <<journal, archive, held>>
  BY DEF Resume, Read, IInv, TypeOK, disk, to
<1>2. journal.count \in Phase
  BY <1>1, JournalFields DEF IInv, TypeOK
<1>3. Holds(p, journal.count) => LastState(journal) \in PastClaim
  <2>1. SUFFICES ASSUME Holds(p, journal.count)
                 PROVE  LastState(journal) \in PastClaim
    OBVIOUS
  <2>2. held[p].outcome \in Outcome /\ held[p].outcome = answer[journal.count]
    BY <2>1 DEF Holds, IInv, OutcomeInv, TypeOK
  <2>3. answer[journal.count] # "none"
    BY <2>2 DEF Outcome
  <2>4. calls[journal.count] = 1
    BY <1>2, <2>3 DEF IInv, CallsInv
  <2> QED
    BY <1>2, <2>4 DEF IInv, CallsInv, CalledOnce, PastClaim, LastState
<1>4. \/ /\ to = "archiving" /\ LastState(journal) \in PastClaim
         /\ Holds(p, journal.count) \/ archive[journal.count] # "none"
      \/ to = "settling" /\ LastState(journal) = "archived"
      \/ to = "publishing" /\ LastState(journal) = "prepared_writes"
  BY <1>1, <1>3, EntryValues DEF PastClaim, to
<1>5. Placed(p)'
  BY <1>1, <1>4 DEF Placed, LastState
<1>6. Supplied(p)'
  BY <1>1, <1>4 DEF Supplied, Holds
<1> QED
  BY <1>1, <1>4, <1>5, <1>6, ReadStep DEF Stations

LEMMA CrashStep ==
  ASSUME IInv, NEW p \in Process, Crash(p)
  PROVE  IInv'
<1>1. TypeOK /\ NoJournal \in Journal
  BY NoJournalFields DEF IInv, WellFormed
<1>2. TypeOK'
  BY <1>1, JournalAssumption DEF TypeOK, Crash, Failing, Stations, disk, outside
<1>3. /\ pc'[p] = "idle" /\ seen'[p] = NoJournal /\ held'[p] = NotHeld
      /\ \A q \in Process : q # p => pc'[q] = pc[q] /\ seen'[q] = seen[q] /\ held'[q] = held[q]
      /\ UNCHANGED <<disk, outside>>
  BY <1>1 DEF TypeOK, Crash
<1>4. Placed(p)' /\ Supplied(p)'
  BY <1>3, IdleIsPlaced DEF Supplied
<1> QED
  BY <1>2, <1>3, <1>4, LocalStep

LEMMA DispatchStep ==
  ASSUME IInv, NEW p \in Process, Dispatch(p)
  PROVE  IInv'
<1> DEFINE c == seen[p].count
<1>1. TypeOK /\ c \in Phase /\ Invoking(p, c) /\ pc[p] = "dispatching"
      /\ LastState(seen[p]) = "claimed" /\ seen[p].count > 0
  <2>1. TypeOK /\ seen[p].count > 0 /\ seen[p] \in Journal /\ LastState(seen[p]) = "claimed"
    BY DEF IInv, Placed, Dispatch, TypeOK
  <2> QED
    BY <2>1, JournalFields DEF Dispatch, Invoking
<1>2. /\ pc' = [pc EXCEPT ![p] = "calling"]
      /\ calls' = [calls EXCEPT ![c] = @ + 1]
      /\ UNCHANGED <<disk, seen, held, answer, overtaken, faults>>
  BY DEF Dispatch
<1>3. pc'[p] = "calling" /\ \A q \in Process : q # p => pc'[q] = pc[q]
  BY <1>1, <1>2 DEF TypeOK
<1>4. calls[c] = 0 /\ calls'[c] = 1 /\ \A i \in Phase : i # c => calls'[i] = calls[i]
  <2>1. calls[c] = 0
    BY <1>1 DEF IInv, CallsInv
  <2> QED
    BY <1>1, <1>2, <2>1 DEF TypeOK
<1>5. answer[c] = "none" /\ journal.state[c] \in PastClaim
  <2>1. answer[c] = "none"
    BY <1>1, <1>4 DEF IInv, CallsInv
  <2>2. journal.state[c] \in PastClaim
    BY <1>1, InvokersClaimed DEF IInv
  <2> QED
    BY <2>1, <2>2
<1>6. TypeOK'
  <2>1. calls' \in [Phase -> Nat]
    BY <1>1, <1>2 DEF TypeOK
  <2> QED
    BY <1>1, <1>2, <2>1 DEF TypeOK, Stations, disk
<1>7. JournalInv'
  BY <1>2, JournalKept DEF IInv, disk
<1>8. ASSUME NEW q \in Process
      PROVE  Placed(q)'
  BY <1>1, <1>2, <1>3, StaysPlaced DEF IInv, Placed, LastState, disk
<1>9. CallsInv'
  <2>1. CalledOnce'
    <3>1. ASSUME NEW i \in Phase
          PROVE  calls'[i] <= 1 /\ (calls'[i] = 1 => journal'.state[i] \in {"claimed"} \cup Answered)
      <4>1. journal' = journal
        BY <1>2 DEF disk
      <4>2. CASE i = c
        BY <1>4, <1>5, <4>1, <4>2 DEF PastClaim
      <4>3. CASE i # c
        BY <1>4, <4>1, <4>3 DEF IInv, CallsInv, CalledOnce
      <4> QED
        BY <4>2, <4>3
    <3> QED
      BY <3>1 DEF CalledOnce
  <2>2. \A i \in Phase : answer'[i] # "none" => calls'[i] = 1
    BY <1>2, <1>4, <1>5 DEF IInv, CallsInv
  <2>3. ASSUME NEW q \in Process
        PROVE  /\ pc'[q] = "dispatching" => calls'[seen'[q].count] = 0
               /\ pc'[q] = "calling" => calls'[seen'[q].count] = 1 /\ answer'[seen'[q].count] = "none"
    <3>1. CASE q = p
      BY <1>2, <1>3, <1>4, <1>5, <3>1
    <3>2. CASE q # p /\ pc[q] \in {"dispatching", "calling"}
      <4>1. seen[q].count # c /\ seen[q].count \in Phase
        BY <1>1, <3>2, InvokersClaimed DEF IInv, CallsInv, Invoking
      <4> QED
        BY <1>2, <1>3, <1>4, <3>2, <4>1 DEF IInv, CallsInv
    <3>3. CASE q # p /\ pc[q] \notin {"dispatching", "calling"}
      BY <1>3, <3>3
    <3> QED
      BY <3>1, <3>2, <3>3
  <2>4. ASSUME NEW q \in Process, NEW r \in Process, NEW i \in Phase,
               Invoking(q, i)', Invoking(r, i)'
        PROVE  q = r
    BY <1>1, <1>2, <1>3, <2>4 DEF IInv, CallsInv, Invoking
  <2> QED
    BY <2>1, <2>2, <2>3, <2>4 DEF CallsInv
<1>10. OutcomeInv'
  <2>1. WellFormed(journal)
    BY DEF IInv, JournalInv
  <2> QED
    BY <1>2, <1>3, OutcomesKept DEF IInv, disk
<1>11. StoreFollowsJournal'
  BY <1>2 DEF IInv, StoreFollowsJournal, disk
<1> QED
  BY <1>6, <1>7, <1>8, <1>9, <1>10, <1>11 DEF IInv

LEMMA AnswerStep ==
  ASSUME IInv, NEW p \in Process, Answer(p)
  PROVE  IInv'
<1> DEFINE c == seen[p].count
<1>1. TypeOK /\ c \in Phase /\ pc[p] = "calling"
      /\ LastState(seen[p]) = "claimed" /\ seen[p].count > 0
  <2>1. TypeOK /\ seen[p].count > 0 /\ seen[p] \in Journal /\ LastState(seen[p]) = "claimed"
    BY DEF IInv, Placed, Answer, TypeOK
  <2> QED
    BY <2>1, JournalFields DEF Answer
<1>2. PICK o \in Outcome : /\ held' = [held EXCEPT ![p] = [phase |-> c, outcome |-> o]]
                           /\ answer' = [answer EXCEPT ![c] = o]
  BY DEF Answer
<1>3. /\ pc' = [pc EXCEPT ![p] = "archiving"]
      /\ UNCHANGED <<disk, seen, calls, overtaken, faults>>
  BY DEF Answer
<1>4. /\ pc'[p] = "archiving" /\ \A q \in Process : q # p => pc'[q] = pc[q]
      /\ held'[p] = [phase |-> c, outcome |-> o]
      /\ \A q \in Process : q # p => held'[q] = held[q]
      /\ answer'[c] = o /\ \A i \in Phase : i # c => answer'[i] = answer[i]
  BY <1>1, <1>2, <1>3 DEF TypeOK
<1>5. calls[c] = 1 /\ answer[c] = "none"
  BY <1>1 DEF IInv, CallsInv
<1>6. archive[c] = "none" /\ journal.state[c] \notin Answered
  BY <1>1, <1>5 DEF IInv, OutcomeInv, ArchiveBacksPhase
<1>7. held'[p] # NotHeld /\ held'[p].phase = c /\ held'[p].outcome = o
  <2>1. NotHeld.phase = 0 /\ c # 0
    BY <1>1, PhaseFacts DEF NotHeld
  <2> QED
    BY <1>4, <2>1
<1>8. TypeOK'
  <2>1. answer' \in [Phase -> Outcome \cup {"none"}]
    BY <1>1, <1>2 DEF TypeOK
  <2>2. held' \in [Process -> {NotHeld} \cup [phase : Phase, outcome : Outcome]]
    BY <1>1, <1>2 DEF TypeOK
  <2> QED
    BY <1>1, <1>3, <2>1, <2>2 DEF TypeOK, Stations, disk
<1>9. JournalInv'
  BY <1>3, JournalKept DEF IInv, disk
<1>10. ASSUME NEW q \in Process
       PROVE  Placed(q)'
  <2>1. CASE q = p
    BY <1>1, <1>3, <1>4, <2>1 DEF Placed, LastState, PastClaim
  <2>2. CASE q # p
    BY <1>3, <1>4, <2>2, StaysPlaced DEF IInv, disk
  <2> QED
    BY <2>1, <2>2
<1>11. CallsInv'
  <2>1. CalledOnce'
    BY <1>3 DEF IInv, CallsInv, CalledOnce, disk
  <2>2. \A i \in Phase : answer'[i] # "none" => calls'[i] = 1
    BY <1>3, <1>4, <1>5 DEF IInv, CallsInv
  <2>3. ASSUME NEW q \in Process
        PROVE  /\ pc'[q] = "dispatching" => calls'[seen'[q].count] = 0
               /\ pc'[q] = "calling" => calls'[seen'[q].count] = 1 /\ answer'[seen'[q].count] = "none"
    <3>1. CASE q = p
      BY <1>4, <3>1
    <3>2. CASE q # p /\ pc[q] = "calling"
      <4>1. seen[q].count # c /\ seen[q].count \in Phase
        BY <1>1, <3>2, InvokersClaimed DEF IInv, CallsInv, Invoking
      <4> QED
        BY <1>3, <1>4, <3>2, <4>1 DEF IInv, CallsInv
    <3>3. CASE q # p /\ pc[q] # "calling"
      BY <1>3, <1>4, <3>3 DEF IInv, CallsInv
    <3> QED
      BY <3>1, <3>2, <3>3
  <2>4. ASSUME NEW q \in Process, NEW r \in Process, NEW i \in Phase,
               Invoking(q, i)', Invoking(r, i)'
        PROVE  q = r
    BY <1>3, <1>4, <2>4 DEF IInv, CallsInv, Invoking
  <2> QED
    BY <2>1, <2>2, <2>3, <2>4 DEF CallsInv
<1>12. OutcomeInv'
  <2>1. ArchiveBacksPhase'
    BY <1>3, <1>4, <1>6 DEF IInv, OutcomeInv, ArchiveBacksPhase, disk
  <2>2. \A i \in Phase : archive'[i] # "none" => archive'[i] = answer'[i]
    BY <1>3, <1>4, <1>6 DEF IInv, OutcomeInv, disk
  <2>3. ASSUME NEW q \in Process, held'[q] # NotHeld
        PROVE  held'[q].outcome = answer'[held'[q].phase]
    <3>1. CASE q = p
      BY <1>4, <1>7, <3>1
    <3>2. CASE q # p
      <4>1. /\ held'[q] = held[q] /\ held[q] # NotHeld
            /\ held[q].phase \in Phase /\ held[q].outcome \in Outcome
            /\ held[q].outcome = answer[held[q].phase]
        BY <1>1, <1>4, <2>3, <3>2 DEF IInv, OutcomeInv, TypeOK
      <4>2. held[q].phase # c
        BY <1>5, <4>1 DEF Outcome
      <4> QED
        BY <1>4, <4>1, <4>2
    <3> QED
      BY <3>1, <3>2
  <2>4. ASSUME NEW q \in Process
        PROVE  Supplied(q)'
    <3>1. CASE q = p
      BY <1>3, <1>4, <1>7, <3>1 DEF Supplied, Holds
    <3>2. CASE q # p
      BY <1>3, <1>4, <3>2 DEF IInv, OutcomeInv, Supplied, Holds, disk
    <3> QED
      BY <3>1, <3>2
  <2> QED
    BY <2>1, <2>2, <2>3, <2>4 DEF OutcomeInv
<1>13. StoreFollowsJournal'
  BY <1>3 DEF IInv, StoreFollowsJournal, disk
<1> QED
  BY <1>8, <1>9, <1>10, <1>11, <1>12, <1>13 DEF IInv

\* What is at hand is what the provider answered.
LEMMA AtHandIsAnswer ==
  ASSUME IInv, NEW p \in Process, pc[p] = "archiving"
  PROVE  /\ seen[p].count \in Phase
         /\ AtHand(p) \in Outcome
         /\ AtHand(p) = answer[seen[p].count]
<1> DEFINE c == seen[p].count
<1>1. TypeOK /\ c \in Phase
  <2>1. TypeOK /\ seen[p] \in Journal /\ seen[p].count > 0
    BY DEF IInv, TypeOK, Placed
  <2> QED
    BY <2>1, JournalFields
<1>2. Holds(p, c) \/ archive[c] # "none"
  BY DEF IInv, OutcomeInv, Supplied
<1>3. CASE Holds(p, c)
  BY <1>1, <1>3 DEF IInv, OutcomeInv, Holds, AtHand, TypeOK
<1>4. CASE ~ Holds(p, c)
  BY <1>1, <1>2, <1>4 DEF IInv, OutcomeInv, AtHand, TypeOK
<1> QED
  BY <1>1, <1>3, <1>4

LEMMA ArchiveStep ==
  ASSUME IInv, NEW p \in Process, Archive(p)
  PROVE  IInv'
<1> DEFINE c == seen[p].count
           o == AtHand(p)
<1> HIDE DEF o
<1>1. /\ TypeOK /\ NoJournal \in Journal /\ pc[p] = "archiving"
      /\ seen[p].count > 0 /\ LastState(seen[p]) \in PastClaim
  BY NoJournalFields DEF IInv, Archive, Placed, WellFormed
<1>2. c \in Phase /\ o \in Outcome /\ o = answer[c]
  BY <1>1, AtHandIsAnswer DEF o
<1>3. UNCHANGED <<journal, store, held, outside>>
  BY DEF Archive
<1>4. faults' \in 0 .. MaxFaults
  BY <1>1, JournalAssumption DEF Archive, Failing, TypeOK
<1>5. archive' \in {archive, [archive EXCEPT ![c] = o]}
  BY DEF Archive, Archived, o
<1>6. \/ pc' = [pc EXCEPT ![p] = "recording"] /\ seen' = seen /\ archive' = [archive EXCEPT ![c] = o]
      \/ pc' = [pc EXCEPT ![p] = "idle"] /\ seen' = [seen EXCEPT ![p] = NoJournal]
  BY DEF Archive, Archived, Thrown, o
<1>7. /\ \A q \in Process : q # p => pc'[q] = pc[q] /\ seen'[q] = seen[q]
      /\ \/ pc'[p] = "recording" /\ seen'[p] = seen[p] /\ archive'[c] = o
         \/ pc'[p] = "idle" /\ seen'[p] = NoJournal
  BY <1>1, <1>2, <1>6 DEF TypeOK
<1>8. \A i \in Phase : archive'[i] = archive[i] \/ (i = c /\ archive'[i] = o)
  BY <1>1, <1>5 DEF TypeOK
<1>9. o # "none"
  BY <1>2 DEF Outcome
<1>10. TypeOK'
  <2>1. archive' \in [Phase -> Outcome \cup {"none"}]
    BY <1>1, <1>2, <1>5 DEF TypeOK
  <2>2. pc' \in [Process -> Stations] /\ seen' \in [Process -> Journal]
    BY <1>1, <1>6 DEF TypeOK, Stations
  <2> QED
    BY <1>1, <1>3, <1>4, <2>1, <2>2 DEF TypeOK, outside
<1>11. JournalInv' /\ Grown
  <2>1. WellFormed(journal)
    BY DEF IInv, JournalInv
  <2> QED
    BY <1>3, <1>7, <2>1, JournalKept, SameGrows DEF IInv
<1>12. ASSUME NEW q \in Process
       PROVE  Placed(q)'
  <2>1. CASE q # p
    BY <1>3, <1>7, <2>1, StaysPlaced DEF IInv
  <2>2. CASE q = p /\ pc'[p] = "idle"
    BY <1>7, <2>2, IdleIsPlaced
  <2>3. CASE q = p /\ pc'[p] = "recording"
    BY <1>1, <1>7, <2>3 DEF Placed, LastState
  <2> QED
    BY <1>7, <2>1, <2>2, <2>3
<1>13. CallsInv'
  BY <1>3, <1>7, <1>11, CallsKept DEF IInv, outside
<1>14. OutcomeInv'
  <2>1. ArchiveBacksPhase' /\ \A i \in Phase : archive'[i] # "none" => archive'[i] = answer'[i]
    BY <1>2, <1>3, <1>8, <1>9 DEF IInv, OutcomeInv, ArchiveBacksPhase, outside
  <2>2. \A q \in Process : held'[q] # NotHeld => held'[q].outcome = answer'[held'[q].phase]
    BY <1>3 DEF IInv, OutcomeInv, outside
  <2>3. ASSUME NEW q \in Process
        PROVE  Supplied(q)'
    <3>1. CASE q = p
      BY <1>7, <1>9, <3>1 DEF Supplied
    <3>2. CASE q # p /\ pc[q] \in {"archiving", "recording"}
      <4>1. seen[q].count \in Phase
        <5>1. seen[q] \in Journal /\ seen[q].count > 0
          BY <1>1, <3>2 DEF IInv, TypeOK, Placed
        <5> QED
          BY <5>1, JournalFields
      <4>2. archive[seen[q].count] # "none" => archive'[seen[q].count] # "none"
        BY <1>8, <1>9, <4>1
      <4> QED
        BY <1>3, <1>7, <3>2, <4>2 DEF IInv, OutcomeInv, Supplied, Holds
    <3>3. CASE q # p /\ pc[q] \notin {"archiving", "recording"}
      BY <1>7, <3>3 DEF Supplied
    <3> QED
      BY <3>1, <3>2, <3>3
  <2> QED
    BY <2>1, <2>2, <2>3 DEF OutcomeInv
<1>15. StoreFollowsJournal'
  BY <1>3 DEF IInv, StoreFollowsJournal
<1> QED
  BY <1>10, <1>11, <1>12, <1>13, <1>14, <1>15 DEF IInv

LEMMA PublishStep ==
  ASSUME IInv, NEW p \in Process, Publish(p)
  PROVE  IInv'
<1> DEFINE j == seen[p]
           c == j.count
           r == NextRecord(j)
<1> HIDE DEF r
<1>1. /\ TypeOK /\ NoJournal \in Journal /\ pc[p] = "publishing" /\ Pending(j)
      /\ WellFormed(j) /\ Behind(j) /\ j.count > 0 /\ LastState(j) = "prepared_writes"
  BY NoJournalFields DEF IInv, JournalInv, Publish, Placed, WellFormed
<1>2. c \in Phase /\ j \in Journal
  BY <1>1, JournalFields DEF WellFormed
<1>3. UNCHANGED <<journal, archive, held, outside>>
  BY DEF Publish
<1>4. faults' \in 0 .. MaxFaults
  BY <1>1, JournalAssumption DEF Publish, Failing, TypeOK
<1>5. store' \in {store, store \cup {r}}
  BY DEF Publish, r
<1>6. \/ pc' = [pc EXCEPT ![p] = "committing"] /\ seen' = seen /\ store' = store \cup {r}
      \/ pc' = [pc EXCEPT ![p] = "idle"] /\ seen' = [seen EXCEPT ![p] = NoJournal]
  BY DEF Publish, Thrown, r
<1>7. /\ \A q \in Process : q # p => pc'[q] = pc[q] /\ seen'[q] = seen[q]
      /\ \/ pc'[p] = "committing" /\ seen'[p] = j /\ r \in store'
         \/ pc'[p] = "idle" /\ seen'[p] = NoJournal
  BY <1>1, <1>6 DEF TypeOK
<1>8. /\ r[1] = c /\ r[2] = journal.intents[c].author
      /\ r[2] \in Process /\ r[3] \in 1 .. MaxWrites
      /\ r[3] <= journal.intents[c].size /\ r[3] <= journal.committed[c] + 1
      /\ r = <<r[1], r[2], r[3]>>
  <2>1. j.intents[c] \in Intents /\ j.committed[c] < j.intents[c].size
    BY <1>1, <1>2 DEF WellFormed, LastState, Pending
  <2>2. j.intents[c].author \in Process /\ j.intents[c].size \in 0 .. MaxWrites
        /\ j.intents[c] # NoIntents
    BY <2>1, IntentFields, JournalAssumption DEF NoIntents
  <2>3. journal.intents[c] = j.intents[c] /\ j.committed[c] <= journal.committed[c]
    BY <1>1, <1>2, <2>2 DEF Behind
  <2>4. j.committed[c] \in Nat /\ journal.committed[c] \in Nat
    BY <1>1, <1>2, JournalFields, JournalAssumption DEF TypeOK
  <2> QED
    BY <2>1, <2>2, <2>3, <2>4, JournalAssumption DEF NextRecord, r
<1>9. TypeOK'
  <2>1. store' \subseteq Phase \X Process \X (1 .. MaxWrites)
    BY <1>1, <1>2, <1>5, <1>8 DEF TypeOK
  <2>2. pc' \in [Process -> Stations] /\ seen' \in [Process -> Journal]
    BY <1>1, <1>6 DEF TypeOK, Stations
  <2> QED
    BY <1>1, <1>3, <1>4, <2>1, <2>2 DEF TypeOK, outside
<1>10. JournalInv' /\ Grown
  <2>1. WellFormed(journal)
    BY DEF IInv, JournalInv
  <2> QED
    BY <1>3, <1>7, <2>1, JournalKept, SameGrows DEF IInv
<1>11. ASSUME NEW q \in Process
       PROVE  Placed(q)'
  <2>1. CASE q # p
    BY <1>5, <1>7, <2>1, StaysPlaced DEF IInv
  <2>2. CASE q = p /\ pc'[p] = "idle"
    BY <1>7, <2>2, IdleIsPlaced
  <2>3. CASE q = p /\ pc'[p] = "committing"
    BY <1>1, <1>7, <2>3 DEF Placed, LastState, r
  <2> QED
    BY <1>7, <2>1, <2>2, <2>3
<1>12. CallsInv'
  BY <1>3, <1>7, <1>10, CallsKept DEF IInv, outside
<1>13. OutcomeInv'
  BY <1>3, <1>7, OutcomesKept DEF IInv, outside
<1>14. StoreFollowsJournal'
  BY <1>3, <1>5, <1>8 DEF IInv, StoreFollowsJournal
<1> QED
  BY <1>9, <1>10, <1>11, <1>12, <1>13, <1>14 DEF IInv

LEMMA OvertakeStep ==
  ASSUME IInv, Overtake
  PROVE  IInv'
<1>1. UNCHANGED <<disk, pc, seen, held, calls, answer, faults>>
  BY DEF Overtake
<1>2. TypeOK'
  <2>1. TypeOK
    BY DEF IInv
  <2>2. PICK k \in 1 .. journal.intents[1].size : overtaken' = k
    BY DEF Overtake
  <2>3. journal.intents[1].size \in 0 .. MaxWrites
    BY <2>1, JournalFields, IntentFields, PhaseFacts DEF TypeOK
  <2>4. overtaken' \in 0 .. MaxWrites
    BY <2>2, <2>3, JournalAssumption
  <2> QED
    BY <1>1, <2>1, <2>4 DEF TypeOK, disk
<1>3. JournalInv'
  BY <1>1 DEF IInv, JournalInv, Behind, disk
<1>4. \A p \in Process : Placed(p)'
  BY <1>1 DEF IInv, Placed, disk
<1>5. CallsInv'
  BY <1>1 DEF IInv, CallsInv, CalledOnce, Invoking, disk
<1>6. OutcomeInv'
  BY <1>1 DEF IInv, OutcomeInv, ArchiveBacksPhase, Supplied, Holds, disk
<1>7. StoreFollowsJournal'
  BY <1>1 DEF IInv, StoreFollowsJournal, disk
<1> QED
  BY <1>2, <1>3, <1>4, <1>5, <1>6, <1>7 DEF IInv

-----------------------------------------------------------------------------
(***************************************************************************)
(* The theorems.                                                           *)
(***************************************************************************)
LEMMA InitStep ==
  ASSUME Init
  PROVE  IInv
<1>1. TypeOK
  BY NoJournalFields, JournalAssumption DEF Init, TypeOK, WellFormed, Stations
<1>2. JournalInv
  BY NoJournalFields, NothingIsBehind DEF Init, JournalInv
<1>3. \A p \in Process : Placed(p)
  BY DEF Init, Placed
<1>4. CallsInv
  BY DEF Init, CallsInv, CalledOnce, Invoking
<1>5. OutcomeInv
  BY NoJournalFields DEF Init, OutcomeInv, ArchiveBacksPhase, Supplied, Answered
<1>6. StoreFollowsJournal
  BY NoJournalFields DEF Init, StoreFollowsJournal
<1> QED
  BY <1>1, <1>2, <1>3, <1>4, <1>5, <1>6 DEF IInv

LEMMA StutterStep ==
  ASSUME IInv, UNCHANGED vars
  PROVE  IInv'
<1>1. UNCHANGED <<journal, archive, store, pc, seen, held, calls, answer, overtaken, faults>>
  BY DEF vars, disk, outside
<1> QED
  BY <1>1 DEF IInv, TypeOK, JournalInv, Behind, Placed, CallsInv, CalledOnce, Invoking,
     OutcomeInv, ArchiveBacksPhase, Supplied, Holds, StoreFollowsJournal

\* The journal is well formed and every process works on a version of it.
THEOREM JournalInvariant == Spec => []IInv
<1>1. Init => IInv
  BY InitStep
<1>2. IInv /\ [Next]_vars => IInv'
  <2>1. SUFFICES ASSUME IInv, [Next]_vars
                 PROVE  IInv'
    OBVIOUS
  <2>2. CASE Overtake
    BY <2>1, <2>2, OvertakeStep
  <2>3. ASSUME NEW p \in Process,
               \/ ReadToPrepare(p) \/ ReadToInvoke(p) \/ Answer(p)
               \/ Proceed(p) \/ Resume(p) \/ Crash(p)
        PROVE  IInv'
    <3>1. CASE ReadToPrepare(p)
      BY <2>1, <3>1, ReadToPrepareStep
    <3>2. CASE ReadToInvoke(p)
      BY <2>1, <3>2, ReadToInvokeStep
    <3>3. CASE Answer(p)
      BY <2>1, <3>3, AnswerStep
    <3>4. CASE Prepare(p)
      BY <2>1, <3>4, PrepareStep
    <3>5. CASE Gate(p)
      BY <2>1, <3>5, GateStep
    <3>6. CASE Dispatch(p)
      BY <2>1, <3>6, DispatchStep
    <3>7. CASE Archive(p)
      BY <2>1, <3>7, ArchiveStep
    <3>8. CASE Record(p)
      BY <2>1, <3>8, RecordStep
    <3>9. CASE Settle(p)
      BY <2>1, <3>9, SettleStep
    <3>10. CASE Publish(p)
      BY <2>1, <3>10, PublishStep
    <3>11. CASE Commit(p)
      BY <2>1, <3>11, CommitStep
    <3>12. CASE Complete(p)
      BY <2>1, <3>12, CompleteStep
    <3>13. CASE Resume(p)
      BY <2>1, <3>13, ResumeStep
    <3>14. CASE Crash(p)
      BY <2>1, <3>14, CrashStep
    <3> QED
      BY <2>3, <3>1, <3>2, <3>3, <3>4, <3>5, <3>6, <3>7, <3>8, <3>9, <3>10, <3>11,
         <3>12, <3>13, <3>14 DEF Proceed
  <2>4. CASE UNCHANGED vars
    BY <2>1, <2>4, StutterStep
  <2> QED
    BY <2>1, <2>2, <2>3, <2>4 DEF Next
<1> QED
  BY <1>1, <1>2, PTL DEF Spec

\* Journals, archives and what processes hold keep their types.
THEOREM TypeCorrect == Spec => []TypeOK
<1>1. IInv => TypeOK
  BY DEF IInv
<1> QED
  BY <1>1, JournalInvariant, PTL

\* No phase of a run is paid for twice, and none whose claim is not on disk.
THEOREM CalledOnceHolds == Spec => []CalledOnce
<1>1. IInv => CalledOnce
  BY DEF IInv, CallsInv
<1> QED
  BY <1>1, JournalInvariant, PTL

\* A phase past its claim has what the provider answered in its archive.
THEOREM ArchiveBacksPhaseHolds == Spec => []ArchiveBacksPhase
<1>1. IInv => ArchiveBacksPhase
  BY DEF IInv, OutcomeInv
<1> QED
  BY <1>1, JournalInvariant, PTL

\* What is stored are the pinned intents, in order, and at most one record more
\* than the journal counts.
THEOREM StoreFollowsJournalHolds == Spec => []StoreFollowsJournal
<1>1. IInv => StoreFollowsJournal
  BY DEF IInv
<1> QED
  BY <1>1, JournalInvariant, PTL
===============================================================================
