---------------------------- MODULE GenerationJournal ----------------------------
(***************************************************************************)
(* One generation run: a sequence of phases, each of which pays for one    *)
(* model call and publishes what it yields                                 *)
(* (src/knowledge/application/body-generation.ts), recorded in a journal   *)
(* on disk (src/knowledge/adapters/generation-journal-store.ts).  Several  *)
(* processes work on the same run, each dies at any point, and any of them *)
(* resumes what another left.                                              *)
(*                                                                         *)
(* Every write of the workspace is one transaction under its lock (Mutex)  *)
(* and one rename, so it is one step here; between two writes of a process *)
(* the others interleave.  A process is one BodyGenerationApplication.     *)
(***************************************************************************)
EXTENDS Naturals

CONSTANTS
  Process,    \* the applications that share the workspace
  MaxPhases,  \* how many phases a run may have (the code: 9)
  Windows,    \* how many windows a long body may be cut into
  MaxWrites,  \* how many records one phase may publish
  MaxFaults,  \* how many crashes and failing calls there may be
  Nobody      \* no process: a phase whose intents are not computed yet

ASSUME JournalAssumption ==
  /\ MaxPhases \in Nat /\ MaxPhases >= 2
  /\ Windows \subseteq 1 .. (MaxPhases - 1)
  /\ MaxWrites \in Nat /\ MaxWrites >= 1
  /\ MaxFaults \in Nat
  /\ Nobody \notin Process

Phase == 1 .. MaxPhases

\* The modes of a run; a review that is given a ledger has no ledger phase.
Mode == {"generate", "review_sources", "review_with_ledger", "rebuild_associations"}

State == {"prepared", "claimed", "archived", "prepared_writes", "completed", "failed"}
Ended == {"completed", "failed"}
Answered == {"archived", "prepared_writes", "completed", "failed"}

\* What the provider returns: output that may pass the host's checks, or an
\* exception, a refusal or output that cannot.
Outcome == {"valid", "invalid"}

\* The write intents a phase pins: who computed them, with fresh identities, and
\* how many they are.
Intents == [author : Process, size : 0 .. MaxWrites]
NoIntents == [author |-> Nobody, size |-> 0]

\* The journal of a run: its generation, and for each phase its state, its
\* intents and how many of them are known to be stored.
Journal ==
  [generation : Nat,
   mode : Mode \cup {"none"},
   windows : {0} \cup Windows,
   count : 0 .. MaxPhases,
   state : [Phase -> State \cup {"absent"}],
   intents : [Phase -> Intents \cup {NoIntents}],
   committed : [Phase -> 0 .. MaxWrites]]

NoJournal ==
  [generation |-> 0, mode |-> "none", windows |-> 0, count |-> 0,
   state |-> [i \in Phase |-> "absent"],
   intents |-> [i \in Phase |-> NoIntents],
   committed |-> [i \in Phase |-> 0]]

NotHeld == [phase |-> 0, outcome |-> "none"]

VARIABLES
  journal,  \* the journal file
  archive,  \* the outcome archived for each phase, or "none"
  store,    \* the records published: <<phase, author, number>>
  pc,       \* where each process is
  seen,     \* the journal as each process last read or wrote it
  held,     \* the outcome a process holds in memory, not known to be archived
  calls,    \* history: how often the provider was called for each phase
  answer,   \* history: what it answered
  overtaken,  \* the record another writer of its history has overtaken, or 0
  faults    \* how many crashes and failures there were

disk == <<journal, archive, store>>
outside == <<calls, answer, overtaken>>
vars == <<disk, pc, seen, held, outside, faults>>

Stations == {"idle", "preparing", "opening", "dispatching", "calling", "archiving",
             "recording", "settling", "publishing", "committing"}

TypeOK ==
  /\ journal \in Journal
  /\ archive \in [Phase -> Outcome \cup {"none"}]
  /\ store \subseteq Phase \X Process \X (1 .. MaxWrites)
  /\ pc \in [Process -> Stations]
  /\ seen \in [Process -> Journal]
  /\ held \in [Process -> {NotHeld} \cup [phase : Phase, outcome : Outcome]]
  /\ calls \in [Phase -> Nat]
  /\ answer \in [Phase -> Outcome \cup {"none"}]
  /\ overtaken \in 0 .. MaxWrites
  /\ faults \in 0 .. MaxFaults

Init ==
  /\ journal = NoJournal
  /\ archive = [i \in Phase |-> "none"]
  /\ store = {}
  /\ pc = [p \in Process |-> "idle"]
  /\ seen = [p \in Process |-> NoJournal]
  /\ held = [p \in Process |-> NotHeld]
  /\ calls = [i \in Phase |-> 0]
  /\ answer = [i \in Phase |-> "none"]
  /\ overtaken = 0
  /\ faults = 0

-----------------------------------------------------------------------------
(***************************************************************************)
(* Phases.                                                                 *)
(***************************************************************************)

\* The number of phases of the run, as far as it is known.
Planned(j) ==
  CASE j.mode = "generate" -> 1 + (IF j.windows = 0 THEN 1 ELSE j.windows)
    [] j.mode = "review_sources" -> 2
    [] OTHER -> 1

\* A writing draft and every window but the last publish nothing.
ArchiveOnly(j, i) == j.mode = "generate" /\ i < Planned(j)

LastState(j) == j.state[j.count]

\* journal.status is 'active'.
Unfinished(j) ==
  /\ j.count > 0
  /\ LastState(j) # "failed"
  /\ ~ (LastState(j) = "completed" /\ j.count = Planned(j))

Rank(s) ==
  CASE s = "absent" -> 0
    [] s = "prepared" -> 1
    [] s = "claimed" -> 2
    [] s = "archived" -> 3
    [] s = "prepared_writes" -> 4
    [] s = "completed" -> 5
    [] s = "failed" -> 6

\* The journal with its last phase in another state.
Moved(j, s) ==
  [j EXCEPT !.generation = @ + 1, !.state[j.count] = s]

-----------------------------------------------------------------------------
(***************************************************************************)
(* The journal store.                                                      *)
(***************************************************************************)

\* What write() refuses even at the expected generation: a phase that moves
\* backwards or out of its end, that forgets what it published or intended to,
\* or that is claimed without having been prepared.
Legal(old, new) ==
  \A i \in Phase :
    /\ Rank(new.state[i]) >= Rank(old.state[i])
    /\ old.state[i] \in Ended => new.state[i] = old.state[i]
    /\ new.committed[i] >= old.committed[i]
    /\ old.intents[i] # NoIntents => new.intents[i] = old.intents[i]
    /\ new.state[i] = "claimed" => old.state[i] \in {"prepared", "claimed"}

\* Mutant of Accepted: the generation is not compared.
AcceptedAnyway(p, new) == Legal(journal, new)

\* write() under the lock: the journal is still the one the caller read.
Accepted(p, new) ==
  /\ journal.generation = seen[p].generation
  /\ Legal(journal, new)

Failing == faults < MaxFaults /\ faults' = faults + 1

\* The error leaves the operation; inFlight is cleared, held is not.
Thrown(p) ==
  /\ pc' = [pc EXCEPT ![p] = "idle"]
  /\ seen' = [seen EXCEPT ![p] = NoJournal]

\* A call of write(): the journal is replaced and the operation goes on; or it
\* is refused; or the lock, the disk or a check fails before the rename, or the
\* directory cannot be synced after it.
Persist(p, new, to) ==
  \/ /\ Accepted(p, new)
     /\ journal' = new
     /\ pc' = [pc EXCEPT ![p] = to]
     /\ seen' = [seen EXCEPT ![p] = IF to = "idle" THEN NoJournal ELSE new]
     /\ UNCHANGED faults
  \/ /\ ~ Accepted(p, new)
     /\ Thrown(p)
     /\ UNCHANGED <<journal, faults>>
  \/ /\ Failing
     /\ Thrown(p)
     /\ UNCHANGED journal \/ (Accepted(p, new) /\ journal' = new)

-----------------------------------------------------------------------------
(***************************************************************************)
(* prepareGeneration, prepareSourceReview, prepareAssociationRebuild.      *)
(***************************************************************************)

\* idle(): neither a call in flight nor an outcome held.
Quiet(p) == pc[p] = "idle" /\ held[p] = NotHeld

Read(p, to) ==
  /\ pc' = [pc EXCEPT ![p] = to]
  /\ seen' = [seen EXCEPT ![p] = journal]
  /\ UNCHANGED <<disk, held, outside, faults>>

\* There is no journal yet, or its last phase is completed and another follows.
ReadToPrepare(p) ==
  /\ Quiet(p)
  /\ journal.count = 0 \/ (Unfinished(journal) /\ LastState(journal) = "completed")
  /\ Read(p, "preparing")

\* A run begins with one phase.
Started(m) ==
  [NoJournal EXCEPT !.generation = 1, !.mode = m, !.count = 1, !.state[1] = "prepared"]

Continued(j, w) ==
  [j EXCEPT !.generation = @ + 1, !.windows = w, !.count = @ + 1,
            !.state[j.count + 1] = "prepared"]

\* A body that is too long for one request is cut into windows when its draft
\* is there.
Extended(j) ==
  IF j.count = 0
  THEN {Started(m) : m \in Mode}
  ELSE {Continued(j, w) : w \in IF j.mode = "generate" /\ j.count = 1
                                THEN {0} \cup Windows ELSE {j.windows}}

Prepare(p) ==
  /\ pc[p] = "preparing"
  /\ \E new \in Extended(seen[p]) : Persist(p, new, "idle")
  /\ UNCHANGED <<archive, store, held, outside>>

-----------------------------------------------------------------------------
(***************************************************************************)
(* invoke: one claimed call of the provider.                               *)
(***************************************************************************)

\* generate, rebuild, continueStage: the last phase was never claimed.
ReadToInvoke(p) ==
  /\ Quiet(p)
  /\ Unfinished(journal)
  /\ LastState(journal) = "prepared"
  /\ Read(p, "opening")

\* The gate the producer runs immediately before it dispatches: the claim is
\* recorded, or nothing is dispatched and nothing was answered.
Gate(p) ==
  /\ pc[p] = "opening"
  /\ Persist(p, Moved(seen[p], "claimed"), "dispatching")
  /\ UNCHANGED <<archive, store, held, outside>>

\* The request leaves the process.
Dispatch(p) ==
  /\ pc[p] = "dispatching"
  /\ pc' = [pc EXCEPT ![p] = "calling"]
  /\ calls' = [calls EXCEPT ![seen[p].count] = @ + 1]
  /\ UNCHANGED <<disk, seen, held, answer, overtaken, faults>>

\* The provider answers, or the call ends in an exception or a timeout: both are
\* an outcome, which the process holds until it is archived and recorded.
Answer(p) ==
  /\ pc[p] = "calling"
  /\ pc' = [pc EXCEPT ![p] = "archiving"]
  /\ \E o \in Outcome :
       /\ held' = [held EXCEPT ![p] = [phase |-> seen[p].count, outcome |-> o]]
       /\ answer' = [answer EXCEPT ![seen[p].count] = o]
  /\ UNCHANGED <<disk, seen, calls, overtaken, faults>>

-----------------------------------------------------------------------------
(***************************************************************************)
(* Archiving and recording an outcome: invoke and resume.                  *)
(***************************************************************************)

Holds(p, i) == held[p] # NotHeld /\ held[p].phase = i

\* The outcome at hand: the one held for this phase, or the archived one.
AtHand(p) ==
  LET i == seen[p].count
  IN  IF Holds(p, i) THEN held[p].outcome ELSE archive[i]

\* archive() demands a claim on disk, and an archive that is there already must
\* hold the same bytes.
Archivable(p) ==
  LET i == seen[p].count
  IN  /\ journal.state[i] \in {"claimed"} \cup Answered
      /\ archive[i] \in {"none", AtHand(p)}

\* Mutant of Archived: the reference is returned, the file not written.
NotArchived(p) == UNCHANGED archive

Archived(p) == archive' = [archive EXCEPT ![seen[p].count] = AtHand(p)]

Archive(p) ==
  /\ pc[p] = "archiving"
  /\ \/ /\ Archivable(p)
        /\ Archived(p)
        /\ pc' = [pc EXCEPT ![p] = "recording"]
        /\ UNCHANGED <<seen, faults>>
     \/ /\ ~ Archivable(p)
        /\ Thrown(p)
        /\ UNCHANGED <<archive, faults>>
     \/ /\ Failing
        /\ Thrown(p)
        /\ UNCHANGED archive \/ (Archivable(p) /\ Archived(p))
  /\ UNCHANGED <<journal, store, held, outside>>

\* The phase is recorded as archived; only then is the outcome let go.
Record(p) ==
  /\ pc[p] = "recording"
  /\ Persist(p, Moved(seen[p], "archived"), "settling")
  /\ held' = IF pc'[p] = "settling" /\ Holds(p, seen[p].count)
             THEN [held EXCEPT ![p] = NotHeld]
             ELSE held
  /\ UNCHANGED <<archive, store, outside>>

-----------------------------------------------------------------------------
(***************************************************************************)
(* finish: from an archived outcome to what is published.                  *)
(***************************************************************************)

\* How many writes a valid or invalid outcome may yield.  Associations publish
\* their failures; the other phases fail.
Sizes(j, o) ==
  CASE j.mode = "rebuild_associations" -> 1 .. MaxWrites
    [] o = "invalid" -> {}
    [] j.mode = "generate" -> 0 .. MaxWrites
    [] OTHER -> {1}

Pinned(j, p, n) ==
  [Moved(j, "prepared_writes") EXCEPT !.intents[j.count] = [author |-> p, size |-> n]]

\* What may become of an archived phase.  A valid outcome can fail too: its
\* checks read sources that may be gone by now.
Settled(p) ==
  LET j == seen[p]
      i == j.count
      o == archive[i]
  IN  IF ArchiveOnly(j, i)
      THEN {Moved(j, "failed")} \cup (IF o = "valid" THEN {Moved(j, "completed")} ELSE {})
      ELSE {Pinned(j, p, n) : n \in Sizes(j, o)}
           \cup (IF j.mode = "rebuild_associations" THEN {} ELSE {Moved(j, "failed")})

Settle(p) ==
  /\ pc[p] = "settling"
  /\ archive[seen[p].count] # "none"
  /\ \E new \in Settled(p) :
       Persist(p, new, IF LastState(new) = "prepared_writes" THEN "publishing" ELSE "idle")
  /\ UNCHANGED <<archive, store, held, outside>>

Pending(j) == j.committed[j.count] < j.intents[j.count].size

NextRecord(j) ==
  <<j.count, j.intents[j.count].author, j.committed[j.count] + 1>>

\* Mutant of Publish: the record is counted before it is stored.
PublishLater(p) ==
  /\ pc[p] = "publishing"
  /\ Pending(seen[p])
  /\ pc' = [pc EXCEPT ![p] = "committing"]
  /\ UNCHANGED <<disk, seen, held, outside, faults>>

\* A record that is stored already is known by its request id; a new one must
\* find its history at the generation its intent was computed for.
Storable(r) == r \in store \/ r[3] # overtaken

\* The next record is written to its store, once however often it is written.
Publish(p) ==
  /\ pc[p] = "publishing"
  /\ Pending(seen[p])
  /\ LET r == NextRecord(seen[p])
     IN  \/ /\ Storable(r)
            /\ store' = store \cup {r}
            /\ pc' = [pc EXCEPT ![p] = "committing"]
            /\ UNCHANGED <<seen, faults>>
         \/ /\ ~ Storable(r)
            /\ Thrown(p)
            /\ UNCHANGED <<store, faults>>
         \/ /\ Failing
            /\ Thrown(p)
            /\ UNCHANGED store \/ (Storable(r) /\ store' = store \cup {r})
  /\ UNCHANGED <<journal, archive, held, outside>>

\* The journal counts it.
Commit(p) ==
  /\ pc[p] = "committing"
  /\ LET j == seen[p]
     IN  Persist(p, [Moved(j, "prepared_writes") EXCEPT !.committed[j.count] = @ + 1],
                 "publishing")
  /\ UNCHANGED <<archive, store, held, outside>>

Complete(p) ==
  /\ pc[p] = "publishing"
  /\ ~ Pending(seen[p])
  /\ Persist(p, Moved(seen[p], "completed"), "idle")
  /\ UNCHANGED <<archive, store, held, outside>>

-----------------------------------------------------------------------------
(***************************************************************************)
(* resume: recovery without a call.                                        *)
(***************************************************************************)

\* Mutant of Entry: an archive that no phase refers to is not looked for.
EntryWithoutAttach(p) ==
  LET i == journal.count
      s == LastState(journal)
  IN  CASE Holds(p, i) -> "archiving"
        [] ~ Holds(p, i) /\ s = "archived" -> "settling"
        [] ~ Holds(p, i) /\ s = "prepared_writes" -> "publishing"
        [] OTHER -> "idle"

\* Where a recovery enters: with the outcome still held, with one that was
\* archived and not recorded, or with what is left to publish.
Entry(p) ==
  LET i == journal.count
      s == LastState(journal)
  IN  CASE Holds(p, i) -> "archiving"
        [] ~ Holds(p, i) /\ s = "claimed" /\ archive[i] # "none" -> "archiving"
        [] ~ Holds(p, i) /\ s = "archived" -> "settling"
        [] ~ Holds(p, i) /\ s = "prepared_writes" -> "publishing"
        [] OTHER -> "idle"

Resume(p) ==
  /\ pc[p] = "idle"
  /\ journal.count > 0
  /\ Entry(p) # "idle"
  /\ Read(p, Entry(p))

-----------------------------------------------------------------------------
\* Somebody else revises or reviews the association of a body for which a new
\* one is pinned and not yet stored.  Other intents are for identities nobody
\* else knows.
Overtake ==
  /\ overtaken = 0
  /\ journal.mode = "rebuild_associations"
  /\ journal.state[1] = "prepared_writes"
  /\ \E k \in 1 .. journal.intents[1].size :
       /\ <<1, journal.intents[1].author, k>> \notin store
       /\ overtaken' = k
  /\ UNCHANGED <<disk, pc, seen, held, calls, answer, faults>>

\* The process dies with what it knows and holds; another takes its place.
Crash(p) ==
  /\ Failing
  /\ pc[p] # "idle" \/ held[p] # NotHeld
  /\ pc' = [pc EXCEPT ![p] = "idle"]
  /\ seen' = [seen EXCEPT ![p] = NoJournal]
  /\ held' = [held EXCEPT ![p] = NotHeld]
  /\ UNCHANGED <<disk, outside>>

\* The synchronous stretches of a call that has begun.
Proceed(p) ==
  \/ Prepare(p) \/ Gate(p) \/ Dispatch(p)
  \/ Archive(p) \/ Record(p)
  \/ Settle(p) \/ Publish(p) \/ Commit(p) \/ Complete(p)

Next ==
  \/ Overtake
  \/ \E p \in Process :
       \/ ReadToPrepare(p) \/ ReadToInvoke(p) \/ Answer(p)
       \/ Proceed(p) \/ Resume(p) \/ Crash(p)

Spec == Init /\ [][Next]_vars

\* A call that has begun goes on, and the run is resumed again and again, in
\* every process.  Nobody has to prepare or claim, and no provider to answer.
FairSpec ==
  /\ Spec
  /\ \A p \in Process : WF_vars(Proceed(p)) /\ WF_vars(Resume(p))

-----------------------------------------------------------------------------
(***************************************************************************)
(* What the journal is for.                                                *)
(***************************************************************************)

\* "Claimed once": whatever processes race, fail or die, no phase is paid for
\* twice, and a call goes out only for a phase whose claim is on disk.
CalledOnce ==
  \A i \in Phase :
    /\ calls[i] <= 1
    /\ calls[i] = 1 => journal.state[i] \in {"claimed"} \cup Answered

\* "Archived before publication": a phase that has got past its claim has the
\* very outcome the provider returned in its archive, for every later reader.
ArchiveBacksPhase ==
  \A i \in Phase :
    journal.state[i] \in Answered => archive[i] # "none" /\ archive[i] = answer[i]

\* "Resume finishes fixed writes": what is stored are the intents the journal
\* pinned, in their order and of one author, however many processes computed
\* intents of their own; and the journal counts no record that is not stored.
StoreFollowsJournal ==
  /\ \A r \in store :
       LET i == r[1]
       IN  /\ journal.intents[i].author = r[2]
           /\ r[3] <= journal.intents[i].size
           /\ r[3] <= journal.committed[i] + 1
  /\ \A i \in Phase : \A k \in 1 .. journal.committed[i] :
       <<i, journal.intents[i].author, k>> \in store

\* An archived outcome is published or given up for good, whatever process
\* archived it and wherever that process died, unless another writer changed
\* what a pinned intent was computed for: such a run is never finished.
ArchivedIsPublished ==
  \A i \in Phase : archive[i] # "none" ~> (journal.state[i] \in Ended \/ overtaken # 0)

\* A process that holds an outcome refuses every other call: "A generation
\* outcome is in flight or awaiting durable archive."
\* (src/knowledge/application/body-generation.ts:201).  So none holds one for
\* ever that it can resume.
HeldIsReleased ==
  \A p \in Process : held[p] # NotHeld ~> held[p] = NotHeld
===============================================================================
