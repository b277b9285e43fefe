# Verification of oh-my-knowledge

TLA+ models of the protocols of this repository that are hard to test: TLC checks them on small
instances, TLAPS proves their safety for every value of their constants. Paths are
relative to the repository root; `PROJECT.json` maps every definition to the lines it translates.

To check a run: `tlc -config MCRunBudgetOvershoot.cfg MCRunBudget`. To check the proofs:
`tlapm RunBudgetProofs.tla`, `tlapm ExecutionRunProofs.tla`, `tlapm EvaluationRunProofs.tla`,
`tlapm EventDeliveryProofs.tla`, `tlapm FileLockProofs.tla`, `tlapm GenerationJournalProofs.tla`,
`tlapm StageSessionProofs.tla`, `tlapm SubprocessProofs.tla`.

## 1. The system

oh-my-knowledge evaluates knowledge artifacts by running tasks through model executors, scoring the
results and deciding whether a change is an improvement. Most of it is data: schemas, digests,
statistics, prompts, views. What can go wrong over time is in the parts below.

| Component | State it keeps | Operations | What is hard |
|---|---|---|---|
| Run budget authority, `src/eval-core/budget/index.ts` | reservations and ledger entries per attempt, totals per scope (run, stage, coordinate, attempt), status flags, the first termination | `reserve`, `consume`, `release`, `settle`, `noteTermination`, `snapshot`, seeding from a snapshot | trials of two stages share the limits; admission is decided on what is still in flight; unknown costs; overshoot |
| Execution stage, `src/eval-core/execution/` | block schedule, stop state, records, cache, semaphores, the sealed Bundle | prepare a block, run a coordinate with retries, censor the rest, verify and publish the Bundle | every `await` is an interleaving; six reasons to stop race; each exit has to return its reservation and its slots |
| Evaluation stage, `src/eval-core/evaluation/` | prepared coordinates, stop state, records, cache, the sealed Bundle | start from a live budget or a stored snapshot, prepare, record what has no source, evaluate in batches with retries and replays, verify and publish the Bundle | the first stage may have spent, failed or cancelled the Run; ledger, records and sources of two stages have to agree; a stop may come after everything has settled |
| Event delivery, `src/eval-core/runtime/events.ts`, `event-stream.ts` | sequencer, delivery chain, writer flags, two bounded queues | `emit`, `emitRecovery`, `push`, `close`, the iterator's `next`, the engine's pump | concurrent emitters, a writer that fails in the middle, overflow, a slow or absent consumer |
| Engine and stage sessions, `src/eval-core/engine/index.ts` | active run ids; per session the stage in flight, the started stages, the ledger of each Execution source | start a Run, open a session, stage calls, close | close while a stage runs; a failed stage closes the session; promise callbacks that must run before the host's own |
| File lock, `src/shared/file-lock.ts` | lock and guard files of all processes | `withFileLock`, stale recovery, release | crashes at any system call, reused process ids, several recoverers of one dead lock |
| Artifact store and leases, `src/eval-workflows/` | Run directories, manifests, lease table | save, load, acquire, release | two processes save one Run id; a crash before the rename |
| Generation runs, `src/knowledge/application/body-generation.ts` with `adapters/generation-journal-store.ts` | the journal of each run (phases, their states, pinned write intents, how many are stored), archived outcomes, the records stored; per process a journal as last read and an outcome in hand | prepare a phase, claim and call, archive, record, settle, publish, count, complete, resume | several processes on one run; a crash or a failing sync between any two writes; a paid call must not be repeated, its outcome not be lost |
| Executors, `src/executors/`, with `core/subprocess.ts` | the registry of children and of runtimes with children of their own, the SIGINT listener and its flags; per call a child, the reasons to end it, three timers, a promise | spawn, abort, deadline, overflow, grace, drain, settle; register, interrupt, broadcast | deadline, abort, exit and close in any order; children that ignore SIGTERM; descendants that keep pipes open; interrupts that follow one another |
| Compiler, contracts, analysis, decisions, series | none over time | validation, digests, statistics | numeric, not temporal |
| Workflows, storage, mcp, observe, studio, cli, settings | files and views | wiring around the above | atomic replacement of single files |

How they interact. The engine seals a plan and calls the stages one after the other, waiting for each.
The Execution stage creates the budget authority and hands it to the Evaluation stage, either the live
object or the snapshot that its Bundle carries. Every stage announces what it does through an event
emitter; the engine forwards the stage's stream to the stream of the Run, which the host reads. A writer
failure reaches back into the stage as a reason to stop. Hosts persist finished Runs in the artifact
store; settings, feedback, carriers and the knowledge workspace are read and written under `withFileLock`.
Executors that are command-line programs are children of this process; the stage's abort signal and the user's
interrupt reach them through one coordinator.

What makes each part correct, in one line: the authority never promises more than a limit has left and
its ledger explains its totals; a stage stops for one reason that its ledger agrees with, and whatever
happens its Bundle passes its own verification; events arrive in order and a stage's terminal event
arrives; a lock is held by one living process and a dead one does not block the others for good; a phase
of a generation run is paid for once, and what was paid for is archived and then published as pinned; a child
that is told to end ends, and its call fails with the caller's reason.

## 2. Modules

| Module | What it is |
|---|---|
| `BudgetLedger` | the budget value and one operator per method of `RunBudgetAuthority`; scopes, limits, modes are constants |
| `RunBudget`, `RunBudgetProofs` | the authority as a state machine: any caller, any batch, any order, one call per step; its safety, proved |
| `ExecutionRun`, `ExecutionRunProofs` | the Execution stage, one action per stretch between two awaits; extends `RunBudget`, whose `budget` and `expired` it moves, and implements it; its safety and the refinement, proved |
| `EvaluationRun`, `EvaluationRunProofs` | the Evaluation stage after an Execution stage reduced to what it leaves, on one ledger; extends and implements `RunBudget` too; its safety and the refinement, proved |
| `BoundedStream` | the bounded single-consumer queue as operators on a record |
| `EventDelivery`, `EventDeliveryProofs` | emitters, delivery chain, durable writer, stage stream, pump, Run stream and host over a pipeline of stages; uses `BoundedStream` twice; its safety, proved |
| `FileLock`, `FileLockProofs` | `withFileLock` at the granularity of system calls; its safety, proved |
| `Mutex` | what the callers of the lock rely on: one transaction at a time; implemented by `FileLock` |
| `StageSession`, `StageSessionProofs` | the users of run ids: Runs, stage sessions, their stages and their closing; its safety, proved |
| `GenerationJournal`, `GenerationJournalProofs` | a generation run, its journal on disk and the processes that work on it; its safety, proved |
| `Subprocess`, `SubprocessProofs` | calls of external executors, their children and timers, and the coordinator of interrupts; its safety, proved |
| `MCRunBudget`, `MCExecutionRun`, `MCEvaluationRun`, `MCEventDelivery`, `MCFileLock`, `MCGenerationJournal`, `MCStageSession`, `MCSubprocess` | small instances |

### RunBudget

`budget` is the private state of `RunBudgetAuthority`: for each attempt a reservation ("none",
"reserved", "consumed") and an entry, for each scope the invocations, cost and duration so far, the
counter of unreserved cost-bearing invocations and its maximum, the flags `failed` and
`unverifiable`, and the termination. A synchronous method is one step, because the event loop cannot
interleave it. `Refuse` notes the termination it was handed, as every caller does in the same segment.
`Handoff` is the Evaluation stage starting from a stored snapshot: it needs a quiescent ledger and
rebuilds flags from one summary status. One currency is tracked; a report in another currency, a missing
report and a report above the declared bound are inputs. The wall clock is one flag, `expired`.

### ExecutionRun

`phase`, `offset` and `cursor` are `runExecution`'s loop; `pc` and `attempts` are each trial's
`executeCoordinate`; `stop` is `StopState`, `fatal` the emitter's flag, `status` the status of the
assembled Bundle. Actions follow the code between awaits: look-up and admission of a block, the global
and the executor's slot, opening, the attempt, its result or its rejection, the retry, the disposal, the
end of a batch, teardown, assembly, publication, recovery. `Acceptable` is the part of
`verify/execution-bundle.ts` that relates records, ledger and status: whole blocks, coverage, retry
policy, ledger, limits. Timeouts are outcomes of an attempt; the semaphores are counters of who holds
what; a retry without a wait is refused to an aborted Run by the authority only, not by the signal; digests, classification of outputs and content capture are left out. `Environment` has external
cancellation, the clock, its timer and the writer, each switched by the constant `Faults`.

### EvaluationRun

An evaluation is one evaluator's judgement of one trial. `pc` and `attempts` are each `evaluateCoordinate`,
`batch` the coordinates of the current `Promise.all`, `record` the map of records that `runEvaluation`
collects, `stop`, `fatal` and `status` as in `ExecutionRun`. The stage first prepares all coordinates one by
one (`Prepare`), records those without usable inputs, then runs the others in batches; `Teardown` stands for
the disposal of evaluators and the cache writes, `Complete` for the not-evaluated records still owed to trials
that left no source. Cache look-ups are choices between hit, miss and failure; a replayed record is assumed to
report its cost. `Acceptable` is the part of `verify/evaluation-bundle.ts` that relates status, sources, ledger,
retries, limits and costs, with the status that `makeBundle` requires of them.

The Execution stage is there for its effect on the second: per trial a record, a censored record or nothing
(`source`), and the ledger, one trial after the other with one attempt each. `ExecutionRun` has its
interleavings. `HandOver` passes on the live authority and the host's signal, or, as a caller that scores a
stored Bundle does, a ledger rebuilt from its snapshot under a signal of its own. In the second case the wall
clock keeps its state, so that an elapsed budget stays elapsed: the authority counts from a snapshot's elapsed time.

`BundleAccepted` names two exceptions, both ways in which the code ends without an Evaluation Bundle.
`CancelledLate` is the third finding of section 6. `FailedBefore`: the Execution stage failed because a cost is
unknown and `unknownCostMode` is fail-run, and the Evaluation stage has nothing left to call (all replayed or
without a source), so nothing stops it; it completes, and `makeBundle` throws "Evaluation Runtime produced an
unverifiable Bundle.". The Run has failed already and is reported as failed.

### EventDelivery

`chain` is `#deliveryTail`: deliveries in the order of their emission, each awaited by its emitter.
`main` is the stage's own continuation from `run.started` to `close`; a stage may also throw before its
terminal. `progress` and `output` are the stage's and the Run's streams; an answered `next()` sits in
`hand` until the consumer's continuation runs, which frees a slot in the queue before the event is
consumed. The emitter is built anew for each stage, so a writer that failed is asked again by the next
one; the sequencer is shared. A stage without an emitter (Decision without a policy) is not modelled.

### StageSession

`active` is `activeRunIds`, shared by all Runs and sessions of an engine; `phase` says whether a user has its
id, is giving it back (`closing` after `close` was called, `closed` when its promise is through) or is done. Each
session has one promise at a time, that of the stage started last: `callbacks` is what is registered on it, in the order of
registration. `Track` and `Bind` are the session's own callbacks, `HostLearns` is the continuation of the
host's `await`, and no other code of the host runs between them (`HostActs`), because the
reactions of one promise are queued together. `BeginClose` is `close` up to its `await`; when nothing is in flight it runs
to the end. `Start` is a stage call that `startOnce` admits; a refused call, and a `start` that throws, change
nothing. `own` says whether an Evaluation is given the source of this session's Execution or an admitted
one, and `ledger` what budget it then gets. That a stage needs its predecessor's artifacts is checked by the stages, so the
order of stages is left to the host.

### FileLock

A path is the sequence of dead owners whose files it guards: `<<>>` is the caller's lock, `<<o>>` the guard
under which the file that `o` left there is removed, and so on, because a guard is taken with
`withFileLockUntil` itself. A process holds one file at a time, so `at[p]` also is its call stack.
`file` names the creator (the inode), `blank` the files whose owner record is not written, `old` those
older than `staleMs`. Open, write, stat, read, recheck, unlink and the read and unlink of
`removeOwnedLock` are separate steps; a process may die between any two, and a process born later may be
given its id. The three reads of the recheck under the guard are one step: with the guard held, only a
vanished or another file can be found, and both are outcomes. A read error other than ENOENT, and a
clock that goes back, are not modelled.

`AsMutex` maps the lock to `Mutex`: `holder` is the process in its transaction, whatever files, guards and
dead owners there are below. `IsMutex` says that the lock implements it, so a module whose transactions
run under the lock may take each for one step.

### GenerationJournal

`journal` is the file of one run: generation, mode, and for each phase its state, its write intents (who
pinned them and how many) and `committed`. `archive` and `store` are the outcome files and the records in
the knowledge, association, entity and source-review stores. Each write of them is one transaction under the
workspace lock and one rename, hence one step, and a process may stop between any two. `pc` and `seen` are
where a `BodyGenerationApplication` is and the journal it last read or wrote; `held` is its field of that
name, and being off `idle` its `inFlight`. `Persist` is `GenerationJournalStore.write`: replaced, refused
(another generation on disk, or a change that `Legal` forbids), or failed, before the rename or at the sync
after it. The provider is external: `Dispatch` is the request that leaves, `Answer` its outcome, an
exception included. `Settle` pins intents with fresh identities, which is why they carry their author.
`Publish` and `Commit` are the two halves of one turn of the loop in `finish`. `Resume` enters where
`resume` does. `Overtake` is another writer of an association history: the pinned write expects a
generation that is gone and is refused from then on. Bodies, ledgers and coverages are written under
identities that only this run knows.

The checks of `validateClaim` and of the outputs are choices (a phase may fail or be refused). The second
read of the journal in `generate` before `invoke` sees the same version or leads to the same conflict and is
left out. Not modelled: `unsupported` runs after an upgrade (the run stops), adapters that do not call the
dispatch gate, the loss of data that was synced, and the workspace guard's own `recoverDeadLock`.

### Subprocess

One action is one callback of the event loop, or one step of a child. `child` says what became of the child and
whether its `exit` event was handled, `open` whether a pipe is, so that `Close` is the `close` event that Node
emits when both are done. `timedOut`, `cancelled` and `overflown` are `killedByTimeout`, `killedBySignalReason`
and `bufferOverflowStream`; `deadline`, `grace` and `drain` the three timers; `result` is how `done` settles.
SIGTERM is not kept in the state, because a child may exit at any time and may ignore it; SIGKILL is (`doomed`),
because it decides how the child ends. `Cleanup` also clears what nobody reads after it. `activeChildren`,
`subscribers`, `installed` and `shuttingDown` are the module's own variables, `listening` whether its listener
really is among those of the process, and `immediate` whether the `setImmediate` that ends the turn of a broadcast is due
(`TurnEnds`). A second interrupt in that same turn is dropped by design, also when something was registered in between; `InterruptReachesAll` is
about every interrupt in a later turn, which must find both flags down. `host` says whether somebody else listens to SIGINT, which decides
whether `BroadcastShutdown` raises the signal again, and with it whether the process survives.

`CallsSettle` names the exception that this makes: the comment at the top of the file promises a SIGKILL after
half a second, but without another listener the raised signal ends the process at once, and with it the timer
(`FallbackFires`); a child that ignores SIGTERM is then left behind. A second limit of what is promised: a child
that was told of an interrupt by the coordinator only, and exits with zero, is a success for its call, because
the interrupt sets no reason. `VerdictStands` is about the caller's reasons. An abort that comes after the exit and
before `close` does turn a finished invocation into an aborted one; the code means it to.

Left out: `kill()` calls that fail, an `exit` with neither code nor signal (which resolves), the output itself and what the
drain timer cuts off from it, and `__resetSigintRegistryForTest`. Between a failed start and its
`error` event the model lets a deadline pass, which the order of Node's queues rules out; the result is the same.

## 3. Runs

| Run | Instance | Distinct states | What it shows |
|---|---|---|---|
| `budget_overshoot` | 4 attempts, 2 trials, 2 stages, limits of the Run (invocations, cost), the Execution stage (duration), the trials (invocations, duration) and the attempt (cost), cost at most 2 per invocation | 103,544 | limits, totals with their counter, money, overshoot, status and first termination |
| `execution_faults` | 3 trials, 2 executors, 2 blocks, 2 attempts, limits on cost and invocations, the clock, all faults, failure threshold, cache | 417,482 | protocol of the authority, agreement of stop and ledger, nothing starts once the Run is aborted, every combination of failures ends in an accepted Bundle that says what happened |
| `execution_batches` | 5 trials in 3 batches, strict reservation with bounds that reports may pass, failure threshold, invocation limit, fairness | 60,148 | spent plus reserved stays within the limit while bounds are honoured; no admission past the threshold; admitted trials run, the Run ends, slots come back |
| `execution_trial_limit` | a cost limit per trial below the Run's | violation | the divergence of section 6 |
| `evaluation` | 2 trials, 3 evaluations in 2 batches, 2 attempts, Run cost limit, stage invocation limit, failure threshold, cache, live or stored ledger, all faults | 633,221 | protocol of the authority across two stages, no reservation lost, an accepted Bundle but in two named cases, no dispatch past the threshold |
| `evaluation_late_cancel` | the same plan, no limits, no fault but a cancellation | violation | the third finding of section 6 |
| `file_lock` | 4 processes, 3 mortal, one of which never recovers, guards of two levels, failing writes, deadlines, fairness | 176,338 | exclusion on locks and guards, live files kept, nothing left behind, a dead holder or recoverer does not block the living |
| `generation_journal` | 2 applications, up to 3 phases, 2 windows, 2 records a phase, 2 crashes or failing calls, all four modes | 146,434 | paid once, archived before published, published as pinned, settled in the end |
| `generation_held` | the same, an application that never dies | violation | the second finding of section 6 |
| `stage_session` | 2 sessions and a Run given one id, a Run of its own, 3 stages a session, fairness | 68,445 | one user works under an id, the ledger is continued, close and failure release the id |
| `subprocess` | 2 calls, one with a deadline, an abort signal and too much output, a runtime, 2 interrupts, a host that listens or none, fairness | 311,186 | an interrupt in a later turn reaches everybody registered, verdicts stand, whatever has to end a call ends it |
| `event_delivery` | 2 stages, 2 workers, queues of capacity one, all writer modes | 133,105 | order, terminal events, the writer's prefix, no backpressure, end of the stream |

Why the bounds are enough. Two trials of two stages are the least with which a limit is shared by a
scope of each kind, and two attempts the least with a retry; a third trial lets one wait for a slot while
another settles, and two blocks let a refusal come after work has started. A cost of two per invocation
separates "reached" from "passed". Five trials make three batches, the
last of which must not be admitted when the second reached the threshold. Three evaluations of two trials have two judges of one
trial in one batch and another batch after it, so that the first batch can stop, fail or exhaust the Run while work is left,
and a trial of which nothing is left next to one with a record. A queue of capacity one overflows with the second event. For a lock
the hard case needs a dead owner, two recoverers and a new holder, and the nesting limit is met with three dead and a
fourth that reads; that a process may be given a dead one's id is left to the proofs. In a generation run two applications already
race on every write; two faults let one die and the other be refused or fail; three phases with two windows
have a phase that publishes nothing, one that does not come next, and a last one; two records leave one
stored and not counted while another waits. Every action of every module is taken in
some passing run. Where the bound of a counter could matter (limits, processes, ids, hosts, nesting)
the proofs do without it. The runs with a failure limit use a threshold; that of `evaluation` is zero, which
stops the stage after the same batches as fail-fast would. That nothing is admitted or dispatched under fail-fast itself is not
among the runs: it is left to the two theorems `FailureLimitHolds`, which are about every mode. Three stages are all kinds that a session tells apart: Execution, whose ledger it
remembers, Evaluation, which looks it up, and the report, which closes it; analysis and decision are like neither. Two interrupts are the least
after which a coordinator that took itself out can be missing, and two calls with a runtime let one be registered in the
turn in which another is told; the calls share nothing but the coordinator, so only one of them has every way to end.

Deadlock is checked in every run of `ExecutionRun` and `EvaluationRun`, whose `Finished` stutters at the end. It is
switched off where the system really stops: an authority with nothing left to call, processes that have
all returned or died, a pipeline whose stream was read to the end, a host that calls nothing more, a process that was ended.

### Fairness

- `ExecutionRun`: weak fairness of the coordinator and of each trial. The event loop runs every ready
  continuation; an invocation ends within its sealed timeout; openings, disposals, cache and writer answer.
  No fairness for cancellation, the clock or failures.
- `EventDelivery`: weak fairness of the emitters and of the pump. None for the host in `RunEndsUnread`;
  `HostSeesEnd` assumes a host that keeps reading.
- `FileLock`: weak fairness of each process that is not dead and of the passing of time. Nothing makes a deadline
  pass, so what is shown is recovery and not a timeout.
- `GenerationJournal`: weak fairness of a call that has begun (`Proceed`, which is the rest of a synchronous
  stretch) and of resuming, in each process: `resume` is what the guide tells a user to do with an interrupted run.
  None for preparing, claiming, or the provider's answer.
- `StageSession`: weak fairness of callbacks and of `close`, which the event loop runs, and of the settling of a stage
  that was aborted: the stages listen to that signal (section 2, `ExecutionRun`), and the report, which does not, only
  computes and announces. Executors that ignore their signal until their timeout, and an event writer that takes its time, delay `close`; none is assumed to hang.
  No fairness for the host, nor for stages that were not aborted.
- `Subprocess`: weak fairness of the timers and events of each call and of the end of a turn, which the event loop runs, and of the
  exit of a child that was sent SIGKILL. None for children that were not, for pipes, callers, or the user.

## 4. Properties and the hazards behind them

`PROJECT.json` lists the hazards with their lines. The main ones and what covers them:

- Concurrent reservations against shared limits: `InvocationsWithinLimit`, `LedgerExplainsTotals`
  (invocations and money), `StrictCostWithinLimit`.
- How far bounded overshoot goes: `OvershootBounded` relates cost, limit and the largest number of
  unreserved invocations that were in flight together; `LedgerExplainsTotals` shows that the
  clamp of their counter never hides a miscount.
- Two records of why a Run ended: `StopAgreesWithLedger`, `EndingStands`.
- A reservation on every way through a trial: `ReservationsFollowTrials`, and `BudgetProtocol`, the
  refinement of `RunBudget` by the whole stage.
- A reservation on every way through an evaluation: `ReservationsFollowEvaluations`, and `BudgetProtocol` again,
  through both stages and a stored ledger.
- A block, a trial or a retry that goes on in an aborted Run, such as the retry of an attempt that timed out after the abort:
  `NothingStartsOnceAborted`.
- A Bundle that its own verification refuses: `BundleAccepted` of either stage, `LostEventFailsRun`.
- Batches and limits of failures: `NoAdmissionPastFailureLimit`, `NoDispatchPastFailureLimit`. Slots: `RunEnds`, `AdmittedTrialsRun`.
- Recovery of a dead lock by several processes: `MutualExclusion`, `LiveLocksKept`, `OnlyTheDeadLeaveFiles`,
  `CallsReturn`.
- One run id, several users, a close at any moment: `OneAtWork`, `SessionsClose`; an Evaluation started in the
  same turn in which its Execution ended: `LedgerContinued`.
- Several processes on one generation run, crashes and failing syncs: `CalledOnce`, `ArchiveBacksPhase`,
  `StoreFollowsJournal`, `ArchivedIsPublished`.
- What ends a child, in any order, and children that resist: `VerdictStands`, `CallsSettle`; interrupts that follow one
  another, with registrations between them: `InterruptReachesAll`.
- Overflow and failing writers: `SettledStageReported`, `WriterHoldsWhatIsShown`, `ReceivedInOrder`,
  `RunEndsUnread`, `HostSeesEnd`.

All type invariants are proved (`TypeCorrect` of each module, `BudgetTypeCorrect` of the authority); those of the two stages, which
are the largest, are run as well.

Every property of a passing run has a mutant: a definition changed as a plausible bug would change it,
under which TLC finds that property violated.

## 5. Proofs

**RunBudget.** `BudgetTypeCorrect` comes first. The safety properties are not inductive one by one,
so `RunBudgetProofs` proves `LedgerInv` of the budget value: `LimitsKept`, `TotalsExplained`,
`UnreservedExplained` and `Headroom`. The last one is the idea behind `OvershootBounded`: an invocation in
flight was admitted while its scope was not spent, so what a scope has spent plus the most that its
outstanding invocations can still cost stays below the limit plus the most that all concurrent unreserved
ones can cost. Each operation of the authority has a lemma that it preserves `LedgerInv`, most of them
through what it does to the sets of outstanding and settled attempts, and the cardinality lemmas of the
library do the counting. From it follow `LimitsHold`, `OvershootHolds` and the first half of `TotalsHold` (`CountsHold`);
`EndingStandsHolds` is the action property. The lemmas that say what an operation of the authority does to types, to
positions in the ledger and to the reason to stop are stated there for both stages.

Money needs more, because a sum over a set is a fold that a `CHOOSE` defines. `FoldExists` shows that there is such a fold, by
taking a smallest set without one (the cardinalities of the library take the place of induction), and `SumPeeled`, `SumUnion` and
`SumMonotone` are what the proofs use of sums. `CostInvariant` then has two parts: `CostExplained`, which
gives `MoneyHolds`, the second half of `TotalsHold`, and `StrictRoom`, the strengthening that `StrictCostWithinLimit` needs: until the Run fails, every
attempt in flight has a bound, and what is spent and all those bounds together fit below each limit, so a settlement
that keeps its bound can only make room. `NoticeInvariant` says what a Run has noticed: one that has not failed accepted every
report, one that goes on has spent no limit and marked every unknown cost; the stages' proofs about costs rest on it.

**ExecutionRun.** `AuthorityStep` is the refinement: with `IInv`, every step of the stage is a step of the authority on
the same `budget` and `expired`, or leaves them alone. It is proved first, because `LedgerInv` then comes with it and needs no
proof of its own about the stage. That a step may call the authority at all is `HoldingInv`: per attempt of a trial, its
entry and its reservation as a function of where the trial is and how many attempts it has made. The rest of `IInv` is needed to
keep that one and to read the properties off: `CursorInv` and `BlockInv` place the trials of each block by the cursor
and the batch, and say that a block is admitted whole; `PhaseInv` keeps trials out of the phases before and after a batch;
`AttemptsInv` says what a trial has tried, and that only an aborted Run leaves a trial without any attempt; `StopInv`
(`ReasonKept`) ties the stop state to the authority's termination and flags, `StatusInv` the Bundle's status to both; `LimitInv`
counts the failures of the batches that are over. `TypeCorrect`, `ReservationsHold`, `ProtocolHolds`, `StopAgrees`,
`LostEventHolds` and `FailureLimitHolds` follow for any schedule, concurrency, policy, limits and faults. So does `NothingStartsHolds`: by `StopInv` the authority knows of an abort, so it refuses every
batch (`AbortedAuthority`), and no trial passes from its reservation to an invocation (`AbortedTrials`). `BundleAccepted` is not true
of every policy (first finding, section 6). What holds without exception is `RecordsVerify`: whole blocks, coverage,
ledger, retries and invocation limits are always in order when the trials are over. So a refusal can only be about cost
(`RefusalsAreAboutCost`), and without cost limits no Bundle is refused (`BundlesAcceptedWithoutCostLimits`). With cost limits,
`CountedCosts` compares the verification's sum, over trials and their attempts, with the authority's: it never exceeds it, and equals
it when every cost is known. `CompletedBundlesAccepted` follows for Runs that complete, whatever their policy, if no limit is zero and
`fail-run` is not asked to account for attempts that the stage does not track. A Run stopped by its cost needs one more invariant, `StopCost`:
the limit it stopped for is spent. It holds of the policies of `SpentLimitsOnly` (bounded overshoot, fail-run, limits of the
Run and the stages, none zero), those of the run `execution_faults`, and gives `BundlesAcceptedWithSpentLimits`; each of its conditions is
there because TLC refutes `BundleAccepted` without it (section 6).

**EvaluationRun.** The argument is the same, over two stages. `ExecutionInv` says that the first stage has one trial under way
and leaves every trial in some state when it hands over, so that the ledger is quiescent at `Handoff`; `PlaceInv` places the
evaluations by phase and batch, and says that one that was prepared has a source; `RecordInv` says what is on record of each, by phase and
place; `AttemptsInv`, `HoldingInv` and `LimitInv` are as above. `ProtocolHolds` covers both stages and the handoff between them.
`RecordsVerify` has the one exception of `CancelledLate`, the third finding, and so have `RefusalsAreAboutCost` and
`BundlesAcceptedWithoutCostLimits`; the exception `FailedBefore` needs a cost limit. About costs, `CostFacts` adds three invariants to those of
the authority: `FailureRecorded`, a stage fails when its budget does and the other way round; `JudgedInv`, while the stage
goes on, whatever has made a call sees a budget that has not failed and limits that are not spent; and `StopCost`, as above, with the scope
the stop names. The second is what makes `FailedBefore` exact: in a failed Run that goes on nothing has been called.
`CompletedBundlesAccepted` holds under fail-run for either reservation and limits of every scope,
`BundlesAcceptedWithSpentLimits` under the policies of `SpentLimitsOnly`, which here also excludes a limit of the Execution stage next to
one of the Run or of this stage; the run `evaluation` has such a policy.

**FileLock.** `ShapeInv` collects the types, the depth of the stack of inodes against the depth of the path,
and which operation runs at which level. `HoldInv` says that every holder's file is in place under its
name (`HoldersHold`), that only the dead leave files, and that a recoverer about to unlink still has the
file of a dead process before it (`SuspectsStayDead`). The step that needs the guard is `UnlinkStep`: a
second recoverer about to unlink the same file would suspect the same owner, so it would hold the same
guard (`GuardsDiffer`), and then `HoldersHold` makes the two one. `MutualExclusionHolds`,
`OnlyTheDeadLeaveFilesHolds` and `LiveLocksKeptHolds` follow from `LockInvariant`, and so does
`FileLockIsMutex`, the refinement: a process that starts its transaction finds no other in one, because
both would hold the file of the same path.

**GenerationJournal.** The invariant `IInv` has two ideas. `Behind`: what a process has read is the journal
or an earlier version of it, with fewer commits, the same pinned intents, and no claim that the file has
lost; so a write that passes the comparison of generations is computed from the file itself, and
everything that others rely on (`Grown`) survives every write that `Legal` admits. `WellFormed` is what a
journal of this application looks like: all phases but the last completed, no intents before they are
pinned, no more commits than intents. `Placed` ties a process's place to its version, `CallsInv` says that
no two processes are between the claim and the answer of a phase, `OutcomeInv` that whatever is held or
archived is what the provider answered. `PersistStep` treats the six steps that write the journal at once:
each has to show only that its new version is `Fitting`. `CalledOnceHolds`, `ArchiveBacksPhaseHolds` and
`StoreFollowsJournalHolds` follow for any number of processes, phases, windows, records and faults.

**EventDelivery.** The lemmas about `BoundedStream` say for each of its operations what a stream carries
afterwards and which event is its newest; `Sound` adds that the queue is sorted and that a consumer waits only
at an empty, open stream. The invariant `IInv` turns on one number, `Bound`: the sequence number of the oldest
delivery that is due, or the next one if none is. `Numbered` says that the deliveries that are due are
numbered from `Bound` on without a gap, `Recorded` that, until the writer fails for good, exactly what lies
before it has been streamed, `Flowing` that what is on its way to the host is older than `Bound` and gets
older from the stage's stream over the Run's to the host. A recovery is the exception, numbered when it is
delivered, and `Placed` shows that nothing else is due then. `Reporting` follows the last word of a stage
from the chain to the host; it survives overflow because a full queue drops its oldest event, never the
newest. `ReceivedInOrderHolds`, `SettledStageReportedHolds` and `WriterHoldsWhatIsShownHolds` follow for any
number of workers, emissions and stages, any capacity of at least one and every mode.

**StageSession.** `IdsHeld` says that an id is active while somebody holds it and that nobody else does; a stage
that is pending is in flight, and its session holds its id (`PendingAwaited`), so `close` cannot find nothing in flight
and give the id back under it. `CallbacksLeft` lists what can be left of a promise's callbacks, from which `LedgerFirst`
follows: the host knows its source only after the session has bound its ledger, because a stage is started once and
its callbacks run in the order of registration. `OneAtWorkHolds` and `LedgerContinuedHolds` follow for any number of Runs,
sessions and stages, however ids are given to them.

**Subprocess.** `Registry` says that a child is registered from its start until its call is settled, and that no
call is settled while its child runs. `Heard` is the reason for `InterruptReachesAll`: the coordinator's
flag `installed` agrees with its listener, so whoever registers installs a missing one, and who is registered when it goes was told; and its flag
`shuttingDown` stands exactly while the end of that turn is due, so a later interrupt is passed on. `AbortsActed` says that
an abort of a call in progress has left a reason, its own or the deadline's, and `DeadlinesRun` that no deadline
outlives the exit that was handled. `VerdictHolds` follows because only `Close` can resolve a call and `Verdict`
resolves only what has no reason. `InterruptReachesAllHolds` and `VerdictHolds` are for any number of calls, runtimes and interrupts.

Assumptions are the named `ASSUME`s of the modules: a finite set of attempts, limits that are numbers or
absent, known modes; a schedule of disjoint blocks and a plan without repetitions, which have the attempts of their trials and evaluations and no others, at least one attempt each and slots for at least one; distinct processes and a natural nesting limit; a capacity of at least one, and events distinct from the answers of a stream; Runs distinct from sessions; calls distinct from runtimes; at least two phases and one record. TLC evaluates them in every run.

Only model-checked: liveness, which is out of the proof system's reach. Every safety property of a passing run is a
theorem; `BundleAccepted` of either stage under conditions on the policy that the runs satisfy and without which it is false.

## 6. Findings

**A Run without its Bundle.** A trial or attempt that reaches its own provider-cost limit, below the limits of Run and stage, ends the
Run as budget-exhausted with a reason that ends in `provider-cost-budget-exhausted`.
`src/eval-core/verify/execution-bundle.ts:822` takes that suffix for the limit of the Run or stage,
compares the reported cost with it and refuses the Bundle, so the Run yields none, while
`docs/reference/integration/embedded-api.md:183` says that budget-exhausted Runs include their Bundles. The
run `execution_trial_limit` shows the shortest way there. The proofs of `BundleAccepted` needed conditions on the policy, and TLC shows with the runs' instances that
the same checks refuse a Bundle without them:

- in mode `mark-unverifiable`, when an earlier attempt had not reported its cost, also in a Run that did reach the limit of the Run
  (`src/eval-core/verify/evaluation-bundle.ts:1088` does the same for the Evaluation Bundle);
- under strict reservation, when a reservation is refused (`src/eval-core/budget/index.ts:318`) while the cost is still below the limit;
- with a limit of zero, which `src/eval-core/contracts/definition.ts:340` admits, when everything is replayed: the Run
  completes, and `execution-bundle.ts:814` finds that no cost at all has exhausted it;
- with a limit of the Execution stage next to one of the Run or of the Evaluation stage: `reserve` checks both stages for every request
  (`src/eval-core/budget/index.ts:241`), so the spent limit of the one refuses the attempts of the other, for a reason that
  the Evaluation Bundle's check takes for its own limit;
- in mode `mark-unverifiable`, when a cancelled Run with an unknown cost is scored later from its stored Bundle by replays alone: its summary
  says cancelled, which hides that it is unverifiable (`src/eval-core/budget/index.ts:543`), and
  `src/eval-core/evaluation/bundle.ts:124` misses it.

The runs that check `BundleAccepted` therefore use fail-run, bounded overshoot, limits above zero and none of trials or attempts.

**An outcome held for good.** An application archives its outcome; before it records that, another process
attaches the archived outcome and settles the phase; the first one's write is refused as a conflict and it
keeps `held` (`src/knowledge/application/body-generation.ts:331`). Every later `resume` of it archives again and
tries to move the phase back, which the store refuses, and `idle` refuses every other call with "A generation
outcome is in flight or awaiting durable archive." (line 201), although the outcome is archived.
`docs/guides/knowledge/extract-knowledge.md:374` names `resume` as the way out. The run `generation_held` shows it
without any crash. The journal is not harmed (`generation_journal` has these steps too); a host that builds an
application for each command is not affected, one that keeps an application has to be restarted.

**A cancelled Run without its evaluations.** `runEvaluation` listens to the host's signal until its teardown
(`src/eval-core/evaluation/runtime.ts:270`). A cancellation that comes when the last evaluation has settled, for
instance during the last progress event, makes the stage cancelled with every record complete, and
`src/eval-core/verify/evaluation-bundle.ts:288` refuses such a Bundle: "A cancelled EvaluationBundle must expose cancelled
or unstarted coordinates.". The stage rejects, the Run is reported as failed, and the judgements that were paid for are
lost, while `docs/reference/integration/embedded-api.md:183` has cancelled Runs include their Bundles. The run
`evaluation_late_cancel` shows it with no other fault.

## 7. Plan

Done: the authority and its proofs; both stages and their proofs; event delivery and its proofs; the file lock, the mutex it implements
and its proofs; generation runs and their proofs; stage sessions and their proofs;
subprocesses and their proofs. Next, in this order:

1. `ArtifactStore`: concurrent saves of one Run id, the rename and the comparison after it.
2. The two semaphores as a refinement of the slot counters of `ExecutionRun`.

Proofs to come: of the modules above none; of the two next ones, their refinements and invariants.

## 8. Not modelled, and why

Analysis, decisions and series are numeric folds over finished Bundles. The compiler and the contracts are
pure functions on documents. Judges, providers and the adapters of executors are external and appear as their outcomes; of
the executors, the coordinator of their processes is modelled.
Storage, mcp, observe, studio, cli and settings have no protocol of their own beyond the lock and the
atomic replacement of a file. The artifact store is in the plan.
