----------------------------- MODULE EventDelivery -----------------------------
(***************************************************************************)
(* How the events of a Run reach its observers.  A pipeline runs its       *)
(* stages one after the other (eval-core/engine/index.ts,                  *)
(* executePipeline); the concurrent continuations of a stage emit through  *)
(* one RuntimeEventEmitter (eval-core/runtime/events.ts), which numbers an *)
(* event at once and delivers it when all earlier ones have been: first to *)
(* the durable writer, then to the stage's bounded stream.  settleStage    *)
(* pumps that stream into the bounded stream of the Run, which the host    *)
(* reads at its own pace.                                                  *)
(***************************************************************************)
EXTENDS BoundedStream, FiniteSets

CONSTANTS
  Worker,      \* the concurrent continuations of a stage
  MaxEmits,    \* bound: events a worker emits in a stage
  Stages,      \* how many stages the pipeline has
  Capacity,    \* eventBufferCapacity, of every stream
  Modes        \* the sealed event delivery: "none", "ignore", "fail-run"

ASSUME DeliveryAssumption ==
  /\ Stages \in Nat \ {0}
  /\ MaxEmits \in Nat
  /\ Capacity \in Nat \ {0}
  /\ Modes \subseteq {"none", "ignore", "fail-run"}

Runtime == "runtime"    \* the stage's own continuation
Emitter == Worker \cup {Runtime}

Kind == {"progress", "terminal", "recovery"}
Event == [seq : Nat, stage : 1 .. Stages, kind : Kind]

\* The continuations, the answers of a stream and its events are distinct.
ASSUME DistinctAssumption ==
  /\ Runtime \notin Worker
  /\ Nothing # End /\ Nothing \notin Event /\ End \notin Event

VARIABLES
  mode,       \* the sealed mode
  next,       \* InMemoryRuntimeEventSequencer: the next number of the Run
  stage,      \* the stage that runs, Stages + 1 once the pipeline is over
  main,       \* where the stage's own continuation is
  left,       \* left[w]: how many events w may still emit in this stage
  chain,      \* #deliveryTail: the deliveries that are due, oldest first, each
              \* with the emitter that awaits it
  writing,    \* the oldest delivery awaits the writer
  writerOn,   \* #writerEnabled
  fatal,      \* #fatal
  failed,     \* a stage threw: the pipeline ends with it
  progress,   \* the stage's bounded stream; its consumer is the pump
  output,     \* the stream of the Run; its consumer is the host
  got,        \* the event the host received last
  base,       \* history: the first sequence number of the stage
  written,    \* history: what the writer accepted in this stage
  published   \* history: what was emitted and streamed in this stage

emitter == <<mode, next, main, left, chain, writing, writerOn, fatal>>
history == <<base, written, published>>
vars == <<emitter, stage, failed, progress, output, got, history>>

TypeOK ==
  /\ mode \in Modes
  /\ next \in Nat
  /\ stage \in 1 .. Stages + 1
  /\ main \in {"start", "starting", "running", "ending", "undelivered",
               "recovering", "delivered", "closed"}
  /\ left \in [Worker -> 0 .. MaxEmits]
  /\ chain \in Seq([event : Event, by : Emitter])
  /\ writing \in BOOLEAN /\ writerOn \in BOOLEAN /\ fatal \in BOOLEAN
  /\ failed \in BOOLEAN
  /\ progress \in Stream(Event, Capacity)
  /\ output \in Stream(Event, Capacity)
  /\ got \in Event \cup {Nothing}
  /\ base \in Nat /\ written \subseteq Nat /\ published \subseteq Nat

\* A stage's emitter and stream, as they are built when it starts.
FreshStage ==
  /\ main' = "start"
  /\ left' = [w \in Worker |-> MaxEmits]
  /\ chain' = <<>>
  /\ writing' = FALSE
  /\ writerOn' = (mode # "none")
  /\ fatal' = FALSE
  /\ progress' = EmptyStream
  /\ base' = next
  /\ written' = {}
  /\ published' = {}

Init ==
  /\ mode \in Modes
  /\ next = 0
  /\ stage = 1
  /\ main = "start"
  /\ left = [w \in Worker |-> MaxEmits]
  /\ chain = <<>>
  /\ writing = FALSE
  /\ writerOn = (mode # "none")
  /\ fatal = FALSE
  /\ failed = FALSE
  /\ progress = EmptyStream
  /\ output = EmptyStream
  /\ got = Nothing
  /\ base = 0 /\ written = {} /\ published = {}

-----------------------------------------------------------------------------
(***************************************************************************)
(* Emitting.                                                               *)
(***************************************************************************)
Awaiting(e) == \E i \in DOMAIN chain : chain[i].by = e

\* createEvent: the next number of the Run.
NewEvent(kind) == [seq |-> next, stage |-> stage, kind |-> kind]

\* Mutant of Emit: the delivery is not chained behind those that are due.
EmitAhead(e, kind) ==
  /\ chain' = <<[event |-> NewEvent(kind), by |-> e]>> \o chain
  /\ next' = next + 1

\* emit: the event is numbered now and delivered after all that are due.
Emit(e, kind) ==
  /\ chain' = Append(chain, [event |-> NewEvent(kind), by |-> e])
  /\ next' = next + 1

EmitStarted ==
  /\ stage <= Stages
  /\ main = "start" /\ main' = "starting"
  /\ Emit(Runtime, "progress")
  /\ UNCHANGED <<mode, left, writing, writerOn, fatal, stage, failed, progress,
                 output, got, history>>

\* A worker emits and awaits its own delivery.
EmitProgress(w) ==
  /\ main = "running"
  /\ left[w] > 0 /\ ~ Awaiting(w)
  /\ left' = [left EXCEPT ![w] = @ - 1]
  /\ Emit(w, "progress")
  /\ UNCHANGED <<mode, main, writing, writerOn, fatal, stage, failed, progress,
                 output, got, history>>

\* All workers are done, by themselves or because the stage stopped.
EmitTerminal ==
  /\ main = "running" /\ main' = "ending"
  /\ chain = <<>>
  /\ Emit(Runtime, "terminal")
  /\ UNCHANGED <<mode, left, writing, writerOn, fatal, stage, failed, progress,
                 output, got, history>>

\* Or the stage throws, its Bundle refused for example, and has no terminal.
Throw ==
  /\ main = "running" /\ main' = "delivered"
  /\ chain = <<>>
  /\ failed' = TRUE
  /\ UNCHANGED <<mode, next, left, chain, writing, writerOn, fatal, stage,
                 progress, output, got, history>>

\* emitRecovery is queued like any other and numbered when it is delivered.
EmitRecovery ==
  /\ main = "undelivered" /\ main' = "recovering"
  /\ chain' = Append(chain, [event |-> NewEvent("recovery"), by |-> Runtime])
  /\ UNCHANGED <<mode, next, left, writing, writerOn, fatal, stage, failed,
                 progress, output, got, history>>

-----------------------------------------------------------------------------
(***************************************************************************)
(* Delivering, one event after the other.                                  *)
(***************************************************************************)
Due == Head(chain)

\* What the runtime's own await of a delivery continues with.
Resumed(delivered) ==
  CASE Due.by # Runtime -> main
    [] main = "starting" -> "running"
    [] main = "ending" -> IF delivered THEN "delivered" ELSE "undelivered"
    [] OTHER -> "delivered"

Delivered(published_) ==
  /\ chain' = Tail(chain)
  /\ main' = Resumed(published_)
  /\ writing' = FALSE

\* The event goes to the stage's stream, and its emission has succeeded.
Publish ==
  /\ progress' = Push(Capacity, progress, Due.event)
  /\ published' = published \cup {Due.event.seq}
  /\ Delivered(TRUE)

OrdinaryDue == chain # <<>> /\ Due.event.kind # "recovery"

\* Nothing is delivered after a fatal failure of the writer.
Drop ==
  /\ OrdinaryDue /\ fatal
  /\ Delivered(FALSE)
  /\ UNCHANGED <<mode, next, left, writerOn, fatal, stage, failed, progress,
                 output, got, history>>

\* The writer is off, by policy or since it failed.
PublishOnly ==
  /\ OrdinaryDue /\ ~ fatal /\ ~ writerOn
  /\ Publish
  /\ UNCHANGED <<mode, next, left, writerOn, fatal, stage, failed, output, got,
                 base, written>>

StartWrite ==
  /\ OrdinaryDue /\ ~ fatal /\ writerOn /\ ~ writing
  /\ writing' = TRUE
  /\ UNCHANGED <<mode, next, main, left, chain, writerOn, fatal, stage, failed,
                 progress, output, got, history>>

WriteSucceeds ==
  /\ writing
  /\ written' = written \cup {Due.event.seq}
  /\ Publish
  /\ UNCHANGED <<mode, next, left, writerOn, fatal, stage, failed, output, got,
                 base>>

\* Mutant of WriteFails: the event is streamed although the writer refused it.
WriteFailsSilently ==
  /\ writing
  /\ writerOn' = FALSE
  /\ fatal' = (mode = "fail-run")
  /\ Publish
  /\ UNCHANGED <<mode, next, left, stage, failed, output, got, base, written>>

\* The writer is never asked again.  Unless its failures are ignored the event
\* is not streamed, and no later one either.
WriteFails ==
  /\ writing
  /\ writerOn' = FALSE
  /\ IF mode = "fail-run"
     THEN /\ fatal' = TRUE
          /\ Delivered(FALSE)
          /\ UNCHANGED <<progress, published>>
     ELSE /\ Publish
          /\ UNCHANGED fatal
  /\ UNCHANGED <<mode, next, left, stage, failed, output, got, base, written>>

\* The one event that follows a fatal failure.
Recover ==
  /\ chain # <<>> /\ Due.event.kind = "recovery"
  /\ next' = next + 1
  /\ progress' = Push(Capacity, progress, [Due.event EXCEPT !.seq = next])
  /\ Delivered(TRUE)
  /\ UNCHANGED <<mode, left, writerOn, fatal, stage, failed, output, got, history>>

-----------------------------------------------------------------------------
(***************************************************************************)
(* Forwarding and reading.                                                 *)
(***************************************************************************)

\* The runtime's finally: the stage's stream is closed.
CloseStage ==
  /\ main = "delivered" /\ main' = "closed"
  /\ progress' = Closed(progress)
  /\ UNCHANGED <<mode, next, left, chain, writing, writerOn, fatal, stage,
                 failed, output, got, history>>

PumpAsks ==
  /\ stage <= Stages
  /\ Ready(progress)
  /\ progress' = Asked(progress)
  /\ UNCHANGED <<emitter, stage, failed, output, got, history>>

PumpForwards ==
  /\ Answered(progress)
  /\ output' = Push(Capacity, output, progress.hand)
  /\ progress' = Taken(progress)
  /\ UNCHANGED <<emitter, stage, failed, got, history>>

\* settleStage returns when the stage has settled and its stream is drained;
\* the next stage starts ...
NextStage ==
  /\ main = "closed" /\ progress.hand = End
  /\ stage < Stages /\ ~ failed
  /\ stage' = stage + 1
  /\ FreshStage
  /\ UNCHANGED <<mode, next, failed, output, got>>

\* Mutant of CloseRun: the pipeline ends without closing its stream.
CloseRunOpen ==
  /\ main = "closed" /\ progress.hand = End
  /\ stage = Stages \/ (failed /\ stage <= Stages)
  /\ stage' = Stages + 1
  /\ UNCHANGED <<emitter, failed, progress, output, got, history>>

\* ... or the stream of the Run is closed.
CloseRun ==
  /\ main = "closed" /\ progress.hand = End
  /\ stage = Stages \/ (failed /\ stage <= Stages)
  /\ stage' = Stages + 1
  /\ output' = Closed(output)
  /\ UNCHANGED <<emitter, failed, progress, got, history>>

HostAsks ==
  /\ Ready(output)
  /\ output' = Asked(output)
  /\ UNCHANGED <<emitter, stage, failed, progress, got, history>>

HostReceives ==
  /\ Answered(output)
  /\ got' = output.hand
  /\ output' = Taken(output)
  /\ UNCHANGED <<emitter, stage, failed, progress, history>>

Deliver ==
  \/ Drop \/ PublishOnly \/ StartWrite \/ WriteSucceeds \/ WriteFails \/ Recover

Runs ==
  \/ EmitStarted \/ (\E w \in Worker : EmitProgress(w)) \/ EmitTerminal \/ Throw
  \/ EmitRecovery \/ Deliver \/ CloseStage \/ NextStage \/ CloseRun

Pump == PumpAsks \/ PumpForwards
Host == HostAsks \/ HostReceives

Next == Runs \/ Pump \/ Host

Spec == Init /\ [][Next]_vars

\* The event loop runs every continuation that is ready, and the writer answers
\* or fails.  Nothing is assumed of the host.
FairSpec == Spec /\ WF_vars(Runs) /\ WF_vars(Pump)

-----------------------------------------------------------------------------
(***************************************************************************)
(* What the observers are promised.                                        *)
(***************************************************************************)

\* embedded-api.md: sequence numbers increase across the stages.  The host
\* never receives an event older than one it has, through two queues that may
\* each drop events, a recovery that overtakes nothing, and a new emitter for
\* every stage.
ReceivedInOrder ==
  [][HostReceives => got = Nothing \/ got'.seq > got.seq]_vars

\* The newest event on its way to the host, or with it.
Latest ==
  IF output.queue # <<>> THEN output.queue[Len(output.queue)]
  ELSE IF Answered(output) THEN output.hand
  ELSE got

\* A stage that settled, and did not throw, has told the host how it ended:
\* its terminal event, or its recovery, is the newest on the stream of the Run
\* before the next stage starts.  No overflow of either queue loses it, and a
\* consumer that sees the end of the stream has seen it.
SettledStageReported ==
  progress.hand = End /\ ~ failed =>
    /\ Latest # Nothing
    /\ Latest.kind \in {"terminal", "recovery"}
    /\ Latest.stage = IF stage > Stages THEN Stages ELSE stage

\* The lossless persistence of embedded-api.md: what a stage's writer accepted
\* and what its stream was given are each the first events that were emitted,
\* without a gap, however many are emitted concurrently; and where a failure
\* of the writer fails the Run, nothing reaches the stream that the writer has
\* not accepted, but for the recovery.
FirstOf(seqs) == seqs = base .. base + Cardinality(seqs) - 1

WriterHoldsWhatIsShown ==
  /\ FirstOf(written) /\ FirstOf(published)
  /\ mode = "fail-run" => written = published

\* "It never backpressures authoritative evaluation work": the pipeline ends
\* and closes its stream whether or not the host ever reads.
RunEndsUnread == <>output.closed

\* A host that keeps reading comes to the end of the stream.
HostSeesEnd == WF_vars(Host) => <>(output.hand = End)

===============================================================================
