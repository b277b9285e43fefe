------------------------------ MODULE Subprocess ------------------------------
(***************************************************************************)
(* spawnWithSigintPropagation (src/executors/core/subprocess.ts): external *)
(* executors run as children of this process.  A call ends its child at    *)
(* its deadline, when its caller aborts and when the output overflows,     *)
(* with SIGTERM and, half a second later, SIGKILL.  One coordinator per    *)
(* process passes an interrupt of the user on to every child, and to the   *)
(* runtimes that own children themselves.                                  *)
(*                                                                         *)
(* One action is one callback of the event loop, or one step of a child.   *)
(* A child may exit, and close its pipes, at any time, so that a SIGTERM   *)
(* leaves no trace in the state; it may also ignore it, or leave           *)
(* descendants behind that keep the pipes open.                            *)
(***************************************************************************)
EXTENDS Naturals

CONSTANTS
  Call,           \* calls of spawnWithSigintPropagation, each with its child
  Limited,        \* those with a timeoutMs
  Abortable,      \* those with an abortSignal
  Verbose,        \* those whose output may pass maxBuffer
  Runtime,        \* runtimes registered with registerSigintSubscriber
  MaxInterrupts   \* how often the user interrupts

ASSUME CallAssumption ==
  /\ Limited \cup Abortable \cup Verbose \subseteq Call
  /\ Call \cap Runtime = {}
  /\ MaxInterrupts \in Nat

VARIABLES
  child,          \* child[c]: "failed" to start, or "running"; "exited", and
                  \* "noticed" once its exit event was handled
  doomed,         \* children that were sent SIGKILL
  open,           \* calls with a pipe that is not closed
  aborted,        \* calls whose caller has aborted
  timedOut,       \* killedByTimeout
  cancelled,      \* killedBySignalReason
  overflown,      \* bufferOverflowStream
  deadline,       \* calls whose timeoutTimer runs
  grace,          \* grace[c]: the graceTimer
  drain,          \* calls whose drainTimer runs
  result,         \* result[c]: how done was settled
  activeChildren, \* the registry of the coordinator
  subscribers,    \* sigintSubscribers
  told,           \* children and runtimes an interrupt was passed on to
  fallback,       \* children the coordinator will send SIGKILL
  listening,      \* the coordinator's listener is among the process's own
  installed,      \* sigintListenerInstalled
  shuttingDown,   \* an interrupt was passed on and the flag is still set
  immediate,      \* the setImmediate of that turn of the event loop is due
  host,           \* the command that runs listens for interrupts itself
  parent,         \* this process is "alive" or "dead"
  interrupts      \* how often it was interrupted

killing == <<timedOut, cancelled, grace>>
output == <<open, overflown>>
timers == <<deadline, drain>>
listener == <<listening, installed>>
turn == <<shuttingDown, immediate>>
coordinator == <<activeChildren, subscribers, told, fallback, listener, turn>>
environment == <<host, parent, interrupts>>
vars == <<child, doomed, aborted, killing, output, timers, result, coordinator, environment>>

Init ==
  /\ child = [c \in Call |-> "none"]
  /\ grace = [c \in Call |-> "unset"]
  /\ result = [c \in Call |-> "none"]
  /\ doomed = {} /\ open = {} /\ aborted = {} /\ timedOut = {} /\ cancelled = {}
  /\ overflown = {} /\ deadline = {} /\ drain = {}
  /\ activeChildren = {} /\ subscribers = {} /\ told = {} /\ fallback = {}
  /\ listening = FALSE /\ installed = FALSE /\ shuttingDown = FALSE /\ immediate = FALSE
  /\ host \in BOOLEAN /\ parent = "alive" /\ interrupts = 0

Alive == parent = "alive"
Settled(c) == result[c] # "none"

-------------------------------------------------------------------------------
(* A call.                                                                 *)

\* killWithGrace(reason): the first of deadline and abort is the reason, and
\* the first kill sets the timer of the SIGKILL.
KillWithGrace(c, reason) ==
  /\ timedOut' = IF reason = "timeout" /\ c \notin cancelled THEN timedOut \cup {c} ELSE timedOut
  /\ cancelled' = IF reason = "abort" /\ c \notin timedOut THEN cancelled \cup {c} ELSE cancelled
  /\ grace' = [grace EXCEPT ![c] = IF @ = "unset" THEN "armed" ELSE @]

\* ensureSigintListener
EnsureListener ==
  /\ installed' = TRUE
  /\ listening' = (listening \/ ~ installed)

\* A signal that is aborted already is acted upon before anything else happens.
Spawn(c) ==
  /\ Alive /\ child[c] = "none"
  /\ \E start \in {"running", "failed"} : child' = [child EXCEPT ![c] = start]
  /\ open' = open \cup {c}
  /\ deadline' = IF c \in Limited THEN deadline \cup {c} ELSE deadline
  /\ activeChildren' = activeChildren \cup {c}
  /\ EnsureListener
  /\ IF c \in aborted THEN KillWithGrace(c, "abort") ELSE UNCHANGED killing
  /\ UNCHANGED <<doomed, aborted, overflown, drain, result, subscribers, told,
                 fallback, turn, environment>>

\* The listener is there from the spawn to the end of the call.
Abort(c) ==
  /\ Alive /\ c \in Abortable \ aborted /\ ~ Settled(c)
  /\ aborted' = aborted \cup {c}
  /\ IF c \in activeChildren THEN KillWithGrace(c, "abort") ELSE UNCHANGED killing
  /\ UNCHANGED <<child, doomed, output, timers, result, coordinator, environment>>

DeadlinePasses(c) ==
  /\ Alive /\ c \in deadline
  /\ deadline' = deadline \ {c}
  /\ KillWithGrace(c, "timeout")
  /\ UNCHANGED <<child, doomed, aborted, output, drain, result, coordinator, environment>>

\* A stream passes maxBuffer, written by the child or by its descendants.
Overflow(c) ==
  /\ Alive /\ c \in Verbose /\ c \in open \ overflown /\ child[c] # "failed"
  /\ overflown' = overflown \cup {c}
  /\ KillWithGrace(c, "buffer")
  /\ UNCHANGED <<child, doomed, aborted, open, timers, result, coordinator, environment>>

\* child.kill('SIGKILL') reaches a child that is still there.
Killed(c) == doomed' = IF child[c] = "running" THEN doomed \cup {c} ELSE doomed

GraceEnds(c) ==
  /\ Alive /\ grace[c] = "armed"
  /\ grace' = [grace EXCEPT ![c] = "spent"]
  /\ Killed(c)
  /\ UNCHANGED <<child, aborted, timedOut, cancelled, output, timers, result,
                 coordinator, environment>>

\* Mutant of NoticeExit: the pipes are waited for without a limit.
NoticeExitUndrained(c) ==
  /\ Alive /\ child[c] = "exited"
  /\ child' = [child EXCEPT ![c] = "noticed"]
  /\ deadline' = deadline \ {c}
  /\ UNCHANGED <<doomed, aborted, killing, output, drain, result, coordinator, environment>>

\* The deadline limits the execution, not the draining of the pipes, which has
\* a limit of its own.
NoticeExit(c) ==
  /\ Alive /\ child[c] = "exited"
  /\ child' = [child EXCEPT ![c] = "noticed"]
  /\ deadline' = deadline \ {c}
  /\ drain' = drain \cup {c}
  /\ UNCHANGED <<doomed, aborted, killing, output, result, coordinator, environment>>

DrainEnds(c) ==
  /\ Alive /\ c \in drain
  /\ drain' = drain \ {c}
  /\ open' = open \ {c}
  /\ UNCHANGED <<child, doomed, aborted, killing, overflown, deadline, result,
                 coordinator, environment>>

\* cleanup(), after which nobody reads the variables of the call again.
Cleanup(c) ==
  /\ activeChildren' = activeChildren \ {c}
  /\ deadline' = deadline \ {c} /\ drain' = drain \ {c}
  /\ grace' = [grace EXCEPT ![c] = "unset"]
  /\ doomed' = doomed \ {c} /\ aborted' = aborted \ {c} /\ told' = told \ {c}
  /\ timedOut' = timedOut \ {c} /\ cancelled' = cancelled \ {c}
  /\ overflown' = overflown \ {c} /\ open' = open \ {c}
  /\ UNCHANGED <<child, subscribers, fallback, listener, turn, environment>>

\* Mutant of Verdict: a child that catches SIGTERM and exits with zero succeeds.
VerdictOfChild(c, ending) ==
  IF c \in overflown THEN "buffer-limit"
  ELSE IF ending = "zero" THEN "resolved"
  ELSE IF c \in timedOut THEN "timeout"
  ELSE IF c \in cancelled \/ ending = "signal" THEN "abort"
  ELSE "nonzero-exit"

\* How done settles when the child ended in this way.
Verdict(c, ending) ==
  IF c \in overflown THEN "buffer-limit"
  ELSE IF c \in timedOut THEN "timeout"
  ELSE IF c \in cancelled \/ ending = "signal" THEN "abort"
  ELSE IF ending = "zero" THEN "resolved"
  ELSE "nonzero-exit"

Close(c) ==
  /\ Alive /\ child[c] = "noticed" /\ c \notin open /\ ~ Settled(c)
  /\ \E ending \in {"zero", "nonzero", "signal"} :
       /\ c \in doomed => ending = "signal"
       /\ result' = [result EXCEPT ![c] = Verdict(c, ending)]
  /\ Cleanup(c)

\* The child could not be started.
SpawnError(c) ==
  /\ Alive /\ child[c] = "failed" /\ ~ Settled(c)
  /\ result' = [result EXCEPT ![c] = "spawn"]
  /\ Cleanup(c)

-------------------------------------------------------------------------------
(* The coordinator.                                                        *)

Register(r) ==
  /\ Alive /\ r \notin subscribers
  /\ subscribers' = subscribers \cup {r}
  /\ EnsureListener
  /\ UNCHANGED <<child, doomed, aborted, killing, output, timers, result,
                 activeChildren, told, fallback, turn, environment>>

Unregister(r) ==
  /\ Alive /\ r \in subscribers
  /\ subscribers' = subscribers \ {r}
  /\ told' = told \ {r}
  /\ UNCHANGED <<child, doomed, aborted, killing, output, timers, result,
                 activeChildren, fallback, listener, turn, environment>>

\* broadcastShutdown: the coordinator steps aside, and raises the interrupt
\* again when nobody else listens, which ends this process.
BroadcastShutdown ==
  /\ shuttingDown' = TRUE /\ immediate' = TRUE
  /\ told' = told \cup activeChildren \cup subscribers
  /\ fallback' = fallback \cup activeChildren
  /\ listening' = FALSE
  /\ installed' = FALSE
  /\ parent' = IF host THEN "alive" ELSE "dead"
  /\ UNCHANGED <<activeChildren, subscribers>>

\* SIGINT arrives: once per turn it is passed on; a host that listens handles
\* it as well, and a process in which nobody listens is ended by it.
Interrupt ==
  /\ Alive /\ interrupts < MaxInterrupts
  /\ interrupts' = interrupts + 1
  /\ IF listening /\ ~ shuttingDown
       THEN BroadcastShutdown
       ELSE /\ parent' = IF listening \/ host THEN "alive" ELSE "dead"
            /\ UNCHANGED coordinator
  /\ UNCHANGED <<child, doomed, aborted, killing, output, timers, result, host>>

\* Mutant of TurnEnds: the flag outlives the turn.
TurnEndsLatched ==
  /\ Alive /\ immediate
  /\ immediate' = FALSE
  /\ UNCHANGED <<child, doomed, aborted, killing, output, timers, result,
                 activeChildren, subscribers, told, fallback, listener, shuttingDown, environment>>

\* The callback of setImmediate: the first thing after the turn.
TurnEnds ==
  /\ Alive /\ immediate
  /\ immediate' = FALSE
  /\ shuttingDown' = FALSE
  /\ UNCHANGED <<child, doomed, aborted, killing, output, timers, result,
                 activeChildren, subscribers, told, fallback, listener, environment>>

FallbackFires(c) ==
  /\ Alive /\ c \in fallback
  /\ fallback' = fallback \ {c}
  /\ Killed(c)
  /\ UNCHANGED <<child, aborted, killing, output, timers, result, activeChildren,
                 subscribers, told, listener, turn, environment>>

-------------------------------------------------------------------------------
(* Children.  What they do after this process has ended is not followed.   *)

Exit(c) ==
  /\ Alive /\ child[c] = "running"
  /\ child' = [child EXCEPT ![c] = "exited"]
  /\ UNCHANGED <<doomed, aborted, killing, output, timers, result, coordinator, environment>>

PipesClose(c) ==
  /\ Alive /\ c \in open /\ child[c] \in {"exited", "noticed"}
  /\ open' = open \ {c}
  /\ UNCHANGED <<child, doomed, aborted, killing, overflown, timers, result,
                 coordinator, environment>>

EventLoop(c) ==
  \/ DeadlinePasses(c) \/ GraceEnds(c) \/ DrainEnds(c) \/ FallbackFires(c)
  \/ NoticeExit(c) \/ Close(c) \/ SpawnError(c)

Next ==
  \/ \E c \in Call : Spawn(c) \/ Abort(c) \/ Overflow(c) \/ EventLoop(c)
  \/ \E c \in Call : Exit(c) \/ PipesClose(c)
  \/ \E r \in Runtime : Register(r) \/ Unregister(r)
  \/ Interrupt \/ TurnEnds

Spec == Init /\ [][Next]_vars

\* Timers and events are handled, and nothing survives SIGKILL.  A child that
\* was not sent SIGKILL need not exit, and pipes need not close.
FairSpec ==
  /\ Spec
  /\ WF_vars(TurnEnds)
  /\ \A c \in Call : WF_vars(EventLoop(c)) /\ WF_vars(c \in doomed /\ Exit(c))

-------------------------------------------------------------------------------
TypeOK ==
  /\ child \in [Call -> {"none", "failed", "running", "exited", "noticed"}]
  /\ grace \in [Call -> {"unset", "armed", "spent"}]
  /\ result \in [Call -> {"none", "spawn", "buffer-limit", "timeout", "abort",
                          "resolved", "nonzero-exit"}]
  /\ \A S \in {doomed, open, aborted, timedOut, cancelled, overflown, deadline,
               drain, activeChildren, fallback} : S \subseteq Call
  /\ subscribers \subseteq Runtime /\ told \subseteq Call \cup Runtime
  /\ listening \in BOOLEAN /\ installed \in BOOLEAN /\ shuttingDown \in BOOLEAN
  /\ immediate \in BOOLEAN /\ host \in BOOLEAN
  /\ parent \in {"alive", "dead"}
  /\ interrupts \in 0 .. MaxInterrupts

\* Whom an interrupt has to reach: registered children and runtimes, and every
\* child that runs.
Interruptible == activeChildren \cup subscribers \cup {c \in Call : child[c] = "running"}

\* "The process remains usable": an interrupt in a later turn than the last one
\* that was passed on leaves nobody untold, whatever was registered, interrupted
\* and settled before.  Neither of the coordinator's two flags can keep it from
\* those that came since, and no child runs outside the registry.
InterruptReachesAll ==
  [][interrupts' # interrupts /\ ~ immediate => Interruptible \subseteq told']_vars

\* "Deadline and cancellation are caller-side facts": a call that was aborted,
\* ran over its deadline or its buffer does not succeed, however its child
\* ended; the deadline does not count after an abort nor after the exit; and
\* no call is settled twice.
VerdictStands ==
  [][\A c \in Call :
       /\ Settled(c) => result'[c] = result[c]
       /\ result'[c] = "resolved" /\ ~ Settled(c) =>
            c \notin aborted \cup timedOut \cup overflown
       /\ c \in timedOut' \ timedOut => c \notin aborted /\ child[c] # "noticed"]_vars

\* What has to end a call.
Ending(c) ==
  \/ c \in Limited \cup aborted \cup overflown \cup told
  \/ child[c] # "running"

\* A call with a deadline, one that was aborted, overflowed or interrupted, and
\* one whose child has exited, settles, although children may ignore SIGTERM
\* and descendants keep the pipes.  Unless this process is ended first: an
\* interrupt that no host listens to ends it before the SIGKILL is due.
CallsSettle ==
  \A c \in Call : c \in activeChildren /\ Ending(c) ~> Settled(c) \/ ~ Alive
===============================================================================
