--------------------------- MODULE SubprocessProofs ---------------------------
(***************************************************************************)
(* What Subprocess promises, for any number of calls, runtimes and         *)
(* interrupts, whichever calls have a deadline or can be aborted.          *)
(***************************************************************************)
EXTENDS Subprocess, TLAPS

-----------------------------------------------------------------------------
(***************************************************************************)
(* The invariant.                                                          *)
(***************************************************************************)

\* A child is registered from the spawn until its call is settled, which is not
\* before it has ended.
Registry ==
  \A c \in Call :
    /\ c \in activeChildren <=> child[c] # "none" /\ ~ Settled(c)
    /\ Settled(c) => child[c] \in {"failed", "noticed"}

\* The flag of the coordinator tells whether its listener is there; if it is
\* not, whoever is registered was told of the interrupt that removed it.  The
\* other flag does not outlive the turn.
Heard ==
  /\ listening = installed
  /\ shuttingDown = immediate
  /\ \A u \in activeChildren \cup subscribers : listening \/ u \in told

\* An abort of a call that goes on has given it a reason.
AbortsActed == \A c \in activeChildren : c \in aborted => c \in cancelled \cup timedOut

\* A deadline runs only for a call whose exit was not handled yet.
DeadlinesRun == \A c \in deadline : c \in activeChildren /\ child[c] # "noticed"

IInv == TypeOK /\ Registry /\ Heard /\ AbortsActed /\ DeadlinesRun

-----------------------------------------------------------------------------
(***************************************************************************)
(* Operators.                                                              *)
(***************************************************************************)

\* Every verdict settles the call.
LEMMA VerdictType ==
  ASSUME NEW c \in Call, NEW ending \in {"zero", "nonzero", "signal"}
  PROVE  Verdict(c, ending) \in {"buffer-limit", "timeout", "abort", "resolved", "nonzero-exit"}
BY DEF Verdict

\* The only success is that of a call nothing was held against.
LEMMA SuccessIsClean ==
  ASSUME NEW c \in Call, NEW ending, Verdict(c, ending) = "resolved"
  PROVE  c \notin overflown \cup timedOut \cup cancelled
BY DEF Verdict

\* A reason is added to the call that is killed and to no other, and none is
\* taken back.
LEMMA KillKeeps ==
  ASSUME TypeOK, NEW c \in Call, NEW reason \in {"timeout", "abort", "buffer"},
         KillWithGrace(c, reason)
  PROVE  /\ timedOut' \subseteq Call /\ cancelled' \subseteq Call
         /\ grace' \in [Call -> {"unset", "armed", "spent"}]
         /\ timedOut \subseteq timedOut' /\ cancelled \subseteq cancelled'
         /\ timedOut' # timedOut => reason = "timeout" /\ timedOut' = timedOut \cup {c} /\ c \notin cancelled
         /\ reason = "abort" => c \in cancelled' \cup timedOut'
BY DEF KillWithGrace, TypeOK

\* A step that moves neither a child, nor a registration, nor an abort, and takes
\* no reason back, keeps the rest of the invariant.
LEMMA Unmoved ==
  ASSUME IInv, TypeOK',
         UNCHANGED <<child, result, aborted, activeChildren, subscribers, told, listener>>,
         shuttingDown' = immediate',
         timedOut \subseteq timedOut', cancelled \subseteq cancelled', deadline' \subseteq deadline
  PROVE  IInv'
<1>1. Registry'
  BY DEF IInv, Registry, Settled
<1>2. Heard'
  BY DEF IInv, Heard, listener
<1>3. AbortsActed'
  BY DEF IInv, AbortsActed
<1>4. DeadlinesRun'
  BY DEF IInv, DeadlinesRun
<1>5. QED
  BY <1>1, <1>2, <1>3, <1>4 DEF IInv

\* A call that has ended is settled and forgotten.
LEMMA SettleInductive ==
  ASSUME IInv, NEW c \in Call, Alive, child[c] \in {"failed", "noticed"}, Cleanup(c),
         NEW v \in {"spawn", "buffer-limit", "timeout", "abort", "resolved", "nonzero-exit"},
         result' = [result EXCEPT ![c] = v]
  PROVE  IInv'
<1>1. TypeOK'
  BY DEF IInv, TypeOK, Cleanup, listener, turn, environment
<1>2. Registry'
  BY DEF IInv, TypeOK, Registry, Settled, Cleanup
<1>3. Heard'
  BY CallAssumption DEF IInv, TypeOK, Heard, Cleanup, listener, turn
<1>4. AbortsActed'
  BY DEF IInv, TypeOK, AbortsActed, Cleanup
<1>5. DeadlinesRun'
  BY DEF IInv, TypeOK, DeadlinesRun, Cleanup
<1>6. QED
  BY <1>1, <1>2, <1>3, <1>4, <1>5 DEF IInv

-----------------------------------------------------------------------------
(***************************************************************************)
(* One lemma per kind of step.                                             *)
(***************************************************************************)

LEMMA SpawnInductive ==
  ASSUME IInv, NEW c \in Call, Spawn(c)
  PROVE  IInv'
<1>0. /\ timedOut' \subseteq Call /\ cancelled' \subseteq Call
      /\ grace' \in [Call -> {"unset", "armed", "spent"}]
      /\ timedOut \subseteq timedOut' /\ cancelled \subseteq cancelled'
      /\ c \in aborted => c \in cancelled' \cup timedOut'
  BY KillKeeps DEF IInv, TypeOK, Spawn, killing
<1>1. TypeOK'
  <2>1. child' \in [Call -> {"none", "failed", "running", "exited", "noticed"}]
    BY DEF IInv, TypeOK, Spawn
  <2>2. /\ open' \subseteq Call /\ deadline' \subseteq Call /\ activeChildren' \subseteq Call
        /\ listening' \in BOOLEAN /\ installed' \in BOOLEAN
    BY DEF IInv, TypeOK, Spawn, EnsureListener
  <2>3. UNCHANGED <<doomed, aborted, overflown, drain, result, subscribers, told,
                    fallback, turn, environment>>
    BY DEF Spawn
  <2>4. QED
    BY <1>0, <2>1, <2>2, <2>3 DEF IInv, TypeOK, turn, environment
<1>2. Registry'
  BY DEF IInv, TypeOK, Registry, Settled, Spawn
<1>3. Heard'
  BY DEF IInv, Heard, Spawn, EnsureListener, turn
<1>4. AbortsActed'
  BY <1>0 DEF IInv, AbortsActed, Spawn
<1>5. DeadlinesRun'
  BY DEF IInv, TypeOK, Registry, DeadlinesRun, Settled, Spawn
<1>6. QED
  BY <1>1, <1>2, <1>3, <1>4, <1>5 DEF IInv

LEMMA AbortInductive ==
  ASSUME IInv, NEW c \in Call, Abort(c)
  PROVE  IInv'
<1>0. /\ timedOut' \subseteq Call /\ cancelled' \subseteq Call
      /\ grace' \in [Call -> {"unset", "armed", "spent"}]
      /\ timedOut \subseteq timedOut' /\ cancelled \subseteq cancelled'
      /\ c \in activeChildren => c \in cancelled' \cup timedOut'
  BY KillKeeps DEF IInv, TypeOK, Abort, killing
<1>1. TypeOK'
  BY <1>0, CallAssumption DEF IInv, TypeOK, Abort, output, timers, coordinator, listener, turn, environment
<1>2. Registry'
  BY DEF IInv, Registry, Settled, Abort, coordinator
<1>3. Heard'
  BY DEF IInv, Heard, Abort, coordinator, listener, turn
<1>4. AbortsActed'
  BY <1>0 DEF IInv, AbortsActed, Abort, coordinator
<1>5. DeadlinesRun'
  BY DEF IInv, DeadlinesRun, Abort, timers, coordinator
<1>6. QED
  BY <1>1, <1>2, <1>3, <1>4, <1>5 DEF IInv

LEMMA DeadlinePassesInductive ==
  ASSUME IInv, NEW c \in Call, DeadlinePasses(c)
  PROVE  IInv'
<1>1. TypeOK'
  BY KillKeeps DEF IInv, TypeOK, DeadlinePasses, output, coordinator, listener, turn, environment
<1>2. QED
  BY <1>1, KillKeeps, Unmoved DEF IInv, Heard, DeadlinePasses, coordinator, turn

LEMMA OverflowInductive ==
  ASSUME IInv, NEW c \in Call, Overflow(c)
  PROVE  IInv'
<1>1. TypeOK'
  BY KillKeeps DEF IInv, TypeOK, Overflow, timers, coordinator, listener, turn, environment
<1>2. QED
  BY <1>1, KillKeeps, Unmoved DEF IInv, Heard, Overflow, timers, coordinator, turn

\* The timers that end a child and the draining of its pipes.
LEMMA TimerInductive ==
  ASSUME IInv, NEW c \in Call, GraceEnds(c) \/ FallbackFires(c) \/ DrainEnds(c) \/ PipesClose(c)
  PROVE  IInv'
<1>1. TypeOK'
  <2>1. CASE GraceEnds(c)
    BY <2>1 DEF IInv, TypeOK, GraceEnds, Killed, output, timers, coordinator, listener, turn, environment
  <2>2. CASE FallbackFires(c)
    BY <2>2 DEF IInv, TypeOK, FallbackFires, Killed, killing, output, timers, listener, turn, environment
  <2>3. CASE DrainEnds(c)
    BY <2>3 DEF IInv, TypeOK, DrainEnds, killing, coordinator, listener, turn, environment
  <2>4. CASE PipesClose(c)
    BY <2>4 DEF IInv, TypeOK, PipesClose, killing, timers, coordinator, listener, turn, environment
  <2>5. QED
    BY <2>1, <2>2, <2>3, <2>4
<1>2. QED
  BY <1>1, Unmoved DEF IInv, Heard, GraceEnds, FallbackFires, DrainEnds, PipesClose, killing,
     timers, coordinator, turn

\* A child exits, and its exit is handled.
LEMMA ExitInductive ==
  ASSUME IInv, NEW c \in Call, Exit(c) \/ NoticeExit(c)
  PROVE  IInv'
<1>0. /\ child' \in [Call -> {"none", "failed", "running", "exited", "noticed"}]
      /\ \A d \in Call : d # c => child'[d] = child[d]
      /\ child[c] \in {"running", "exited"} /\ child'[c] \in {"exited", "noticed"}
      /\ deadline' \subseteq deadline
      /\ child'[c] = "noticed" => c \notin deadline'
      /\ UNCHANGED <<doomed, aborted, killing, output, result, coordinator, environment>>
  BY DEF IInv, TypeOK, Exit, NoticeExit, timers
<1>1. TypeOK'
  <2>1. drain' \subseteq Call
    BY DEF IInv, TypeOK, Exit, NoticeExit, timers
  <2>2. QED
    BY <1>0, <2>1 DEF IInv, TypeOK, killing, output, coordinator, listener, turn, environment
<1>2. Registry'
  BY <1>0 DEF IInv, Registry, Settled, coordinator
<1>3. Heard'
  BY <1>0 DEF IInv, Heard, coordinator, listener, turn
<1>4. AbortsActed'
  BY <1>0 DEF IInv, AbortsActed, killing, coordinator
<1>5. DeadlinesRun'
  BY <1>0 DEF IInv, TypeOK, DeadlinesRun, coordinator
<1>6. QED
  BY <1>1, <1>2, <1>3, <1>4, <1>5 DEF IInv

LEMMA CloseInductive ==
  ASSUME IInv, NEW c \in Call, Close(c)
  PROVE  IInv'
<1>1. PICK ending \in {"zero", "nonzero", "signal"} :
        result' = [result EXCEPT ![c] = Verdict(c, ending)]
  BY DEF Close
<1>2. QED
  BY <1>1, VerdictType, SettleInductive DEF Close

LEMMA SpawnErrorInductive ==
  ASSUME IInv, NEW c \in Call, SpawnError(c)
  PROVE  IInv'
BY SettleInductive DEF SpawnError

LEMMA RegisterInductive ==
  ASSUME IInv, NEW r \in Runtime, Register(r) \/ Unregister(r)
  PROVE  IInv'
<1>0. /\ UNCHANGED <<child, doomed, aborted, killing, output, timers, result,
                     activeChildren, fallback, turn, environment>>
      /\ subscribers' \subseteq Runtime /\ told' \subseteq told
  BY DEF IInv, TypeOK, Register, Unregister
<1>1. Heard'
  <2>1. CASE Register(r)
    BY <2>1 DEF IInv, Heard, Register, EnsureListener, turn
  <2>2. CASE Unregister(r)
    BY <2>2, CallAssumption DEF IInv, TypeOK, Heard, Unregister, listener, turn
  <2>3. QED
    BY <2>1, <2>2
<1>2. TypeOK'
  <2>1. listening' \in BOOLEAN /\ installed' \in BOOLEAN
    BY DEF IInv, TypeOK, Register, Unregister, EnsureListener, listener
  <2>2. QED
    BY <1>0, <2>1 DEF IInv, TypeOK, killing, output, timers, turn, environment
<1>3. Registry' /\ AbortsActed' /\ DeadlinesRun'
  BY <1>0 DEF IInv, Registry, Settled, AbortsActed, DeadlinesRun, killing, timers
<1>4. QED
  BY <1>1, <1>2, <1>3 DEF IInv

LEMMA InterruptInductive ==
  ASSUME IInv, Interrupt
  PROVE  IInv'
<1>0. UNCHANGED <<child, doomed, aborted, killing, output, timers, result, host,
                  activeChildren, subscribers>>
  BY DEF Interrupt, BroadcastShutdown, coordinator
<1>1. TypeOK'
  <2>1. interrupts' \in 0 .. MaxInterrupts
    BY CallAssumption DEF IInv, TypeOK, Interrupt
  <2>2. parent' \in {"alive", "dead"}
    BY DEF Interrupt, BroadcastShutdown
  <2>3. /\ told' \subseteq Call \cup Runtime /\ fallback' \subseteq Call
        /\ listening' \in BOOLEAN /\ installed' \in BOOLEAN
        /\ shuttingDown' \in BOOLEAN /\ immediate' \in BOOLEAN
    BY DEF IInv, TypeOK, Interrupt, BroadcastShutdown, coordinator, listener, turn
  <2>4. QED
    BY <1>0, <2>1, <2>2, <2>3 DEF IInv, TypeOK, killing, output, timers
<1>2. Heard'
  <2>1. CASE /\ told' = told \cup activeChildren \cup subscribers
             /\ listening' = FALSE /\ installed' = FALSE
             /\ shuttingDown' = TRUE /\ immediate' = TRUE
    BY <1>0, <2>1 DEF IInv, TypeOK, Heard
  <2>2. CASE UNCHANGED coordinator
    BY <2>2 DEF IInv, Heard, coordinator, listener, turn
  <2>3. QED
    BY <2>1, <2>2 DEF Interrupt, BroadcastShutdown
<1>3. Registry' /\ AbortsActed' /\ DeadlinesRun'
  BY <1>0 DEF IInv, Registry, Settled, AbortsActed, DeadlinesRun, killing, timers
<1>4. QED
  BY <1>1, <1>2, <1>3 DEF IInv

LEMMA TurnEndsInductive ==
  ASSUME IInv, TurnEnds
  PROVE  IInv'
<1>1. TypeOK'
  BY DEF IInv, TypeOK, TurnEnds, killing, output, timers, listener, turn, environment
<1>2. QED
  BY <1>1, Unmoved DEF IInv, Heard, TurnEnds, killing, timers

-----------------------------------------------------------------------------
(***************************************************************************)
(* The theorems.                                                           *)
(***************************************************************************)
LEMMA InitSound == Init => IInv
<1> SUFFICES ASSUME Init
             PROVE  IInv
  OBVIOUS
<1>1. TypeOK
  <2>1. interrupts \in 0 .. MaxInterrupts
    BY CallAssumption DEF Init
  <2>2. listening \in BOOLEAN /\ installed \in BOOLEAN /\ shuttingDown \in BOOLEAN
      /\ immediate \in BOOLEAN /\ host \in BOOLEAN
    BY Zenon DEF Init
  <2>3. QED
    BY <2>1, <2>2 DEF Init, TypeOK
<1>2. Registry
  BY DEF Init, Registry, Settled
<1>3. Heard /\ AbortsActed /\ DeadlinesRun
  BY DEF Init, Heard, AbortsActed, DeadlinesRun
<1>4. QED
  BY <1>1, <1>2, <1>3 DEF IInv

\* One case per kind of step.
LEMMA StepSound ==
  ASSUME IInv, Next
  PROVE  IInv'
<1>1. ASSUME NEW c \in Call, Spawn(c) \/ Abort(c) \/ Overflow(c)
      PROVE  IInv'
  BY <1>1, SpawnInductive, AbortInductive, OverflowInductive
<1>2. ASSUME NEW c \in Call, EventLoop(c)
      PROVE  IInv'
  BY <1>2, DeadlinePassesInductive, TimerInductive, ExitInductive, CloseInductive,
     SpawnErrorInductive DEF EventLoop
<1>3. ASSUME NEW c \in Call, Exit(c) \/ PipesClose(c)
      PROVE  IInv'
  BY <1>3, ExitInductive, TimerInductive
<1>4. ASSUME NEW r \in Runtime, Register(r) \/ Unregister(r)
      PROVE  IInv'
  BY <1>4, RegisterInductive
<1>5. QED
  BY <1>1, <1>2, <1>3, <1>4, InterruptInductive, TurnEndsInductive DEF Next

LEMMA StutterSound ==
  ASSUME IInv, UNCHANGED vars
  PROVE  IInv'
<1>1. TypeOK'
  BY DEF IInv, TypeOK, vars, killing, output, timers, coordinator, listener, turn, environment
<1>2. QED
  BY <1>1, Unmoved DEF IInv, Heard, vars, killing, timers, coordinator, turn

\* The invariant: the registry, the listener and the reasons agree with what the
\* children and the callers did, in every reachable state.
THEOREM Invariant == Spec => []IInv
<1>1. IInv /\ [Next]_vars => IInv'
  BY StepSound, StutterSound
<1>2. QED
  BY <1>1, InitSound, PTL DEF Spec

\* Every variable keeps its type, and there are no more interrupts than the
\* bound allows (spawnWithSigintPropagation).
THEOREM TypeCorrect == Spec => []TypeOK
<1>1. IInv => TypeOK
  BY DEF IInv
<1>2. QED
  BY <1>1, Invariant, PTL

-----------------------------------------------------------------------------
(* Interrupts.                                                             *)

\* Only the user interrupts.
LEMMA InterruptMoves ==
  ASSUME [Next]_vars, interrupts' # interrupts
  PROVE  Interrupt
BY DEF Next, EventLoop, Spawn, Abort, Overflow, DeadlinePasses, GraceEnds, DrainEnds,
   FallbackFires, NoticeExit, Exit, PipesClose, Close, SpawnError, Cleanup, Register,
   Unregister, TurnEnds, environment, vars

\* However often the coordinator stepped aside, and whatever was registered in
\* the turn it did so, an interrupt in a later turn leaves no registered runtime
\* and no child that is registered or runs untold: the listener is back, and the
\* flag that drops repeated signals is not set any more (broadcastShutdown,
\* ensureSigintListener).
THEOREM InterruptReachesAllHolds == Spec => InterruptReachesAll
<1>1. ASSUME IInv, [Next]_vars, interrupts' # interrupts, ~ immediate
      PROVE  Interruptible \subseteq told'
  <2>1. Interrupt
    BY <1>1, InterruptMoves
  <2>2. ~ shuttingDown
    BY <1>1 DEF IInv, Heard
  <2>3. Interruptible = activeChildren \cup subscribers
    BY <1>1 DEF IInv, TypeOK, Registry, Settled, Interruptible
  <2>4. CASE listening
    BY <2>1, <2>2, <2>3, <2>4 DEF Interrupt, BroadcastShutdown
  <2>5. CASE ~ listening
    BY <1>1, <2>1, <2>3, <2>5 DEF IInv, Heard, Interrupt, coordinator
  <2>6. QED
    BY <2>4, <2>5
<1>2. IInv /\ [Next]_vars =>
        [interrupts' # interrupts /\ ~ immediate => Interruptible \subseteq told']_vars
  BY <1>1
<1>3. QED
  BY <1>2, Invariant, PTL DEF Spec, InterruptReachesAll

-----------------------------------------------------------------------------
(* Verdicts.                                                               *)

\* Only the end of a call settles it.
LEMMA ResultMoves ==
  ASSUME IInv, [Next]_vars, NEW c \in Call, result'[c] # result[c]
  PROVE  Close(c) \/ SpawnError(c)
<1>1. ASSUME NEW d \in Call, Close(d) \/ SpawnError(d)
      PROVE  d = c
  BY <1>1 DEF IInv, TypeOK, Close, SpawnError
<1>2. CASE UNCHANGED result
  BY <1>2
<1>3. CASE \E d \in Call : Close(d) \/ SpawnError(d)
  BY <1>1, <1>3
<1>4. UNCHANGED result \/ \E d \in Call : Close(d) \/ SpawnError(d)
  BY DEF Next, EventLoop, Spawn, Abort, Overflow, DeadlinePasses, GraceEnds, DrainEnds,
     FallbackFires, NoticeExit, Exit, PipesClose, Register, Unregister, Interrupt,
     TurnEnds, vars
<1>5. QED
  BY <1>2, <1>3, <1>4

\* Only its deadline makes a call one that timed out.
LEMMA TimeoutMoves ==
  ASSUME IInv, [Next]_vars, NEW c \in timedOut' \ timedOut
  PROVE  c \in Call /\ DeadlinePasses(c) /\ c \notin cancelled
<1>1. ASSUME NEW d \in Call, Spawn(d) \/ Abort(d) \/ Overflow(d)
      PROVE  FALSE
  BY <1>1, KillKeeps DEF IInv, Spawn, Abort, Overflow, killing
<1>2. ASSUME NEW d \in Call, DeadlinePasses(d)
      PROVE  d = c /\ c \notin cancelled
  BY <1>2, KillKeeps DEF IInv, DeadlinePasses
<1>3. ASSUME NEW d \in Call, Close(d) \/ SpawnError(d)
      PROVE  FALSE
  BY <1>3 DEF Close, SpawnError, Cleanup
<1>4. \/ \E d \in Call : Spawn(d) \/ Abort(d) \/ Overflow(d) \/ Close(d) \/ SpawnError(d)
      \/ \E d \in Call : DeadlinePasses(d)
  BY DEF Next, EventLoop, GraceEnds, DrainEnds, FallbackFires, NoticeExit, Exit,
     PipesClose, Register, Unregister, Interrupt, TurnEnds, killing, vars
<1>5. QED
  BY <1>1, <1>2, <1>3, <1>4

\* A call its caller gave up, or that broke a limit, does not succeed, whatever
\* its child did with the signal; no call is settled twice; and a deadline is
\* not held against a call that was aborted or whose exit was handled
\* (killWithGrace, the exit and the close handler).
THEOREM VerdictHolds == Spec => VerdictStands
<1>1. ASSUME IInv, [Next]_vars, NEW c \in Call
      PROVE  /\ Settled(c) => result'[c] = result[c]
             /\ result'[c] = "resolved" /\ ~ Settled(c) =>
                  c \notin aborted \cup timedOut \cup overflown
             /\ c \in timedOut' \ timedOut => c \notin aborted /\ child[c] # "noticed"
  <2>1. Settled(c) => result'[c] = result[c]
    BY <1>1, ResultMoves DEF Close, SpawnError
  <2>2. ASSUME result'[c] = "resolved", ~ Settled(c)
        PROVE  c \notin aborted \cup timedOut \cup overflown
    <3>1. Close(c)
      BY <1>1, <2>2, ResultMoves DEF IInv, TypeOK, Settled, SpawnError
    <3>2. PICK ending \in {"zero", "nonzero", "signal"} : Verdict(c, ending) = "resolved"
      BY <1>1, <2>2, <3>1 DEF IInv, TypeOK, Close
    <3>3. c \in activeChildren
      BY <1>1, <3>1 DEF IInv, Registry, Close
    <3>4. QED
      BY <1>1, <3>2, <3>3, SuccessIsClean DEF IInv, AbortsActed
  <2>3. ASSUME c \in timedOut' \ timedOut
        PROVE  c \notin aborted /\ child[c] # "noticed"
    <3>1. c \in deadline /\ c \notin cancelled
      BY <1>1, <2>3, TimeoutMoves DEF DeadlinePasses
    <3>2. QED
      BY <1>1, <2>3, <3>1 DEF IInv, DeadlinesRun, AbortsActed
  <2>4. QED
    BY <2>1, <2>2, <2>3
<1>2. IInv /\ [Next]_vars =>
        [\A c \in Call :
           /\ Settled(c) => result'[c] = result[c]
           /\ result'[c] = "resolved" /\ ~ Settled(c) =>
                c \notin aborted \cup timedOut \cup overflown
           /\ c \in timedOut' \ timedOut => c \notin aborted /\ child[c] # "noticed"]_vars
  BY <1>1
<1>3. QED
  BY <1>2, Invariant, PTL DEF Spec, VerdictStands
=============================================================================
