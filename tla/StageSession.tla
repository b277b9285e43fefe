----------------------------- MODULE StageSession -----------------------------
(***************************************************************************)
(* Who works under a run id (eval-core/engine/index.ts).  The prepared     *)
(* evaluations of one engine share activeRunIds.  A host either starts a   *)
(* Run, which goes through the whole pipeline (startPrepared), or opens a  *)
(* stage session (createStageSession) and calls the stages itself, in any  *)
(* order, with sources of its own or admitted ones, and closes it when it  *)
(* likes; a stage that rejects and a finished report close it too.         *)
(*                                                                         *)
(* A stage that settles resolves a promise, whose callbacks run in a row,  *)
(* in the order of their registration; the host goes on in its own.        *)
(***************************************************************************)
EXTENDS Naturals, Sequences

CONSTANTS
  Run,      \* the Runs a host starts
  Session,  \* the sessions it opens
  Stage,    \* the stages of a session
  NoStage,  \* no stage
  RunId,    \* the ids the host gives
  IdOf      \* IdOf[u]: the id given to a Run or a session

User == Run \cup Session

ASSUME SessionAssumption ==
  /\ Run \cap Session = {}
  /\ IdOf \in [User -> RunId]
  /\ NoStage \notin Stage

VARIABLES
  active,     \* activeRunIds
  phase,      \* phase[u]: neither closing nor closed, closing, or closed
  stage,      \* stage[s]: the stage that was started last
  outcome,    \* outcome[s]: whether its promise is pending, and how it settled
  callbacks,  \* callbacks[s]: what is registered on it and has not run
  inFlight,   \* inFlight[s]: the stage the session waits for, or NoStage
  started,    \* started[s]: startedStages
  aborted,    \* aborted[s]: the signal of its stages
  bound,      \* bound[s]: budgetByExecutionSource has its own source
  known,      \* known[s]: the host has its own source
  ledger      \* ledger[s]: empty until its Evaluation starts, then whether that
              \* continues the session's own Execution, and on its live ledger

vars == <<active, phase, stage, outcome, callbacks, inFlight, started, aborted,
          bound, known, ledger>>

\* The types, and a stage in flight is one that was started.
TypeOK ==
  /\ active \subseteq RunId
  /\ phase \in [User -> {"idle", "open", "closing", "closed"}]
  /\ stage \in [Session -> Stage \cup {NoStage}]
  /\ outcome \in [Session -> {"none", "pending", "resolved", "rejected"}]
  /\ callbacks \in [Session -> Seq({"track", "bind", "host"})]
  /\ inFlight \in [Session -> Stage \cup {NoStage}]
  /\ started \in [Session -> SUBSET Stage]
  /\ \A s \in Session : inFlight[s] \in started[s] \cup {NoStage}
  /\ aborted \in [Session -> BOOLEAN]
  /\ bound \in [Session -> BOOLEAN]
  /\ known \in [Session -> BOOLEAN]
  /\ ledger \in [Session -> SUBSET [own : BOOLEAN, live : BOOLEAN]]

Init ==
  /\ active = {}
  /\ phase = [u \in User |-> "idle"]
  /\ stage = [s \in Session |-> NoStage]
  /\ outcome = [s \in Session |-> "none"]
  /\ callbacks = [s \in Session |-> <<>>]
  /\ inFlight = [s \in Session |-> NoStage]
  /\ started = [s \in Session |-> {}]
  /\ aborted = [s \in Session |-> FALSE]
  /\ bound = [s \in Session |-> FALSE]
  /\ known = [s \in Session |-> FALSE]
  /\ ledger = [s \in Session |-> {}]

promise == <<stage, outcome, callbacks>>
sources == <<bound, known, ledger>>

\* No host code runs between the first callback of a promise and its own.
HostActs(s) ==
  outcome[s] = "pending" \/ \A i \in DOMAIN callbacks[s] : callbacks[s][i] # "host"

-----------------------------------------------------------------------------
(***************************************************************************)
(* Run ids.                                                                *)
(***************************************************************************)

\* startPrepared and createStageSession refuse an id that is active.
Open(u) ==
  /\ phase[u] = "idle" /\ IdOf[u] \notin active
  /\ phase' = [phase EXCEPT ![u] = "open"]
  /\ active' = active \cup {IdOf[u]}
  /\ UNCHANGED <<promise, inFlight, started, aborted, sources>>

\* The id is given back.
Release(u) ==
  /\ phase' = [phase EXCEPT ![u] = "closed"]
  /\ active' = active \ {IdOf[u]}

\* A pipeline resolves, whatever its stages did.
EndRun(r) ==
  /\ phase[r] = "open"
  /\ Release(r)
  /\ UNCHANGED <<promise, inFlight, started, aborted, sources>>

-----------------------------------------------------------------------------
(***************************************************************************)
(* Closing a session.                                                      *)
(***************************************************************************)

\* Mutant of BeginClose: the stage in flight is not aborted.
BeginCloseQuietly(s) ==
  /\ UNCHANGED aborted
  /\ IF phase[s] # "open" THEN UNCHANGED <<phase, active>>
     ELSE IF inFlight'[s] = NoStage THEN Release(s)
     ELSE /\ phase' = [phase EXCEPT ![s] = "closing"]
          /\ UNCHANGED active

\* close up to its await: the stages are aborted, and with none in flight the
\* id is given back at once.  A second call joins the first.
BeginClose(s) ==
  IF phase[s] # "open" THEN UNCHANGED <<phase, active, aborted>>
  ELSE /\ aborted' = [aborted EXCEPT ![s] = TRUE]
       /\ IF inFlight'[s] = NoStage THEN Release(s)
          ELSE /\ phase' = [phase EXCEPT ![s] = "closing"]
               /\ UNCHANGED active

HostCloses(s) ==
  /\ phase[s] = "open" /\ HostActs(s)
  /\ UNCHANGED inFlight
  /\ BeginClose(s)
  /\ UNCHANGED <<promise, started, sources>>

\* Mutant of FinishClose: the stage in flight is not waited for.
FinishCloseHastily(s) ==
  /\ phase[s] = "closing"
  /\ Release(s)
  /\ UNCHANGED <<promise, inFlight, started, aborted, sources>>

\* close after its await, which takes longer than the callbacks of the promise
\* that it waits for.
FinishClose(s) ==
  /\ phase[s] = "closing"
  /\ outcome[s] # "pending" /\ callbacks[s] = <<>>
  /\ Release(s)
  /\ UNCHANGED <<promise, inFlight, started, aborted, sources>>

-----------------------------------------------------------------------------
(***************************************************************************)
(* Stages.                                                                 *)
(***************************************************************************)

\* Mutant of Registered: the ledger is remembered after the host was told.
RegisteredLate(k) ==
  IF k = "execution" THEN <<"track", "host", "bind">> ELSE <<"track", "host">>

\* The callbacks of a stage's promise: track's, for Execution the one that
\* remembers the ledger of its source, then the host's.
Registered(k) ==
  IF k = "execution" THEN <<"track", "bind", "host">> ELSE <<"track", "host">>

\* An Evaluation is given the live ledger of the Execution it continues if that
\* ran in this session, and else starts from what the source's Bundle stores.
Ledger(s, own) == [own |-> own, live |-> own /\ bound[s]]

\* startedStages with the stage that is started now.
Recorded(s, k) == started[s] \cup {k}

\* The host calls a stage.  Whatever startOnce refuses, and a start that throws,
\* leaves everything as it was.
Start(s, k, own) ==
  /\ phase[s] = "open" /\ HostActs(s)
  /\ inFlight[s] = NoStage /\ k \notin started[s]
  /\ own => k = "evaluation" /\ known[s]
  /\ stage' = [stage EXCEPT ![s] = k]
  /\ outcome' = [outcome EXCEPT ![s] = "pending"]
  /\ callbacks' = [callbacks EXCEPT ![s] = Registered(k)]
  /\ inFlight' = [inFlight EXCEPT ![s] = k]
  /\ started' = [started EXCEPT ![s] = Recorded(s, k)]
  /\ ledger' = [ledger EXCEPT ![s] = IF k = "evaluation" THEN {Ledger(s, own)} ELSE @]
  /\ UNCHANGED <<active, phase, aborted, bound, known>>

Settle(s, how) ==
  /\ outcome[s] = "pending"
  /\ outcome' = [outcome EXCEPT ![s] = how]
  /\ UNCHANGED <<active, phase, stage, callbacks, inFlight, started, aborted,
                 sources>>

\* The next callback of the settled promise is c.
Called(s, c) ==
  /\ outcome[s] # "pending"
  /\ callbacks[s] # <<>> /\ Head(callbacks[s]) = c
  /\ callbacks' = [callbacks EXCEPT ![s] = Tail(@)]
  /\ UNCHANGED <<stage, outcome, started>>

Resolved(s) == outcome[s] = "resolved"

\* What closes a session without its host.
Ends(s) == stage[s] = "report" \/ ~ Resolved(s)

\* track: the session is ready for its next stage, or closes.
Track(s) ==
  /\ Called(s, "track")
  /\ inFlight' = [inFlight EXCEPT ![s] = NoStage]
  /\ IF Ends(s) THEN BeginClose(s) ELSE UNCHANGED <<phase, active, aborted>>
  /\ UNCHANGED sources

Bind(s) ==
  /\ Called(s, "bind")
  /\ bound' = [bound EXCEPT ![s] = Resolved(s)]
  /\ UNCHANGED <<active, phase, inFlight, aborted, known, ledger>>

\* The host's own await.
HostLearns(s) ==
  /\ Called(s, "host")
  /\ known' = [known EXCEPT ![s] = @ \/ (stage[s] = "execution" /\ Resolved(s))]
  /\ UNCHANGED <<active, phase, inFlight, aborted, bound, ledger>>

\* What the event loop runs by itself.
Loop(s) == Track(s) \/ Bind(s) \/ HostLearns(s) \/ FinishClose(s)

Settles(s) == \E how \in {"resolved", "rejected"} : Settle(s, how)

HostCalls(s) ==
  \/ Open(s) \/ HostCloses(s)
  \/ \E k \in Stage, own \in BOOLEAN : Start(s, k, own)

Next ==
  \/ \E r \in Run : Open(r) \/ EndRun(r)
  \/ \E s \in Session : HostCalls(s) \/ Settles(s) \/ Loop(s)

Spec == Init /\ [][Next]_vars

\* Callbacks run, and a stage that was aborted settles.  Nothing is assumed of
\* the host or of a stage that was not.
FairSpec ==
  /\ Spec
  /\ \A s \in Session :
       WF_vars(Loop(s)) /\ WF_vars(aborted[s] /\ Settles(s))

-----------------------------------------------------------------------------
(***************************************************************************)
(* What the host relies on.                                                *)
(***************************************************************************)
Works(u) == IF u \in Run THEN phase[u] = "open" ELSE outcome[u] = "pending"

\* The events, budgets and artifacts of a run id belong to one user: nobody
\* works under an id that is not active, and no two stages or Runs work under
\* one, whoever closes a session and whatever is in flight when it does.
OneAtWork ==
  \A u \in User : Works(u) =>
    /\ IdOf[u] \in active
    /\ \A v \in User : Works(v) /\ IdOf[v] = IdOf[u] => u = v

\* An Evaluation of the session's own Execution goes on with its live ledger, no
\* matter how soon the host starts it: nothing is charged to a second copy.
LedgerContinued ==
  \A s \in Session : \A l \in ledger[s] : l.own => l.live

\* What makes a session close: its host, a stage that rejects, a report that is
\* done.
MustClose(s) ==
  \/ phase[s] = "closing"
  \/ outcome[s] = "rejected"
  \/ stage[s] = "report" /\ Resolved(s)

\* A session that must close cancels the stage in flight, waits for it and gives
\* the id back, with or without its host.
SessionsClose == \A s \in Session : MustClose(s) ~> phase[s] = "closed"
===============================================================================
