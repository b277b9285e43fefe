-------------------------- MODULE StageSessionProofs --------------------------
(***************************************************************************)
(* What StageSession promises, for any number of Runs, sessions, stages    *)
(* and ids, however the ids are given to them.                             *)
(***************************************************************************)
EXTENDS StageSession, TLAPS

-----------------------------------------------------------------------------
(***************************************************************************)
(* The invariant.                                                          *)
(***************************************************************************)
Holds(u) == phase[u] \in {"open", "closing"}

\* An id is active while one user holds it, and nobody else does.
IdsHeld ==
  /\ \A u \in User : Holds(u) => IdOf[u] \in active
  /\ \A u, v \in User : Holds(u) /\ Holds(v) /\ IdOf[u] = IdOf[v] => u = v

\* What is left of a promise's callbacks is an end of what was registered.
CallbacksLeft(s) ==
  callbacks[s] \in {<<>>, Registered(stage[s]), <<"bind", "host">>, <<"host">>}

\* A pending stage is the one the session waits for, and its session is held.
PendingAwaited(s) ==
  /\ callbacks[s] # <<>> => stage[s] \in started[s]
  /\ outcome[s] = "pending" =>
       /\ Holds(s)
       /\ inFlight[s] = stage[s] /\ stage[s] # NoStage
       /\ callbacks[s] = Registered(stage[s])

\* The host knows its own source only once the session has its ledger.
LedgerFirst(s) ==
  /\ callbacks[s] = <<"bind", "host">> => stage[s] = "execution"
  /\ known[s] => bound[s] /\ "execution" \in started[s]
  /\ stage[s] = "execution" /\ callbacks[s] # <<>> => ~ known[s]
  /\ stage[s] = "execution" /\ callbacks[s] = <<"host">> /\ Resolved(s) => bound[s]
  /\ \A l \in ledger[s] : l.own => l.live

SessionSound(s) == CallbacksLeft(s) /\ PendingAwaited(s) /\ LedgerFirst(s)

IInv == TypeOK /\ IdsHeld /\ \A s \in Session : SessionSound(s)

-----------------------------------------------------------------------------
(***************************************************************************)
(* Callbacks.                                                              *)
(***************************************************************************)

\* What is registered, and what is left of it after each callback.
LEMMA CallbackOrder ==
  /\ <<"track", "bind", "host">> # <<>> /\ <<"track", "host">> # <<>>
  /\ <<"bind", "host">> # <<>> /\ <<"host">> # <<>>
  /\ Head(<<"track", "bind", "host">>) = "track"
  /\ Tail(<<"track", "bind", "host">>) = <<"bind", "host">>
  /\ Head(<<"track", "host">>) = "track" /\ Tail(<<"track", "host">>) = <<"host">>
  /\ Head(<<"bind", "host">>) = "bind" /\ Tail(<<"bind", "host">>) = <<"host">>
  /\ Head(<<"host">>) = "host" /\ Tail(<<"host">>) = <<>>
  /\ <<"track", "bind", "host">> # <<"bind", "host">>
  /\ <<"track", "host">> # <<"bind", "host">>
  /\ <<"bind", "host">> # <<"host">>
  /\ <<"track", "bind", "host">> # <<"host">>
  /\ <<"track", "host">> # <<"host">>
  /\ <<"track", "host">> # <<"track", "bind", "host">>
<1>1. /\ Head(<<"track", "bind", "host">>) = "track"
      /\ Head(<<"track", "host">>) = "track"
      /\ Head(<<"bind", "host">>) = "bind"
      /\ Head(<<"host">>) = "host"
  OBVIOUS
<1>2. Tail(<<"track", "bind", "host">>) = <<"bind", "host">>
  OBVIOUS
<1>3. Tail(<<"track", "host">>) = <<"host">>
  OBVIOUS
<1>4. Tail(<<"bind", "host">>) = <<"host">>
  OBVIOUS
<1>5. Tail(<<"host">>) = <<>>
  OBVIOUS
<1>6. /\ <<"track", "bind", "host">> # <<>> /\ <<"track", "host">> # <<>>
      /\ <<"bind", "host">> # <<>> /\ <<"host">> # <<>>
  OBVIOUS
<1>7. /\ <<"track", "bind", "host">> # <<"bind", "host">>
      /\ <<"track", "host">> # <<"bind", "host">>
      /\ <<"bind", "host">> # <<"host">>
      /\ <<"track", "bind", "host">> # <<"host">>
      /\ <<"track", "host">> # <<"host">>
      /\ <<"track", "host">> # <<"track", "bind", "host">>
  OBVIOUS
<1>8. QED
  BY <1>1, <1>2, <1>3, <1>4, <1>5, <1>6, <1>7

\* A session's callbacks are of the three kinds.
LEMMA RegisteredType ==
  ASSUME NEW k
  PROVE  Registered(k) \in Seq({"track", "bind", "host"})
<1>1. <<"track", "bind", "host">> \in Seq({"track", "bind", "host"})
  OBVIOUS
<1>2. <<"track", "host">> \in Seq({"track", "bind", "host"})
  OBVIOUS
<1>3. QED
  BY <1>1, <1>2 DEF Registered

\* A callback runs off the head of what is left.
LEMMA CalledFrom ==
  ASSUME NEW s \in Session, NEW c, TypeOK, CallbacksLeft(s), Called(s, c)
  PROVE  /\ callbacks' = [callbacks EXCEPT ![s] = Tail(callbacks[s])]
         /\ Tail(callbacks[s]) \in Seq({"track", "bind", "host"})
         /\ c = "track" => callbacks[s] = Registered(stage[s])
                /\ Tail(callbacks[s]) =
                     IF stage[s] = "execution" THEN <<"bind", "host">> ELSE <<"host">>
         /\ c = "bind" => callbacks[s] = <<"bind", "host">>
                /\ Tail(callbacks[s]) = <<"host">>
         /\ c = "host" => callbacks[s] = <<"host">> /\ Tail(callbacks[s]) = <<>>
<1>1. /\ callbacks' = [callbacks EXCEPT ![s] = Tail(callbacks[s])]
      /\ callbacks[s] # <<>> /\ Head(callbacks[s]) = c
      /\ callbacks[s] \in Seq({"track", "bind", "host"})
  BY DEF Called, TypeOK
<1>2. Tail(callbacks[s]) \in Seq({"track", "bind", "host"})
  BY <1>1
<1>3. CASE callbacks[s] = Registered(stage[s])
  BY <1>1, <1>2, <1>3, CallbackOrder DEF Registered
<1>4. CASE callbacks[s] = <<"bind", "host">>
  BY <1>1, <1>2, <1>4, CallbackOrder
<1>5. CASE callbacks[s] = <<"host">>
  BY <1>1, <1>2, <1>5, CallbackOrder
<1>6. QED
  BY <1>1, <1>3, <1>4, <1>5 DEF CallbacksLeft

-----------------------------------------------------------------------------
(***************************************************************************)
(* Run ids.                                                                *)
(***************************************************************************)

\* What changes of a user that gives its id back, or begins to.
LEMMA ReleaseKeepsIds ==
  ASSUME IInv, NEW u \in User, Release(u), Holds(u)
  PROVE  /\ IdsHeld'
         /\ active' \subseteq RunId
         /\ phase' \in [User -> {"idle", "open", "closing", "closed"}]
         /\ \A v \in User : v # u => phase'[v] = phase[v]
BY SessionAssumption DEF IInv, TypeOK, IdsHeld, Holds, Release, User

\* However a session closes, no other user is disturbed, and it still holds its
\* id if a stage is in flight.
LEMMA BeginCloseKeepsIds ==
  ASSUME IInv, NEW s \in Session, BeginClose(s)
  PROVE  /\ IdsHeld'
         /\ active' \subseteq RunId
         /\ phase' \in [User -> {"idle", "open", "closing", "closed"}]
         /\ aborted' \in [Session -> BOOLEAN]
         /\ \A v \in User : v # s => phase'[v] = phase[v]
         /\ inFlight'[s] # NoStage => (Holds(s) => Holds(s)')
<1>0. s \in User
  BY DEF User
<1>1. CASE phase[s] # "open"
  BY <1>1 DEF BeginClose, IInv, TypeOK, IdsHeld, Holds
<1>2. CASE phase[s] = "open" /\ inFlight'[s] = NoStage
  <2>1. Release(s) /\ Holds(s) /\ aborted' = [aborted EXCEPT ![s] = TRUE]
    BY <1>2 DEF BeginClose, Holds
  <2>2. aborted' \in [Session -> BOOLEAN]
    BY <2>1 DEF IInv, TypeOK
  <2>3. QED
    BY <1>0, <1>2, <2>1, <2>2, ReleaseKeepsIds
<1>3. CASE phase[s] = "open" /\ inFlight'[s] # NoStage
  BY <1>0, <1>3 DEF BeginClose, IInv, TypeOK, IdsHeld, Holds
<1>4. QED
  BY <1>1, <1>2, <1>3

\* A session none of whose own state changes stays sound.
LEMMA SessionKept ==
  ASSUME NEW s \in Session, SessionSound(s),
         callbacks'[s] = callbacks[s], stage'[s] = stage[s],
         started'[s] = started[s], outcome'[s] = outcome[s],
         inFlight'[s] = inFlight[s], known'[s] = known[s], bound'[s] = bound[s],
         ledger'[s] = ledger[s], Holds(s) => Holds(s)'
  PROVE  SessionSound(s)'
BY DEF SessionSound, CallbacksLeft, PendingAwaited, LedgerFirst, Resolved

-----------------------------------------------------------------------------
(***************************************************************************)
(* The steps.                                                              *)
(***************************************************************************)
LEMMA OpenInductive ==
  ASSUME IInv, NEW u \in User, Open(u)
  PROVE  IInv'
<1>1. TypeOK'
  <2>1. IdOf[u] \in RunId
    BY SessionAssumption
  <2>2. active' \subseteq RunId /\ phase' \in [User -> {"idle", "open", "closing", "closed"}]
    BY <2>1 DEF IInv, TypeOK, Open
  <2>3. QED
    BY <2>2 DEF IInv, TypeOK, Open, promise, sources
<1>2. IdsHeld'
  BY SessionAssumption DEF IInv, TypeOK, IdsHeld, Holds, Open
<1>3. ASSUME NEW s \in Session PROVE SessionSound(s)'
  <2>1. Holds(s) => Holds(s)'
    BY DEF IInv, TypeOK, Holds, Open, User
  <2>2. QED
    BY <2>1, SessionKept DEF IInv, Open, promise, sources
<1>4. QED
  BY <1>1, <1>2, <1>3 DEF IInv

LEMMA EndRunInductive ==
  ASSUME IInv, NEW r \in Run, EndRun(r)
  PROVE  IInv'
<1>1. r \in User /\ Release(r) /\ Holds(r)
  BY DEF EndRun, Holds, User
<1>2. TypeOK' /\ IdsHeld'
  BY <1>1, ReleaseKeepsIds DEF IInv, TypeOK, EndRun, promise, sources
<1>3. ASSUME NEW s \in Session PROVE SessionSound(s)'
  <2>1. s # r /\ s \in User
    BY SessionAssumption DEF User
  <2>2. Holds(s) => Holds(s)'
    BY <1>1, <2>1, ReleaseKeepsIds DEF Holds
  <2>3. QED
    BY <2>2, SessionKept DEF IInv, EndRun, promise, sources
<1>4. QED
  BY <1>2, <1>3 DEF IInv

LEMMA HostClosesInductive ==
  ASSUME IInv, NEW s \in Session, HostCloses(s)
  PROVE  IInv'
<1>1. BeginClose(s) /\ UNCHANGED <<inFlight, promise, started, sources>>
  BY DEF HostCloses
<1>2. TypeOK' /\ IdsHeld'
  BY <1>1, BeginCloseKeepsIds DEF IInv, TypeOK, promise, sources
<1>3. ASSUME NEW t \in Session PROVE SessionSound(t)'
  <2>1. CASE t # s \/ inFlight'[s] # NoStage
    <3>1. Holds(t) => Holds(t)'
      BY <1>1, <2>1, BeginCloseKeepsIds DEF Holds, User
    <3>2. QED
      BY <1>1, <3>1, SessionKept DEF IInv, promise, sources
  <2>2. CASE t = s /\ inFlight'[s] = NoStage
    <3>1. outcome[s] # "pending"
      BY <1>1, <2>2 DEF IInv, SessionSound, PendingAwaited
    <3>2. QED
      BY <1>1, <2>2, <3>1 DEF IInv, SessionSound, CallbacksLeft, PendingAwaited,
         LedgerFirst, Resolved, promise, sources
  <2>3. QED
    BY <2>1, <2>2
<1>4. QED
  BY <1>2, <1>3 DEF IInv

LEMMA FinishCloseInductive ==
  ASSUME IInv, NEW s \in Session, FinishClose(s)
  PROVE  IInv'
<1>1. s \in User /\ Release(s) /\ Holds(s) /\ outcome[s] # "pending"
  BY DEF FinishClose, Holds, User
<1>2. TypeOK' /\ IdsHeld'
  BY <1>1, ReleaseKeepsIds DEF IInv, TypeOK, FinishClose, promise, sources
<1>3. ASSUME NEW t \in Session PROVE SessionSound(t)'
  <2>1. CASE t # s
    <3>1. Holds(t) => Holds(t)'
      BY <1>1, <2>1, ReleaseKeepsIds DEF Holds, User
    <3>2. QED
      BY <3>1, SessionKept DEF IInv, FinishClose, promise, sources
  <2>2. CASE t = s
    BY <1>1, <2>2 DEF IInv, SessionSound, CallbacksLeft, PendingAwaited,
       LedgerFirst, Resolved, FinishClose, promise, sources
  <2>3. QED
    BY <2>1, <2>2
<1>4. QED
  BY <1>2, <1>3 DEF IInv

\* A stage that starts has not started before, so nothing of it is known.
LEMMA StartInductive ==
  ASSUME IInv, NEW s \in Session, NEW k \in Stage, NEW own \in BOOLEAN,
         Start(s, k, own)
  PROVE  IInv'
<1>0. /\ k # NoStage /\ s \in User /\ Holds(s)
      /\ Registered(k) # <<>> /\ Registered(k) # <<"bind", "host">>
      /\ Registered(k) # <<"host">>
  BY SessionAssumption, CallbackOrder DEF User, Start, Holds, Registered
<1>1. TypeOK'
  BY RegisteredType DEF IInv, TypeOK, Start, Ledger, Recorded
<1>2. IdsHeld'
  BY DEF IInv, IdsHeld, Holds, Start
<1>3. ASSUME NEW t \in Session PROVE SessionSound(t)'
  <2>1. CASE t # s
    BY <2>1, SessionKept DEF IInv, TypeOK, Start, Holds
  <2>2. CASE t = s
    <3>1. /\ stage'[s] = k /\ outcome'[s] = "pending" /\ inFlight'[s] = k
          /\ callbacks'[s] = Registered(k) /\ started'[s] = started[s] \cup {k}
          /\ known'[s] = known[s] /\ bound'[s] = bound[s] /\ Holds(s)'
      BY <1>0 DEF IInv, TypeOK, Start, Recorded, Holds
    <3>2. k \notin started[s] /\ LedgerFirst(s)
      BY DEF Start, IInv, SessionSound
    <3>3. \A l \in ledger'[s] : l.own => l.live
      <4>1. CASE k = "evaluation"
        <5>1. ledger'[s] = {Ledger(s, own)} /\ (own => known[s])
          BY <4>1 DEF Start, IInv, TypeOK
        <5>2. QED
          BY <3>2, <5>1 DEF LedgerFirst, Ledger
      <4>2. CASE k # "evaluation"
        BY <3>2, <4>2 DEF Start, IInv, TypeOK, LedgerFirst
      <4>3. QED
        BY <4>1, <4>2
    <3>4. CallbacksLeft(s)' /\ PendingAwaited(s)'
      BY <1>0, <3>1 DEF CallbacksLeft, PendingAwaited, Registered
    <3>5. LedgerFirst(s)'
      BY <1>0, <3>1, <3>2, <3>3 DEF LedgerFirst, Resolved
    <3>6. QED
      BY <2>2, <3>4, <3>5 DEF SessionSound
  <2>3. QED
    BY <2>1, <2>2
<1>4. QED
  BY <1>1, <1>2, <1>3 DEF IInv

LEMMA SettleInductive ==
  ASSUME IInv, NEW s \in Session, NEW how \in {"resolved", "rejected"},
         Settle(s, how)
  PROVE  IInv'
<1>1. TypeOK'
  BY DEF IInv, TypeOK, Settle, sources
<1>2. IdsHeld'
  BY DEF IInv, IdsHeld, Holds, Settle
<1>3. ASSUME NEW t \in Session PROVE SessionSound(t)'
  <2>1. CASE t # s
    BY <2>1, SessionKept DEF IInv, TypeOK, Settle, Holds, sources
  <2>2. CASE t = s
    BY <2>2, CallbackOrder DEF IInv, TypeOK, SessionSound, CallbacksLeft,
       PendingAwaited, LedgerFirst, Resolved, Registered, Settle, sources
  <2>3. QED
    BY <2>1, <2>2
<1>4. QED
  BY <1>1, <1>2, <1>3 DEF IInv

LEMMA TrackInductive ==
  ASSUME IInv, NEW s \in Session, Track(s)
  PROVE  IInv'
<1>1. Called(s, "track") /\ CallbacksLeft(s)
  BY DEF Track, IInv, SessionSound
<1>2. BeginClose(s) \/ UNCHANGED <<phase, active, aborted>>
  BY DEF Track
<1>3. IdsHeld'
  BY <1>2, BeginCloseKeepsIds DEF IInv, IdsHeld, Holds
<1>4. TypeOK'
  BY <1>1, <1>2, CalledFrom, BeginCloseKeepsIds DEF IInv, TypeOK, Called, Track, sources
<1>5. ASSUME NEW t \in Session PROVE SessionSound(t)'
  <2>1. CASE t # s
    <3>1. Holds(t) => Holds(t)'
      BY <1>2, <2>1, BeginCloseKeepsIds DEF Holds, User
    <3>2. QED
      BY <2>1, <3>1, SessionKept DEF IInv, TypeOK, Called, Track, sources
  <2>2. CASE t = s
    <3>1. /\ callbacks'[s] =
               IF stage[s] = "execution" THEN <<"bind", "host">> ELSE <<"host">>
          /\ callbacks[s] # <<>>
      BY <1>1, CalledFrom, CallbackOrder DEF IInv, TypeOK, Registered
    <3>2. QED
      BY <2>2, <3>1, CallbackOrder DEF IInv, SessionSound, CallbacksLeft,
         PendingAwaited, LedgerFirst, Resolved, Called, Track, sources
  <2>3. QED
    BY <2>1, <2>2
<1>6. QED
  BY <1>3, <1>4, <1>5 DEF IInv

LEMMA BindInductive ==
  ASSUME IInv, NEW s \in Session, Bind(s)
  PROVE  IInv'
<1>1. Called(s, "bind") /\ CallbacksLeft(s)
  BY DEF Bind, IInv, SessionSound
<1>2. IdsHeld'
  BY DEF IInv, IdsHeld, Holds, Bind
<1>3. TypeOK'
  BY <1>1, CalledFrom DEF IInv, TypeOK, Called, Bind, Resolved
<1>4. ASSUME NEW t \in Session PROVE SessionSound(t)'
  <2>1. CASE t # s
    BY <2>1, SessionKept DEF IInv, TypeOK, Holds, Called, Bind
  <2>2. CASE t = s
    <3>1. callbacks[s] = <<"bind", "host">> /\ callbacks'[s] = <<"host">>
      <4>1. TypeOK /\ s \in DOMAIN callbacks
        BY DEF IInv, TypeOK
      <4>2. /\ callbacks' = [callbacks EXCEPT ![s] = Tail(callbacks[s])]
            /\ callbacks[s] = <<"bind", "host">> /\ Tail(callbacks[s]) = <<"host">>
        BY <1>1, <4>1, CalledFrom
      <4>3. QED
        BY <4>1, <4>2
    <3>2. Resolved(s) => bound'[s]
      BY DEF IInv, TypeOK, Bind
    <3>3. QED
      BY <2>2, <3>1, <3>2, CallbackOrder DEF IInv, SessionSound, CallbacksLeft,
         PendingAwaited, LedgerFirst, Resolved, Called, Bind
  <2>3. QED
    BY <2>1, <2>2
<1>5. QED
  BY <1>2, <1>3, <1>4 DEF IInv

LEMMA HostLearnsInductive ==
  ASSUME IInv, NEW s \in Session, HostLearns(s)
  PROVE  IInv'
<1>1. Called(s, "host") /\ CallbacksLeft(s)
  BY DEF HostLearns, IInv, SessionSound
<1>2. IdsHeld'
  BY DEF IInv, IdsHeld, Holds, HostLearns
<1>3. TypeOK'
  BY <1>1, CalledFrom DEF IInv, TypeOK, Called, HostLearns, Resolved
<1>4. ASSUME NEW t \in Session PROVE SessionSound(t)'
  <2>1. CASE t # s
    BY <2>1, SessionKept DEF IInv, TypeOK, Holds, Called, HostLearns
  <2>2. CASE t = s
    <3>1. /\ callbacks[s] = <<"host">> /\ callbacks'[s] = <<>>
          /\ known'[s] = (known[s] \/ (stage[s] = "execution" /\ Resolved(s)))
      BY <1>1, CalledFrom DEF IInv, TypeOK, HostLearns
    <3>2. QED
      BY <2>2, <3>1, CallbackOrder DEF IInv, SessionSound, CallbacksLeft,
         PendingAwaited, LedgerFirst, Resolved, Called, HostLearns
  <2>3. QED
    BY <2>1, <2>2
<1>5. QED
  BY <1>2, <1>3, <1>4 DEF IInv

-----------------------------------------------------------------------------
(***************************************************************************)
(* The theorems.                                                           *)
(***************************************************************************)
LEMMA InitSound == Init => IInv
<1> SUFFICES ASSUME Init
             PROVE  IInv
  OBVIOUS
<1>1. TypeOK
  BY DEF Init, TypeOK
<1>2. IdsHeld
  BY DEF Init, IdsHeld, Holds
<1>3. ASSUME NEW s \in Session PROVE SessionSound(s)
  BY DEF Init, SessionSound, CallbacksLeft, PendingAwaited, LedgerFirst, Resolved
<1>4. QED
  BY <1>1, <1>2, <1>3 DEF IInv

\* One case per action.
LEMMA StepSound ==
  ASSUME IInv, Next
  PROVE  IInv'
<1>1. ASSUME NEW r \in Run, Open(r) \/ EndRun(r)
      PROVE  IInv'
  BY <1>1, OpenInductive, EndRunInductive DEF User
<1>2. ASSUME NEW s \in Session, HostCalls(s)
      PROVE  IInv'
  BY <1>2, OpenInductive, HostClosesInductive, StartInductive DEF HostCalls, User
<1>3. ASSUME NEW s \in Session, Settles(s)
      PROVE  IInv'
  BY <1>3, SettleInductive DEF Settles
<1>4. ASSUME NEW s \in Session, Loop(s)
      PROVE  IInv'
  BY <1>4, TrackInductive, BindInductive, HostLearnsInductive, FinishCloseInductive
     DEF Loop
<1>5. QED
  BY <1>1, <1>2, <1>3, <1>4 DEF Next

LEMMA StutterSound ==
  ASSUME IInv, UNCHANGED vars
  PROVE  IInv'
<1>1. TypeOK' /\ IdsHeld'
  BY DEF vars, IInv, TypeOK, IdsHeld, Holds
<1>2. ASSUME NEW s \in Session PROVE SessionSound(s)'
  BY SessionKept DEF vars, IInv, Holds
<1>3. QED
  BY <1>1, <1>2 DEF IInv

\* The invariant: ids, callbacks and ledgers agree in every reachable state.
THEOREM Invariant == Spec => []IInv
<1>1. IInv /\ [Next]_vars => IInv'
  BY StepSound, StutterSound
<1>2. QED
  BY <1>1, InitSound, PTL DEF Spec

\* Every variable keeps its type, and a stage in flight is one that was started
\* (startOnce, track).
THEOREM TypeCorrect == Spec => []TypeOK
<1>1. IInv => TypeOK
  BY DEF IInv
<1>2. QED
  BY <1>1, Invariant, PTL

\* However many Runs and sessions are given one id, and whenever they close, one
\* of them at most works under it (startPrepared, createStageSession, close).
THEOREM OneAtWorkHolds == Spec => []OneAtWork
<1>1. IInv => OneAtWork
  <2> SUFFICES ASSUME IInv
               PROVE  OneAtWork
    OBVIOUS
  <2>1. ASSUME NEW u \in User, Works(u)
        PROVE  Holds(u)
    BY <2>1 DEF Works, Holds, User, IInv, SessionSound, PendingAwaited
  <2>2. QED
    BY <2>1 DEF OneAtWork, IInv, IdsHeld
<1>2. QED
  BY <1>1, Invariant, PTL

\* However soon the host starts an Evaluation of the session's own Execution, it
\* goes on with that Execution's ledger (execute, evaluate).
THEOREM LedgerContinuedHolds == Spec => []LedgerContinued
<1>1. IInv => LedgerContinued
  BY DEF LedgerContinued, IInv, SessionSound, LedgerFirst
<1>2. QED
  BY <1>1, Invariant, PTL
===============================================================================
