---------------------------- MODULE FileLockProofs ----------------------------
(***************************************************************************)
(* The promises of FileLock, for every set of processes, every assignment  *)
(* of process ids and hosts and every nesting of guards.                   *)
(***************************************************************************)
EXTENDS FileLock, SequenceTheorems, TLAPS

-----------------------------------------------------------------------------
(***************************************************************************)
(* Paths.                                                                  *)
(***************************************************************************)
LEMMA PathIsSeq ==
  ASSUME NEW f \in Path
  PROVE  /\ f \in Seq(Process)
         /\ Len(f) \in Nat
         /\ Len(f) <= MaxDepth
         /\ f = Main <=> Len(f) = 0
<1>1. PICK n \in 0 .. MaxDepth : f \in [1 .. n -> Process]
  BY DEF Path
<1>2. f \in Seq(Process) /\ Len(f) = n
  BY <1>1, ProcessAssumption
<1> QED
  BY <1>1, <1>2, EmptySeq, ProcessAssumption DEF Main

LEMMA SeqIsPath ==
  ASSUME NEW f \in Seq(Process), Len(f) <= MaxDepth
  PROVE  f \in Path
<1>1. Len(f) \in 0 .. MaxDepth /\ f \in [1 .. Len(f) -> Process]
  BY LenProperties, ProcessAssumption
<1> QED
  BY <1>1 DEF Path

LEMMA MainIsPath == Main \in Path
<1>1. Main \in Seq(Process) /\ Len(Main) = 0
  BY DEF Main
<1>2. Len(Main) <= MaxDepth
  BY <1>1, ProcessAssumption
<1> QED
  BY ONLY <1>1, <1>2, SeqIsPath

LEMMA GuardIsPath ==
  ASSUME NEW f \in Path, NEW o \in Process, Len(f) < MaxDepth
  PROVE  /\ Guard(f, o) \in Path
         /\ Len(Guard(f, o)) = Len(f) + 1
         /\ Guard(f, o) # Main
<1>1. f \in Seq(Process) /\ Len(f) \in Nat
  BY PathIsSeq
<1>2. <<o>> \in Seq(Process) /\ Len(<<o>>) = 1
  OBVIOUS
<1>3. Guard(f, o) \in Seq(Process) /\ Len(Guard(f, o)) = 1 + Len(f)
  BY <1>1, <1>2, ConcatProperties DEF Guard
<1>4. Guard(f, o) \in Path
  BY <1>1, <1>3, SeqIsPath, ProcessAssumption
<1> QED
  BY <1>1, <1>3, <1>4, PathIsSeq

LEMMA GuardedIsPath ==
  ASSUME NEW g \in Path, g # Main
  PROVE  /\ Guarded(g) \in Path
         /\ Suspect(g) \in Process
         /\ Len(Guarded(g)) = Len(g) - 1
<1>1. g \in Seq(Process) /\ g # <<>> /\ Len(g) <= MaxDepth
  BY PathIsSeq DEF Main
<1>2. /\ Head(g) \in Process
      /\ Tail(g) \in Seq(Process)
      /\ Len(Tail(g)) = Len(g) - 1
  BY <1>1, HeadTailProperties
<1>3. Len(g) \in Nat /\ Len(Tail(g)) <= MaxDepth
  BY <1>1, <1>2, PathIsSeq, ProcessAssumption
<1>4. Tail(g) \in Path
  BY ONLY <1>2, <1>3, SeqIsPath
<1> QED
  BY <1>2, <1>4 DEF Guarded, Suspect

\* A guard is determined by the path it guards and the owner it suspects.
LEMMA GuardsDiffer ==
  ASSUME NEW f \in Path \ {Main}, NEW g \in Path \ {Main},
         Guarded(f) = Guarded(g), Suspect(f) = Suspect(g)
  PROVE  f = g
<1>1. f \in Seq(Process) /\ g \in Seq(Process)
  BY PathIsSeq
<1>2. f # <<>> /\ g # <<>>
  BY DEF Main
<1>3. Len(f) = Len(g)
  <2>1. Len(Tail(f)) = Len(f) - 1 /\ Len(Tail(g)) = Len(g) - 1
    BY <1>1, <1>2, HeadTailProperties
  <2> QED
    BY <1>1, <2>1, PathIsSeq DEF Guarded
<1>4. ASSUME NEW i \in 1 .. Len(f)
      PROVE  f[i] = g[i]
  <2>1. CASE i = 1
    BY <1>1, <1>2, <2>1 DEF Suspect
  <2>2. CASE i # 1
    <3>1. i - 1 \in 1 .. Len(Tail(f)) /\ i - 1 \in 1 .. Len(Tail(g))
      BY <1>1, <1>2, <1>3, <2>2, HeadTailProperties, LenProperties
    <3>2. Tail(f)[i - 1] = f[i] /\ Tail(g)[i - 1] = g[i]
      BY <1>1, <1>2, <3>1, HeadTailProperties, LenProperties
    <3> QED
      BY <3>2 DEF Guarded
  <2> QED
    BY <2>1, <2>2
<1> QED
  BY <1>1, <1>3, <1>4, SeqEqual

-----------------------------------------------------------------------------
(***************************************************************************)
(* The shape of a call: the stack of callers that a path stands for, the   *)
(* inodes they found, and which operation runs at which level.             *)
(***************************************************************************)
StackDepths ==
  \A p \in Process : pc[p] \in Active \cup {"idle"} =>
    Len(stat[p]) = Len(at[p]) + (IF pc[p] = "reading" THEN 1 ELSE 0)

Levels ==
  \A p \in Process :
    /\ pc[p] = "working" => at[p] = Main
    /\ pc[p] \in {"checking", "unlinking"} => at[p] # Main

ShapeInv == TypeOK /\ StackDepths /\ Levels

LEMMA ShapeInit == Init => ShapeInv
<1> SUFFICES ASSUME Init PROVE ShapeInv
  OBVIOUS
<1>1. Main \in Path /\ Len(Main) = 0
  BY MainIsPath, PathIsSeq
<1>2. TypeOK
  BY <1>1 DEF Init, TypeOK
<1>3. StackDepths /\ Levels
  BY <1>1 DEF Init, StackDepths, Levels, Main, Active
<1> QED
  BY <1>2, <1>3 DEF ShapeInv

\* A step that moves a process without touching its stack, and stays off the
\* program points that are tied to a level.
LEMMA MoveKeepsShape ==
  ASSUME ShapeInv, NEW p \in Process, NEW from, NEW to, Goto(p, from, to),
         from \in Active \cup {"idle"}, from # "reading",
         to \in Active \cup {"done"},
         to \notin {"reading", "working", "checking", "unlinking"},
         UNCHANGED <<at, stat>>
  PROVE  /\ pc' \in [Process -> Active \cup {"idle", "done", "dead"}]
         /\ StackDepths'
         /\ Levels'
<1>1. pc' \in [Process -> Active \cup {"idle", "done", "dead"}]
  BY DEF ShapeInv, TypeOK, Goto
<1>2. StackDepths'
  BY DEF ShapeInv, TypeOK, StackDepths, Goto, Active
<1>3. Levels'
  BY DEF ShapeInv, TypeOK, Levels, Goto
<1> QED
  BY <1>1, <1>2, <1>3

LEMMA ReturnKeepsShape ==
  ASSUME ShapeInv, NEW p \in Process, NEW from \in {"leaving", "removing"},
         Returned(p, from), UNCHANGED removed
  PROVE  /\ pc' \in [Process -> Active \cup {"idle", "done", "dead"}]
         /\ at' \in [Process -> Path]
         /\ stat' \in [Process -> Seq(Process)]
         /\ StackDepths'
         /\ Levels'
<1>1. CASE at[p] = Main
  <2>1. Goto(p, from, "done") /\ UNCHANGED <<at, stat>>
    BY <1>1 DEF Returned
  <2>2. from \in Active /\ from # "reading"
    BY DEF Active
  <2> QED
    BY <2>1, <2>2, MoveKeepsShape DEF ShapeInv, TypeOK
<1>2. CASE at[p] # Main
  <2> DEFINE to == IF removed[p] THEN "opening" ELSE "waiting"
  <2>1. /\ pc[p] = from
        /\ pc' = [pc EXCEPT ![p] = to]
        /\ at' = [at EXCEPT ![p] = Guarded(@)]
        /\ stat' = [stat EXCEPT ![p] = Tail(@)]
    BY <1>2 DEF Returned, Goto
  <2>2. /\ Guarded(at[p]) \in Path
        /\ Len(Guarded(at[p])) = Len(at[p]) - 1
        /\ Len(at[p]) \in Nat
        /\ Len(at[p]) # 0
    BY <1>2, GuardedIsPath, PathIsSeq DEF ShapeInv, TypeOK
  <2>3. Len(stat[p]) = Len(at[p]) /\ stat[p] \in Seq(Process)
    BY <2>1, <2>2 DEF ShapeInv, TypeOK, StackDepths, Active
  <2>4. Tail(stat[p]) \in Seq(Process) /\ Len(Tail(stat[p])) = Len(stat[p]) - 1
    BY <2>2, <2>3, HeadTailProperties
  <2>5. to \in {"opening", "waiting"}
    OBVIOUS
  <2> HIDE DEF to
  <2>6. /\ pc' \in [Process -> Active \cup {"idle", "done", "dead"}]
        /\ at' \in [Process -> Path]
        /\ stat' \in [Process -> Seq(Process)]
    BY <2>1, <2>2, <2>4, <2>5 DEF ShapeInv, TypeOK, Active
  <2>7. StackDepths'
    <3> SUFFICES ASSUME NEW q \in Process, pc'[q] \in Active \cup {"idle"}
                 PROVE  Len(stat'[q]) =
                          Len(at'[q]) + (IF pc'[q] = "reading" THEN 1 ELSE 0)
      BY DEF StackDepths
    <3>1. CASE q = p
      BY <2>1, <2>2, <2>3, <2>4, <2>5, <3>1 DEF ShapeInv, TypeOK
    <3>2. CASE q # p
      BY <2>1, <3>2 DEF ShapeInv, TypeOK, StackDepths
    <3> QED
      BY <3>1, <3>2
  <2>8. Levels'
    BY <2>1, <2>5 DEF ShapeInv, TypeOK, Levels
  <2> QED
    BY <2>6, <2>7, <2>8
<1> QED
  BY <1>1, <1>2

LEMMA UnlinkedKeepsDisk ==
  ASSUME TypeOK, NEW f \in Path, Unlinked(f)
  PROVE  /\ file' \in [Path -> Process \cup {NoFile}]
         /\ blank' \subseteq Path
         /\ old' \subseteq Path
BY DEF TypeOK, Unlinked

LEMMA ShapeStep == ShapeInv /\ [Next]_vars => ShapeInv'
<1> SUFFICES ASSUME ShapeInv, [Next]_vars PROVE ShapeInv'
  OBVIOUS
<1> USE DEF ShapeInv
<1>1. ASSUME NEW p \in Process, Start(p) PROVE ShapeInv'
  BY <1>1, MoveKeepsShape DEF Start, TypeOK, disk, Active
<1>2. ASSUME NEW p \in Process, Create(p) PROVE ShapeInv'
  BY <1>2, MoveKeepsShape DEF Create, TypeOK, Active
<1>3. ASSUME NEW p \in Process, Collide(p) PROVE ShapeInv'
  <2>1. PICK to \in {"collided", "waiting"} : Goto(p, "opening", to)
    BY <1>3 DEF Collide
  <2> QED
    BY <1>3, <2>1, MoveKeepsShape DEF Collide, TypeOK, disk, Active
<1>4. ASSUME NEW p \in Process, Name(p) PROVE ShapeInv'
  <2>1. TypeOK'
    BY <1>4 DEF Name, Goto, TypeOK, Active
  <2>2. StackDepths'
    BY <1>4 DEF Name, Goto, TypeOK, StackDepths, Active
  <2>3. Levels'
    BY <1>4 DEF Name, Goto, TypeOK, Levels
  <2> QED
    BY <2>1, <2>2, <2>3
<1>5. ASSUME NEW p \in Process, NameFails(p) PROVE ShapeInv'
  BY <1>5, MoveKeepsShape DEF NameFails, TypeOK, disk, Active
<1>6. ASSUME NEW p \in Process, Abandon(p) PROVE ShapeInv'
  <2>1. at[p] \in Path
    BY DEF TypeOK
  <2> QED
    BY <1>6, <2>1, MoveKeepsShape, UnlinkedKeepsDisk DEF Abandon, TypeOK, Active
<1>7. ASSUME NEW p \in Process, Stat(p) PROVE ShapeInv'
  <2>1. at[p] \in Path /\ stat[p] \in Seq(Process) /\ pc[p] = "collided"
    BY <1>7 DEF Stat, Goto, TypeOK
  <2>2. CASE pc'[p] # "reading"
    <3>1. PICK to \in {"opening", "waiting"} : Goto(p, "collided", to)
      BY <1>7, <2>1, <2>2 DEF Stat, Goto, TypeOK
    <3> QED
      BY <1>7, <2>2, <3>1, MoveKeepsShape DEF Stat, TypeOK, disk, Active
  <2>3. CASE pc'[p] = "reading"
    <3>1. /\ file[at[p]] \in Process
          /\ pc' = [pc EXCEPT ![p] = "reading"]
          /\ stat' = [stat EXCEPT ![p] = <<file[at[p]]>> \o @]
      BY <1>7, <2>1, <2>3 DEF Stat, Goto, TypeOK
    <3>2. /\ <<file[at[p]]>> \o stat[p] \in Seq(Process)
          /\ Len(<<file[at[p]]>> \o stat[p]) = Len(stat[p]) + 1
      BY <2>1, <3>1
    <3>3. Len(stat[p]) = Len(at[p])
      <4>1. Len(at[p]) \in Nat
        BY <2>1, PathIsSeq
      <4>2. Len(stat[p]) = Len(at[p]) + 0
        BY <2>1 DEF StackDepths, Active
      <4> QED
        BY <4>1, <4>2
    <3>4. TypeOK'
      BY <1>7, <3>1, <3>2 DEF Stat, TypeOK, disk, Active
    <3>5. StackDepths'
      <4> SUFFICES ASSUME NEW q \in Process, pc'[q] \in Active \cup {"idle"}
                   PROVE  Len(stat'[q]) =
                            Len(at'[q]) + (IF pc'[q] = "reading" THEN 1 ELSE 0)
        BY DEF StackDepths
      <4>1. CASE q = p
        BY <1>7, <3>1, <3>2, <3>3, <4>1 DEF Stat, TypeOK
      <4>2. CASE q # p
        BY <1>7, <3>1, <4>2 DEF Stat, TypeOK, StackDepths
      <4> QED
        BY <4>1, <4>2
    <3>6. Levels'
      BY <1>7, <3>1 DEF Stat, TypeOK, Levels
    <3> QED
      BY <3>4, <3>5, <3>6
  <2> QED
    BY <2>2, <2>3
<1>8. ASSUME NEW p \in Process, ReadInVain(p) PROVE ShapeInv'
  <2> DEFINE to == IF file[at[p]] = NoFile THEN "opening" ELSE "waiting"
  <2>1. /\ pc[p] = "reading"
        /\ pc' = [pc EXCEPT ![p] = to]
        /\ stat' = [stat EXCEPT ![p] = Tail(@)]
        /\ UNCHANGED <<disk, at, removed>>
    BY <1>8 DEF ReadInVain, Goto
  <2>2. to \in {"opening", "waiting"}
    OBVIOUS
  <2> HIDE DEF to
  <2>3. stat[p] \in Seq(Process) /\ Len(stat[p]) = Len(at[p]) + 1
        /\ Len(at[p]) \in Nat
    BY <2>1, PathIsSeq DEF StackDepths, TypeOK, Active
  <2>4. Tail(stat[p]) \in Seq(Process) /\ Len(Tail(stat[p])) = Len(stat[p]) - 1
    BY <2>3, HeadTailProperties
  <2>5. TypeOK'
    BY <2>1, <2>2, <2>4 DEF TypeOK, disk, Active
  <2>6. StackDepths'
    <3> SUFFICES ASSUME NEW q \in Process, pc'[q] \in Active \cup {"idle"}
                 PROVE  Len(stat'[q]) =
                          Len(at'[q]) + (IF pc'[q] = "reading" THEN 1 ELSE 0)
      BY DEF StackDepths
    <3>1. CASE q = p
      BY <2>1, <2>2, <2>3, <2>4, <3>1 DEF TypeOK
    <3>2. CASE q # p
      BY <2>1, <3>2 DEF TypeOK, StackDepths
    <3> QED
      BY <3>1, <3>2
  <2>7. Levels'
    BY <2>1, <2>2 DEF TypeOK, Levels
  <2> QED
    BY <2>5, <2>6, <2>7
<1>9. ASSUME NEW p \in Process, ReadDead(p) PROVE ShapeInv'
  <2> DEFINE o == file[at[p]]
  <2>1. at[p] \in Path /\ o \in Process /\ Len(at[p]) < MaxDepth
    BY <1>9 DEF ReadDead, Recoverable, Named, TypeOK
  <2>2. /\ pc[p] = "reading"
        /\ pc' = [pc EXCEPT ![p] = "opening"]
        /\ at' = [at EXCEPT ![p] = Guard(@, o)]
        /\ UNCHANGED <<disk, stat, removed>>
    BY <1>9 DEF ReadDead, Goto
  <2> HIDE DEF o
  <2>3. Guard(at[p], o) \in Path /\ Len(Guard(at[p], o)) = Len(at[p]) + 1
    BY <2>1, GuardIsPath
  <2>4. Len(stat[p]) = Len(at[p]) + 1
    BY <2>2 DEF StackDepths, Active
  <2>5. TypeOK'
    BY <2>2, <2>3 DEF TypeOK, disk, Active
  <2>6. StackDepths'
    <3> SUFFICES ASSUME NEW q \in Process, pc'[q] \in Active \cup {"idle"}
                 PROVE  Len(stat'[q]) =
                          Len(at'[q]) + (IF pc'[q] = "reading" THEN 1 ELSE 0)
      BY DEF StackDepths
    <3>1. CASE q = p
      BY <2>1, <2>2, <2>3, <2>4, <3>1, PathIsSeq DEF TypeOK
    <3>2. CASE q # p
      BY <2>2, <3>2 DEF TypeOK, StackDepths
    <3> QED
      BY <3>1, <3>2
  <2>7. Levels'
    BY <2>2 DEF TypeOK, Levels
  <2> QED
    BY <2>5, <2>6, <2>7
<1>10. ASSUME NEW p \in Process, ReadTooDeep(p) PROVE ShapeInv'
  BY <1>10 DEF ReadTooDeep, Goto, TypeOK, StackDepths, Levels, disk, Active
<1>11. ASSUME NEW p \in Process, Retry(p) PROVE ShapeInv'
  BY <1>11, MoveKeepsShape DEF Retry, TypeOK, disk, Active
<1>12. ASSUME NEW p \in Process, Expire(p) PROVE ShapeInv'
  BY <1>12, MoveKeepsShape DEF Expire, TypeOK, disk, Active
<1>13. ASSUME NEW p \in Process, Work(p) PROVE ShapeInv'
  BY <1>13, MoveKeepsShape DEF Work, TypeOK, disk, Active
<1>14. ASSUME NEW p \in Process, Check(p) PROVE ShapeInv'
  <2>1. TypeOK'
    BY <1>14 DEF Check, Goto, TypeOK, disk, Active
  <2>2. StackDepths'
    BY <1>14 DEF Check, Goto, TypeOK, StackDepths, Active
  <2>3. Levels'
    BY <1>14 DEF Check, Goto, TypeOK, Levels
  <2> QED
    BY <2>1, <2>2, <2>3
<1>15. ASSUME NEW p \in Process, Unlink(p) PROVE ShapeInv'
  <2>1. Guarded(at[p]) \in Path
    BY <1>15, GuardedIsPath DEF Unlink, Goto, Levels, TypeOK
  <2> QED
    BY <1>15, <2>1, MoveKeepsShape, UnlinkedKeepsDisk DEF Unlink, TypeOK, Active
<1>16. ASSUME NEW p \in Process, Leave(p) PROVE ShapeInv'
  <2>1. CASE Named(at[p]) /\ file[at[p]] = p
    BY <1>16, <2>1, MoveKeepsShape DEF Leave, TypeOK, disk, Active
  <2>2. CASE ~ (Named(at[p]) /\ file[at[p]] = p)
    BY <1>16, <2>2, ReturnKeepsShape DEF Leave, TypeOK, disk
  <2> QED
    BY <2>1, <2>2
<1>17. ASSUME NEW p \in Process, Remove(p) PROVE ShapeInv'
  <2>1. at[p] \in Path
    BY DEF TypeOK
  <2> QED
    BY <1>17, <2>1, ReturnKeepsShape, UnlinkedKeepsDisk DEF Remove, TypeOK
<1>18. ASSUME NEW p \in Process, Die(p) PROVE ShapeInv'
  <2>1. TypeOK'
    BY <1>18 DEF Die, TypeOK, disk
  <2>2. StackDepths'
    BY <1>18 DEF Die, TypeOK, StackDepths, Active
  <2>3. Levels'
    BY <1>18 DEF Die, TypeOK, Levels
  <2> QED
    BY <2>1, <2>2, <2>3
<1>19. ASSUME NEW f \in Path, Age(f) PROVE ShapeInv'
  BY <1>19 DEF Age, TypeOK, StackDepths, Levels
<1>20. CASE UNCHANGED vars
  BY <1>20 DEF vars, disk, TypeOK, StackDepths, Levels
<1> QED
  BY <1>1, <1>2, <1>3, <1>4, <1>5, <1>6, <1>7, <1>8, <1>9, <1>10, <1>11, <1>12,
     <1>13, <1>14, <1>15, <1>16, <1>17, <1>18, <1>19, <1>20
     DEF Next, Acquire, Hold

\* Every reachable state has its type, and a process that runs the caller's
\* operation is at the lock, one that removes a dead lock under a guard.
THEOREM TypeCorrect == Spec => []TypeOK
<1>1. ShapeInv => TypeOK
  BY DEF ShapeInv
<1> QED
  BY <1>1, ShapeInit, ShapeStep, PTL DEF Spec

-----------------------------------------------------------------------------
(***************************************************************************)
(* The inductive invariant.  Mutual exclusion is not inductive: it rests   *)
(* on every holder's file being there, which rests on no other process     *)
(* unlinking it, which rests on what a guard protects.  Of all who found   *)
(* the file of one dead owner, only the holder of the one guard named      *)
(* after that owner may unlink it, so the file a recoverer has rechecked   *)
(* is still the dead one when it unlinks it.                               *)
(***************************************************************************)
HoldersHold ==
  \A p \in Process : pc[p] \in Holding =>
    /\ file[at[p]] = p
    /\ pc[p] \notin {"naming", "abandoning"} => at[p] \notin blank

SuspectsStayDead ==
  \A p \in Process : pc[p] = "unlinking" =>
    /\ file[Guarded(at[p])] = Suspect(at[p])
    /\ pc[Suspect(at[p])] = "dead"

HoldInv == HoldersHold /\ OnlyTheDeadLeaveFiles /\ SuspectsStayDead
LockInv == ShapeInv /\ HoldInv

\* A file that may be recovered was left by a dead process.
LEMMA RecoverableIsDead ==
  ASSUME LockInv, NEW p \in Process, NEW f \in Path, Recoverable(p, f)
  PROVE  file[f] \in Process /\ pc[file[f]] = "dead"
<1>1. file[f] \in Process
  BY DEF LockInv, ShapeInv, TypeOK, Recoverable, Named
<1>2. ~ Alive(file[f])
  BY <1>1 DEF Recoverable, Answers
<1> QED
  BY <1>1, <1>2, ProcessAssumption
     DEF LockInv, HoldInv, OnlyTheDeadLeaveFiles, Alive, Holding

\* A step that creates and unlinks nothing, and neither gains nor loses a path
\* except by dying.
LEMMA QuietStep ==
  ASSUME LockInv, NEW p \in Process, NEW to,
         pc' = [pc EXCEPT ![p] = to], pc[p] # "dead", to # "unlinking",
         UNCHANGED file, blank' \subseteq blank,
         \A q \in Process : q # p => at'[q] = at[q],
         pc[p] \in Holding => to = "dead" \/ (to \in Holding /\ at'[p] = at[p]),
         to \in Holding =>
           /\ pc[p] \in Holding
           /\ to \notin {"naming", "abandoning"} => at[p] \notin blank'
  PROVE  HoldInv'
<1> USE DEF LockInv, ShapeInv, TypeOK
<1>1. HoldersHold'
  <2> SUFFICES ASSUME NEW q \in Process, pc'[q] \in Holding
               PROVE  /\ file'[at'[q]] = q
                      /\ pc'[q] \notin {"naming", "abandoning"} =>
                           at'[q] \notin blank'
    BY DEF HoldersHold
  <2>1. CASE q = p
    BY <2>1 DEF HoldInv, HoldersHold, Holding
  <2>2. CASE q # p
    BY <2>2 DEF HoldInv, HoldersHold
  <2> QED
    BY <2>1, <2>2
<1>2. OnlyTheDeadLeaveFiles'
  <2> SUFFICES ASSUME NEW f \in Path, file[f] # NoFile
               PROVE  \/ pc'[file[f]] = "dead"
                      \/ pc'[file[f]] \in Holding /\ at'[file[f]] = f
    BY DEF OnlyTheDeadLeaveFiles
  <2>1. /\ file[f] \in Process
        /\ pc[file[f]] = "dead" \/ (pc[file[f]] \in Holding /\ at[file[f]] = f)
    BY DEF HoldInv, OnlyTheDeadLeaveFiles
  <2> QED
    BY <2>1
<1>3. SuspectsStayDead'
  <2> SUFFICES ASSUME NEW q \in Process, pc'[q] = "unlinking"
               PROVE  /\ file[Guarded(at[q])] = Suspect(at[q])
                      /\ pc'[Suspect(at[q])] = "dead"
                      /\ at'[q] = at[q]
    BY DEF SuspectsStayDead
  <2>1. q # p /\ pc[q] = "unlinking"
    OBVIOUS
  <2>2. Suspect(at[q]) \in Process
    BY <2>1, GuardedIsPath DEF Levels
  <2> QED
    BY <2>1, <2>2 DEF HoldInv, SuspectsStayDead
<1> QED
  BY <1>1, <1>2, <1>3 DEF HoldInv

\* A holder unlinks its own path and holds nothing then.
LEMMA UnlinkOwnStep ==
  ASSUME LockInv, NEW p \in Process, NEW to,
         pc[p] \in Holding, pc[p] # "unlinking", Unlinked(at[p]),
         pc' = [pc EXCEPT ![p] = to], to \notin Holding,
         \A q \in Process : q # p => at'[q] = at[q]
  PROVE  HoldInv'
<1> USE DEF LockInv, ShapeInv, TypeOK
<1>1. file[at[p]] = p /\ pc[p] # "dead" /\ at[p] \in Path
  BY DEF HoldInv, HoldersHold, Holding
<1>2. HoldersHold'
  <2> SUFFICES ASSUME NEW q \in Process, pc'[q] \in Holding
               PROVE  /\ file'[at'[q]] = q
                      /\ pc'[q] \notin {"naming", "abandoning"} =>
                           at'[q] \notin blank'
    BY DEF HoldersHold
  <2>1. q # p /\ pc[q] \in Holding /\ file[at[q]] = q
    BY DEF HoldInv, HoldersHold
  <2> QED
    BY <1>1, <2>1 DEF HoldInv, HoldersHold, Unlinked
<1>3. OnlyTheDeadLeaveFiles'
  <2> SUFFICES ASSUME NEW f \in Path, file'[f] # NoFile
               PROVE  \/ pc'[file'[f]] = "dead"
                      \/ pc'[file'[f]] \in Holding /\ at'[file'[f]] = f
    BY DEF OnlyTheDeadLeaveFiles
  <2>1. f # at[p] /\ file'[f] = file[f] /\ file[f] \in Process
    BY <1>1 DEF Unlinked
  <2>2. pc[file[f]] = "dead" \/ (pc[file[f]] \in Holding /\ at[file[f]] = f)
    BY <2>1 DEF HoldInv, OnlyTheDeadLeaveFiles
  <2>3. file[f] # p
    BY <1>1, <2>1, <2>2
  <2> QED
    BY <2>1, <2>2, <2>3
<1>4. SuspectsStayDead'
  <2> SUFFICES ASSUME NEW q \in Process, pc'[q] = "unlinking"
               PROVE  /\ file'[Guarded(at'[q])] = Suspect(at'[q])
                      /\ pc'[Suspect(at'[q])] = "dead"
    BY DEF SuspectsStayDead
  <2>1. q # p /\ pc[q] = "unlinking" /\ at'[q] = at[q]
    BY DEF Holding
  <2>2. Suspect(at[q]) \in Process /\ Guarded(at[q]) \in Path
    BY <2>1, GuardedIsPath DEF Levels
  <2>3. /\ file[Guarded(at[q])] = Suspect(at[q])
        /\ pc[Suspect(at[q])] = "dead"
    BY <2>1 DEF HoldInv, SuspectsStayDead
  <2>4. Suspect(at[q]) # p /\ Guarded(at[q]) # at[p]
    BY <1>1, <2>3
  <2> QED
    BY <2>1, <2>2, <2>3, <2>4 DEF Unlinked
<1> QED
  BY <1>2, <1>3, <1>4 DEF HoldInv

LEMMA CreateStep ==
  ASSUME LockInv, NEW p \in Process, Create(p)
  PROVE  HoldInv'
<1> USE DEF LockInv, ShapeInv, TypeOK
<1>1. /\ at[p] \in Path
      /\ file[at[p]] = NoFile
      /\ pc[p] = "opening"
      /\ pc' = [pc EXCEPT ![p] = "naming"]
      /\ file' = [file EXCEPT ![at[p]] = p]
      /\ blank' = blank \cup {at[p]}
      /\ at' = at
  BY DEF Create, Goto
<1>2. HoldersHold'
  <2> SUFFICES ASSUME NEW q \in Process, pc'[q] \in Holding
               PROVE  /\ file'[at[q]] = q
                      /\ pc'[q] \notin {"naming", "abandoning"} =>
                           at[q] \notin blank'
    BY <1>1 DEF HoldersHold
  <2>1. CASE q = p
    BY <1>1, <2>1
  <2>2. CASE q # p
    <3>1. pc'[q] = pc[q] /\ file[at[q]] = q
      BY <1>1, <2>2 DEF HoldInv, HoldersHold
    <3>2. at[q] # at[p]
      BY <1>1, <3>1, ProcessAssumption
    <3> QED
      BY <1>1, <3>1, <3>2 DEF HoldInv, HoldersHold
  <2> QED
    BY <2>1, <2>2
<1>3. OnlyTheDeadLeaveFiles'
  <2> SUFFICES ASSUME NEW f \in Path, file'[f] # NoFile
               PROVE  \/ pc'[file'[f]] = "dead"
                      \/ pc'[file'[f]] \in Holding /\ at[file'[f]] = f
    BY <1>1 DEF OnlyTheDeadLeaveFiles
  <2>1. CASE f = at[p]
    BY <1>1, <2>1 DEF Holding
  <2>2. CASE f # at[p]
    <3>1. file'[f] = file[f] /\ file[f] \in Process
      BY <1>1, <2>2
    <3>2. pc[file[f]] = "dead" \/ (pc[file[f]] \in Holding /\ at[file[f]] = f)
      BY <3>1, ProcessAssumption DEF HoldInv, OnlyTheDeadLeaveFiles
    <3> QED
      BY <1>1, <3>1, <3>2 DEF Holding
  <2> QED
    BY <2>1, <2>2
<1>4. SuspectsStayDead'
  <2> SUFFICES ASSUME NEW q \in Process, pc'[q] = "unlinking"
               PROVE  /\ file'[Guarded(at[q])] = Suspect(at[q])
                      /\ pc'[Suspect(at[q])] = "dead"
    BY <1>1 DEF SuspectsStayDead
  <2>1. pc[q] = "unlinking"
    BY <1>1
  <2>2. Suspect(at[q]) \in Process /\ Guarded(at[q]) \in Path
    BY <2>1, GuardedIsPath DEF Levels
  <2>3. /\ file[Guarded(at[q])] = Suspect(at[q])
        /\ pc[Suspect(at[q])] = "dead"
    BY <2>1 DEF HoldInv, SuspectsStayDead
  <2>4. Suspect(at[q]) # p /\ Guarded(at[q]) # at[p]
    BY <1>1, <2>2, <2>3, ProcessAssumption
  <2> QED
    BY <1>1, <2>2, <2>3, <2>4
<1> QED
  BY <1>2, <1>3, <1>4 DEF HoldInv

LEMMA CheckStep ==
  ASSUME LockInv, NEW p \in Process, Check(p)
  PROVE  HoldInv'
<1> USE DEF LockInv, ShapeInv, TypeOK
<1>1. pc[p] = "checking" /\ at[p] # Main /\ UNCHANGED <<disk, at, stat>>
  BY DEF Check, Goto, Levels
<1>2. CASE ~ SameDeadFile(p)
  <2>1. pc' = [pc EXCEPT ![p] = "leaving"]
    BY <1>2 DEF Check, Goto
  <2>2. at[p] \notin blank
    BY <1>1 DEF HoldInv, HoldersHold, Holding
  <2> QED
    BY <1>1, <2>1, <2>2, QuietStep DEF disk, Holding
<1>3. CASE SameDeadFile(p)
  <2>1. pc' = [pc EXCEPT ![p] = "unlinking"]
    BY <1>3 DEF Check, Goto
  <2>2. Guarded(at[p]) \in Path
    BY <1>1, GuardedIsPath
  <2>3. /\ file[Guarded(at[p])] = Suspect(at[p])
        /\ Suspect(at[p]) \in Process
        /\ pc[Suspect(at[p])] = "dead"
    BY <1>3, <2>2, RecoverableIsDead DEF SameDeadFile
  <2>4. HoldersHold'
    BY <1>1, <2>1 DEF HoldInv, HoldersHold, disk, Holding
  <2>5. OnlyTheDeadLeaveFiles'
    <3> SUFFICES ASSUME NEW f \in Path, file[f] # NoFile
                 PROVE  \/ pc'[file[f]] = "dead"
                        \/ pc'[file[f]] \in Holding /\ at[file[f]] = f
      BY <1>1 DEF OnlyTheDeadLeaveFiles, disk
    <3>1. /\ file[f] \in Process
          /\ pc[file[f]] = "dead" \/ (pc[file[f]] \in Holding /\ at[file[f]] = f)
      BY DEF HoldInv, OnlyTheDeadLeaveFiles
    <3> QED
      BY <1>1, <2>1, <3>1 DEF Holding
  <2>6. SuspectsStayDead'
    <3> SUFFICES ASSUME NEW q \in Process, pc'[q] = "unlinking"
                 PROVE  /\ file[Guarded(at[q])] = Suspect(at[q])
                        /\ pc'[Suspect(at[q])] = "dead"
      BY <1>1 DEF SuspectsStayDead, disk
    <3>1. CASE q = p
      BY <1>1, <2>1, <2>3, <3>1
    <3>2. CASE q # p
      <4>1. pc[q] = "unlinking"
        BY <2>1, <3>2
      <4>2. Suspect(at[q]) \in Process
        BY <4>1, GuardedIsPath DEF Levels
      <4> QED
        BY <1>1, <2>1, <4>1, <4>2 DEF HoldInv, SuspectsStayDead
    <3> QED
      BY <3>1, <3>2
  <2> QED
    BY <2>4, <2>5, <2>6 DEF HoldInv
<1> QED
  BY <1>2, <1>3

\* The step the guard is for.
LEMMA UnlinkStep ==
  ASSUME LockInv, NEW p \in Process, Unlink(p)
  PROVE  HoldInv'
<1> USE DEF LockInv, ShapeInv, TypeOK
<1> DEFINE target == Guarded(at[p])
<1>1. /\ pc[p] = "unlinking"
      /\ pc' = [pc EXCEPT ![p] = "leaving"]
      /\ Unlinked(target)
      /\ at' = at
  BY DEF Unlink, Goto
<1>2. at[p] # Main /\ at[p] \in Path /\ target \in Path
  BY <1>1, GuardedIsPath DEF Levels
<1>3. /\ file[target] = Suspect(at[p])
      /\ pc[Suspect(at[p])] = "dead"
      /\ Suspect(at[p]) \in Process
  BY <1>1, <1>2, GuardedIsPath DEF HoldInv, SuspectsStayDead
<1>4. file[at[p]] = p
  BY <1>1 DEF HoldInv, HoldersHold, Holding
<1> HIDE DEF target
<1>5. HoldersHold'
  <2> SUFFICES ASSUME NEW q \in Process, pc'[q] \in Holding
               PROVE  /\ file'[at[q]] = q
                      /\ pc'[q] \notin {"naming", "abandoning"} =>
                           at[q] \notin blank'
    BY <1>1 DEF HoldersHold
  <2>1. pc[q] \in Holding /\ pc[q] # "dead"
    BY <1>1 DEF Holding
  <2>2. file[at[q]] = q
    BY <2>1 DEF HoldInv, HoldersHold
  <2>3. at[q] # target
    BY <1>3, <2>1, <2>2
  <2> QED
    BY <1>1, <2>1, <2>2, <2>3 DEF HoldInv, HoldersHold, Unlinked
<1>6. OnlyTheDeadLeaveFiles'
  <2> SUFFICES ASSUME NEW f \in Path, file'[f] # NoFile
               PROVE  \/ pc'[file'[f]] = "dead"
                      \/ pc'[file'[f]] \in Holding /\ at[file'[f]] = f
    BY <1>1 DEF OnlyTheDeadLeaveFiles
  <2>1. f # target /\ file'[f] = file[f] /\ file[f] \in Process
    BY <1>1, <1>2 DEF Unlinked
  <2>2. pc[file[f]] = "dead" \/ (pc[file[f]] \in Holding /\ at[file[f]] = f)
    BY <2>1 DEF HoldInv, OnlyTheDeadLeaveFiles
  <2> QED
    BY <1>1, <2>1, <2>2 DEF Holding
<1>7. SuspectsStayDead'
  <2> SUFFICES ASSUME NEW q \in Process, pc'[q] = "unlinking"
               PROVE  /\ file'[Guarded(at[q])] = Suspect(at[q])
                      /\ pc'[Suspect(at[q])] = "dead"
    BY <1>1 DEF SuspectsStayDead
  <2>1. q # p /\ pc[q] = "unlinking"
    BY <1>1
  <2>2. /\ at[q] # Main /\ at[q] \in Path
        /\ Guarded(at[q]) \in Path
        /\ Suspect(at[q]) \in Process
    BY <2>1, GuardedIsPath DEF Levels
  <2>3. /\ file[Guarded(at[q])] = Suspect(at[q])
        /\ pc[Suspect(at[q])] = "dead"
        /\ file[at[q]] = q
    BY <2>1 DEF HoldInv, SuspectsStayDead, HoldersHold, Holding
  \* Both would hold the one guard of the one dead file.
  <2>4. Guarded(at[q]) # target
    <3> SUFFICES ASSUME Guarded(at[q]) = target PROVE FALSE
      OBVIOUS
    <3>1. Suspect(at[q]) = Suspect(at[p]) /\ Guarded(at[q]) = Guarded(at[p])
      BY <1>3, <2>3 DEF target
    <3>2. at[q] = at[p]
      BY <1>2, <2>2, <3>1, GuardsDiffer
    <3> QED
      BY <1>4, <2>1, <2>3, <3>2
  <2> QED
    BY <1>1, <2>1, <2>2, <2>3, <2>4 DEF Unlinked
<1> QED
  BY <1>5, <1>6, <1>7 DEF HoldInv

LEMMA LockInit == Init => LockInv
<1> SUFFICES ASSUME Init PROVE LockInv
  OBVIOUS
<1>1. HoldInv
  BY DEF Init, HoldInv, HoldersHold, OnlyTheDeadLeaveFiles, SuspectsStayDead, Holding
<1> QED
  BY <1>1, ShapeInit DEF LockInv

LEMMA HoldStep == LockInv /\ [Next]_vars => HoldInv'
<1> SUFFICES ASSUME LockInv, [Next]_vars PROVE HoldInv'
  OBVIOUS
<1>0. TypeOK
  BY DEF LockInv, ShapeInv
<1>1. ASSUME NEW p \in Process, Start(p) PROVE HoldInv'
  BY <1>1, QuietStep DEF Start, Goto, disk, Holding
<1>2. ASSUME NEW p \in Process, Create(p) PROVE HoldInv'
  BY <1>2, CreateStep
<1>3. ASSUME NEW p \in Process, Collide(p) PROVE HoldInv'
  BY <1>3, QuietStep DEF Collide, Goto, disk, Holding
<1>4. ASSUME NEW p \in Process, Name(p) PROVE HoldInv'
  <2>1. /\ pc[p] = "naming"
        /\ UNCHANGED <<file, at>>
        /\ blank' = blank \ {at[p]}
    BY <1>4 DEF Name, Goto
  <2>2. PICK to \in {"working", "checking"} : pc' = [pc EXCEPT ![p] = to]
    BY <1>4 DEF Name, Goto
  <2> QED
    BY <2>1, <2>2, QuietStep DEF Holding
<1>5. ASSUME NEW p \in Process, NameFails(p) PROVE HoldInv'
  BY <1>5, QuietStep DEF NameFails, Goto, disk, Holding
<1>6. ASSUME NEW p \in Process, Abandon(p) PROVE HoldInv'
  <2>1. /\ pc[p] \in Holding /\ pc[p] # "unlinking"
        /\ pc' = [pc EXCEPT ![p] = "done"]
        /\ Unlinked(at[p])
        /\ \A q \in Process : q # p => at'[q] = at[q]
    BY <1>6 DEF Abandon, Goto, Holding
  <2>2. "done" \notin Holding
    BY DEF Holding
  <2> QED
    BY <2>1, <2>2, UnlinkOwnStep
<1>7. ASSUME NEW p \in Process, Stat(p) PROVE HoldInv'
  <2>1. pc[p] = "collided" /\ UNCHANGED <<disk, at>>
    BY <1>7 DEF Stat, Goto
  <2>2. PICK to \in {"opening", "reading", "waiting"} : pc' = [pc EXCEPT ![p] = to]
    BY <1>7 DEF Stat, Goto
  <2> QED
    BY <2>1, <2>2, QuietStep DEF disk, Holding
<1>8. ASSUME NEW p \in Process, ReadInVain(p) PROVE HoldInv'
  BY <1>8, QuietStep DEF ReadInVain, Goto, disk, Holding
<1>9. ASSUME NEW p \in Process, ReadDead(p) PROVE HoldInv'
  <2>1. \A q \in Process : q # p => at'[q] = at[q]
    BY <1>0, <1>9 DEF ReadDead, TypeOK
  <2> QED
    BY <1>9, <2>1, QuietStep DEF ReadDead, Goto, disk, Holding
<1>10. ASSUME NEW p \in Process, ReadTooDeep(p) PROVE HoldInv'
  BY <1>10, QuietStep DEF ReadTooDeep, Goto, disk, Holding
<1>11. ASSUME NEW p \in Process, Retry(p) PROVE HoldInv'
  BY <1>11, QuietStep DEF Retry, Goto, disk, Holding
<1>12. ASSUME NEW p \in Process, Expire(p) PROVE HoldInv'
  BY <1>12, QuietStep DEF Expire, Goto, disk, Holding
<1>13. ASSUME NEW p \in Process, Work(p) PROVE HoldInv'
  <2>1. at[p] \notin blank
    BY <1>13 DEF LockInv, HoldInv, HoldersHold, Work, Goto, Holding
  <2> QED
    BY <1>13, <2>1, QuietStep DEF Work, Goto, disk, Holding
<1>14. ASSUME NEW p \in Process, Check(p) PROVE HoldInv'
  BY <1>14, CheckStep
<1>15. ASSUME NEW p \in Process, Unlink(p) PROVE HoldInv'
  BY <1>15, UnlinkStep
\* The holder's record is there to be read, so its file does not stay.
<1>16. ASSUME NEW p \in Process, Leave(p) PROVE HoldInv'
  <2>1. pc[p] = "leaving"
    BY <1>16 DEF Leave, Returned, Goto
  <2>2. file[at[p]] = p /\ at[p] \notin blank
    BY <2>1 DEF LockInv, HoldInv, HoldersHold, Holding
  <2>3. Named(at[p])
    BY <2>2, ProcessAssumption DEF Named
  <2> QED
    BY <1>16, <2>1, <2>2, <2>3, QuietStep DEF Leave, Goto, disk, Holding
<1>17. ASSUME NEW p \in Process, Remove(p) PROVE HoldInv'
  <2>1. PICK to \in {"done", "opening", "waiting"} :
          pc[p] = "removing" /\ pc' = [pc EXCEPT ![p] = to]
    BY <1>17 DEF Remove, Returned, Goto
  <2>2. \A q \in Process : q # p => at'[q] = at[q]
    BY <1>0, <1>17 DEF Remove, Returned, TypeOK
  <2>3. Unlinked(at[p])
    BY <1>17 DEF Remove
  <2>4. pc[p] \in Holding /\ pc[p] # "unlinking" /\ to \notin Holding
    BY <2>1 DEF Holding
  <2> QED
    BY <2>1, <2>2, <2>3, <2>4, UnlinkOwnStep
<1>18. ASSUME NEW p \in Process, Die(p) PROVE HoldInv'
  BY <1>18, QuietStep DEF Die, Alive, disk, Holding
<1>19. ASSUME NEW f \in Path, Age(f) PROVE HoldInv'
  BY <1>19 DEF Age, LockInv, HoldInv, HoldersHold, OnlyTheDeadLeaveFiles, SuspectsStayDead
<1>20. CASE UNCHANGED vars
  BY <1>20 DEF vars, disk, LockInv, HoldInv, HoldersHold, OnlyTheDeadLeaveFiles,
               SuspectsStayDead
<1> QED
  BY <1>1, <1>2, <1>3, <1>4, <1>5, <1>6, <1>7, <1>8, <1>9, <1>10, <1>11, <1>12,
     <1>13, <1>14, <1>15, <1>16, <1>17, <1>18, <1>19, <1>20
     DEF Next, Acquire, Hold

\* Every holder's file is on disk under its name, and the file a recoverer is
\* about to unlink under its guard belongs to a dead process.
THEOREM LockInvariant == Spec => []LockInv
<1>1. LockInv /\ [Next]_vars => LockInv'
  BY ShapeStep, HoldStep DEF LockInv
<1> QED
  BY <1>1, LockInit, PTL DEF Spec

-----------------------------------------------------------------------------
(***************************************************************************)
(* The promises.                                                           *)
(***************************************************************************)

\* No two processes are inside the same lock, nor inside the same guard.
THEOREM MutualExclusionHolds == Spec => []MutualExclusion
<1>1. LockInv => MutualExclusion
  BY DEF LockInv, HoldInv, HoldersHold, MutualExclusion, Inside, Holding
<1> QED
  BY <1>1, LockInvariant, PTL

\* A call that is over has left no file on any path.
THEOREM OnlyTheDeadLeaveFilesHolds == Spec => []OnlyTheDeadLeaveFiles
<1>1. LockInv => OnlyTheDeadLeaveFiles
  BY DEF LockInv, HoldInv
<1> QED
  BY <1>1, LockInvariant, PTL

\* The file of a living process is unlinked by nobody but itself.
THEOREM LiveLocksKeptHolds == Spec => LiveLocksKept
<1> DEFINE Kept == \A f \in Path : \A o \in Process :
      file[f] = o /\ file'[f] # o => pc[o] = "dead" \/ pc'[o] # pc[o]
<1>1. LockInv /\ [Next]_vars => Kept
  <2> SUFFICES ASSUME LockInv, [Next]_vars,
                      NEW f \in Path, NEW o \in Process,
                      file[f] = o, file'[f] # o, pc[o] # "dead"
               PROVE  pc'[o] # pc[o]
    BY DEF Kept
  <2> USE DEF LockInv, ShapeInv, TypeOK
  <2>1. ASSUME NEW p \in Process, Create(p) PROVE FALSE
    BY <2>1, ProcessAssumption DEF Create
  <2>2. ASSUME NEW p \in Process, Abandon(p) \/ Remove(p) PROVE pc'[o] # pc[o]
    <3>1. pc[p] \in {"abandoning", "removing"} /\ Unlinked(at[p])
      BY <2>2 DEF Abandon, Remove, Returned, Goto
    <3>2. file[at[p]] = p /\ f = at[p]
      BY <3>1 DEF HoldInv, HoldersHold, Holding, Unlinked
    <3>3. pc'[p] \in {"done", "opening", "waiting"}
      BY <2>2 DEF Abandon, Remove, Returned, Goto
    <3> QED
      BY <3>1, <3>2, <3>3
  <2>3. ASSUME NEW p \in Process, Unlink(p) PROVE FALSE
    <3>1. pc[p] = "unlinking" /\ f = Guarded(at[p])
      BY <2>3 DEF Unlink, Goto, Unlinked
    <3> QED
      BY <3>1 DEF HoldInv, SuspectsStayDead
  <2>4. CASE UNCHANGED file
    BY <2>4
  <2>5. \/ UNCHANGED file
        \/ \E p \in Process : Create(p) \/ Abandon(p) \/ Remove(p) \/ Unlink(p)
    <3>1. ASSUME NEW p \in Process, Acquire(p), ~ Create(p), ~ Abandon(p)
          PROVE  UNCHANGED file
      BY <3>1 DEF Acquire, Collide, Name, NameFails, Stat, ReadInVain, ReadDead,
                  ReadTooDeep, Retry, Expire, disk
    <3>2. ASSUME NEW p \in Process, Hold(p), ~ Remove(p), ~ Unlink(p)
          PROVE  UNCHANGED file
      BY <3>2 DEF Hold, Work, Check, Leave, disk
    <3>3. ASSUME NEW p \in Process, Start(p) \/ Die(p)
          PROVE  UNCHANGED file
      BY <3>3 DEF Start, Die, disk
    <3>4. ASSUME NEW g \in Path, Age(g)
          PROVE  UNCHANGED file
      BY <3>4 DEF Age
    <3> QED
      BY <3>1, <3>2, <3>3, <3>4 DEF Next, vars, disk
  <2> QED
    BY <2>1, <2>2, <2>3, <2>4, <2>5
<1>2. [][Kept]_vars <=> LiveLocksKept
  BY PTL DEF LiveLocksKept
<1> QED
  BY <1>1, <1>2, LockInvariant, PTL DEF Spec, LiveLocksKept

-----------------------------------------------------------------------------
(***************************************************************************)
(* The files and guards implement a mutex.                                 *)
(***************************************************************************)
LEMMA HolderIsUnique ==
  ASSUME LockInv, NEW p \in Process, Transacting(p)
  PROVE  Holder = p
<1>1. \A q \in Process : Transacting(q) => q = p
  BY DEF LockInv, ShapeInv, Levels, HoldInv, HoldersHold, Transacting, Holding
<1> QED
  BY <1>1 DEF Holder

LEMMA NoHolder ==
  ASSUME \A p \in Process : ~ Transacting(p)
  PROVE  Holder = NoFile
BY DEF Holder

\* A step moves at most one process.
LEMMA OneMoves ==
  ASSUME TypeOK, [Next]_vars
  PROVE  \/ UNCHANGED pc
         \/ \E p \in Process : \A q \in Process : q # p => pc'[q] = pc[q]
<1>1. ASSUME NEW p \in Process, Start(p) \/ Acquire(p) \/ Hold(p) \/ Die(p)
      PROVE  \A q \in Process : q # p => pc'[q] = pc[q]
  BY <1>1 DEF TypeOK, Start, Acquire, Hold, Die, Create, Collide, Name, NameFails,
       Abandon, Stat, ReadInVain, ReadDead, ReadTooDeep, Retry, Expire, Work, Check,
       Unlink, Leave, Remove, Returned, Goto
<1>2. ASSUME NEW f \in Path, Age(f)
      PROVE  UNCHANGED pc
  BY <1>2 DEF Age
<1> QED
  BY <1>1, <1>2 DEF Next, vars

LEMMA MutexStep ==
  ASSUME LockInv, LockInv', [Next]_vars
  PROVE  [AsMutex!Next]_Holder
<1>1. CASE UNCHANGED pc
  BY <1>1 DEF Holder, Transacting
<1>2. ASSUME NEW p \in Process, \A q \in Process : q # p => pc'[q] = pc[q]
      PROVE  [AsMutex!Next]_Holder
  <2>1. \A q \in Process : q # p => (Transacting(q) <=> Transacting(q)')
    BY <1>2 DEF Transacting
  <2>2. \A q \in Process : Transacting(q) => Holder = q
    BY HolderIsUnique
  <2>3. \A q \in Process : Transacting(q)' => Holder' = q
    <3>1. \A q, r \in Process : Transacting(q)' /\ Transacting(r)' => q = r
      BY DEF LockInv, ShapeInv, Levels, HoldInv, HoldersHold, Transacting, Holding
    <3> QED
      BY <3>1 DEF Holder
  <2>4. CASE \E q \in Process : q # p /\ Transacting(q)
    BY <2>1, <2>2, <2>3, <2>4
  <2>5. CASE \A q \in Process : q # p => ~ Transacting(q)
    <3>1. Transacting(p) \/ Holder = NoFile
      BY <2>5, NoHolder
    <3>2. Transacting(p)' \/ Holder' = NoFile
      BY <2>1, <2>5 DEF Holder, Transacting
    <3> QED
      BY <2>2, <2>3, <3>1, <3>2
         DEF AsMutex!Next, AsMutex!Enter, AsMutex!Exit
  <2> QED
    BY <2>4, <2>5
<1> QED
  BY <1>1, <1>2, OneMoves DEF LockInv, ShapeInv

\* The header of withFileLock, "serialized across operating-system processes":
\* the lock files and guards implement a mutex around the callers' transactions.
THEOREM FileLockIsMutex == Spec => IsMutex
<1>1. Init => AsMutex!Init
  BY NoHolder DEF Init, Transacting, AsMutex!Init
<1>2. LockInv /\ LockInv' /\ [Next]_vars => [AsMutex!Next]_Holder
  BY MutexStep
<1> QED
  BY <1>1, <1>2, LockInvariant, PTL DEF Spec, IsMutex, AsMutex!Spec
===============================================================================
