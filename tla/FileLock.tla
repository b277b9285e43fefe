------------------------------- MODULE FileLock -------------------------------
(***************************************************************************)
(* withFileLock (src/shared/file-lock.ts): a short read-modify-write       *)
(* transaction is serialized across operating-system processes by creating *)
(* a lock file exclusively.  A process that dies leaves its file behind;   *)
(* whoever collides with such a file recovers it, and the recoverers of    *)
(* one and the same dead file serialize through a second lock, the guard,  *)
(* whose name is derived from the file's name and content.  A guard is     *)
(* taken with the same procedure, so a guard left behind by a dead         *)
(* recoverer is itself recovered under a guard of the guard, and so on.    *)
(*                                                                         *)
(* A process is one incarnation of an operating-system process and makes   *)
(* one call; processes interleave at every system call.                    *)
(***************************************************************************)
EXTENDS Naturals, Sequences

CONSTANTS
  Process,     \* incarnations of processes
  PidOf,       \* the process id of each: an id may be used again after a death
  HostOf,      \* the host each runs on
  MaxDepth,    \* how many guards may nest (the code: 16)
  Recovering,  \* the callers that recover stale locks (recoverStale)
  Mortal,      \* the processes that may die in the middle of a call
  Failing,     \* those that may fail to write their owner record
  Hurried,     \* those that may run into their deadline
  NoFile       \* no process: the path does not exist

ASSUME ProcessAssumption ==
  /\ NoFile \notin Process
  /\ Mortal \subseteq Process
  /\ Recovering \subseteq Process
  /\ MaxDepth \in Nat

(***************************************************************************)
(* A lock path is named by the dead processes whose files it guards,       *)
(* innermost first: <<>> is the lock of the caller, <<o>> the guard under  *)
(* which the file that o left at <<>> is removed, <<q, o>> the guard under *)
(* which the file that q left at <<o>> is removed.                         *)
(***************************************************************************)
Path == UNION {[1 .. n -> Process] : n \in 0 .. MaxDepth}
Main == <<>>
Guard(path, owner) == <<owner>> \o path
Guarded(guard) == Tail(guard)
Suspect(guard) == Head(guard)

VARIABLES
  file,     \* file[f]: the process that created the file at f, or NoFile
  blank,    \* the paths whose file does not hold its owner record yet
  old,      \* the paths whose file is older than staleMs
  pc,       \* where each process is
  at,       \* at[p]: the path p is taking or holding; its callers wait for
            \* Guarded(at[p]), Guarded(Guarded(at[p])) ...
  stat,     \* stat[p]: the creator (inode) of the file p found too old, for
            \* each path from at[p] outwards
  removed   \* removed[p]: what the operation under p's guard returned

disk == <<file, blank, old>>
vars == <<disk, pc, at, stat, removed>>

Active == {"opening", "naming", "abandoning", "collided", "reading", "waiting",
           "working", "checking", "unlinking", "leaving", "removing"}
Holding == {"naming", "abandoning", "working", "checking", "unlinking",
            "leaving", "removing"}

TypeOK ==
  /\ file \in [Path -> Process \cup {NoFile}]
  /\ blank \subseteq Path
  /\ old \subseteq Path
  /\ pc \in [Process -> Active \cup {"idle", "done", "dead"}]
  /\ at \in [Process -> Path]
  /\ stat \in [Process -> Seq(Process)]
  /\ removed \in [Process -> BOOLEAN]

Init ==
  /\ file = [f \in Path |-> NoFile]
  /\ blank = {}
  /\ old = {}
  /\ pc = [p \in Process |-> "idle"]
  /\ at = [p \in Process |-> Main]
  /\ stat = [p \in Process |-> <<>>]
  /\ removed = [p \in Process |-> FALSE]

-----------------------------------------------------------------------------
Alive(p) == pc[p] \notin {"idle", "dead"}

\* The owner record at f can be read: it is there and complete.
Named(f) == file[f] # NoFile /\ f \notin blank

\* isProcessAlive, as seen by a process of the same host: some process answers
\* to the id, the owner or another that was given the id later.
Answers(host, pid) ==
  \E q \in Process : Alive(q) /\ HostOf[q] = host /\ PidOf[q] = pid

\* Mutant of Recoverable: age alone decides.
RecoverableByAge(p, f) == file[f] # NoFile

\* isRecoverableOwner, for the file at f as p reads it.
Recoverable(p, f) ==
  /\ Named(f)
  /\ HostOf[file[f]] = HostOf[p]
  /\ ~ Answers(HostOf[p], PidOf[file[f]])

Goto(p, from, to) ==
  /\ pc[p] = from
  /\ pc' = [pc EXCEPT ![p] = to]

Unlinked(f) ==
  /\ file' = [file EXCEPT ![f] = NoFile]
  /\ blank' = blank \ {f}
  /\ old' = old \ {f}

-----------------------------------------------------------------------------
(***************************************************************************)
(* Acquiring a path.                                                       *)
(***************************************************************************)

\* A process is born, under an id no living process of its host has, and calls.
Start(p) ==
  /\ ~ Answers(HostOf[p], PidOf[p])
  /\ Goto(p, "idle", "opening")
  /\ UNCHANGED <<disk, at, stat, removed>>

\* openSync(lockPath, 'wx') creates the file, empty.
Create(p) ==
  /\ file[at[p]] = NoFile
  /\ Goto(p, "opening", "naming")
  /\ file' = [file EXCEPT ![at[p]] = p]
  /\ blank' = blank \cup {at[p]}
  /\ UNCHANGED <<old, at, stat, removed>>

\* openSync(lockPath, 'wx') fails with EEXIST.
Collide(p) ==
  /\ file[at[p]] # NoFile
  /\ Goto(p, "opening", IF p \in Recovering THEN "collided" ELSE "waiting")
  /\ UNCHANGED <<disk, at, stat, removed>>

\* The owner record is written: the caller's operation runs, or the recheck
\* when the path is a guard.
Name(p) ==
  /\ Goto(p, "naming", IF at[p] = Main THEN "working" ELSE "checking")
  /\ blank' = blank \ {at[p]}
  /\ UNCHANGED <<file, old, at, stat, removed>>

\* Writing the record fails: the descriptor is closed ...
NameFails(p) ==
  /\ p \in Failing
  /\ Goto(p, "naming", "abandoning")
  /\ UNCHANGED <<disk, at, stat, removed>>

\* Mutant of Abandon: the empty file is left behind.
AbandonKept(p) ==
  /\ Goto(p, "abandoning", "done")
  /\ UNCHANGED <<disk, at, stat, removed>>

\* ... the file unlinked whoever it belongs to, and the error thrown through
\* every level.
Abandon(p) ==
  /\ Goto(p, "abandoning", "done")
  /\ Unlinked(at[p])
  /\ UNCHANGED <<at, stat, removed>>

\* recoverStaleLock, statSync: a file that is gone is tried again at once, one
\* that is young is waited for.
Stat(p) ==
  /\ Goto(p, "collided",
          IF file[at[p]] = NoFile THEN "opening"
          ELSE IF at[p] \in old THEN "reading"
          ELSE "waiting")
  /\ stat' = IF pc'[p] = "reading"
             THEN [stat EXCEPT ![p] = <<file[at[p]]>> \o @]
             ELSE stat
  /\ UNCHANGED <<disk, at, removed>>

\* recoverStaleLock, readFileSync: the file is gone by now, or names no owner
\* that could be declared dead ...
ReadInVain(p) ==
  /\ ~ Recoverable(p, at[p])
  /\ Goto(p, "reading", IF file[at[p]] = NoFile THEN "opening" ELSE "waiting")
  /\ stat' = [stat EXCEPT ![p] = Tail(@)]
  /\ UNCHANGED <<disk, at, removed>>

\* Mutant of ReadDead: only the caller's lock is recovered, a guard never.
ReadDeadOutermost(p) ==
  /\ Recoverable(p, at[p])
  /\ Len(at[p]) < MaxDepth
  /\ IF at[p] = Main
     THEN /\ Goto(p, "reading", "opening")
          /\ at' = [at EXCEPT ![p] = Guard(@, file[@])]
          /\ UNCHANGED stat
     ELSE /\ Goto(p, "reading", "waiting")
          /\ stat' = [stat EXCEPT ![p] = Tail(@)]
          /\ UNCHANGED at
  /\ UNCHANGED <<disk, removed>>

\* ... or names a dead one: its guard is taken ...
ReadDead(p) ==
  /\ Recoverable(p, at[p])
  /\ Len(at[p]) < MaxDepth
  /\ Goto(p, "reading", "opening")
  /\ at' = [at EXCEPT ![p] = Guard(@, file[@])]
  /\ UNCHANGED <<disk, stat, removed>>

\* ... unless the guards nest too deep, and the call times out.
ReadTooDeep(p) ==
  /\ Recoverable(p, at[p])
  /\ Len(at[p]) >= MaxDepth
  /\ Goto(p, "reading", "done")
  /\ UNCHANGED <<disk, at, stat, removed>>

\* After retryMs the path is tried again, unless the deadline has passed: then
\* FileLockTimeoutError is thrown through every level.
Retry(p) ==
  /\ Goto(p, "waiting", "opening")
  /\ UNCHANGED <<disk, at, stat, removed>>

Expire(p) ==
  /\ p \in Hurried
  /\ Goto(p, "waiting", "done")
  /\ UNCHANGED <<disk, at, stat, removed>>

-----------------------------------------------------------------------------
(***************************************************************************)
(* Holding a path.                                                         *)
(***************************************************************************)

\* The caller's operation ends, with a value or an error.
Work(p) ==
  /\ Goto(p, "working", "leaving")
  /\ UNCHANGED <<disk, at, stat, removed>>

\* Mutant of SameDeadFile: the guard is taken, the file not looked at again.
AnyFile(p) == TRUE

\* The suspect's file is still the one that was found too old, and its owner
\* still dead.
SameDeadFile(p) ==
  LET f == Guarded(at[p])
  IN  /\ file[f] = Head(stat[p])
      /\ f \in old
      /\ file[f] = Suspect(at[p])
      /\ Recoverable(p, f)

\* Under the guard the file is looked at again.  Nothing is removed when it is
\* another one; a file that is gone counts as recovered (ENOENT).
Check(p) ==
  /\ Goto(p, "checking", IF SameDeadFile(p) THEN "unlinking" ELSE "leaving")
  /\ removed' = [removed EXCEPT ![p] = file[Guarded(at[p])] = NoFile]
  /\ UNCHANGED <<disk, at, stat>>

Unlink(p) ==
  /\ Goto(p, "unlinking", "leaving")
  /\ Unlinked(Guarded(at[p]))
  /\ removed' = [removed EXCEPT ![p] = TRUE]
  /\ UNCHANGED <<at, stat>>

\* The call on at[p] is over.  The outermost call returns to the caller; a
\* guard's returns into the acquisition of the guarded path, which is tried at
\* once when the file was recovered and waited for otherwise.
Returned(p, from) ==
  IF at[p] = Main
  THEN /\ Goto(p, from, "done")
       /\ UNCHANGED <<at, stat>>
  ELSE /\ Goto(p, from, IF removed[p] THEN "opening" ELSE "waiting")
       /\ at' = [at EXCEPT ![p] = Guarded(@)]
       /\ stat' = [stat EXCEPT ![p] = Tail(@)]

\* removeOwnedLock reads the record: a file that is not its own stays.
Leave(p) ==
  IF Named(at[p]) /\ file[at[p]] = p
  THEN /\ Goto(p, "leaving", "removing")
       /\ UNCHANGED <<disk, at, stat, removed>>
  ELSE /\ Returned(p, "leaving")
       /\ UNCHANGED <<disk, removed>>

\* removeOwnedLock unlinks the path.
Remove(p) ==
  /\ Unlinked(at[p])
  /\ Returned(p, "removing")
  /\ UNCHANGED removed

-----------------------------------------------------------------------------
(***************************************************************************)
(* The environment.                                                        *)
(***************************************************************************)

\* A process dies, in the middle of a call or after it; its file stays.
Die(p) ==
  /\ p \in Mortal
  /\ Alive(p)
  /\ pc' = [pc EXCEPT ![p] = "dead"]
  /\ UNCHANGED <<disk, at, stat, removed>>

\* staleMs pass since a file was written.
Age(f) ==
  /\ file[f] # NoFile
  /\ f \notin old
  /\ old' = old \cup {f}
  /\ UNCHANGED <<file, blank, pc, at, stat, removed>>

Acquire(p) ==
  \/ Create(p) \/ Collide(p) \/ Name(p) \/ NameFails(p) \/ Abandon(p)
  \/ Stat(p) \/ ReadInVain(p) \/ ReadDead(p) \/ ReadTooDeep(p)
  \/ Retry(p) \/ Expire(p)

Hold(p) == Work(p) \/ Check(p) \/ Unlink(p) \/ Leave(p) \/ Remove(p)

Next ==
  \/ \E p \in Process : Start(p) \/ Acquire(p) \/ Hold(p) \/ Die(p)
  \/ \E f \in Path : Age(f)

Spec == Init /\ [][Next]_vars

\* The scheduler runs every living process, and time passes.
FairSpec ==
  /\ Spec
  /\ \A p \in Process : WF_vars(Acquire(p) \/ Hold(p))
  /\ \A f \in Path : WF_vars(Age(f))

-----------------------------------------------------------------------------
(***************************************************************************)
(* What the lock promises.                                                 *)
(***************************************************************************)

\* The header of withFileLock: transactions are serialized across processes.
\* Never do two living processes run the operation of one lock, nor the
\* recheck and removal of one guard, however many died and were recovered.
Inside(p) == pc[p] \in {"working", "checking", "unlinking"}

MutualExclusion ==
  \A p, q \in Process : Inside(p) /\ Inside(q) /\ at[p] = at[q] => p = q

\* The caller's transaction that runs at this moment.
Transacting(p) == pc[p] = "working"
Holder ==
  IF \E p \in Process : Transacting(p)
  THEN CHOOSE p \in Process : Transacting(p)
  ELSE NoFile

AsMutex == INSTANCE Mutex WITH
  Process <- Process,
  Nobody <- NoFile,
  holder <- Holder

\* The header again, as the callers understand it: below all the files and
\* guards there is one lock, taken by a process only while no transaction runs.
IsMutex == AsMutex!Spec

\* "A mere check/unlink sequence could remove a newly acquired live lock": no
\* file of a living process is unlinked by a step of another process, on
\* whatever path, named or not.
LiveLocksKept ==
  [][\A f \in Path : \A o \in Process :
       file[f] = o /\ file'[f] # o => pc[o] = "dead" \/ pc'[o] # pc[o]]_vars

\* A lock file belongs to a living process that holds it at this moment, or to
\* a dead one: a call that returns, fails or times out leaves nothing behind,
\* on its lock or on any guard it took on the way.
OnlyTheDeadLeaveFiles ==
  \A f \in Path : file[f] # NoFile =>
    LET o == file[f]
    IN  pc[o] = "dead" \/ (pc[o] \in Holding /\ at[o] = f)

\* A file whose creator died before naming itself in it.  "Age alone cannot
\* establish that an empty or malformed lock is abandoned": it stays.
AbandonedBlank == \E f \in blank : pc[file[f]] = "dead"

\* A dead holder does not block the living, even when recoverers die under
\* their guards: every call of a process that lives ends, and need not wait for
\* its deadline, unless a file was abandoned blank.
CallsReturn ==
  \A p \in Process \ Mortal :
    pc[p] \in Active ~> pc[p] = "done" \/ AbandonedBlank

===============================================================================
