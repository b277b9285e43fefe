--------------------------------- MODULE Mutex ---------------------------------
(***************************************************************************)
(* What the callers of withFileLock (src/shared/file-lock.ts) rely on: a   *)
(* transaction runs alone among the processes that use the same lock, as   *)
(* one step of the whole system.  FileLock is shown to implement this      *)
(* specification; GenerationJournal takes it for granted and makes one     *)
(* step of every locked transaction.                                       *)
(***************************************************************************)
CONSTANTS Process, Nobody

VARIABLE holder  \* the process whose transaction runs, or Nobody

Init == holder = Nobody

\* Only a lock that nobody holds is taken.
Enter(p) ==
  /\ holder = Nobody
  /\ holder' = p

\* The transaction returns, throws, or dies with its process.
Exit(p) ==
  /\ holder = p
  /\ holder' = Nobody

Next == \E p \in Process : Enter(p) \/ Exit(p)

Spec == Init /\ [][Next]_holder
===============================================================================
