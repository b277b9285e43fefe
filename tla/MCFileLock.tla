------------------------------ MODULE MCFileLock ------------------------------
(***************************************************************************)
(* A small instance of FileLock.                                           *)
(***************************************************************************)
EXTENDS FileLock, TLC

CONSTANTS p1, p2, p3, p4

\* One host, and an id for every process.
DistinctPids == (p1 :> 1) @@ (p2 :> 2) @@ (p3 :> 3) @@ (p4 :> 4)
LocalHost == [p \in Process |-> "local"]
===============================================================================
