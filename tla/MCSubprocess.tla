----------------------------- MODULE MCSubprocess -----------------------------
(* A small instance of Subprocess: two calls, one with a deadline, and a   *)
(* runtime with a child of its own.                                        *)
EXTENDS Subprocess, TLC

CONSTANTS c1, c2, r1
===============================================================================
