---------------------------- MODULE MCEventDelivery ----------------------------
(***************************************************************************)
(* A small instance of EventDelivery: two stages, two workers.             *)
(***************************************************************************)
EXTENDS EventDelivery, TLC

CONSTANTS w1, w2
===============================================================================
