-------------------------- MODULE MCGenerationJournal --------------------------
(***************************************************************************)
(* Small instances of GenerationJournal: two applications on one run.      *)
(***************************************************************************)
EXTENDS GenerationJournal

CONSTANTS a, b
===============================================================================
