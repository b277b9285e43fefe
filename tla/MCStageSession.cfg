SPECIFICATION FairSpec
CHECK_DEADLOCK FALSE
CONSTANTS
  r1 = r1
  r2 = r2
  s1 = s1
  s2 = s2
  a = a
  b = b
  Run = {r1, r2}
  Session = {s1, s2}
  Stage = {"execution", "evaluation", "report"}
  NoStage = NoStage
  RunId = {a, b}
  IdOf <- Ids
INVARIANTS OneAtWork LedgerContinued
PROPERTIES SessionsClose
