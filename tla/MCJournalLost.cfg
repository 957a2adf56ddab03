SPECIFICATION Spec
CONSTANTS
  Terminals = {t1}
  Main = main
  Nobody = nobody
  Files = {f, g}
  Ops = {"create", "write", "append", "delete"}
  Barred = {FALSE}
  MaxOps = 3
  MaxCrashes = 1
  MaxRecoveries = 2
INVARIANTS CommittedSurvives
CHECK_DEADLOCK FALSE
