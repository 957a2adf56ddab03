SPECIFICATION Spec
CONSTANTS
  Terminals = {t1, t2}
  Main = main
  Nobody = nobody
  Files = {f, g}
  Ops = {"create", "write", "append"}
  Barred = {FALSE}
  MaxOps = 3
  MaxCrashes = 2
  MaxRecoveries = 2
SYMMETRY Symmetry
INVARIANTS CommittedWasExecuted CommittedIsFinal FinishedIsCommitted FilesMatchLog
CHECK_DEADLOCK FALSE
