SPECIFICATION Spec
CONSTANTS
  Threads = {t1, t2}
  Nobody = nobody
  DataBlocks <- Few
  CreateNeeds = {1, 2, 3}
  OverReads = {0, 1}
  MaxExtents = 2
  SaveMayFail = TRUE
  MaxCommands = 4
SYMMETRY Symmetry
CONSTRAINT Followed
INVARIANTS TypeOK BlocksDisjoint BlocksMarked CounterCovered
CHECK_DEADLOCK FALSE
