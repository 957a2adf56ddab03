\* Two users, two names, three slots and one restart.
CONSTANTS
  Terminals = {t1}
  root = root  ann = ann
  Users = {root, ann}
  Root = root
  f = f  d = d
  Names <- AllNames
  BadNames = {}
  LongNames = {}
  Cut = Cut
  Paths <- SomePaths
  Up = Up
  Modes <- SomeModes
  MaxFiles = 3
  PerBlock = 2
  Digits <- Id
  Misread <- ReadAs
  MaxBoots = 1
CONSTRAINT Followed
SPECIFICATION Spec
INVARIANTS IndexExact PromptEnds
PROPERTIES Isolation RestartKeeps
CHECK_DEADLOCK FALSE
