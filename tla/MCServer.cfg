SPECIFICATION FairSpec
CONSTANTS
  Terminals = {t1, t2}
  Lines = {ls, rmdir}
  Throws = {ls}
  Removals = {rmdir}
  Empty = empty
  AskPath = askPath
  Blank = blank
  MaxClients = 3
  MaxLines = 2
INVARIANTS SessionsCounted NoUnsolicitedAnswer UndisturbedAnswerIsOwn
PROPERTIES UndisturbedIsAnswered
CHECK_DEADLOCK FALSE
