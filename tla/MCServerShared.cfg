SPECIFICATION Spec
CONSTANTS
  Terminals = {t1, t2}
  Lines = {ls, pwd}
  Throws = {}
  Removals = {}
  Empty = empty
  AskPath = askPath
  Blank = blank
  MaxClients = 10
  MaxLines = 1
INVARIANTS AnswerIsOwn
CHECK_DEADLOCK FALSE
