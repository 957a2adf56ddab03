SPECIFICATION Spec
CONSTANTS
  f = f
  g = g
  d = d
  Threads = {t1, t2}
  Nobody = nobody
  Names = {f, g}
  Dirs = {d}
  NoName = noname
  Booted <- BootedFile
  Commands = {"read", "write", "rename", "rm", "create", "mkdir", "rmdir"}
  MaxObjects = 3
SYMMETRY ThreadSymmetry
INVARIANTS TypeOK TableIsLive WorkersSafe SlotsCounted
CHECK_DEADLOCK FALSE
