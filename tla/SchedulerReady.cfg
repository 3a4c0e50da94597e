CONSTANTS
  sys = sys  app = app  aux = aux  ext = ext  t1 = t1  t2 = t2
  None = None
  Procs = {sys, app, aux}
  External = {}
  Boot = sys
  Group <- OneGroup
  Threads = {t1, t2}
  MaxThreads = 2
  Priorities = {213}
  Calls = {"spawn"}
  SoftGc = {}
  HardGc = {}
  MaxMessages = 0
SPECIFICATION FairSpec
PROPERTIES ReadyIsRun ExitCompletes
CHECK_DEADLOCK FALSE
