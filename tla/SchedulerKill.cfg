CONSTANTS
  sys = sys  app = app  aux = aux  ext = ext  t1 = t1  t2 = t2
  None = None
  Procs = {sys, app}
  External = {}
  Boot = sys
  Group <- TwoGroups
  Threads = {t1, t2}
  MaxThreads = 2
  Priorities = {128}
  Calls = {"program", "kill", "signal"}
  SoftGc = {}
  HardGc = {app}
  MaxMessages = 0
SPECIFICATION FairSpec
PROPERTIES KillTerminates CrossGcEnds
CHECK_DEADLOCK FALSE
