CONSTANTS
  sys = sys  app = app  aux = aux  ext = ext  t1 = t1  t2 = t2
  None = None
  Procs = {sys, app, ext}
  External = {ext}
  Boot = sys
  Group <- ThreeGroups
  Threads = {t1, t2}
  MaxThreads = 2
  Priorities = {43, 213}
  Calls = {"program", "priority"}
  SoftGc = {app}
  HardGc = {}
  MaxMessages = 1
SPECIFICATION Spec
SYMMETRY ThreadSymmetry
INVARIANTS ReadyQueuesAgree NoMutatorDuringGc ExitBeforeEmpty
