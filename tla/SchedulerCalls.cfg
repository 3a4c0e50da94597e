CONSTANTS
  sys = sys  app = app  aux = aux  ext = ext  t1 = t1  t2 = t2
  None = None
  Procs = {sys, app, aux}
  External = {}
  Boot = sys
  Group <- ThreeGroups
  Threads = {t1, t2}
  MaxThreads = 2
  Priorities = {128}
  Calls = {"program", "signal"}
  SoftGc = {}
  HardGc = {app, aux}
  MaxMessages = 1
SPECIFICATION Spec
SYMMETRY Symmetry
INVARIANTS OneThreadPerProcess IdleHasNoMessages IdleIsNotKilled NoThreadSleepsOnWork ReadyQueuesAgree NoMutatorDuringGc OneCollectorPerTarget 
