CONSTANTS
  boot = boot
  child = child
  runner = runner
  b1 = b1
  b2 = b2
  b3 = b3
  b4 = b4
  None = None
  Procs = {boot, child, runner}
  Runners = {runner}
  Boot = boot
  Blocks <- MCBlocks
  Values <- MCValues
  SpawnValues <- Captured
  MaxExternals = 2
  MaxMessages = 1
  MaxShared = 0
SPECIFICATION Spec
SYMMETRY Symmetry
INVARIANTS SingleOwner NoLeak Accounting
CHECK_DEADLOCK FALSE
