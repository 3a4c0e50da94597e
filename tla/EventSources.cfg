CONSTANTS
  t1 = t1  o1 = o1  m1 = m1  m2 = m2  m3 = m3
  None = None
  Timers = {t1}
  Others = {o1}
  Messages = {m1,m2,m3}
  MaxTime = 2
SPECIFICATION FairSpec
INVARIANTS MessageLifetime TimersExist NoLostEvent ThreadWakesInTime
PROPERTY SleepEnds
CHECK_DEADLOCK FALSE
