CONSTANTS
  p = p  q = q
  None = None
  Pids = {p}
  MaxCalls = 4
  Blocking = {0, 1}
  Failing = {3}
  MaxTasks = 2
  MaxRequests = 3
SPECIFICATION FairSpec
INVARIANTS CountersAgree EnoughTasks NoRequestsOfRemoved CanceledOnRequest
PROPERTIES OutcomeIsFinal CallReturns CanceledLeaves
CHECK_DEADLOCK FALSE
