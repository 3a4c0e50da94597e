CONSTANTS
  a = a  b = b  c = c
  None = None
  Tasks = {a, b, c}
  Methods <- AllMethods
  Programs <- Sound
  Capacity = 2
SPECIFICATION FairSpec
INVARIANTS OwnerIsInside NoLostNotification ListsAgree
PROPERTIES IsFifo InterruptReturns
CHECK_DEADLOCK FALSE
