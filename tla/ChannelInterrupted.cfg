CONSTANTS
  a = a  b = b  c = c
  None = None
  Tasks = {a, b, c}
  Methods <- AllMethods
  Programs <- Interrupting
  Capacity = 2
SPECIFICATION Spec
INVARIANT OwnerIsInside
