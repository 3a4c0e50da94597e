CONSTANTS
  a = a  b = b  c = c  d = d
  None = None
  Tasks = {a, b, c, d}
  Methods <- AllMethods
  Programs <- Entering
SPECIFICATION Spec
INVARIANT OpenGateAdmits
