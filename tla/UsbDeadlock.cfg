SPECIFICATION FairSpec
CONSTANTS
  a = a
  b = b
  o = o
  None = None
  Callers = {a, b}
  Openers = {o}
  Setups <- RefusedOnly
PROPERTIES
  Returns
CHECK_DEADLOCK FALSE
