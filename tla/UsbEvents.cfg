SPECIFICATION FairSpec
CONSTANTS
  a = a
  b = b
  o = o
  None = None
  Callers = {a, b}
  Openers = {o}
  Setups <- AllSetups
INVARIANTS
  TypeOK
  NoStaleFds
  FreeNotActive
  NoUseAfterFree
PROPERTIES
  CompletedOnce
  Returns
CHECK_DEADLOCK FALSE
