SPECIFICATION FairSpec
CONSTANTS
  Addrs = {1, 2}
  MaxPlugs = 2
  PipeSize = 1
  MaxUsers = 2
  None = None
INVARIANTS
  RefsCounted
  NoDangling
PROPERTIES
  ListFollows
  LeftTold
CHECK_DEADLOCK FALSE
