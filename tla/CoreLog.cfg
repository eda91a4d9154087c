SPECIFICATION Spec
CONSTANTS
  m1 = m1
  m2 = m2
  Fake = Fake
  AucCnts = 2
  Modules = {m1, m2}
  AucOf <- OneEach
  AVA4_DEFAULT_MODULARS = 6
  AVA4_DEFAULT_MINERS = 2
  MaxFaults = 0
PROPERTY ReportsKept
CHECK_DEADLOCK FALSE
