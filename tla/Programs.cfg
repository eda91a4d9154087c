SPECIFICATION FairSpec
CONSTANTS
  Unused = Unused
  Fake = Fake
  m1 = m1
  m2 = m2
  m3 = m3
  m4 = m4
  Threads = {t1, t2}
  Attached = 2
  MaxChunks = 2
  MaxFaults = 1
  MaxRuns = 2
  AucCnts = 2
  Modules = {m1, m2, m3, m4}
  AucOf <- TwoAucs
  AVA4_DEFAULT_MODULARS = 6
  AVA4_DEFAULT_MINERS = 2
  MaxFailures = 2
  Miners = 3
  Reports = 2
  Hosts = 2
  Commands = 2
  Retry = 2
  Strings <- MCStrings
  LcdAddr = 39
  EnvAddr = 39
  Controls = {0, 1}
  MaxKills = 1
  MaxCommands = 3
  NoOwner = NoOwner
  h1 = h1
  h2 = h2
  Handles = {h1, h2}
  Interfaces = {0, 1}
  InterfacesOf <- UsbInterfaces
INVARIANTS
  TypeOK
  CrashHasCause
  TestsInTurn
  HostsAccounted
  ShownIsTrue
  HandlesAgree
PROPERTIES
  TransfersTrusted
  ReportsThisAuc
  ProgramsEnd
CHECK_DEADLOCK FALSE
