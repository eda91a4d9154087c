SPECIFICATION Spec
CONSTANTS
  mcs1_offset = 8
  mcs1_cfg_offset = 22
  mcs1_info_offset = 26
  flash_size = 28
  SPI_FLASH_BLOCK = 8
  SPI_FLASH_32K = 4
  SPI_FLASH_SEC = 2
  m1 = m1
  m2 = m2
  Drivers <- AucOnly
  Bus <- AllOnAuc
  Silent = {"auc"}
  Modules = {m1, m2}
  ImagePages = 3
  MaxFaults = 1
  MaxRuns = 2
SYMMETRY Symm
INVARIANTS
  TypeOK
  ReservedUntouched
  RebootedInstalled
PROPERTIES
  CommitWhole
  ImplementsSwap
CHECK_DEADLOCK FALSE
