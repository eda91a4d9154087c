SPECIFICATION Spec
CONSTANTS
  mcs1_offset = 4
  mcs1_cfg_offset = 11
  mcs1_info_offset = 13
  flash_size = 14
  SPI_FLASH_BLOCK = 4
  SPI_FLASH_32K = 2
  SPI_FLASH_SEC = 1
  m1 = m1
  m2 = m2
  Drivers <- AucAndRpi
  Bus <- OneOnEach
  Silent = {"auc"}
  Modules = {m1, m2}
  ImagePages = 1
  MaxFaults = 0
  MaxRuns = 1
INVARIANT
  ErasedThenProgrammed
CHECK_DEADLOCK FALSE
