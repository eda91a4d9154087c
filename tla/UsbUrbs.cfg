SPECIFICATION FairSpec
CONSTANTS
  Setups <- MCSetups
  MAX_BULK_BUFFER_LENGTH = 2
  MAX_ISO_BUFFER_LENGTH = 2
INVARIANTS
  ReportedWhenAllBack
  NothingLost
  CompletedMeansData
PROPERTIES
  TransferEnds
CHECK_DEADLOCK FALSE
