SPECIFICATION Spec
CONSTANTS
  Setups <- MCStalled
  MAX_BULK_BUFFER_LENGTH = 2
  MAX_ISO_BUFFER_LENGTH = 2
INVARIANT ReportedWhenAllBack
CHECK_DEADLOCK FALSE
