SPECIFICATION Spec
CONSTANTS
  Strings <- MCStrings
  LcdAddr = 39
  EnvAddr = 39
  Controls = {1}
  MaxKills = 0
  MaxRuns = 3
INVARIANTS
  StringAfterControl
CHECK_DEADLOCK FALSE
