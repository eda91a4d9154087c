SPECIFICATION Spec
CONSTANTS
  None = None
  Nil = Nil
  Junk = Junk
  NOT_FOUND = NOT_FOUND
  IO = IO
  Unused = Unused
INVARIANTS
  HashIsMap
  ValuesAreCounted
  TextIsJson
  ParserIsExact
  DumpFindsCircles
  PackIsUndone
  DescriptorsParsed
  ConfigIsFound
  ReportsAreTrue
  FirmwareTaken
CHECK_DEADLOCK FALSE
