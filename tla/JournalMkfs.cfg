CONSTANTS
  JB = 8
  Blocks = 2
  MaxWrites = 4
  MaxCrashes = 0
  MaxMkfs = 1
SPECIFICATION Spec
PROPERTIES
  MkfsReplaysNothing
