CONSTANTS
  JB = 8
  Blocks = 2
  MaxWrites = 5
  MaxCrashes = 2
  MaxMkfs = 0
SPECIFICATION Spec
PROPERTIES
  OverrunAtomic
