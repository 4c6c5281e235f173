CONSTANTS
  JB = 7
  Blocks = 4
  MaxWrites = 6
  MaxCrashes = 0
  MaxMkfs = 0
SPECIFICATION Spec
INVARIANTS
  TransactionFitsRing
