CONSTANTS
  JB = 8
  Blocks = 2
  MaxWrites = 6
  MaxCrashes = 3
  MaxMkfs = 1
SPECIFICATION FairSpec
INVARIANTS
  TypeOK
  ReadsSeeWrites
PROPERTIES
  CrashAtomic
  JournalSettles
