SPECIFICATION Spec
CONSTANTS
  Names = {"a", "along"}
  LongName = "along"
  ShortName = "a"
  Paths <- MCPaths
  Payloads = {"", "yy"}
  Empty = ""
  Size <- MCSize
  Seeds <- MCSeeds
  Groups = 2
  BPG = 2
  IPG = 2
  SLOTS = 2
  MaxExtents = 1
  MAX_DEPTH = 2
INVARIANTS TypeOK Counters OneOwner TreeShape DirCounts
PROPERTIES SpaceReclaimed ImplementsTree
VIEW MCView
