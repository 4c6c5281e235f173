SPECIFICATION Spec
CONSTANTS
  Names = {"a", "b.c"}
  Dotted = "b.c"
  Paths <- MCPaths
  Payloads = {"", "yy", "zzz"}
  Empty = ""
  Size <- MCSize
  MaxFile = 2
  Seeds <- MCSeeds
  ClusterCount = 4
  SLOTS = 3
  MAX_DEPTH = 1
INVARIANTS TypeOK ChainsSound DirsSound
PROPERTIES NoLeak CrashContained NewNamesSurvive ImplementsTree
VIEW MCView
