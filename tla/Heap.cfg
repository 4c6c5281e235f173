CONSTANTS
  BasePhys = 20
  HeapBytes = 204
  Sizes = {1, 24}
  Aligns = {8, 64}
  MaxLive = 3
SPECIFICATION Spec
INVARIANTS TypeOK BlocksSound NothingLost UsedSound
PROPERTY ImplementsAllocator
