CONSTANTS
  BasePhys = 64
  HeapBytes = 256
  Sizes = {1, 24}
  Aligns = {8, 64}
  MaxLive = 3
SPECIFICATION Spec
INVARIANT LayoutAligned
