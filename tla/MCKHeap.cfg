SPECIFICATION Spec
CONSTANTS
  Start = 3
  Length = 14
  HDR = 2
  Sizes = {0, 1, 3, 5}
INVARIANTS
  Tiled
  Coalesced
PROPERTIES
  NullOnlyWhenFull
  ImplementsAllocator
