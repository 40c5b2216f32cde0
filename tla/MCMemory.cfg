SPECIFICATION Spec
CONSTANTS
  Blocks = 16
  WordBits = 8
  BlockSize = 2
  Maps <- MCMaps
  KernelBlocks = 1
  HeapPages = 1
  Pages <- MCPages
  Table <- MCTable
  StackPages <- MCStack
  Programs <- MCPrograms
  MaxPages = 3
  MaxRuns = 4
INVARIANTS
  FramesOwnedOnce
  CountExact
  OnlyMemoryIsGiven
  AllReturned
  SoundIfUnspoiled
CHECK_DEADLOCK FALSE
