CONSTANTS
  zero = zero
  signature = signature
  a = a
  Idle = Idle
  Words = 2
  Byte = 2
  Nibble = 2
  Sectors = {0, 1, 2}
  DiskSize = 2
  Values = {zero, signature, a}
  Written <- MCWritten
  Blank = zero
  Signature = signature
  PollLimit = 2
  MaxCalls = 3
  Contents <- MCContents
SPECIFICATION Spec
INVARIANTS
  UncleanOnlyAfterTimeout
  ProbeFindsDisk
PROPERTIES
  ImplementsStore
  CallsEnd
CHECK_DEADLOCK FALSE
