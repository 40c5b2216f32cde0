SPECIFICATION Spec
CONSTANTS
  BufSize = 3
  MaxTyped = 5
INVARIANTS
  NoStickyModifier
PROPERTIES
  ImplementsQueue
  ReadsInOrder
