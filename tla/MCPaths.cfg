CONSTANTS
  Size = 7
  CompMax = 4
  NameMax = 1
  ExtMax = 1
  MaxEntries = 3
  NotFound = NotFound
  Letters <- MCLetters
  Args <- MCArgs
  NewArgs <- MCNewArgs
SPECIFICATION PathsSpec
INVARIANTS
  CurrentDirExists
  CdGoesWhereAsked
  MadeWhereAsked
  FailureIsTold
