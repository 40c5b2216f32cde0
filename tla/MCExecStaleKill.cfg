SPECIFICATION Spec
CONSTANTS
  MaxRuns = 2
  Milliseconds = {0, 1, 3, 4}
  Word = 12
  Frequency = 3
  Second = 4
  Codes = {0, 2}
  MaxUnread = 2
CHECK_DEADLOCK FALSE
PROPERTIES
  KillHitsPressedProcess
