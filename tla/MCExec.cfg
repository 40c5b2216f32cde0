SPECIFICATION FairSpec
CONSTANTS
  MaxRuns = 3
  Milliseconds = {0, 1, 3, 4}
  Word = 12
  Frequency = 3
  Second = 4
  Codes = {0, 2}
  MaxUnread = 2
INVARIANTS
  Ring3Ready
  PromptClean
  LinesAcknowledged
PROPERTIES
  KillTakesEffect
  SleepReturns
  SleepsLongEnough
CHECK_DEADLOCK FALSE
