SPECIFICATION Spec
CONSTANTS
  Entries = {2, 3, 4, 5}
  DataClusters = {2, 3, 4}
  RootSlots = 2
  DirSlots = 1
  ClusterSize = 2
  Names <- MCNames
  Stored <- MCStored
  BadName = "bad"
  Texts <- MCTexts
  Echoes <- MCEchoes
  MaxCommands = 3
  MaxCrashes = 1
INVARIANTS
  OwnedOnce
  LinksLive
  DirectoriesInitialised
  CopiesAgree
  LossBounded
  SizeBackedUntilFull
  EchoIsRead
  ReadersSeeDisk
PROPERTIES
  OthersUntouched
CHECK_DEADLOCK FALSE
