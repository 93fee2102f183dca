SPECIFICATION FairSpec
CONSTANTS
  Kind <- MCKind
  Size <- MCSize
  READBLOCK = 2
  SNDBUF = 2
  STAGEBUF = 1
  maxConnects = 2
  maxNameCacheSize = 1
  maxLRUCacheSize = 2
  MaxHelp = 2
  Scenario <- MCScenario
  MaxClients = 3
  MaxEntries = 4
  MaxApps = 4
INVARIANTS
  HotNamesAccounted
  ChunksAccounted
  WaitersReachable
  OneOwnerPerProcess
  FlashAnswersWhole
  FlashEndsOnlyWhen
PROPERTY
  FlashEveryClientServed
CHECK_DEADLOCK FALSE
