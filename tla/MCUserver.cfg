SPECIFICATION FairSpec
CONSTANTS
  Site <- MCSite
  AppOf <- MCAppOf
  Content <- MCContent
  REPBUF = 3
  SNDBUF = 3
  MaxFile = 4
  MaxServers = 3
  MaxClients = 3
  Scenario <- MCScenario
CHECK_DEADLOCK FALSE
INVARIANTS
  UserverCacheCounted
  FcgiLinksAccounted
  InterestMatchesState
  UserverRepliesWhole
  UserverEndsOnlyWhen
PROPERTIES
  UserverEveryClientServed
