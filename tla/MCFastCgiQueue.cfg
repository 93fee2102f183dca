CONSTANTS
  hello = hello
  missing = missing
  App = {hello, missing}
  Thread = {t1, t2}
  AppOf <- MCAppOf
  Loadable = {hello}
  MAX_REQUESTS = 2
  Acceptor = acceptor
  None = none
  Other = other
  MaxConns = 3
SPECIFICATION FastCgiFairSpec
INVARIANTS
  RingExclusive
  NoIdleSleeper
  RejectedOnlyWhenFull
  KnownScriptRoutedByName
PROPERTIES
  RingHandoff
  EveryRequestAnswered
