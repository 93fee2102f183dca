CONSTANTS
  hello = hello
  App = {hello}
  Thread = {t1, t2}
  AppOf <- MCAppOf
  Loadable = {hello}
  MAX_REQUESTS = 2
  Acceptor = acceptor
  None = none
  Other = other
  Terminal = terminal
  MaxConns = 2
  Pieces = 2
SPECIFICATION FairSpec
PROPERTIES
  OwnOutputWhenApart
  CompleteWhenApart
  ReleasedWhenApart
  CallImplementsServe
