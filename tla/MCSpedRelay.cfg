CONSTANTS
  FilePage = {}
  CgiPage = {}
  FastCgiPage = {"long"}
  FailsAt <- MCFailsAt
  Size <- MCSize
  CHUNK = 2
  SNDBUF = 4
  LOWAT = 2
  MAX_READ = 2
  REQUEST_SIZE = 3
  Fd = {1}
  maxfds = 2
  Plan <- Relay
  MaxConns = 1
SPECIFICATION Spec
INVARIANT
  FastCgiRelayedWhole
