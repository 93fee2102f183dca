CONSTANTS
  FilePage = {"odd", "even"}
  CgiPage = {}
  FastCgiPage = {}
  FailsAt <- MCFailsAt
  Size <- MCSize
  CHUNK = 2
  SNDBUF = 4
  LOWAT = 2
  MAX_READ = 2
  REQUEST_SIZE = 3
  Fd = {3, 4}
  maxfds = 9
  Plan <- TwoFiles
  MaxConns = 2
SPECIFICATION Spec
INVARIANTS
  HelperGetsOwnRequest
