CONSTANTS
  FilePage = {"odd", "big", "short", "empty", "missing", "fifo"}
  CgiPage = {"script", "report"}
  FastCgiPage = {"app", "unreachable", "broken"}
  FailsAt <- MCFailsAt
  Size <- MCSize
  CHUNK = 2
  SNDBUF = 4
  LOWAT = 2
  MAX_READ = 2
  REQUEST_SIZE = 3
  Fd = {3, 4}
  maxfds = 9
  Plan <- Everything
  MaxConns = 2
SPECIFICATION FairSpec
INVARIANTS
  HelpersAccounted
  SegmentsOwned
  AbortsOnlyWhen
  AmpedClosedWhenComplete
PROPERTIES
  AmpedEveryClientServed
