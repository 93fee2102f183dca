CONSTANTS
  FilePage = {"odd", "even", "missing", "fifo", "directory"}
  CgiPage = {"script"}
  FastCgiPage = {"app", "unreachable", "broken"}
  FailsAt <- MCFailsAt
  Size <- MCSize
  CHUNK = 2
  SNDBUF = 4
  LOWAT = 2
  MAX_READ = 2
  REQUEST_SIZE = 3
  Fd = {1, 2, 3}
  maxfds = 3
  Plan <- Everything
  MaxConns = 2
SPECIFICATION FairSpec
INVARIANTS
  DispatchesLiveClient
  FdsUsedCounted
  PagesSentWhole
  LeakedOnlyByHangup
PROPERTY
  EveryClientServed
