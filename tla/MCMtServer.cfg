CONSTANTS
  FilePage = {"odd", "fifo", "directory"}
  CgiPage = {"script"}
  FastCgiPage = {"app", "unreachable", "broken"}
  FailsAt <- MCFailsAt
  Size <- MCSize
  CHUNK = 2
  SNDBUF = 2
  PIPEBUF = 2
  Worker = {w1, w2}
  Capacity = 1
  MaxOpen = 4
  Plan <- MCPlan
  MaxConns = 2
SPECIFICATION FairSpec
INVARIANTS
  DescriptorsAccounted
  MtPagesSentWhole
PROPERTIES
  MtEveryClientServed
