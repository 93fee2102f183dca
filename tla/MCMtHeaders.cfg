CONSTANTS
  FilePage = {"odd"}
  CgiPage = {}
  FastCgiPage = {}
  FailsAt <- MCFailsAt
  Size <- MCSize
  CHUNK = 2
  SNDBUF = 2
  PIPEBUF = 2
  Worker = {w1}
  Capacity = 1
  MaxOpen = 4
  Plan <- FieldPlan
  MaxConns = 2
SPECIFICATION FairSpec
PROPERTIES
  HeadersReadEnd
