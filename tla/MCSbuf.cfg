CONSTANTS
  Worker = {w1, w2, w3}
  Main = main
  n = 2
  IntMax = 1000
  MaxConns = 6
SPECIFICATION SbufFairSpec
INVARIANTS
  MutexProtectsBuf
  PlacesAccounted
PROPERTIES
  HandoffSpec
  EveryConnectionServed
