\* One fault of each kind, HEAD moving on and back while runs are in flight.
SPECIFICATION FairSpec
CONSTANTS
  c1 = c1
  c2 = c2
  c3 = c3
  c4 = c4
  w1 = w1
  w2 = w2
  None = None
  Commit <- MCCommit
  Anc <- MCAnc
  HeadMoves <- Moves
  Ignored <- MCIgnored
  NoHunks <- MCNoHunks
  Workers <- MCWorkers
  MaxCrashes = 1
  MaxErrors = 1
  MaxPanics = 1
INVARIANTS
  IndexCoversWatermark
  TornExplained
  ReportAccountsForWalk
PROPERTIES
  ImplementsContract
  RunEnds
  WatermarkNeverRewinds
