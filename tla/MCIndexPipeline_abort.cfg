\* One abort, no error: does the next run redo what was interrupted?
SPECIFICATION Spec
CONSTANTS
  c1 = c1
  c2 = c2
  c3 = c3
  c4 = c4
  w1 = w1
  w2 = w2
  None = None
  Commit <- MCCommit
  Anc <- MCAnc
  HeadMoves <- Forward
  Ignored <- MCIgnored
  NoHunks <- MCNoHunks
  Workers <- MCWorkers
  MaxCrashes = 1
  MaxErrors = 0
  MaxPanics = 0
INVARIANTS
  AbortedCommitsAreRedone
