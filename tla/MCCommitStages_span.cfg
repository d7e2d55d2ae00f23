SPECIFICATION MCSpec
CONSTANTS
  Commits <- MCCommits
  Newest = 2
  Message <- MCMessage
  Diff <- MCDiff
  Source <- MCSource
  TooLarge <- MCTooLarge
  Tree <- MCTree
  Procs <- MCProcs
  Model <- MCModel
  Modes = {"semantic"}
  EmbedBatch = 2
  ChunkMax = 4
  None = None
  Texts <- MCTexts
  MaxRuns = 1
INVARIANT ExactSpanIsTouched
CHECK_DEADLOCK FALSE
