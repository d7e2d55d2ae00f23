SPECIFICATION MCSpec
CONSTANTS
  Commits <- MCCommits
  Newest = 2
  Message <- MCMessage
  Diff <- MCDiff
  Source <- MCSource
  TooLarge <- MCTooLarge
  Tree <- MCTree
  Procs <- MCProcs
  Model <- MCModel
  Modes = {"off", "semantic", "diff"}
  EmbedBatch = 2
  ChunkMax = 4
  None = None
  Texts <- MCTexts
  MaxRuns = 2
INVARIANTS
  MirrorsAgree
  VectorsAreTheirs
  HydratedSymbolsMatch
  EachByItsBestKind
PROPERTIES
  ImplementsHunkStore
CHECK_DEADLOCK FALSE
