\* One query of five intents, five lanes of three hits; or one request for an
\* explanation while five commits are indexed; or
\* three commits of five trees.
SPECIFICATION MCSpec
CONSTANTS
  Hunks <- MCHunks
  Age <- MCAge
  Recency <- MCRecency
  InLanguage <- MCInLanguage
  Queries <- MCQueries
  Matches <- MCMatches
  Logits <- MCLogits
  LaneK = 3
  PoolK = 2
  WidePoolK = 3
  RrfK = 60
  RrfUnit = 238266
  Weight = 50
  MaxK = 2
  Pending = Pending
  AnyDate = AnyDate
  Shas <- MCShas
  Dated <- MCDated
  Owner <- MCOwner
  HunksIn <- MCHunksIn
  Firsts <- MCFirsts
  LastLines <- MCLastLines
  Counts <- MCCounts
  DiskLengths <- MCDiskLengths
  AnswerMax = 2
  Around = 1
  kotlin = kotlin
  rust = rust
  vendored = vendored
  text = text
  code = code
  link = link
  Path <- MCPath
  Extension <- MCExtension
  File = {text, code}
  Link = {link}
  Similar <- MCSimilar
  Parsed = {code}
  Absent = Absent
  Ignored = {vendored}
  Trees <- MCTrees
  MaxCommits = 3
  None = None
INVARIANTS
  FusionIsFair
  RecencyOnlyNudges
  AnswerAccountsForLines
  RelatedAreNearest
  HistoryTellsHead
  FilterFindsKnown
CHECK_DEADLOCK FALSE
