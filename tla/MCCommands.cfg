\* Three commits and three releases; or two commits to three paths, and three
\* edits by hand; or two loads of models of two files; or two calls of commands, or a tool, and a rebuild;
\* or one command line after another.
SPECIFICATION MCSpec
CONSTANTS
  Newest = 3
  Binaries <- MCBinaries
  None = None
  Paths <- MCPaths
  BuiltIns <- MCBuiltIns
  Attributes <- MCAttributes
  Rules <- MCRules
  Docs <- MCDocs
  Threshold = 2
  MaxCommits = 2
  MaxEdits = 3
  first = first
  second = second
  onnx = onnx
  tokenizer = tokenizer
  Loads = {first, second}
  Files = {onnx, tokenizer}
  Setups <- MCSetups
  c1 = c1
  c2 = c2
  Calls = {c1, c2}
  DoorsUsed <- MCDoors
  daemon1 = daemon1
  daemon2 = daemon2
  Daemons = {daemon1, daemon2}
  Session = Session
  Missing = Missing
  MaxEditions = 1
  Hosts <- MCHosts
  Lines <- MCLines
  Targets <- MCTargets
  Numbers = {0}
  Here <- MCHere
  Unset = Unset
INVARIANTS
  OneKindOfVectors
  CompatibleMeansCurrent
  HandWrittenRulesWin
  FailsForAReason
  FindsAreGuarded
  ExplainIsUnmixed
  DaemonIsOptional
  RunsAsAgreed
PROPERTY
  UpToDateIsTrue
