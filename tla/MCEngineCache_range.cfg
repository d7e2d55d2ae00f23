\* Two explain_change requests for different lines of one blob.
SPECIFICATION MCSpec
CONSTANTS
  q1 = q1
  q2 = q2
  h1 = h1
  h2 = h2
  h3 = h3
  b1 = b1
  b2 = b2
  one = one
  other = other
  None = None
  Refused = Refused
  Error = Error
  Requests <- MCRequests
  Heads <- MCHeads
  Blob <- MCBlob
  Ranges <- TwoRanges
  Kinds <- MCKinds
  MaxRuns = 1
  MaxMoves = 0
  MaxLost = 0
  Users <- MCUsers
  Inputs <- MCInputs
  Graph <- MCGraph
  FixedBatch = 2
  FixedSeq = 2
  MaxUses = 2
INVARIANTS
  AnswersOwnRange
CHECK_DEADLOCK FALSE
