\* Two requests, two index runs, one of whose notifications may be lost; or two
\* users of a session of any kind, two rows of two tokens where its shape is fixed.
SPECIFICATION MCSpec
CONSTANTS
  q1 = q1
  q2 = q2
  h1 = h1
  h2 = h2
  h3 = h3
  b1 = b1
  b2 = b2
  one = one
  other = other
  None = None
  Refused = Refused
  Error = Error
  Requests <- MCRequests
  Heads <- MCHeads
  Blob <- MCBlob
  Ranges <- OneRange
  Kinds <- MCKinds
  MaxRuns = 3
  MaxMoves = 1
  MaxLost = 1
  Users <- MCUsers
  Inputs <- MCInputs
  Graph <- MCGraph
  FixedBatch = 2
  FixedSeq = 2
  MaxUses = 2
SYMMETRY MCSymmetry
INVARIANTS
  CurrentFile
  CalmFindIsCurrent
  BlameExplained
  AnswersInPlace
CHECK_DEADLOCK FALSE
