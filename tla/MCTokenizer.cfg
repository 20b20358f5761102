CONSTANTS
  ShortText = 3
  LongText = 5
  WordLength = 6
  MergeCount = 3
  MaxIds = 5
  Inputs <- MCInputs
SPECIFICATION TokenizerSpec
\* An encoding comes to an end.
CHECK_DEADLOCK FALSE
INVARIANTS
  PieceFollowsRegex
  PieceMergedAsGpt2
PROPERTY
  Encodes
