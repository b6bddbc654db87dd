SPECIFICATION Spec
CONSTANTS
  NumDocs = 3
  Score = {1}
  Offset = {0, 1}
  BatchSize = 2
  MaxTotal = 3
  MaxWrites = 4
  CanFail = FALSE
INVARIANT
  NeverPanics
