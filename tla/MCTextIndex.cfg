SPECIFICATION Spec
CONSTANTS
  NumDocs = 4
  Score = {1}
  Offset = {0, 1}
  BatchSize = 2
  MaxTotal = 3
  MaxWrites = 5
  CanFail = TRUE
INVARIANTS
  SearchAgreesWithDocs
  HitsAreThere
  CompleteWhenQuiet
