SPECIFICATION ScanSpec
CONSTANTS
  a = a
  b = b
  u1 = u1
  u2 = u2
  Url = {a, b}
  Updater = {u1, u2}
  Follow = {{a}, {a, b}}
  NoFollow = {{b}}
  MaxTime = 2
  MaxRuns = 3
  StoreLag = 0
  CanFail = TRUE
  Base = 4
  Weight = 4
  Tokens <- MCTokens
  Parts = {2, 4}
SYMMETRY UpdaterSymmetry
INVARIANTS
  IdsAgree
PROPERTIES
  NeverOlder
  FreshEdgesSurvive
  MirrorsPage
  ScanIsExact
