SPECIFICATION Spec
CONSTANTS
  a = a
  b = b
  img = img
  w1 = w1
  w2 = w2
  Worker = {w1, w2}
  Url = {a, b, img}
  Source = {a, b}
  Sites <- MCSites
  Host <- MCHost
  PrivateHost = {}
  Excluded = {img}
  NoUrl = NoUrl
  Nothing = Nothing
INVARIANTS
  OwnContent
  CountsWhatIsStored
PROPERTY
  EveryLinkIsDone
