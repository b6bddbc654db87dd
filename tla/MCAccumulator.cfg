SPECIFICATION FairSpec
CONSTANTS
  t1 = t1
  t2 = t2
  t3 = t3
  Thread = {t1, t2, t3}
  Amount = {1, 2}
  SetValue = {0, 2}
  Setter = {t1}
  Modulus = 4
  MaxCalls = 4
INVARIANTS
  NoLostUpdate
  DeltasAddUp
PROPERTY
  CallsReturn
