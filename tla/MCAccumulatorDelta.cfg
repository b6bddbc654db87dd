SPECIFICATION Spec
CONSTANTS
  t1 = t1
  t2 = t2
  t3 = t3
  Thread = {t1, t2}
  Amount = {}
  SetValue = {0, 2}
  Setter = {t1}
  Modulus = 8
  MaxCalls = 3
PROPERTY
  DeltaIsTheChange
