SPECIFICATION FairSpec
CONSTANTS
  v1 = v1
  v2 = v2
  w1 = w1
  w2 = w2
  VertexId = {v1, v2}
  NoVertex = NoVertex
  Worker = {w1, w2}
  MaxRounds = 3
  MaxQueue = 1
  MaxSteps = 1
INVARIANTS
  Barrier
  ComputesDueOnce
  NextSuperstep
  ErrorsReported
PROPERTIES
  ImplementsPregel
  CallsReturn
