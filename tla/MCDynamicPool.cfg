SPECIFICATION FairSpec
CONSTANTS
  NumStages = 1
  NumPayloads = 2
  Lead = Lead
  w1 = w1
  w2 = w2
  Worker = {Lead, w1, w2}
  Source = Source
  Sink = Sink
  Chan <- Channels
INVARIANTS
  Exclusive
  ErrorsReported
  LostOnlyAtShutdown
PROPERTIES
  TokensReturn
  Returns
