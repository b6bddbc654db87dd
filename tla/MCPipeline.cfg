SPECIFICATION FairSpec
CONSTANTS
  NumStages = 2
  NumPayloads = 2
  w1 = w1
  w2 = w2
  w3 = w3
  Worker = {w1, w2, w3}
  Source = Source
  Sink = Sink
  Chan <- Channels
  stageOf <- PoolThenFifo
INVARIANTS
  TypeOK
  ChannelDiscipline
  Exclusive
  NothingLost
  ErrorsReported
  NoGoroutineLeaks
PROPERTIES
  Termination
  ImplementsContract
