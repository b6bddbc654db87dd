SPECIFICATION Spec
CONSTANTS
  NumStages = 1
  NumPayloads = 3
  Lead = Lead
  w1 = w1
  w2 = w2
  Worker = {Lead, w1, w2}
  Source = Source
  Sink = Sink
  Chan <- Channels
INVARIANT
  DeliversAll
