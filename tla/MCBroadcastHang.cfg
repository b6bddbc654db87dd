SPECIFICATION FairSpec
CONSTANTS
  NumStages = 1
  NumPayloads = 1
  NumBranches = 2
  Lead = Lead
  w0 = w0
  w1 = w1
  Worker = {Lead, w0, w1}
  branch <- Branches
  Source = Source
  Sink = Sink
  Chan <- Channels
PROPERTY
  Termination
