CONSTANTS
  Tasks <- MixedTasks
  Samples <- InputSamples
  WeightUnits <- ModelUnits
  Total = 44
  PerSample = 6
  Window = 8
  Others = {1, 28}
  Tiny = 1
  Probe1 = 2
  Probe2 = 4
  EagerProbe = 2
  DefaultBatch = 8
  MaxTasks = 3
  MaxChanges = 2

SPECIFICATION Spec

INVARIANTS
  RepliesMatchTasks
  OkMeansComplete
  MeasuredChunkFits
  StreamedChunksCapped

PROPERTY EveryTaskEnds
