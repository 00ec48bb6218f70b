SPECIFICATION FairSpec
CONSTANTS
  x = x
  u = u
  v = v
  w = w
  z = z
  a = a
  b = b
  c = c
  d = d
  Graphs <- Chains
  Weight = {u, v, w, z}
  Depth = 1
  NoWeight = NoWeight
  MaxRuns = 2
INVARIANTS
  KernelsReadTheirWeights
  OperandsPresent
  MemoryAccounted
PROPERTIES
  EveryRunEnds
CHECK_DEADLOCK FALSE
