CONSTANTS
  x = x
  v = v
  w = w
  k = k
  a = a
  b = b
  c = c
  d = d
  e = e
  Tensor = {x, v, w, k, a, b, c, d, e}
  Weights = {v, w, k}
  GraphInputs = {x}
  Graphs <- Planned
  SizeOf <- Sizes
  Alignment = 2
  Requests = {0, 1, 2, 3, 4, 6}
  MaxMallocs = 5
  PrefetchDistance = 2

SPECIFICATION MCSpec

INVARIANTS
  FreeListExact
  ReadersFindTheirTensor
  SlotsFit
  BuffersHeld
  NothingHeldTooLong
  RejectsLateConstantsOnly

PROPERTY ArenaSpec
