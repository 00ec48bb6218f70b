SPECIFICATION Spec
CONSTANTS
  NoThread = NoThread
  Thread = {t1, t2}
  Memory = 4
  Sizes = {2, 4}
  Counts = {0, 1, 2, 5}
  VectorOps = {"axpy", "dot", "nrm2"}
  ElemBytes = 2
  Word = 8
  Registered <- ShortSpans
  Copied <- ShortBuffers
  MaxCalls = 2
SYMMETRY Symmetry
INVARIANTS
  EntriesAccounted
  OperandsChecked
  RegistrationsSound
