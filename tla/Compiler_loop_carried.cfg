SPECIFICATION Spec
CONSTANTS
  Modulus = 16
  Fuel = 800
  PredicateCount = 4
  UnrollFactor = 4
  RegisterBudget = 17
  Kernels <- LoopCarried
  Inputs <- MCInputs
  Levels <- OnlyO2
INVARIANT StoresPreserved
CHECK_DEADLOCK FALSE
