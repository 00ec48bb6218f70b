SPECIFICATION Spec
CONSTANTS
  Modulus = 16
  Fuel = 800
  PredicateCount = 4
  UnrollFactor = 4
  RegisterBudget = 17
  Kernels <- MCKernels
  Inputs <- MCInputs
  Levels <- MCLevels
INVARIANTS CodeOK StoresPreserved NoStrayAccess AllocationSound
CHECK_DEADLOCK FALSE
