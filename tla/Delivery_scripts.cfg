SPECIFICATION MCSpec
CONSTANTS
  Pids = {1}
  MaxRuns = 2
  Trees <- MCTrees
  Cuts = {1, 12}
  DmaRequests <- MCDmaRequests
  KernelRequests <- MCKernelRequests
  Submissions <- MCSubmissions
INVARIANTS
  PackedArchivesVerify
  PassesMeanItWorks
  RemoteDirsReleased
  NoCarryOver
  LevelsFollowGates
  AgentsAnswerWell
CHECK_DEADLOCK FALSE
