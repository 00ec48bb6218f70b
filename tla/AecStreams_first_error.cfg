SPECIFICATION Spec
CONSTANTS
  NoThread = NoThread
  Thread = {t1, t2}
  StreamAddr = {s1}
  EventAddr = {e1}
  NullStream = NullStream
  NullEvent = NullEvent
  DeviceError = {"AEC_ERROR_DEVICE", "AEC_ERROR_ISA_TRAP"}
  Ops = {"stream_create", "stream_sync", "launch"}
  MaxCalls = 2
SYMMETRY Symmetry
INVARIANTS
  FirstErrorReported
