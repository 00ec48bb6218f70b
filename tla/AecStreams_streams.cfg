SPECIFICATION Spec
CONSTANTS
  NoThread = NoThread
  Thread = {t1, t2}
  StreamAddr = {s1, s2}
  EventAddr = {e1}
  NullStream = NullStream
  NullEvent = NullEvent
  DeviceError = {"AEC_ERROR_DEVICE", "AEC_ERROR_ISA_TRAP"}
  Ops = {"stream_create", "stream_destroy", "stream_sync", "launch", "copy_async", "copy", "get_last_error", "bad_arguments"}
  MaxCalls = 3
SYMMETRY Symmetry
INVARIANTS
  TypeOK
  LockInv
  SequencesAccepted
  StreamsAccounted
  CopyFindsStreamLive
PROPERTIES
  AsyncErrorsStayOnStream
