SPECIFICATION FairSpec
CONSTANTS
  NoThread = NoThread
  Thread = {t1, t2}
  StreamAddr = {s1}
  EventAddr = {e1, e2}
  NullStream = NullStream
  NullEvent = NullEvent
  DeviceError = {"AEC_ERROR_DEVICE"}
  Ops = {"stream_create", "stream_destroy", "stream_sync", "launch", "copy", "copy_async", "event_create", "event_destroy", "event_record", "event_query", "event_elapsed", "get_last_error", "bad_arguments"}
  MaxCalls = 2
INVARIANTS
  MarkerCountsCopies
  HandlesNotReissued
PROPERTIES
  EveryCallReturns
