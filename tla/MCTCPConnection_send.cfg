SPECIFICATION Spec
CONSTANTS
  Threads = {t1}
  MaxMsgs = 1
  MaxPending = 2
  MsgLen = 2
  HighWaterMark = 3
  Callbacks = {}
  LoopOps = {}
  ThreadOps = {"send"}
  ServerStops = FALSE
  PeerOps = {"send", "close", "reset"}
INVARIANTS NothingDangles
