SPECIFICATION Spec
CONSTANTS
  Threads = {t1}
  MaxMsgs = 2
  MaxPending = 1
  MsgLen = 2
  HighWaterMark = 3
  Callbacks = {}
  LoopOps = {"send", "startRead", "stopRead"}
  ThreadOps = {"send", "shutdown", "forceClose"}
  ServerStops = TRUE
  PeerOps = {"close"}
INVARIANTS StreamIntact WatchesWhenPending FinAfterData
