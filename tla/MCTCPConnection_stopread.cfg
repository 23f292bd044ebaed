SPECIFICATION Spec
CONSTANTS
  Threads = {}
  MaxMsgs = 0
  MaxPending = 2
  MsgLen = 2
  HighWaterMark = 3
  Callbacks = {}
  LoopOps = {"stopRead", "forceClose"}
  ThreadOps = {}
  ServerStops = FALSE
  PeerOps = {"send", "close", "reset"}
INVARIANTS DestroyedOnce
