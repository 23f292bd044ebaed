SPECIFICATION FairSpec
CONSTANTS
  Threads = {}
  MaxMsgs = 2
  MaxPending = 2
  MsgLen = 2
  HighWaterMark = 3
  Callbacks = {"writeComplete", "highWaterMark"}
  LoopOps = {"send", "shutdown", "forceClose", "forceCloseWithDelay"}
  ThreadOps = {}
  ServerStops = FALSE
  PeerOps = {"send", "close", "reset"}
INVARIANTS DestructorAsserts NothingDangles DestroyedOnce
PROPERTIES ShutdownCompletes ClosedIsDestroyed
