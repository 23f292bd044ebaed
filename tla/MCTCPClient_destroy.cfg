\* A client that connects once and is destroyed anywhere in the loop thread.
CONSTANTS
  Threads = {t1}
  kInitRetryDelayMs = 500
  kMaxRetryDelayMs = 1500
  MaxConnects = 1
  MaxCloses = 0
SPECIFICATION Spec
INVARIANT DestroyedWithoutChannel
