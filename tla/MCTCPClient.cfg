\* One call of connect(), two threads that may stop or disconnect, two
\* connections closed: a retry, a reconnect and a retry of the reconnect fit.
CONSTANTS
  Threads = {t1, t2}
  kInitRetryDelayMs = 500
  kMaxRetryDelayMs = 1500
  MaxConnects = 1
  MaxCloses = 2
SPECIFICATION FairSpec
INVARIANTS OneAttempt AssertsHold NothingCallsTheDead
PROPERTIES StopStops EventuallyConnected
