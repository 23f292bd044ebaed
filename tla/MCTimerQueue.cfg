SPECIFICATION Spec
CONSTANTS
  Threads = {t1}
  Addrs = {1, 2}
  MaxSeq = 3
  MaxTime = 3
  Delays = {0, 2}
  Intervals = {0, 1}
  MaxQueue = 2
INVARIANTS SetsAgree PointersExact ArmedForEarliest CancelIsFinal
PROPERTIES OnlyDueOrCancelledLeave
