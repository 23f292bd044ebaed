SPECIFICATION MCSpec
CONSTANTS
  Owner = t1
  Threads = {t1, t2}
  Functors = {f1, f2, f3}
  MaxEventfd = 2
CHECK_DEADLOCK FALSE
INVARIANTS NoLostWakeup NoLostQuit OnlyWakeupTouchesDeadLoop
PROPERTIES
  ImplementsExecutor FunctorsEventuallyRun QuitStopsLoop
  StartLoopTerminates DestructorTerminates
