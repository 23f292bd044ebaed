SPECIFICATION TSpec
CONSTANTS
  Owner = owner
  Threads = {owner}
  Functors = {f1}
  MaxEventfd = 2
CHECK_DEADLOCK FALSE
INVARIANTS QuitAfterLoop
