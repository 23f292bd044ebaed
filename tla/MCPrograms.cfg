SPECIFICATION Spec
CONSTANTS
  kCheapPrepend = 2
  kInitialSize = 2
  Extrabuf = 7
  Zero = Zero
  CR <- MCCR
  LF <- MCLF
  Base = 2
  Strings <- MCStrings
  Widths = {1, 2}
  MaxReadable = 4
  MaxSent = 5
  Conns <- MCConns
  IoThreads <- MCThreads
  ThreadOf <- MCThreadOf
  Plans <- MCPlans
  Files <- MCFiles
  Jpgs <- MCJpgs
  Logins <- MCLogins
  Users = {"u", "v"}
  Passwds = {"p1", "p2"}
  InitialUsers <- MCInitialUsers
  RedisFails = TRUE
  MaxCrashes = 1
  MaxMessage = 9
INVARIANTS SpaceIsMade FileIndependentOfCuts AnswersInOrder ClosesWithItsAnswer MethodIsClear OwnPageWhenAlone WelcomeIsEarned RedisFollowsTable
PROPERTIES ImplementsByteQueue
CHECK_DEADLOCK FALSE
