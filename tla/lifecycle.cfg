SPECIFICATION FairSpec
CONSTANTS
  Start <- Starts
  Unwind <- Unwinds
  Stop <- Stops
  MayFail <- Failing
  LastCalls <- Calls
  LeftUp <- Forgotten
  BootCleansUp <- CleanBoots
  Preparation <- Prepared
  Undone <- GivenBack
  Released <- Releases
  MaxSignals = 2
  Sizes = {0, 1, 2}
  JobCapacity = 2
  EgressCapacity = 3
  MaxRequests = 3
  PipeRoom = 1
  ReplyRoom = 1
  OutputMax = 3
CHECK_DEADLOCK FALSE
INVARIANTS
  TypeOK
  UnwindingReachesAll
  EndsWithNothingUp
  EndsHoldingNothing
  ModulesHaveContext
  RepliesInOrder
  RepliesWhole
PROPERTIES
  StopsOnlyRunning
  RetriedUntilSent
  SignalEnds
