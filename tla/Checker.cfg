SPECIFICATION FairCheckerSpec
CONSTANTS
  MaxHops = 2
  MemoryMayFail = TRUE
  MaxJobs = 3
INVARIANT PendingIsTrue
PROPERTIES ImplementsCheckerPromise BacklogIsAbandoned EveryCheckIsDone DestroyReturns
CHECK_DEADLOCK FALSE
