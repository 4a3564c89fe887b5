CONSTANTS
  MaxIn = 3
  MaxOut = 4
  MaxQueued = 1
  CanPanic = TRUE
  None = None
  Buf = 2
  Jobs <- MCJobs
SPECIFICATION BFairSpec
INVARIANTS FinishedImageIsWhole MissingTailIsBounded StaysWithinTotal HealthyBackupIsExact
PROPERTIES ImplementsSession EndsOnScreen
