CONSTANTS
  MaxIn = 2
  MaxOut = 3
  MaxQueued = 1
  CanPanic = TRUE
  None = None
  Buf = 2
  Jobs <- MCJobs
SPECIFICATION BFairSpec
PROPERTY EverySessionEnds
