CONSTANTS
  MaxIn = 2
  MaxOut = 1
  MaxQueued = 1
  CanPanic = TRUE
  None = None
  Jobs <- MCTornJobs
SPECIFICATION ASpec
INVARIANTS ReadsBack
