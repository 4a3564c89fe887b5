CONSTANTS
  SourceLen = 5
  Cap = 2
  Depth = 2
  Initial = 1
  Bufs = {b1, b2, b3, b4, b5, b6}
  Jobs <- MCJobs
  None = None
SPECIFICATION FairSpec
INVARIANTS BuffersAddUp MemoryIsBounded
PROPERTIES ImplementsPipe PumpsEnd
