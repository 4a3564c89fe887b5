CONSTANTS
  MaxIn = 3
  MaxOut = 3
  MaxQueued = 1
  CanPanic = FALSE
  None = None
  Buf = 2
  Jobs <- MCJobs
SPECIFICATION FFairSpec
INVARIANTS FinishedFlashIsWhole SoundFlashFinishes
PROPERTIES ImplementsSession FlashEnds
