\* A worker that may do anything, a panic included.
CONSTANTS
  MaxIn = 2
  MaxOut = 2
  MaxQueued = 2
  CanPanic = TRUE
  None = None
SPECIFICATION FairSpec
INVARIANTS NoRateUnderflow JoinIsShort TerminalIsLast FrameIsExact
PROPERTIES FramesAdvance OutcomeIsShown ImplementsJob
