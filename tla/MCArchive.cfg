CONSTANTS
  MaxIn = 2
  MaxOut = 1
  MaxQueued = 1
  CanPanic = TRUE
  None = None
  Jobs <- MCJobs
SPECIFICATION AFairSpec
INVARIANTS CalmArchiveIsExact OmissionsAreTold SelectionIsHonoured
PROPERTIES ImplementsSession EndsOnScreen
