CONSTANTS
  usb = usb
  ssd = ssd
  None = None
  Disks <- MCDisks
  Internal <- MCInternal
  Order <- MCOrder
  MaxSessions = 1
SPECIFICATION Spec
INVARIANT EnterPicksTheHighlighted
CHECK_DEADLOCK FALSE
