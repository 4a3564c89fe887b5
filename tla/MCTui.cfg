CONSTANTS
  usb = usb
  ssd = ssd
  None = None
  Disks <- MCDisks
  Internal <- MCInternal
  Order <- MCOrder
  MaxSessions = 2
SPECIFICATION Spec
INVARIANTS OneThingAtATime KeysGoToWhatIsShown SessionsHitThePickedDisk
PROPERTIES FlashIsConfirmed RunningSessionsStay
CHECK_DEADLOCK FALSE
