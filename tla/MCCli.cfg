CONSTANTS
  Units = {"a", "b"}
  Buf = 2
  Worlds <- MCWorlds
  Commands <- MCCommands
  Tree <- MCTree
  Top = "/"
  MaxCommands = 2
  Layouts <- MCLayouts
  None = None
SPECIFICATION Spec
INVARIANTS VerifiedFlashMatches VerdictIsRight BackupOkIsExact RestoredIsArchived SystemDiskIsHidden
CHECK_DEADLOCK FALSE
