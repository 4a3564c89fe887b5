CONSTANTS
  Units = {"a", "b"}
  Buf = 2
  Worlds <- MCWorlds
  Commands <- MCVerified
  Tree <- MCTree
  Top = "/"
  MaxCommands = 1
  Layouts <- MCLayouts
  None = None
SPECIFICATION Spec
INVARIANT SoundFlashVerifies
CHECK_DEADLOCK FALSE
