CONSTANTS
  Tree <- MCTree
  Order <- MCOrder
  Root = "/"
  Home = "d"
  LevelRange <- MCLevelRange
  Volatile = {"pi", "usb"}
  Typed <- MCTyped
  MaxFilter = 2
  None = None
SPECIFICATION Spec
INVARIANTS TypeOK SavedNameTellsTheCodec PreviewIsHonest
 
