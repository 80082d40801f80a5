SPECIFICATION Spec
CONSTANTS
  Width = 2
  Colors = {"black"}
  Black = "black"
  TextColors = {"black", "white", "grey"}
  White = "white"
  Grey = "grey"
INVARIANTS TypeOK ShownUnlessDirty ClearedIsClean OverlayRemoved TextColored
