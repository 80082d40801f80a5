CONSTANTS
  Key = {"a", "b", "n", "m", "ret", "esc", "x", "z", "u", "mul", "div", "min", "pls", "fmn"}
  Hands <- MCHands
  Kind <- MCKind
  Buttons <- MCButtons
  Note <- MCNote
  NoNote = NoNote
  Closable = TRUE
  StaleEvent = TRUE
  LostWrites = TRUE
  MaxQueue = 1

SPECIFICATION Spec

INVARIANTS
  TypeOK
  ButtonsAgree
  NoHangingNote

CHECK_DEADLOCK FALSE
