CONSTANTS
  Key = {"a"}
  Hands = {{"a"}}
  Kind <- MCKind
  Buttons <- MCButtons
  Note <- MCNote
  NoNote = NoNote
  Closable = TRUE
  StaleEvent = FALSE
  LostWrites = FALSE
  MaxQueue = 2

SPECIFICATION Spec

PROPERTY
  QuitObeyed

CHECK_DEADLOCK FALSE
