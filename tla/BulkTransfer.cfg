CONSTANTS
  WaitForDevice = {TRUE, FALSE}
  Audio = TRUE
  WaitPackets = 2
  Faults = {"sdl", "interface", "thread", "events"}
  MaxUnplugs = 2

SPECIFICATION BulkFairSpec

INVARIANTS
  BulkTypeOK
  NothingElseBlocks
  LoopReady
  StartedOnce
  WriteIsServed

PROPERTIES
  IsLifecycle
  WriteReturns
  QuitEnds
  PollsFind
  CrashesAtExit

CHECK_DEADLOCK FALSE
