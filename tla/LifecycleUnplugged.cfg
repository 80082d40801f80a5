CONSTANTS
  WaitForDevice = {TRUE}
  Audio = TRUE
  WaitPackets = 2
  Faults = {}
  MaxUnplugs = 1

SPECIFICATION FairSpec

PROPERTY
  DisconnectDetected

CHECK_DEADLOCK FALSE
