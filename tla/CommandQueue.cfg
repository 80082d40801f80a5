CONSTANTS
  command_size = 3
  MaxPackets = 8

SPECIFICATION FairSpec

INVARIANTS
  QueueInv
  DrawsNext
  NoLeak

PROPERTIES
  AllShown

CHECK_DEADLOCK FALSE
