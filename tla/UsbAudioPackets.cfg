CONSTANTS
  NumTransfers = 2
  NumPackets = 2
  PacketSizes = {1, 3}
  ObtainedSize = 2
  MaxErrors = 1

SPECIFICATION Spec

INVARIANT
  PacketsOutliveTransfers

CHECK_DEADLOCK FALSE
