CONSTANTS
  Byte = {b0, b1}
  First = b0
  Second = b1
  MaxSize = 3
  MaxPacket = 3
  MaxPop = 4
  Packets <- MCPackets
  PopLengths <- MCPopLengths

SPECIFICATION FairSpec

INVARIANTS
  RingInv
  TestStaysGood

PROPERTIES
  IsFifo
  CallsReturn
