CONSTANTS
  x = x
  Plain = {x}
  END = END
  ESC = ESC
  ESC_END = ESC_END
  ESC_ESC = ESC_ESC
  BufSize = 3
  MaxLosses = 3
  Messages <- MCMessages

SPECIFICATION Spec

PROPERTY
  CompletePackets
