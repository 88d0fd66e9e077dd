SPECIFICATION Spec
CHECK_DEADLOCK FALSE
CONSTANTS
  LittleEndian = TRUE
  Messages <- MCMessages
  ClientFrames <- MCNone
  MaxFrames = 0
INVARIANT LengthsArrive
