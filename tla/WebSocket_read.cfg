SPECIFICATION Spec
CHECK_DEADLOCK FALSE
CONSTANTS
  LittleEndian = TRUE
  Messages <- MCMessages
  ClientFrames <- MCClientFrames
  MaxFrames = 3
INVARIANT IInv
INVARIANT DeliversMessages
INVARIANT SentIsReadBack
