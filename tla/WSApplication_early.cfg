SPECIFICATION Spec
CONSTANTS
  Fd = {3}
  Conn = {k1, k2}
  NoConn = NoConn
  Worker = {w1}
  MaxEvents = 1
  MaxFrames = 1
  Frame = {}
INVARIANT ClosedAfterOpened
