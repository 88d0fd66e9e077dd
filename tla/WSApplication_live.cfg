SPECIFICATION FairSpec
CONSTANTS
  Fd = {3, 4}
  Conn = {k1, k2}
  NoConn = NoConn
  Worker = {w1}
  MaxEvents = 1
  MaxFrames = 1
  Frame = {"message", "bad"}
PROPERTY FramesAreRead
PROPERTY EndsAreNoticed
PROPERTY StopEndsLoop
