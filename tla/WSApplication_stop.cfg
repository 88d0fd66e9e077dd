SPECIFICATION FairSpec
CONSTANTS
  Fd = {3}
  Conn = {k1}
  NoConn = NoConn
  Worker = {w1}
  MaxEvents = 1
  MaxFrames = 1
  Frame = {"message", "bad"}
PROPERTY StopEndsRun
