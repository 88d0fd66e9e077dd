SPECIFICATION MCSpec
CONSTANTS
  Fd = {3, 4}
  Conn = {k1, k2, k3}
  NoConn = NoConn
  Worker = {w1, w2}
  MaxEvents = 2
  MaxFrames = 1
  Frame = {"message"}
SYMMETRY Symmetry
INVARIANT IInv
INVARIANT EntriesOwnTheirFd
INVARIANT NoStaleEvent
INVARIANT ClosedOnce
INVARIANT HandshakeReachesItsClient
INVARIANT OpenComesFirst
