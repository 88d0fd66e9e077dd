SPECIFICATION Spec
CHECK_DEADLOCK FALSE
CONSTANTS
  App = {"olivec", "paint"}
  Conn = {k1, k2}
  NoConn = NoConn
  Fd = {3, 4}
  Cap = 2
  MaxSends = 3
SYMMETRY Symmetry
INVARIANT IInv
INVARIANT OnlyOvertakenDangle
INVARIANT CanvasesAgree
PROPERTY NothingAfterACut
