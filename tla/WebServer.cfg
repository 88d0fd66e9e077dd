SPECIFICATION MCSpec
CHECK_DEADLOCK FALSE
CONSTANTS
  NumThreads = 2
  Client = {k1, k2, k3}
  NoClient = NoClient
  Caller = {c1, c2}
  NoThread = NoThread
  Silent = {k2, k3}
  Deaf = {k1}
  StopInHandler = TRUE
  Second = c2
  Late = k3
INVARIANT IInv
INVARIANT OneHolder
INVARIANT DroppedOnlyInShutdown
INVARIANT JoinersExclude
INVARIANT StopIsComplete
PROPERTY StopReturns
PROPERTY AcceptorExits
PROPERTY SubmittedAreServed
