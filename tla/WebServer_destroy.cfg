SPECIFICATION Spec
CONSTANTS
  NumThreads = 1
  Client = {k1}
  NoClient = NoClient
  Caller = {c1}
  NoThread = NoThread
  Silent = {}
  Deaf = {}
  StopInHandler = FALSE
INVARIANT NoUseAfterDestroy
