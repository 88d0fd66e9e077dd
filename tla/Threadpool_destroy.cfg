SPECIFICATION Spec
CONSTANTS
  NumThreads = 1
  Task = {t1}
  NoTask = NoTask
  Caller = {c1}
  EarlyDestroy = TRUE
INVARIANT NoUseAfterDestroy
