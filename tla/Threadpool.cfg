SPECIFICATION FairSpec
CONSTANTS
  NumThreads = 2
  Task = {t1, t2, t3}
  NoTask = NoTask
  Caller = {c1, c2}
  EarlyDestroy = TRUE
INVARIANT StartsInOrder
INVARIANT NoPopFromEmpty
INVARIANT ExitsOnlyWhenDrained
INVARIANT NoTaskWaitsForSleeper
INVARIANT ShutdownWakesAll
INVARIANT IInv
PROPERTY JoinersReturn
PROPERTY ImplementsTaskPool
