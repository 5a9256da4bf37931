\* One executor of each pool, leases that expire under the work, one crash or shutdown.
SPECIFICATION Spec
CONSTANTS
  c1 = c1
  x1 = x1
  NoOne = NoOne
  Executor <- MCExecutor
  OpOf <- MCOpOf
  Timely = FALSE
  LongLoops = FALSE
  PromptRelease = TRUE
  SignalLimit = 1
  MaxSnapshots = 1
  MaxRequests = 0
  MaxExits = 1
INVARIANT NoOverlap
