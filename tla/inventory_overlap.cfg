\* A coordinator loop that lasts longer than an inventory lease.
SPECIFICATION Spec
CONSTANTS
  c1 = c1
  x1 = x1
  NoOne = NoOne
  Executor <- MCCompactor
  OpOf <- MCCompactorOp
  Timely = TRUE
  LongLoops = TRUE
  PromptRelease = TRUE
  SignalLimit = 1
  MaxSnapshots = 1
  MaxRequests = 0
  MaxExits = 0
INVARIANT NoOverlap
