\* One table: scans, requests of the job and of users, one crash or shutdown.
SPECIFICATION Spec
CONSTANTS
  c1 = c1
  x1 = x1
  NoOne = NoOne
  Executor <- MCCompactor
  OpOf <- MCCompactorOp
  Timely = TRUE
  LongLoops = FALSE
  PromptRelease = TRUE
  SignalLimit = 1
  MaxSnapshots = 2
  MaxRequests = 2
  MaxExits = 1
INVARIANT TypeOK
PROPERTY InventoryNewest
PROPERTY RequestKept
INVARIANT StreamProtected
CONSTRAINT FewEvents
