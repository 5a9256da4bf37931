\* A scoped rebuild of one of two tables, three claims.
SPECIFICATION Spec
CONSTANTS
  Tables = 2
  Filtered = {2}
  Keys = {"a", "b", "c", "d"}
  Source <- Rows
  Before <- Found
  ChunkSize = 1
  StatementRows = 1
  MaxRuns = 3
  MaxOps = 10
  Changing <- Updated
  MaxEdits = 1
  MaxEpochs = 2
  MaxRetries = 1
INVARIANTS
  CompletionExact
  NothingActsUnseen
  ScopeEmptied
CHECK_DEADLOCK FALSE
PROPERTY RowsForward
