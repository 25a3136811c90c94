CONSTANTS
  TcPerRegion = 2
  TcRegions = 2
  TcLines = 1
  TcLoads <- MCTcLoads
  ChLoads <- MCChLoads
  ChMaxRetry = 1
  ChMaxRows = 2
  SnKeys = {1, 2}
  SnLoads <- MCSnLoads
  SnSnaps = {"s"}
  SnCursors = {"c"}
  SnQueries <- MCSnQueries
  SnGcAt = 2
  SnMaxRows = 4
  SnMaxOps = 5
  MtKeys = {1, 2}
  MtVals = {1, 2}
  MtBases = {"2pl", "unsafe"}
  MtLoads <- MCMtLoads
  MtAddrs <- MCMtAddrs
  MtQueries <- MCMtQueries
  MtMaxRows = 4
  MtMaxOps = 5
  ShSchema <- MCShSchema
  ShLoads <- MCShLoads
  ShLastNames = 2
  DpReps <- MCDpReps
  DpMaxDead = 1
  DpLayouts <- MCDpLayouts
SPECIFICATION Spec
CHECK_DEADLOCK FALSE
INVARIANTS TcTouchedInOrder TcPiecesRight ChRight SnReads MtTransactions ShPopulated DpReaches
