CONSTANTS
  NRegions = 1
  NShards = 2
  NReplicas = 3
  Txns = {"t1", "t2"}
  PieceIds = {1, 2, 3}
  Vars = {"v"}
  Types = {"w", "r"}
  Piece <- LimitPiece
  Conflicts <- WriteConflicts
  WaitTypes = {}
  Handlers <- LimitHandlers
  PhysTimes = {2}
  InitOffsets = {0}
  EstimatedRtt = 2
  MaxPending = 0
  MaxSync <- NoSync
  Warm = TRUE
  Stalled = {2, 5}
SPECIFICATION FairSpec
CHECK_DEADLOCK FALSE
PROPERTIES EveryTxnAnswered
