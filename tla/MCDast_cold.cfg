CONSTANTS
  NRegions = 1
  NShards = 1
  NReplicas = 3
  Txns = {"t1"}
  PieceIds = {1}
  Vars = {}
  Types = {"w"}
  Piece <- ColdPiece
  Conflicts <- WriteConflicts
  WaitTypes = {}
  Handlers <- ColdHandlers
  PhysTimes = {2}
  InitOffsets = {0, 3}
  EstimatedRtt = 2
  MaxPending = 5
  MaxSync <- ColdSync
  Warm = FALSE
  Stalled = {}
SPECIFICATION ColdSpec
CHECK_DEADLOCK FALSE
PROPERTIES EveryTxnAnswered
