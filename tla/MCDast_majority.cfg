CONSTANTS
  NRegions = 1
  NShards = 2
  NReplicas = 3
  Txns = {"t1"}
  PieceIds = {1, 2}
  Vars = {"v"}
  Types = {"w"}
  Piece <- ShardsPiece
  Conflicts <- WriteConflicts
  WaitTypes = {}
  Handlers <- ShardsHandlers
  PhysTimes = {2}
  InitOffsets = {0}
  EstimatedRtt = 2
  MaxPending = 5
  MaxSync <- NoSync
  Warm = TRUE
  Stalled = {5}
SPECIFICATION Spec
CHECK_DEADLOCK FALSE
INVARIANT RepliedIsReplicated
