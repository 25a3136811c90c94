CONSTANTS
  NRegions = 2
  NShards = 1
  NReplicas = 3
  Txns = {"t1"}
  PieceIds = {1, 2}
  Vars = {}
  Types = {"w"}
  Piece <- CrtPiece
  Conflicts <- WriteConflicts
  WaitTypes = {}
  Handlers <- CrtHandlers
  PhysTimes = {2}
  InitOffsets = {0}
  EstimatedRtt = 2
  MaxPending = 5
  MaxSync <- NoSync
  Warm = TRUE
  Stalled = {2}
SPECIFICATION Spec
CHECK_DEADLOCK FALSE
INVARIANT AllReplicasExecute
