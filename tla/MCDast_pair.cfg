CONSTANTS
  NRegions = 2
  NShards = 1
  NReplicas = 2
  Txns = {"t1", "t2"}
  PieceIds = {1, 2, 3, 4}
  Vars = {}
  Types = {"w"}
  Piece <- PairPiece
  Conflicts <- WriteConflicts
  WaitTypes = {}
  Handlers <- PairHandlers
  PhysTimes = {2}
  InitOffsets = {0}
  EstimatedRtt = 2
  MaxPending = 5
  MaxSync <- NoSync
  Warm = TRUE
  Stalled = {1, 3}
SPECIFICATION Spec
CHECK_DEADLOCK FALSE
INVARIANTS NoVerifyFails TimestampsUnique
