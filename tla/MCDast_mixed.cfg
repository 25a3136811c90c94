CONSTANTS
  NRegions = 2
  NShards = 1
  NReplicas = 2
  Txns = {"t1", "t2"}
  PieceIds = {1, 2, 3}
  Vars = {}
  Types = {"w"}
  Piece <- MixedPiece
  Conflicts <- WriteConflicts
  WaitTypes = {}
  Handlers <- MixedHandlers
  PhysTimes = {2}
  InitOffsets = {0}
  EstimatedRtt = 2
  MaxPending = 5
  MaxSync <- NoSync
  Warm = TRUE
  Stalled = {}
SPECIFICATION Spec
CHECK_DEADLOCK FALSE
INVARIANTS TypeOK NoVerifyFails
