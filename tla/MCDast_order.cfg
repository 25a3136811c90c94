CONSTANTS
  NRegions = 1
  NShards = 1
  NReplicas = 3
  Txns = {"t1", "t2"}
  PieceIds = {1, 2}
  Vars = {}
  Types = {"w"}
  Piece <- IrtPiece
  Conflicts <- WriteConflicts
  WaitTypes = {}
  Handlers <- IrtHandlers
  PhysTimes = {1, 2}
  InitOffsets = {0}
  EstimatedRtt = 2
  MaxPending = 5
  MaxSync <- IrtSync
  Warm = TRUE
  Stalled = {}
SPECIFICATION Spec
CHECK_DEADLOCK FALSE
INVARIANT ReplicasAgree
