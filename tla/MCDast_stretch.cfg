CONSTANTS
  NRegions = 2
  NShards = 2
  NReplicas = 2
  Txns = {"t1"}
  PieceIds = {1, 2}
  Vars = {"v"}
  Types = {"w", "i"}
  Piece <- InputPiece
  Conflicts <- WriteConflicts
  WaitTypes = {"i"}
  Handlers <- CrtHandlers
  PhysTimes = {2, 9}
  InitOffsets = {0}
  EstimatedRtt = 2
  MaxPending = 5
  MaxSync <- StretchSync
  Warm = TRUE
  Stalled = {1, 3, 5, 6, 7}
SPECIFICATION Spec
CHECK_DEADLOCK FALSE
INVARIANTS FloorsReleased
PROPERTIES ClockStaysBelowFloors
