CONSTANTS
  SlRegions = 2
  SlShards = 1
  SlReps = 2
  SlFollowers = 1
  SlTxns = {"t1", "t2", "t3"}
  SlLoads <- MCSlLoads
  SlConflicts <- MCSlConflicts
  SlHome <- MCSlHome
  SlMaxPending = 5
  SlFresh = {0}
  SlGarbage = {0, 1}
  OvSites = {0, 1}
  OvDcs = {"d0", "d1"}
  OvDcOf <- MCOvDcOf
  OvLayouts <- MCOvLayouts
  OvTxns = {1, 2}
  OvPieceOf <- MCOvPieceOf
  OvNear <- MCOvNear
  OvNow = {1}
  OvFresh = {0}
  OvFlags = {FALSE}
  TpLocks = {1, 2, 3}
  TpPieceOf <- MCTpPieceOf
  TpBatchOf <- MCTpBatchOf
  TpPriority <- MCTpPriority
  TpKinds = {"wait-die", "wound-wait"}
  CmPieceOf <- MCCmPieceOf
  CmLoads <- MCCmLoads
  TaPieceOf <- MCTaPieceOf
  TaReps <- MCTaReps
  TaNear <- MCTaNear
  TaLoads <- MCTaLoads
  MpLoads <- MCMpLoads
  JaPieceOf <- MCJaPieceOf
  JaLoads <- MCJaLoads
SPECIFICATION Spec
CHECK_DEADLOCK FALSE
INVARIANT TpReadersKeep
