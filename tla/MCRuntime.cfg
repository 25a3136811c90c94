CONSTANTS
  RpKind <- MCRpKind
  RpTimed = {3}
  RpConns = {1, 2}
  RpLoads <- MCRpLoads
  MinSize = 3
  SizeBytes = 2
  Base = 4
  MaSignature <- MCMaSignature
  MaLoads <- MCMaLoads
  SiWidths = {32, 64}
  ThThreads = 2
  ThJobs = {1, 2, 3, 4}
  ThChild <- MCThChild
  EpParOf <- MCEpParOf
  EpMaxRounds = 3
  LcLoads <- MCLcLoads
  LcMaxRequests = 2
  LcWrap = 8
SPECIFICATION Spec
CHECK_DEADLOCK FALSE
INVARIANTS RpInStep Decodable EpSkew LcMeasures
PROPERTIES OncePerCause MaIsAQueue WaitersReleased StopsEnd
