CONSTANTS
  JobQDepth = 2
  ResQDepth = 1
  Ids = {c1}
  None = None
  HiLoad <- MCHiLoad
  LoLoad = {}
  MaxPunch = 2
  MaxSessions = 1
SPECIFICATION OdFairSpec
INVARIANT OdInv
PROPERTY SlotFreed
PROPERTY PunchesReported
CHECK_DEADLOCK FALSE
