CONSTANTS
  JobQDepth = 2
  ResQDepth = 1
  NiQueueSize = 2
  MaxEvents = 4
  HiLoad <- MCHiLoad
  LoLoad <- MCLoLoad
SPECIFICATION NiFairSpec
INVARIANT NiInv
INVARIANT EventsAccountedFor
PROPERTY BatchComesBack
CHECK_DEADLOCK FALSE
