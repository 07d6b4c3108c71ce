CONSTANTS
  JobQDepth = 2
  ResQDepth = 1
  MaxJobs = 2
  MaxCycles = 2
  Assignments <- MCAssignments
  HiLoad <- MCHiLoad
  LoLoad <- MCLoLoad
SPECIFICATION FairSpec
INVARIANT Inv
INVARIANT OncePerCycle
PROPERTY CycleEnds
CHECK_DEADLOCK FALSE
