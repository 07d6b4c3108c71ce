CONSTANTS
  JobQDepth = 1
  ResQDepth = 1
  Slots = {0, 1}
  Ids = {7, 8}
  Cfgs <- MCCfgs
  CountCap = 2
  MaxBurst = 1
  HiLoad <- MCHiLoad
  LoLoad <- NoLoad
SPECIFICATION FairSpec
INVARIANT Inv
PROPERTY VerdictsAreEarned
PROPERTY ProbingGoesOn
CHECK_DEADLOCK FALSE
