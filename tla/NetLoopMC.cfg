CONSTANTS
  JobQDepth = 2
  ResQDepth = 1
  Job <- MCJob
  N = 2
  T <- MCJob
  Blank = blank
SPECIFICATION FairNetRingSpec
INVARIANT Inv
INVARIANT RingHoldsQueue
PROPERTY ImplementsFifo
PROPERTY HiMovesUpEveryTurn
PROPERTY OneAnswerPerJob
PROPERTY JobsAnswered
CHECK_DEADLOCK FALSE
