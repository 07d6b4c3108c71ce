CONSTANTS
  JobQDepth = 2
  ResQDepth = 1
  MaxScripts = 2
  MaxTokens = 2
  DataLists <- MCDataLists
  UserLists <- MCUserLists
  HiLoad <- MCHiLoad
  LoLoad <- MCLoLoad
SPECIFICATION FairSpec
INVARIANT Inv
INVARIANT ResumesOwnProgram
PROPERTY NeverStuck
CHECK_DEADLOCK FALSE
