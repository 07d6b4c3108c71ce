CONSTANTS
  AnswerTime = 20
  MaxTries = 4
  MaxFaults = 3
  MaxSends = 3
  MaxCommands = 3
SPECIFICATION FairSpec
INVARIANT Inv
INVARIANT SessionsAgree
INVARIANT NoSeqReuse
PROPERTY ComesBack
CHECK_DEADLOCK FALSE
