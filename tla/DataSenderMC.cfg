CONSTANTS
  PubMax = 2
  MonMax = 1
  OwnMax = 1
  PoolMax = 2
  NativeMax = 2
  Cut <- MCCut
  AgeMax = 2
  Basics <- MCBasics
  Telemetry <- MCTelemetry
  Posted <- MCPosted
  Foreign <- MCForeign
  NativeLists <- MCNativeLists
  PingInterval = 1
  MinInterval = 1
  ForceInterval = 2
  MonInterval = 1
  OwnTTL = 1
  FrameMax = 3
SPECIFICATION SenderFairSpec
INVARIANT SenderInv
PROPERTY OldestMakesRoom
PROPERTY FramesGoOut
