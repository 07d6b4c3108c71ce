CONSTANTS
  PubMax = 10
  MonMax = 8
  OwnMax = 8
  PoolMax = 8
  NativeMax = 40
  Cut <- NoCut
  AgeMax = 61
  Basics <- ShippedBasics
  Telemetry <- ShippedTelemetry
  Posted = {}
  Foreign = {}
  NativeLists = {}
  PingInterval = 2
  MinInterval = 2
  ForceInterval = 6
  MonInterval = 6
  OwnTTL = 60
  FrameMax = 18
SPECIFICATION SenderFairSpec
PROPERTY TelemetryFits
