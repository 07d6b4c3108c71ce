CONSTANTS
  None = None
  Overrides = {ovr}
  Versions = {1, 2}
  FirstFw = 1
  Targets = {na, nb}
  SubMax = 2
  MsgIds = {ma}
  Wild = Wild
  Senders = {na}
  MaxSlots = 2
  InboxSize = 2
  Tids = {ta, tb}
  NoTid = NoTid
  TickMax = 1
  MaxChunks = 1
  MaxOps = 3
  MaxCrashes = 2
SPECIFICATION FairSpec
INVARIANT Inv
INVARIANT RestartChangesNothing
INVARIANT OnlyCrashesMix
PROPERTY UpdateSettles
PROPERTY BuffersComeBack
CHECK_DEADLOCK FALSE
