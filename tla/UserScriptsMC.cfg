CONSTANTS
  Ids = {i1, i2, i3}
  Bodies = {b1, b2}
  MaxScripts = 2
  NoValue = NoValue
  Closed = Closed
  Torn = Torn
  Absent = Absent
  FlashFull = FALSE
  LowHeap = FALSE
SPECIFICATION Spec
INVARIANT Inv
INVARIANT NoneLost
PROPERTY ImplementsStore
