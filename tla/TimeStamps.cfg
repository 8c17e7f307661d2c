\* Pushes shorter and longer than a packet in both modes, a payload size raised
\* above what spareBuffer holds or made smaller, and xdelta changing in between.
CONSTANTS
  DefaultPayload = 3
  Payloads = {2, 5}
  Headroom = 1
  PushSizes = {0, 2, 4}
  Modes = {0, 1}
  MaxElements = 6
  MaxPushes = 3
  MaxEdits = 1
  Second = 4
  FractionScale = 100
  UIntRange = 64
  Start = 3
  Deltas = {1, 6}
  Gaps = {2}
  MaxGaps = 1
  MaxTold = 1
SPECIFICATION TimeSpec
INVARIANTS
  TypeOK
  DataInOrder
  NothingLost
  PayloadRespected
  TimeTypeOK
  TimesKept
  DescribedInTime
  ToldFromOwnStream
CHECK_DEADLOCK FALSE
