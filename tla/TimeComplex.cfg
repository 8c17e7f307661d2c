\* Complex samples left over by one push and sent with the next.
CONSTANTS
  DefaultPayload = 4
  Payloads = {}
  Headroom = 1
  PushSizes = {2, 4}
  Modes = {0, 1}
  MaxElements = 8
  MaxPushes = 3
  MaxEdits = 0
  Second = 4
  FractionScale = 100
  UIntRange = 64
  Start = 3
  Deltas = {1}
  Gaps = {}
  MaxGaps = 0
  MaxTold = 0
SPECIFICATION TimeSpec
INVARIANT FirstSampleTime
CHECK_DEADLOCK FALSE
