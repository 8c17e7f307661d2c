\* Two pushes in a row that are shorter than a packet.
CONSTANTS
  DefaultPayload = 3
  Payloads = {}
  Headroom = 1
  PushSizes = {1}
  Modes = {0}
  MaxElements = 3
  MaxPushes = 3
  MaxEdits = 0
SPECIFICATION Spec
INVARIANTS
  ReceivedIsPushed
CHECK_DEADLOCK FALSE
