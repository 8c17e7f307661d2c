\* Liveness over UDP, where nobody but the threads has to act, for a stream that may
\* come back with the SRI that currSRI kept, with or without force_transmit. The
\* threads are one at a time.
CONSTANTS
  Streams = {s1}
  NoStream = NoStream
  Echo = {s1}
  MaxVersion = 2
  UdpSettings = {udpA, udpB}
  TcpSettings = {}
  MulticastSettings = {}
  DefaultSettings = default
  Threads = {t1}
  NoThread = NoThread
  Sizes = {1}
  PeriodicContext = TRUE
  ForceAllowed = TRUE
  OpenMayFail = FALSE
  RemoveStreamMayFail = FALSE
  PayloadMayBeSmall = FALSE
  MaxEdits = 2
  MaxInputs = 2
  MaxStarts = 1
  MaxPackets = 1
SPECIFICATION LiveSpec
INVARIANTS
  AttachedSRICurrent
  
PROPERTIES
  StopReturns
  UpdateHonoured
  QueueDrains
  EndOfStreamDetaches
CHECK_DEADLOCK FALSE
