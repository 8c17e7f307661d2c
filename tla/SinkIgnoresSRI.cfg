\* A network change while a stream is active.
CONSTANTS
  Streams = {s1}
  NoStream = NoStream
  Echo = {}
  MaxVersion = 2
  UdpSettings = {udpA, udpB}
  TcpSettings = {}
  MulticastSettings = {}
  DefaultSettings = default
  Threads = {t1, t2}
  NoThread = NoThread
  Sizes = {1}
  PeriodicContext = FALSE
  ForceAllowed = FALSE
  OpenMayFail = FALSE
  RemoveStreamMayFail = FALSE
  PayloadMayBeSmall = FALSE
  MaxEdits = 2
  MaxInputs = 2
  MaxStarts = 1
  MaxPackets = 0
SPECIFICATION Spec
SYMMETRY Symmetry
INVARIANTS
  SRIChangesHandled
CHECK_DEADLOCK FALSE
