\* stop() while the transmitter waits for a TCP client.
CONSTANTS
  Streams = {s1}
  NoStream = NoStream
  Echo = {}
  MaxVersion = 1
  UdpSettings = {}
  TcpSettings = {tcpA}
  MulticastSettings = {}
  DefaultSettings = default
  Threads = {t1, t2}
  NoThread = NoThread
  Sizes = {1}
  PeriodicContext = FALSE
  ForceAllowed = FALSE
  OpenMayFail = FALSE
  RemoveStreamMayFail = FALSE
  PayloadMayBeSmall = FALSE
  MaxEdits = 1
  MaxInputs = 0
  MaxStarts = 1
  MaxPackets = 0
SPECIFICATION LiveSpec
PROPERTIES
  StopReturns
CHECK_DEADLOCK FALSE
