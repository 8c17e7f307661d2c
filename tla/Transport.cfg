\* Changes between two UDP addresses, TCP and multicast at any point of a pass,
\* sockets that cannot be opened, force_transmit, and a restart.
CONSTANTS
  Streams = {s1}
  NoStream = NoStream
  Echo = {}
  MaxVersion = 1
  UdpSettings = {udpA, udpB}
  TcpSettings = {tcpA}
  MulticastSettings = {multiA}
  DefaultSettings = default
  Threads = {t1, t2}
  NoThread = NoThread
  Sizes = {1}
  PeriodicContext = TRUE
  ForceAllowed = TRUE
  OpenMayFail = TRUE
  RemoveStreamMayFail = FALSE
  PayloadMayBeSmall = TRUE
  MaxEdits = 2
  MaxInputs = 1
  MaxStarts = 2
  MaxPackets = 1
SPECIFICATION TransportSpec
SYMMETRY Symmetry
INVARIANTS
  StaleSettingsFlagged
  QuietAfterStop
  SocketsTypeOK
  FlagsTellSockets
  SentWhereConfigured
  ToldWhereSent
PROPERTIES
  LostOnlyOnStop
CHECK_DEADLOCK FALSE
