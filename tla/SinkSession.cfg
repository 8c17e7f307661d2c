\* Two streams, changes between UDP and TCP, sockets and removeStream() that may
\* fail, periodic context packets, and receivers that come and go in between.
CONSTANTS
  Streams = {s1, s2}
  NoStream = NoStream
  Echo = {}
  MaxVersion = 1
  UdpSettings = {udpA}
  TcpSettings = {tcpA}
  MulticastSettings = {}
  DefaultSettings = default
  Threads = {t1, t2}
  NoThread = NoThread
  Sizes = {1}
  PeriodicContext = TRUE
  ForceAllowed = FALSE
  OpenMayFail = TRUE
  RemoveStreamMayFail = TRUE
  PayloadMayBeSmall = FALSE
  MaxEdits = 2
  MaxInputs = 2
  MaxStarts = 1
  MaxPackets = 2
SPECIFICATION Spec
SYMMETRY Symmetry
INVARIANTS
  TypeOK
  ThreadsOwned
  FrontFindsPacket
  SingleOwner
  UnsizedOnlyIfResumed
PROPERTIES
  SessionSpec
CHECK_DEADLOCK FALSE
