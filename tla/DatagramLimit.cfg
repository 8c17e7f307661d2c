\* A payload set to more than a datagram holds, for SRIs of both modes.
SPECIFICATION ContextSpec
CONSTANTS
  Text <- MCText
  NoStream = ""
  SRIs <- MCSRIs
  Configurations <- MCConfigurations
  Encapsulations <- MCEncapsulations
  DataSettings <- MCDataSettings
  Register <- MCRegister
  Mistyped <- MCMistyped
  SampleSize = 4
  ProtocolHeader = 8
  HostOrder = "little"
  MaxPushes = 1
  MaxEdits = 1
INVARIANT WithinDatagram
CHECK_DEADLOCK FALSE
