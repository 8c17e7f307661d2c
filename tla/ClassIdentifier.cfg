\* The class identifier of context packets, for SRIs of both modes.
SPECIFICATION ContextSpec
CONSTANTS
  Text <- MCText
  NoStream = ""
  SRIs <- MCSRIs
  Configurations <- MCConfigurations
  Encapsulations <- MCEncapsulations
  DataSettings <- MCDataSettings
  Register <- MCRegister
  Mistyped <- MCMistyped
  SampleSize = 4
  ProtocolHeader = 8
  HostOrder = "little"
  MaxPushes = 3
  MaxEdits = 0
INVARIANT ClassFromPayloadFormat
CHECK_DEADLOCK FALSE
