\* Streams, SRIs and keyword lists that can be confused, under property changes.
SPECIFICATION LiveContextSpec
CONSTANTS
  Text <- MCText
  NoStream = ""
  SRIs <- MCSRIs
  Configurations <- MCConfigurations
  Encapsulations <- MCEncapsulations
  DataSettings <- MCDataSettings
  Register <- MCRegister
  Mistyped <- MCMistyped
  SampleSize = 4
  ProtocolHeader = 8
  HostOrder = "little"
  MaxPushes = 3
  MaxEdits = 1
INVARIANTS
  TypeOK ContextTypeOK
  DataDescribed SRIDescribed KeywordsAnnounced ClippedAsNeeded
PROPERTY DescriptionSettles
CHECK_DEADLOCK FALSE
