SPECIFICATION FairSpec
CONSTANTS
  info = info
  init = init
  odd = odd
  INFO = INFO
  CMD = CMD
  UNKNOWN = UNKNOWN
  Unknown = UNKNOWN
  InfoId = INFO
  Packets <- MCPackets
  Ids <- MCIds
  Id <- MCId
  Known <- MCKnown
  Chars <- MCChars
  Bytes <- MCBytes
  HeaderLen = 2
  MaxLen = 2
  Inits <- MCInits
  AwaitsInit = TRUE
  MaxPackets = 3
INVARIANTS
  TypeOK
  InSync
  SignalHasPacket
PROPERTIES
  ImplementsChannel
CHECK_DEADLOCK FALSE
