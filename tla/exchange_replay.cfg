SPECIFICATION Spec
CONSTANTS
  PayloadMax <- RoomOfCodecs
  UserPayloadMax = 5
  EgressCapacity = 3
  NoKey = NoKey
  Daemon = Daemon
  Configs <- AllConfigs
  JobCapacity = 2
  MaxPackets = 2
  Clients <- AllClients
  Options <- SomeOptions
  MaxStarts = 2
  Width = 3
  IpTexts <- MCIpTexts
  Numerals <- MCNumerals
  Most <- MCMost
  ListMost <- MCListMost
  MasterPath <- MCMasterPath
  DefaultPort = 1
  Builtins = {"reload_config"}
  StaticObjects = {}
  DynamicObjects = {}
  PublicKeys <- MCPublic
  HmacKeys <- MCHmac
  PrivateKeys <- MCPrivate
  BytesOf <- MCBytes
CHECK_DEADLOCK FALSE
INVARIANTS
  PacketsRunOnce
