SPECIFICATION ConfiguredSpec
CONSTANTS
  Files <- MCFiles
  Users = {"ann", "bob"}
  Addresses = {"lo"}
  PortMod = 4
  Descriptors = {4, 5, 6}
  NoLoad = NoLoad
  MaxLoads = 3
  Documents <- MCDocuments
  Slips <- MCSlips
  ServerName = "main"
  Width = 3
  IpTexts <- MCIpTexts
  Numerals <- MCNumerals
  Most <- MCMost
  ListMost <- MCListMost
  MasterPath <- MCMasterPath
  DefaultPort = 1
  Builtins = {"reload_config"}
  StaticObjects = {"hello"}
  DynamicObjects <- MCDynamic
  PublicKeys <- MCPublic
  HmacKeys <- MCHmac
  PrivateKeys <- MCPrivate
  BytesOf <- MCBytes
INVARIANTS
  MuxFollowsServer
