SPECIFICATION Spec
CONSTANTS
  Clients = {c1, c2}
  Chars <- Characters
  Names <- AllNames
  Spelled <- Spellings
  Number <- Numbers
  Decimal <- DecimalOf
  Value <- ValueOf
  Uint32Max = 99
  MaxId <- Limits
  Dashed <- DashedWords
  Equals <- EqualsWords
  Ips <- Addresses
  MaxPositionals = 8
  Given <- CommandLines
  Tokens <- TokenNames
  OldMaps <- Old
  MaxCommands = 3
CHECK_DEADLOCK FALSE
SYMMETRY Either
INVARIANTS
  TypeOK
  RunsWhatWasMeant
  IdsWereGiven
  SentAsAliased
PROPERTIES
  TakesEffectAlone
