SPECIFICATION FairSpec
CONSTANTS
  SessionIds = {1, 2}
  Bodies <- NoBody
  StreamIdMod = 3
  MessageIdMod = 4
  QueueCapacity = 2
  SessionTrackerCapacity = 1
  StreamTrackerCapacity = 1
  ExpireAfterMs = 1
  Empty = Empty
  Arrivals <- Packets
  LastArrival = 2
  LastTime = 3
INVARIANTS
  TypeOK
  CountMatchesQueue
  QueueKeysUnique
  ClaimsHaveFragmentsLeft
  QueuedAreTracked
PROPERTIES
  DeliversInOrder
  ClaimHeldToTheEnd
  SlotsEmptyAgain
