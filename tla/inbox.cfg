SPECIFICATION FairSpec
CONSTANTS
  SessionIds = {1, 2, 3, 4, 5}
  Bodies <- MCBodies
  StreamIdMod = 4
  MessageIdMod = 8
  QueueCapacity = 2
  SessionTrackerCapacity = 3
  StreamTrackerCapacity = 2
  ExpireAfterMs = 2
  Empty = Empty
  Wires = {"raw", "single", "tuple"}
  RawWire = "raw"
  Ips = {"a", "b"}
  SessionCapacity = 2
  SessionTimeoutMs = 2
  NoSession = NoSession
  Datagrams <- AllTraffic
  Secure = TRUE
  RingCapacity = 2
  SocketCapacity = 2
  MaxArrivals = 3
  LastTime = 4
INVARIANTS
  TypeOK
  SessionsDistinct
  QueuedBelongToSession
  NewSessionsUntracked
  UsersAreQueued
PROPERTIES
  ArrivalsAreTaken
  HandoverInArrivalOrder
