SPECIFICATION FairSpec
CONSTANTS
  SessionIds = {1, 2, 3, 4, 5}
  Bodies <- MCBodies
  StreamIdMod = 4
  MessageIdMod = 8
  QueueCapacity = 1
  SessionTrackerCapacity = 1
  StreamTrackerCapacity = 2
  ExpireAfterMs = 2
  Empty = Empty
  Wires = {"raw", "single", "tuple"}
  RawWire = "raw"
  Ips = {"a", "b"}
  SessionCapacity = 1
  SessionTimeoutMs = 2
  NoSession = NoSession
  Datagrams <- SingleTraffic
  Secure = TRUE
  RingCapacity = 2
  SocketCapacity = 2
  MaxArrivals = 2
  LastTime = 4
PROPERTIES
  SessionIsCleanedUp
