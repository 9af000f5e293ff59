SPECIFICATION FairSpec
CONSTANTS
  Ip = {a, b, c}
  Cid = {c1, c2, c3}
  MaxConnections = 2
  MaxConnectionsPerIp = 1
  MaxConnectionsPerMinute = 2
  TrackerFactor = 1
  Minute = 3
PROPERTIES
  ThrottleEnds
INVARIANTS
  PermitsCounted
  TasksLimited
  BurstBounded
