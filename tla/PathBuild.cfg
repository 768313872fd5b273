SPECIFICATION FairSpec
CONSTANTS
  Lifetime = 3
  BuildTimeout = 2
  LatencyInterval = 1
  AliveTimeout = 1
  MinInterval = 1
  MaxInterval = 2
  Hops = 3
  NumPaths = 1
  ExpiresSoon = 1
  MaxBuilds = 1
INVARIANTS HopsOutlivePath FailuresAreReal StatsAddUp
PROPERTY EverythingExpires
