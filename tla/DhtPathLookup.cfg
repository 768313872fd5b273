SPECIFICATION Spec
CONSTANTS
  Routers = {1, 2, 3}
  Keys = {0, 1, 2, 3}
  Dist <- XorDist
  Transit = {1, 2, 3}
  Allowed = {0, 1, 2, 3}
  Asks <- MCAsks
  InitNodes <- MCInitNodes
  InitDbs <- MCInitDbs
  FirstId <- MCFirstId
  Churn <- MCChurn
  Explorers = {1}
  MaxExplores = 0
  EmptyRC = EmptyRC
  NoPath = NoPath
  RequestTimeout = 1
INVARIANT SingleRCIfFound
