SPECIFICATION ComposedSpec
CONSTANTS
  good = good
  panics = panics
  rejected = rejected
  NoPath = NoPath
  Paths = {good, panics, rejected}
  Worlds <- MCWorlds
  MaxInFlight = 2
  Workers = {w1, w2}
  Succeeding = {good}
  Panicking = {panics}
  NoWorker = NoWorker
PROPERTIES
  ImplementsScan
  ImplementsJobService
CHECK_DEADLOCK FALSE
