SPECIFICATION FairSpec
CONSTANTS
  MaxSets = 2
  Numbers = {0, 1}
  QueueCap = 2
  WatcherCap = 1
INVARIANTS OpenSetKeepsNumber OnlyReuseSteals
PROPERTIES AccessesWakeHerd ClosedSetsFreed
