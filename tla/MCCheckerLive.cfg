SPECIFICATION FairSpec
CONSTANTS
  p1 = p1
  p2 = p2
  p3 = p3
  w1 = w1
  w2 = w2
  Main = Main
  NoPartition = NoPartition
  Workers <- TwoWorkers
  Threshold = 6
  Sizes = {2, 4}
  Partitions <- TwoPartitions
  Endless <- LastPartition
  Panics <- TwoPartitions
  Spurious = FALSE
INVARIANTS
  TimesOutAfterDuration
PROPERTIES
  TimeoutBounds
  KillEnds
  PanicSurfaces
