SPECIFICATION Spec
CONSTANTS
  p1 = p1
  p2 = p2
  p3 = p3
  w1 = w1
  w2 = w2
  Main = Main
  NoPartition = NoPartition
  Workers <- TwoWorkers
  Threshold = 6
  Sizes = {0, 2, 4}
  Partitions <- ThreePartitions
  Endless = {}
  Panics <- ThreePartitions
  Spurious = TRUE
SYMMETRY Symmetry
INVARIANTS
  TypeOK
  NothingLeftRunning
PROPERTIES
  ImplementsVerdict
  CancelIsFinal
