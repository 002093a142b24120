SPECIFICATION Spec
CONSTANTS
  KvNone = KvNone
  NoValue = NoValue
  NoPartition = NoPartition
  State <- KvState
  Input <- KvInput
  Output <- KvOutput
  InitState <- KvInit
  Rejected <- KvNone
  Step <- KvStep
  Keys = {k1, k2}
  MaxValue = 1
  MaxTime = 2
  KvOps = 3
  OpHistories <- MCOpHistories
  EventHistories <- MCEventHistories
  partition <- MCPartition
  partition_events <- MCPartitionEvents
INVARIANTS
  TypeOK
  ListsWellFormed
  RealTimeKept
  EverythingSearchedOnce
  AssertionsExact
  VerdictIsOfHistory
