SPECIFICATION Spec
CONSTANTS
  KvNone = KvNone
  NoValue = NoValue
  NoPartition = NoPartition
  State <- KvState
  Input <- KvInput
  Output <- KvOutput
  InitState <- KvInit
  Rejected <- KvNone
  Step <- KvStep
  Keys = {k1}
  MaxValue = 1
  MaxTime = 2
  KvOps = 0
  OpHistories = {}
  EventHistories <- AnyEventHistories
  partition <- AnyPartition
  partition_events <- ReversedPartition
INVARIANTS
  IndexSetsSuffice
