SPECIFICATION FairSpec
CONSTANTS
  MaxValue = 1
  MaxOps = 3
  W = 2
  NONE = NONE
  State <- RegState
  Input <- RegInput
  Output <- RegOutput
  InitState <- RegInit
  Rejected <- NoState
  Step <- RegStep
  Histories <- MCHistories
INVARIANTS
  TypeOK
  ListIsLive
  CachedOnceInItsBucket
PROPERTIES
  ImplementsSearch
  Termination
  KeepsContract
