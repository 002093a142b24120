SPECIFICATION Spec
CONSTANTS
  MaxValue = 1
  MaxOps = 2
  State <- RegState
  Input <- RegInput
  Output <- RegOutput
  InitState <- RegInit
  Rejected <- NoState
  Step <- RegStep
  Histories <- MCHistories
PROPERTIES
  MinimalCallFrontier
