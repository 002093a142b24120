SPECIFICATION Spec
CONSTANTS
  MaxValue = 1
  MaxOps = 3
  NoPower = NoPower
  NoOutput = NoOutput
  Rejected <- NoPower
  State <- LossyState
  Input <- RegInput
  Output <- LossyOutput
  InitState <- LossyInit
  Step <- LossyStep
  Nd <- LossyNdRegister
  NdState <- RegState
  Histories <- MCHistories
INVARIANTS
  TypeOK
  StackIsExecution
  NoReturnJumped
  AcceptedIsLinearization
  RefusedIsNotLinearizable
  NdVerdict
PROPERTIES
  PrunedIsHopeless
