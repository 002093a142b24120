SPECIFICATION Spec
CONSTANTS
  NoPower = NoPower
  NdState = {s1, s2}
  Labels = {l1, l2}
  NdModels <- MCNdModels
  MaxSteps = 3
INVARIANTS
  PowerIsReachable
  NoDuplicates
  AdaptersAgree
CHECK_DEADLOCK FALSE
