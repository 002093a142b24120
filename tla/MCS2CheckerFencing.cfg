SPECIFICATION Spec
CONSTANTS
  A = A
  B = B
  c1 = c1
  c2 = c2
  None = None
  Idle = Idle
  Torn = Torn
  NotExited = NotExited
  Panicked = Panicked
  NoPower = NoPower
  NoValue = NoValue
  U32 = 16
  Tokens <- TwoTokens
  Clients <- TwoClients
  Requests <- MCRequests
  Replies <- MCReplies
  MaxOps = 3
  Disciplined = FALSE
SYMMETRY Symmetry
INVARIANTS
  AcceptedIsPossible
