SPECIFICATION MCSpec
CONSTANTS
  l1 = l1
  l2 = l2
  other = other
  t1 = t1
  t2 = t2
  Tab <- MCTab
  Free = Free
  NoTab = NoTab
  Load <- MCLoad
  Request <- MCRequest
INVARIANTS
  TypeOK
  OnlyUsersHoldTheConnection
  SuccessMeansListed
  OnlyDisturbedFlowsAreInvalid
  OneCallPerSignUp
PROPERTIES
  DrainEnds
  CallbackEnds
CHECK_DEADLOCK FALSE
