SPECIFICATION Spec
CONSTANTS
  JobIds = {1, 2}
  Keys = {"k1", "k2"}
  Payloads = {"p0", "p1", "p2"}
  Deliveries <- MCDeliveries
  Legacy = {}
  MaxPending = 2
  MaxTerminal = 2
  MaxTime = 0
  MaxInserts = 4
  MaxRecoveries = 4
  Tasks = {t1, t2}
  ReplayBatch = 2
  Unreadable = {"p0"}
  Budget <- BudgetFaults
CONSTRAINT AtMostTwoDisturbances
SYMMETRY TaskSymmetry
INVARIANTS
  TypeOK
  ActiveMatchesClaims
  NoStatusLost
  CopiesExplained
  FailureIsHonest
