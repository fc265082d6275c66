SPECIFICATION StoreSpec
CONSTANTS
  JobIds = {1, 2, 3}
  Keys = {"k1", "k2", "k3"}
  Payloads = {"p1", "p2"}
  Deliveries <- MCDeliveries
  Legacy = {}
  MaxPending = 2
  MaxTerminal = 2
  MaxTime = 1
  MaxInserts = 1
  MaxRecoveries = 1
INVARIANTS
  StoreTypeOK
  KeysUnique
  ClaimsAccounted
  PayloadKeptWhilePending
  PendingBounded
  TerminalBounded
  OutboxMatchesJobs
PROPERTIES
  EvictsOldestFirst
  ImplementsLifecycle
CHECK_DEADLOCK FALSE
