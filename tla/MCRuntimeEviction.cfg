SPECIFICATION Spec
CONSTANTS
  JobIds = {1, 2}
  Keys = {"k1", "k2"}
  Payloads = {"p0", "p1", "p2"}
  Deliveries <- MCConflicts
  Legacy = {}
  MaxPending = 2
  MaxTerminal = 1
  MaxTime = 1
  MaxInserts = 4
  MaxRecoveries = 4
  Tasks = {t1, t2}
  ReplayBatch = 1
  Unreadable = {"p0"}
  Budget <- BudgetEvict
SYMMETRY TaskSymmetry
INVARIANTS
  ReceiptNamesStoredJob
  ReportsAreCommitted
