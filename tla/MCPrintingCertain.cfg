SPECIFICATION Spec
CONSTANTS
  Printers <- RawTcpPrinter
  Documents <- MCDocuments
  Platforms = {"unix"}
  MaxHistory = 2
  MaxHistoryBytes = 9000000
  MaxJobs = 1
  MaxCommands = 0
INVARIANT
  FailureIsCertain
CHECK_DEADLOCK FALSE
