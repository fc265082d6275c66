SPECIFICATION Spec
CONSTANTS
  Printers <- MCPrinters
  Documents <- MCDocuments
  Platforms <- MCPlatforms
  MaxHistory = 2
  MaxHistoryBytes = 9000000
  MaxJobs = 2
  MaxCommands = 1
INVARIANTS
  RoutesAgree
  HonestOutcome
  DriverReleased
  PagesAsAsked
  HistoryAccounted
PROPERTIES
  SubmissionEnds
CHECK_DEADLOCK FALSE
