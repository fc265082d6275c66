SPECIFICATION Spec
CONSTANTS
  QueueCount = 2
  Uris = {"u1", "u2"}
  Installed <- SharedOrAbsent
  Fresh = {"new"}
  Features = {"queue", "network", "virtual"}
  Scans = {s1}
  Capacity = 1
  MaxCommands = 2
  MaxChanges = 2
INVARIANTS
  InventoryAccepted
CHECK_DEADLOCK FALSE
