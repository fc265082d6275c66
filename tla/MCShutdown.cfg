SPECIFICATION Spec
CONSTANTS
  Modern = modern
  Legacy = legacy
  Servers <- BothServers
  Speaks <- Versions
  ControlCapacity = 1
  ParkCapacity = 1
  MaxCommands = 2
  MaxDisturbances = 2
PROPERTIES
  ShutdownFinishes
CHECK_DEADLOCK FALSE
