SPECIFICATION Spec
CONSTANTS
  Modern = modern
  Legacy = legacy
  Servers <- BothServers
  Speaks <- Versions
  ControlCapacity = 3
  ParkCapacity = 1
  MaxCommands = 2
  MaxDisturbances = 1
INVARIANTS
  FramesGoToPairedServer
  ConnectionUsable
  NoHotLoop
  StaleSessionIsTold
CHECK_DEADLOCK FALSE
