SPECIFICATION FairSpec
CONSTANTS
  Calls = {c1, c2}
  Frames = 3
  Disconnects = 1
  Sends = 1
  MaxBeats = 1
  MaxWaiting = 0
INVARIANTS
  RegistryMatchesSession
  NothingFollowsGoodbye
PROPERTIES
  EndsForGood
  DisconnectIsReported
CHECK_DEADLOCK FALSE
