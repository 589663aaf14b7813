SPECIFICATION FairSpec
CONSTANTS
  Null = Null
  Starter = starter
  Pollers = {p1, p2}
  Heartbeats = {h1}
  MaxTokens = 6
  MaxFaults = 1
  MaxRevoked = 1
  MaxStarts = 2
  MaxCrashes = 1
INVARIANTS RegistersOncePerLoss StaysStopped
PROPERTIES Connects
CHECK_DEADLOCK FALSE
