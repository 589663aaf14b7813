SPECIFICATION HeaderSpec
CONSTANTS
  Null = Null
  Starter = starter
  Pollers = {p1}
  Heartbeats = {h1}
  MaxTokens = 6
  MaxFaults = 1
  MaxRevoked = 1
  MaxStarts = 2
  MaxCrashes = 1
PROPERTIES RequestsEnd
CHECK_DEADLOCK FALSE
