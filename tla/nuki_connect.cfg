SPECIFICATION FairSpec
CONSTANTS
  Tasks = {"app", "zigbee", "match"}
  MaxAttempts = 2
  MaxSessions = 1
  Faults = {}
  MaxMishaps = 0
  OnDemand = TRUE
  MaxRetries = 1
  MaxAsks = 1
  None = None
PROPERTY ConnectRetried
CHECK_DEADLOCK FALSE
