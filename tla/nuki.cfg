SPECIFICATION Spec
CONSTANTS
  Tasks = {"app", "zigbee", "match"}
  MaxAttempts = 1
  MaxSessions = 2
  Faults = {"scan", "connect", "gatt", "write"}
  MaxMishaps = 1
  OnDemand = TRUE
  MaxRetries = 1
  MaxAsks = 2
  None = None
INVARIANT FrameBudget
INVARIANT NothingUnasked
INVARIANT LinkDriven
INVARIANT CommandsServed
INVARIANT LatchServed
PROPERTY ActionOnItsConnection
CHECK_DEADLOCK FALSE
