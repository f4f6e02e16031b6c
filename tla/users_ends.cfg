SPECIFICATION FairSpec
CONSTANTS
  Users = {u1, u2}
  MaxRetries = 1
  QueueDepth = 1
  Faults = {"write", "read", "reply", "lock"}
  MaxMishaps = 2
  MaxBoots = 2
  MaxChanges = 2
  None = None
PROPERTY EnrolmentEnds
CHECK_DEADLOCK FALSE
