SPECIFICATION Spec
CONSTANTS
  Users = {u1, u2}
  MaxRetries = 1
  QueueDepth = 2
  Faults = {"write", "read", "reply", "lock"}
  MaxMishaps = 2
  MaxBoots = 2
  MaxChanges = 3
  None = None
SYMMETRY Sym
INVARIANT AppliesToItsOwn
INVARIANT SensorAgrees
INVARIANT StaleButSafe
INVARIANT EnrolmentDriven
PROPERTY StoreRefined
CHECK_DEADLOCK FALSE
