SPECIFICATION Spec
CONSTANTS
  Peers = {p1, p2}
  Nobody = Nobody
  QueueDepth = 1
  MaxTurns = 1
  Faults = {}
CHECK_DEADLOCK FALSE
INVARIANT ClaimedAsAWhole
