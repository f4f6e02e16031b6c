SPECIFICATION FairSpec
CONSTANTS
  Peers = {p1, p2}
  Nobody = Nobody
  QueueDepth = 1
  MaxTurns = 3
  Faults = {"lost", "lock", "storage"}
CHECK_DEADLOCK FALSE
INVARIANT ClaimWhole
INVARIANT RebootKeepsTrust
INVARIANT AdvertisesAsMeant
INVARIANT IdleCovered
INVARIANT LapsedClean
PROPERTY OpennessEnds
