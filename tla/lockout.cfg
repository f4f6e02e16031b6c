SPECIFICATION FairSpec
CONSTANTS
  FailThreshold = 3
  FailWindow = 3
  LockoutTime = 3
  Cooldown = 1
  QueueDepth = 2
  MaxTime = 6
  MaxBoots = 2
  MaxSeen = 1
INVARIANT MatchOnlyWhenOpen
INVARIANT LockoutDurable
INVARIANT FailureBudget
INVARIANT ClearsArePaired
PROPERTY LockoutSurvivesReset
PROPERTY AlarmDoesNotLatch
