SPECIFICATION FairSpec
CONSTANTS
  Requests = {r1, r2}
  Users = {u1, u2}
  Asked = {"CHANGE_PERMISSION"}
  Erasable = {u1}
  QueueDepth = 1
  None = None
PROPERTY GateFrees
PROPERTY PermissionAnswered
CHECK_DEADLOCK FALSE
