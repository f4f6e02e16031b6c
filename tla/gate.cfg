SPECIFICATION Spec
CONSTANTS
  Requests = {r1, r2}
  Users = {u1, u2}
  Asked = {"CHANGE_PERMISSION", "DELETE_USER", "REMOTE_ENROLL", "RENAME_USER", "ENROLL_ADMIN"}
  Erasable = {u1, u2}
  QueueDepth = 1
  None = None
SYMMETRY Sym
INVARIANT GateResolved
INVARIANT TargetIsArmed
INVARIANT HoldEnds
PROPERTY PermissionReplyTrue
INVARIANT AdminRemains
CHECK_DEADLOCK FALSE
