SPECIFICATION Spec
CONSTANTS
  Requests = {r1, r2}
  Users = {u1, u2}
  Asked = {"CHANGE_PERMISSION", "DELETE_USER"}
  Erasable = {}
  QueueDepth = 2
  None = None
SYMMETRY Sym
INVARIANT LastAdminKept
CHECK_DEADLOCK FALSE
