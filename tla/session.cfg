SPECIFICATION FairSpec
CONSTANTS
  Conns = {c1, c2}
  Users = {1, 2}
  Names = {n1, n2}
  Keys = {k1}
  None = None
  MaxTurns = 3
  Faults = {"lock", "write", "lost"}
INVARIANT AuthorityEarned
INVARIANT AccountsSound
PROPERTY AnswerTrue
PROPERTY RegistrationResolves
CHECK_DEADLOCK FALSE
