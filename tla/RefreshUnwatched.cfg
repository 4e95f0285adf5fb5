SPECIFICATION RefreshSpec
CONSTANTS
  Auths = {a1}
  Workers = {w1}
  Callers = {c1}
  Operations = {"result"}
  Logins <- MCLogins
  JobBuffer = 1
  PendingBackoff = 1
  FailureBackoff = 1
  IneffectiveBackoff = 1
  CheckInterval = 1
  MaxTime = 2
  MaxToken = 2
  MaxCalls = 2
  MaxCopies = 1
SYMMETRY Alike
INVARIANTS
  EveryAuthIsWatched
CHECK_DEADLOCK FALSE
