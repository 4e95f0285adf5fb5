SPECIFICATION CooldownSpec
CONSTANTS
  Models = {m1}
  NoModel = NoModel
  Callers = {c1, c2}
  Operations = {"result", "reset", "refuse", "update", "patch", "remove", "delete", "pick"}
  Failures = {"quota"}
  RetryAfters = {0}
  MaxTime = 1
  MaxCrashes = 0
  MaxCalls = 2
  BackoffBase = 1
  BackoffMax = 2
  CloudflareMin = 1
  Transient = 1
  Denied = 2
  Missing = 2
INVARIANTS RemovedIsNotOffered
PROPERTIES RefusalIsTrue
SYMMETRY CallersAreAlike
VIEW RoutingView
CHECK_DEADLOCK FALSE
