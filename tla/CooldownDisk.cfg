SPECIFICATION CooldownSpec
CONSTANTS
  Models = {m1}
  NoModel = NoModel
  Callers = {c1, c2}
  Operations = {"result", "reset", "refuse", "config", "restore"}
  Failures = {"quota", "cloudflare"}
  RetryAfters = {0, 2}
  MaxTime = 2
  MaxCrashes = 1
  MaxCalls = 2
  BackoffBase = 1
  BackoffMax = 2
  CloudflareMin = 1
  Transient = 1
  Denied = 2
  Missing = 2
INVARIANTS SavedIsCurrent BlockHasDeadline CoolingOffUnblocks
SYMMETRY CallersAreAlike
CHECK_DEADLOCK FALSE
