SPECIFICATION CooldownSpec
CONSTANTS
  Models = {m1}
  NoModel = NoModel
  Callers = {c1}
  Operations = {"result", "config"}
  Failures = {"unsupported"}
  RetryAfters = {0}
  MaxTime = 2
  MaxCrashes = 0
  MaxCalls = 3
  BackoffBase = 1
  BackoffMax = 2
  CloudflareMin = 1
  Transient = 1
  Denied = 2
  Missing = 2
INVARIANTS CoolingOffUnblocks
CHECK_DEADLOCK FALSE
