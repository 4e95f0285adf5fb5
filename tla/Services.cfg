\* The relay with one request whose answer has two chunks, the queue with two
\* records and two subscriptions, the request path with two calls, affinity with three
\* identifiers and two picks at a time.
SPECIFICATION ServicesSpec
CONSTANTS
  Requests = {q1}
  ChannelCap = 2
  Chunks = 2
  Records = {u1, u2}
  Subscribers = {w1, w2}
  FeedCap = 2
  PopCount = 2
  MaxSwitches = 2
  Nobody = nobody
  Calls = {p1, p2}
  Creds = {a1, a2}
  ClaudeOAuth = {a1}
  PoolSizes = {0, 2}
  MaxRetryCredentials = 1
  MaxRounds = 2
  Limits = {1, 2}
  MaxLimitChanges = 1
  NoPermit = none
  Keys = {k1, k2, k3}
  PromptKeys = {k2, k3}
  Bound = {k1, k2, k3}
  Accounts = {b1, b2}
  Pickers = {g1, g2}
  MaxStable = 1
  Ttl = 1
  MaxClock = 1
  MaxPicks = 2
  NoKey = nokey
CHECK_DEADLOCK FALSE
SYMMETRY Interchangeable
INVARIANTS
  NoCallerIsStranded TruncationIsReported RecordIsInOnePlace FeedsAreClosedOnce PermitsBalance AttemptIsRecordedOnce
  GroupsAreWhole RemovedHasNoSessions
