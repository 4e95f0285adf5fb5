\* Scopes end and dispatches resolve while sinks are replaced and snapshots taken,
\* and two requests compete for one slot at Home while the supervisor stops.
SPECIFICATION MCSpec
CONSTANTS
  MaxDispatch = 2
  Groups = {g1}
  Sinks = {s1, s2}
  Drainers = {x1}
  Closers = {}
  Waiters = {}
  MaxBarrier = 2
  MaxFreeze = 2
  Limit = 1
  MaxSequence = 2
  Senders = {f1}
  MaxRuns = 2
  Flushers = {c1}
SYMMETRY Symmetric
INVARIANTS
  TypeOK
  ReleasedResourceIsClosed
  ReleaseSequenceCounts
  NoReleaseIsLost
  BarrierSnapshotIsComplete
  HomeLimitIsRespected
  NoSlotFreedTwice
  StopSettlesHome
CHECK_DEADLOCK FALSE
