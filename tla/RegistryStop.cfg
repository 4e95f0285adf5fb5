\* Requests end while a Drain, a WaitPending and two Close calls are under way.
SPECIFICATION FairSpec
CONSTANTS
  MaxDispatch = 2
  Groups = {}
  Sinks = {}
  Drainers = {dr1}
  Closers = {cl1, cl2}
  Waiters = {w1}
  MaxBarrier = 0
  MaxFreeze = 0
INVARIANTS
  DrainedRegistryIsEmpty
  CloseLeavesNoOpenResource
PROPERTIES
  DrainReturns
  WaitPendingReturns
  CloseReturns
