SPECIFICATION MCSpec
CONSTANTS
  Auths = {1, 2, 3}
  p1 = p1
  p2 = p2
  m1 = m1
  m2 = m2
  NoModel = NoModel
  Caller = c0
  Route <- MCRoute
  WebsocketProviders = {p1}
  Models = {m1}
  Profiles <- MCProfiles
  Requests <- MCRequests
  MaxTime = 2
INVARIANTS
  PickIsBest
  FairShare
  SchedulerAgreesAlone
  LadderNeedsTimeAlone
CHECK_DEADLOCK FALSE
