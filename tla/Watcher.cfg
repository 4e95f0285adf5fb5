\* One auth file, one session, one API key that the configuration starts with, two
\* reloads that may overlap, two changes, the first of which may be a login.
SPECIFICATION WatcherFairSpec
CONSTANTS
  Files = {f1}
  Contents = {c1, c2}
  Sessions = {s1}
  Keys = {k1}
  FirstKeys = {k1}
  None = none
  Reloaders = {r1, r2}
  QueueCap = 2
  MaxChanges = 2
  MaxLogins = 1
CHECK_DEADLOCK FALSE
INVARIANTS HotReloadConverges 
PROPERTIES FeedIsLatestWins
