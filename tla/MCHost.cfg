SPECIFICATION MCSpec
CONSTANTS
  s1 = s1
  s2 = s2
  Starters <- const_Starters
  Version <- const_Version
  MAX_SPAWN_FAILURES = 1
  MaxHosts = 3
  MaxMishaps = 1
  Orders = {"e", "p"}
  Linked = {"e"}
  Lists = 2
  ListOf <- const_ListOf
  MaxDays = 1
  MaxRefreshes = 1
  MaxEnds = 1
  MaxFailures = 2
  MAX_RESUME_FAILS = 2
  MaxQueue = 2
  MaxRuns = 3
INVARIANTS OneSpawner Singleton BooksComplete NotifiedOnce RecoverySound
CHECK_DEADLOCK FALSE
