SPECIFICATION MCSpec
CONSTANTS
  Calls = {c1, c2, c3}
  NoCall = NoCall
  MaxSockets = 2
INVARIANTS SessionSound LauncherSound
PROPERTY NothingHangs
CHECK_DEADLOCK FALSE
