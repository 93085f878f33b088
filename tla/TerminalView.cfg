CONSTANTS
  Agents = {a, b}
  None = None
  RingCap = 2
  MaxBuffered = 2
  MaxAttempts = 1
  MaxClicks = 2
  MaxDrops = 1
  MaxSessions = 3
  MaxOutput = 4
SPECIFICATION Spec
INVARIANTS ViewIsFaithful PaneHonest
CHECK_DEADLOCK FALSE
