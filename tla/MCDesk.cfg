SPECIFICATION MCSpec
CONSTANTS
  Schedules = {"daily", "once"}
  OneShots = {"once"}
  Monitors = {"feed"}
  MaxOcc = 3
  Agents = {a}
  None = None
  MaxCards = 2
  RecentMax = 2
  MaxEvents = 3
  Names <- const_Names
  Templates = {"swing"}
  Default = "day"
  MaxAgents = 2
  MaxForms = 2
  MaxQueued = 2
  Writers = {w1, w2}
  MaxHolds = 4
  MaxEdits = 2
  MaxSends = 2
  MaxHosts = 1
  Newest = 4
  Builds = {2, 3, 4}
  Tables = {"agents", "wakes"}
  Since <- const_Since
  Columns <- const_Columns
  MaxWrites = 2
  MaxBoots = 4
  MaxRestores = 1
INVARIANTS HostFollowsRows ScreensTellTheDesk RosterSound HeldForTheRun TelemetrySound SchemaSound
PROPERTY FiresExactlyOnce
CHECK_DEADLOCK FALSE
