SPECIFICATION MCSpec
CONSTANTS
  Schedules = {"once"}
  OneShots = {"once"}
  Monitors = {"feed"}
  MaxOcc = 1
  Agents = {a}
  None = None
  MaxCards = 1
  RecentMax = 1
  MaxEvents = 1
  Names <- const_Names
  Templates = {"day"}
  Default = "day"
  MaxAgents = 2
  MaxForms = 2
  MaxQueued = 2
  Writers = {w1}
  MaxHolds = 1
  MaxEdits = 1
  MaxSends = 1
  MaxHosts = 1
  Newest = 4
  Builds = {2, 3, 4}
  Tables = {"agents", "wakes"}
  Since <- const_Since
  Columns <- const_Columns
  MaxWrites = 2
  MaxBoots = 4
  MaxRestores = 1
INVARIANT DeletedHasNoPty
CHECK_DEADLOCK FALSE
