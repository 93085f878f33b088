CONSTANTS
    MAX_FAST_CRASHES = 1
    MaxChildren = 2
    MaxWakes = 1
    MaxUserTurns = 1
    MaxHosts = 1
SPECIFICATION Spec
INVARIANT ServersAccounted
PROPERTIES OutcomeSound WakesSettle
CHECK_DEADLOCK FALSE
