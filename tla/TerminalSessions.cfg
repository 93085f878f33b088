SPECIFICATION LiveSpec
CONSTANTS
  Harnesses = {"claude", "codex"}
  MaxPtys = 3
INVARIANTS WriterKnowsSessions SessionsJustified
PROPERTIES AutonomyResumes
CHECK_DEADLOCK FALSE
