SPECIFICATION Spec
CONSTANTS
  p1 = p1
  p2 = p2
  MaxWakes = 2
  Pushes = {p1, p2}
  NoPush = NoPush
  Harnesses = {"claude", "codex"}
  MaxTurns = 1
  MaxResumeFails = 2
  RunMayThrow = TRUE
INVARIANT ChildAliveIffHeadless
CHECK_DEADLOCK FALSE
