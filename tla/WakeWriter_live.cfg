SPECIFICATION LiveSpec
CONSTANTS
  p1 = p1
  p2 = p2
  MaxWakes = 2
  Pushes = {p1, p2}
  NoPush = NoPush
  Harnesses = {"claude", "codex"}
  MaxTurns = 1
  MaxResumeFails = 2
  RunMayThrow = FALSE
PROPERTIES HeadlessRunsEnd QueueMoves
