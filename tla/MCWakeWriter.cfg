SPECIFICATION Spec
CONSTANTS
  p1 = p1
  p2 = p2
  MaxWakes = 3
  Pushes = {p1, p2}
  NoPush = NoPush
  Harnesses = {"claude", "codex"}
  MaxTurns = 2
  MaxResumeFails = 2
  RunMayThrow = FALSE
INVARIANTS TypeOK QueueOrder RunsOwned QueueHasDriver
PROPERTIES DropsAccounted RunsJustified ImplementsLedger
SYMMETRY PushSymmetry
