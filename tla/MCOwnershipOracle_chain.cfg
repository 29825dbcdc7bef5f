SPECIFICATION FairSpec
CONSTANTS
  a = a
  b = b
  c = c
  Fns = {a, b, c}
  Bodies <- ChainBodies
  MaxEdits = 1
INVARIANTS ExactWithoutRecursion
PROPERTIES CleanBuildOneRound EndsWithoutRecursion
CHECK_DEADLOCK FALSE
