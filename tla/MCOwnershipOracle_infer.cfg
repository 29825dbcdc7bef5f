SPECIFICATION Spec
CONSTANTS
  a = a
  b = b
  c = c
  Fns = {a, b}
  Bodies <- MCBodies
  MaxEdits = 2
INVARIANTS FixpointReached NeverWeaker CleanBuildExact
PROPERTIES ContractsAscend
CHECK_DEADLOCK FALSE
