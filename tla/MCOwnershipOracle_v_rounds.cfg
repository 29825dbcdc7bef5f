SPECIFICATION FairSpec
CONSTANTS
  a = a
  b = b
  c = c
  Fns = {a, b}
  Bodies <- MCBodies
  MaxEdits = 2
PROPERTIES RoundsTerminate
CHECK_DEADLOCK FALSE
