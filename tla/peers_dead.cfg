\* Three nodes are connected with d when it crashes; c was connected last.
SPECIFICATION OrderlySpec
CONSTANTS
  a = a
  b = b
  c = c
  d = d
  Node = {a, b, c, d}
  Newest = c
  Gone = {d}
  MaxAge = 3
  MaxTrouble = 1
PROPERTIES
  DeadIsDropped
CHECK_DEADLOCK FALSE
