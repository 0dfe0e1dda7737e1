\* Two nodes and one trouble: an outage of one or both, a crash or a stop, a
\* user's connect, a loss, a send that raises.
SPECIFICATION Spec
CONSTANTS
  a = a
  b = b
  c = c
  d = d
  Node = {a, b}
  Newest = a
  Gone = {a, b}
  MaxAge = 3
  MaxTrouble = 1
INVARIANTS
  TypeOK
  
  

  
CHECK_DEADLOCK FALSE
