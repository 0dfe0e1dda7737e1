\* Two callers and two hosts of a file of two chunks.
SPECIFICATION NodeSpec
CONSTANTS
  h = h
  k = k
  sched = sched
  web = web
  Host = {h, k}
  Caller = {sched, web}
  Sched = sched
  N = 2
  MaxCalls = 2
  MaxTrouble = 2
INVARIANTS
  TypeOK
  
  
  
PROPERTY CallEnds
CHECK_DEADLOCK FALSE
