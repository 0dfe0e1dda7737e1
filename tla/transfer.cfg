\* A host, a caller, a file of two chunks.
SPECIFICATION Spec
CONSTANTS
  h = h
  sched = sched
  Host = {h}
  Caller = {sched}
  Sched = sched
  N = 2
  MaxRetries = 2
  MaxCalls = 1
  MaxTrouble = 0
  MaxFaults = 1
INVARIANTS
  HostsTypeOK
  UploadAlive

  
  
CHECK_DEADLOCK FALSE
