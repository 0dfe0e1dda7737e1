\* An own file and two others that do not fit together, one web thread.
SPECIFICATION Spec
CONSTANTS
  mine = mine
  small = small
  large = large
  recv = recv
  sched = sched
  web = web
  NoThread = NoThread
  NoFile = NoFile
  File = {mine, small, large}
  Own = {mine}
  Size <- MCSize
  Recv = recv
  Sched = sched
  Web = {web}
  Quotas = {2, 3}
  MaxOps = 5
  MaxCrashes = 1
INVARIANTS
  TypeOK
  
  
  QuotaHeld
PROPERTIES
  KeepsLedger
CHECK_DEADLOCK FALSE
