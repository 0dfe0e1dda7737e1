\* The scheduler thread, one other thread, two actions, waits of up to two ticks.
SPECIFICATION FairSpec
CONSTANTS
  Thread = {sched, other}
  Sched = sched
  Kind = {"ping"}
  Priority = {0, 1}
  WaitCap = 2
  MaxActions = 2
  MaxTime = 3
INVARIANTS
  TypeOK
  Bookkeeping
  RevokedNeverRuns
  NoLostWakeup
PROPERTIES
  KeepsAgenda
  EnqueuedRuns
  StopEnds
\* Once the scheduler has left its loop and nobody calls it, nothing happens any more.
CHECK_DEADLOCK FALSE
