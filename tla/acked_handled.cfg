\* Two payloads to one peer, overtaking each other.
SPECIFICATION Spec
CONSTANTS
  HalfSeq = 4
  Window = 1
  Peer = {p}
  Thread = {main}
  Sched = main
  Recv = main
  Body = {m1, m2, hello}
  ReliableBody = {m1, m2}
  ControlBody = {hello}
  MaxRetries = 2
  MaxSeq = 2
  MaxRestarts = 0
  m1 = m1
  m2 = m2
INVARIANT AckedWasHandled
CHECK_DEADLOCK FALSE
