\* One peer, the two threads that matter, two reliable payloads.
SPECIFICATION Spec
CONSTANTS
  HalfSeq = 4
  Window = 2
  Peer = {p}
  Thread = {sched, recv}
  Sched = sched
  Recv = recv
  Body = {m1, m2}
  ReliableBody = {m1, m2}
  ControlBody = {}
  MaxRetries = 2
  MaxSeq = 3
  MaxRestarts = 1
  m1 = m1
  m2 = m2
SYMMETRY Payloads
INVARIANTS
  TypeOK
  NoForgottenEntry
  TrackedWasSent
  HandledIsFiltered
\* A run ends when every payload was sent and nothing is left on the network.
CHECK_DEADLOCK FALSE
