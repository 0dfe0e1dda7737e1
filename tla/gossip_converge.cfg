\* A file published before its node is connected; no message is lost.
SPECIFICATION FairSpec
CONSTANTS
  a = a
  b = b
  f = f
  g = g
  NoFile = none
  Node = {a, b}
  File = {f}
  Prev <- Unrelated
  Author <- OneAuthor
  Lossy = FALSE
  MaxTime = 3
  Instants = {102}
  MaxCount = 2
  MaxNet = 2
  MaxMoves = 0
PROPERTY Converges
CHECK_DEADLOCK FALSE
