\* Two nodes, a file and its next version, a network that loses and repeats.
SPECIFICATION Spec
CONSTANTS
  a = a
  b = b
  f = f
  g = g
  NoFile = none
  Node = {a, b}
  File = {f, g}
  Prev <- UpdatedBy
  Author <- OneAuthor
  Lossy = TRUE
  MaxTime = 3
  Instants = {100, 102}
  MaxCount = 3
  MaxNet = 1
  MaxMoves = 2
INVARIANTS
  TypeOK
  RegistriesCoherent
  SignaturesVerify
PROPERTIES
  KnownIsDurable
  LearnsByMessage
CHECK_DEADLOCK FALSE
