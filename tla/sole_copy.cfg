\* Three nodes and one file; without a tolerance band the trace is the shortest.
SPECIFICATION Spec
CONSTANTS
  ann = ann
  bob = bob
  cid = cid
  short = short
  long = long
  NoFile = NoFile
  File = {short}
  Node = {ann, bob, cid}
  Prev <- MCPrev
  Size <- MCSize
  PeerStorage = 4
  TargetMin = 1
  TargetMax = 1
  Band = 0
  Author <- MCAuthor
  Quota <- MCQuota
  MinPeers = 1
  MaxEffort = 3
PROPERTIES
  SoleCopyKept
CHECK_DEADLOCK FALSE
